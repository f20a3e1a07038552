-------------------------- MODULE LambdaFunctions --------------------------
(***************************************************************************)
(* The Lambda functions behind the gateway and the browser's API.  Each    *)
(* has data of its own and answers one call at a time, so a behaviour of   *)
(* all of them is one of the behaviours of one of them.                    *)
(***************************************************************************)
EXTENDS Integers, FiniteSets, Sequences

CONSTANTS
    None,
    Account, CategoryOf, Affected, HealthDays, Limits, HealthWrites, \* HealthEvents
    Recommended, Unparsed, Unresolved, RegionOf, Foreign, Away, \* AlarmCoverage
    MaxSnapshots,
    Functions, TestNamed, Images, SdkMigrations, RuntimeDays,   \* UpgradeAnalysis
    Files, Oversized, Breaking, SupportHorizon, MaxCritical, MaxHigh, MaxNames,
    Resource, Key, SystemManaged, GlobalResource, HomeResource, \* TagGovernance
    OwnResource, OrgKeys, MaxSearch, MaxGiven, MaxChanges, MaxSweeps,
    Query, Item, Unfilterable, MaxOdd, ExpiryHorizon,           \* CommitmentPlan
    Circuits, Gateway, Associated, Hosted, Site, Home,          \* NetworkResilience
    MaxDown, MaxErrors, MaxBuilds,
    Thread, Duration, Margin, Timeout,                          \* AssumedSessions
    MaxReports, PageSize, BuiltIn, Own, Content                 \* CoreApi

ASSUME GatewayConstants ==
    /\ {HealthDays, HealthWrites, MaxSnapshots, RuntimeDays, SupportHorizon, MaxCritical, MaxHigh, MaxNames,
        MaxSearch, MaxGiven, MaxChanges, MaxSweeps, MaxOdd, ExpiryHorizon, MaxDown, MaxErrors, MaxBuilds,
        MaxReports, PageSize} \subseteq Nat
    /\ Limits \subseteq Nat
    /\ BuiltIn \cap Own = {} /\ None \notin Content \cup Nat

\* The categories of AWS Health; no account is called like a list.
ASSUME HealthConstants ==
    /\ IsFiniteSet(Account) /\ Account \cap {"critical", "recent", "window"} = {}
    /\ IsFiniteSet(DOMAIN CategoryOf)
    /\ \A e \in DOMAIN CategoryOf :
          CategoryOf[e] \in {"issue", "scheduledChange", "accountNotification", "investigation"}

\* Every resource is in a region; the alarms of AWS_REGION in this account are not
\* those of a resource of another account.
ASSUME CoverageConstants ==
    DOMAIN RegionOf = DOMAIN Recommended /\ Foreign \subseteq Away

\* Finitely many functions; the dates of a runtime.
ASSUME RuntimeConstants ==
    /\ IsFiniteSet(DOMAIN Functions) /\ DOMAIN Files = DOMAIN Functions
    /\ \A f \in DOMAIN Functions : {Functions[f].deprecated, Functions[f].eol} \subseteq Nat

\* Finitely many resources and keys; the organization's policy is about some of
\* these.
ASSUME TagConstants ==
    /\ IsFiniteSet(Resource) /\ IsFiniteSet(Key) /\ OrgKeys \subseteq Key
    /\ HomeResource \cup OwnResource \subseteq Resource

\* A circuit is on a device of its location; 0 tells those that are there from
\* those that are built.  The second location of a recommendation has a name of its
\* own, which no location has.
ASSUME NetworkConstants ==
    /\ Circuits \in Seq({Circuits[c] : c \in DOMAIN Circuits})
    /\ \A c \in DOMAIN Circuits :
          /\ Circuits[c].told \in BOOLEAN
          /\ Circuits[c].on = <<Circuits[c].at, 0, Circuits[c].on[3]>>
          /\ \A g \in Gateway : Site[g] # Circuits[c].at

VARIABLES
    tool,       \* which of them is called
    world,      \* what it reads: AWS and its tables
    answer      \* the last call and its result, or the call that goes on

Health == INSTANCE HealthEvents WITH LastDay <- HealthDays, MaxWrites <- HealthWrites
Coverage == INSTANCE AlarmCoverage
Upgrades == INSTANCE UpgradeAnalysis WITH LastDay <- RuntimeDays, Horizon <- SupportHorizon
Tags == INSTANCE TagGovernance
Commitments == INSTANCE CommitmentPlan WITH Horizon <- ExpiryHorizon
Network == INSTANCE NetworkResilience
Sessions == INSTANCE AssumedSessions WITH cache <- world, call <- answer
Api == INSTANCE CoreApi

\* The refresh margin covers the tools; the collectors, which run longer, also
\* ask for such clients, and it does not cover them.
ASSUME SessionConstants == Sessions!MarginFits

\* Finitely many permutations are asked for, each term and payment of a label
\* once; a label is of one pool and one option.  Cost Explorer recommends some
\* units; a purchase may lose money.
ASSUME CommitmentConstants ==
    /\ DOMAIN Query # {} /\ IsFiniteSet(DOMAIN Query)
    /\ \A q \in DOMAIN Query :
          LET line == Query[q].line IN
          /\ line.recommended \in Nat \ {0} /\ line.average \in Nat
          /\ line.floor \in Nat \cup {None} /\ Query[q].rank \in Nat
          /\ line.savings \in Int
    /\ \A p, q \in DOMAIN Query : Query[p].label = Query[q].label =>
          /\ Query[p].pool = Query[q].pool /\ Query[p].option = Query[q].option
          /\ Query[p].rank = Query[q].rank => p = q

vars == <<tool, world, answer>>

Init ==
    \/ tool = "health" /\ Health!Init
    \/ tool = "coverage" /\ Coverage!Init
    \/ tool = "upgrades" /\ Upgrades!Init
    \/ tool = "tags" /\ Tags!Init
    \/ tool = "commitments" /\ Commitments!Init
    \/ tool = "network" /\ Network!Init
    \/ tool = "sessions" /\ Sessions!Init
    \/ tool = "api" /\ Api!Init

Next ==
    /\ UNCHANGED tool
    /\ \/ tool = "health" /\ Health!Next
       \/ tool = "coverage" /\ Coverage!Next
       \/ tool = "upgrades" /\ Upgrades!Next
       \/ tool = "tags" /\ Tags!Next
       \/ tool = "commitments" /\ Commitments!Next
       \/ tool = "network" /\ Network!Next
       \/ tool = "sessions" /\ Sessions!Next
       \/ tool = "api" /\ Api!Next

Spec == Init /\ [][Next]_vars

-----------------------------------------------------------------------------
\* A list of health events that is shorter than its limit lacks no row that was
\* as it is all through the call, and none that was cut has dropped such a row
\* that is unresolved for a closed one.
HealthListsHold == tool = "health" => Health!ListsAreComplete

\* What the alarm coverage says of a resource was so when it was looked at, and
\* nothing that exists already is deployed again.
VerdictsHold == tool = "coverage" => Coverage!VerdictsHold

\* What the upgrade report demands, and what it says of a function's code and
\* use, follows from what was looked at.
UpgradesHold == tool = "upgrades" => Upgrades!UpgradesAreJustified

\* The totals of a tag report count what breaks the policy, whether it is
\* scanned for or comes from the snapshot.
TagAnswersHold == tool = "tags" => Tags!TagAnswersHold

\* The purchases that are recommended do not cover the same usage twice and
\* each pays back; more is called safe only when no query about what is held failed.
PlanHolds == tool = "commitments" => Commitments!PlanIsSound

\* A Direct Connect gateway that is assessed as highly resilient survives the
\* losses that means, and what is recommended leads there.
ResilienceHolds == tool = "network" => Network!ResilienceHolds

\* No tool is left with the expired credentials of another account.
SessionsHold == tool = "sessions" => Sessions!ClientsOutlive

\* The browser's lists of reports and templates are those of what is stored.
UserDataHolds == tool = "api" => Api!UserDataHolds
=============================================================================
