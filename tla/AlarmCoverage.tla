--------------------------- MODULE AlarmCoverage ---------------------------
(***************************************************************************)
(* Which recommended alarms an account lacks: the verdicts of the          *)
(* collected snapshot, those of the live fallback for named resources, and *)
(* the deployment that is prepared from them                               *)
(* (src/src/lambda/mcp/cloudwatch, src/src/lambda/mcp/shared/              *)
(* cloudwatch_domain).                                                     *)
(***************************************************************************)
EXTENDS Naturals, FiniteSets

CONSTANTS
    Recommended,    \* of every resource: the metrics to put an alarm on
    Unparsed,       \* ARNs without a metric profile
    Unresolved,     \* candidates that lack a dimension
    RegionOf,       \* of every resource: where its metrics are
    Foreign,        \* resources of another account
    Away,           \* resources whose alarms are not among those of AWS_REGION
    MaxSnapshots,
    None

VARIABLES
    world,      \* alarms where a resource is, alarms of AWS_REGION that match
                \* one that is away, and the current snapshot
    answer

Monitored == DOMAIN Recommended
CandidatesOf(r) == {r} \X Recommended[r]
Candidate == UNION {CandidatesOf(r) : r \in Monitored}

\* An alarm matches a candidate by its metric and the values of its dimensions.
Slot == Candidate \ Unresolved
Region == {RegionOf[r] : r \in Monitored}

Alarm == {"none", "as_recommended", "drifted"}
Covered == {"implemented", "implemented_with_drift"}
Verdict == Covered \cup {"missing", "unresolved_dimensions", "inventory_incomplete"}
Namesake == {c \in Slot : c[1] \in Away}

NoAnswer == [tool |-> "none"]

Init ==
    /\ world = [alarm |-> [c \in Slot |-> "none"], namesake |-> [c \in Namesake |-> "none"],
                snapshot |-> None]
    /\ answer = NoAnswer

-----------------------------------------------------------------------------
(* evaluate_resource *)

\* Mistake: what is not there is missing, whatever was looked at.
EvaluateBlindly(c, alarms, complete) ==
    CASE c \in Unresolved -> "unresolved_dimensions"
      [] c \notin Unresolved /\ alarms[c] = "as_recommended" -> "implemented"
      [] c \notin Unresolved /\ alarms[c] = "drifted" -> "implemented_with_drift"
      [] OTHER -> "missing"

Evaluate(c, alarms, complete) ==
    CASE c \in Unresolved -> "unresolved_dimensions"
      [] c \notin Unresolved /\ alarms[c] = "as_recommended" -> "implemented"
      [] c \notin Unresolved /\ alarms[c] = "drifted" -> "implemented_with_drift"
      [] OTHER -> IF complete THEN "missing" ELSE "inventory_incomplete"

Worst == <<"inventory_incomplete", "missing", "unresolved_dimensions",
           "implemented_with_drift", "implemented">>

\* _aggregate_status: the first of these that occurs.
Aggregate(verdicts) ==
    IF verdicts = {} THEN "implemented"
    ELSE Worst[CHOOSE i \in DOMAIN Worst :
            Worst[i] \in verdicts /\ \A j \in 1..(i - 1) : Worst[j] \notin verdicts]

ResourceVerdict(r, verdict) == Aggregate({verdict[c] : c \in CandidatesOf(r)})

-----------------------------------------------------------------------------
(* The account and its snapshots *)

ChangeAlarm(c, a) ==
    /\ world' = [world EXCEPT !.alarm[c] = a]
    /\ UNCHANGED answer

ChangeNamesake(c, a) ==
    /\ world' = [world EXCEPT !.namesake[c] = a]
    /\ UNCHANGED answer

Id == IF world.snapshot = None THEN 0 ELSE world.snapshot.id

\* A published run: every region is judged by its own alarms, and its inventory
\* is complete unless it was taken from the Tagging API.
TakeSnapshot(complete) ==
    /\ Id < MaxSnapshots
    /\ world' = [world EXCEPT !.snapshot =
            [id |-> Id + 1, state |-> "fresh", complete |-> complete, taken |-> world.alarm,
             verdict |-> [c \in Candidate |->
                            Evaluate(c, world.alarm, RegionOf[c[1]] \in complete)]]]
    /\ UNCHANGED answer

\* freshness, and the version of the catalogue.
Grow(state) ==
    /\ world.snapshot # None
    /\ world' = [world EXCEPT !.snapshot.state = state]
    /\ UNCHANGED answer

\* _snapshot_context
Servable == world.snapshot # None /\ world.snapshot.state \in {"fresh", "stale"}

-----------------------------------------------------------------------------
(* The tools *)

\* The rows of the snapshot for what is named, in one account: those that the
\* inventory had, that the filters leave and that are on the page.
AnalyseStored(rows) ==
    /\ Servable
    /\ answer' = [tool |-> "coverage", live |-> FALSE, alarms |-> world.snapshot.taken,
                  complete |-> world.snapshot.complete,
                  verdict |-> [r \in rows |-> IF r \in Unparsed THEN "unsupported_resource"
                                              ELSE ResourceVerdict(r, world.snapshot.verdict)]]
    /\ UNCHANGED world

\* _live_resource_coverage takes AWS_REGION for the region of every resource,
\* whatever its ARN says, and looks at the alarms there, in the one account.
SeenLive == [c \in Slot |-> IF c[1] \in Away THEN world.namesake[c] ELSE world.alarm[c]]

\* Without a snapshot that can be served, or under the id of another account, for
\* named resources.
AnalyseLive(named, mismatch) ==
    /\ Servable => mismatch
    /\ answer' = [tool |-> "coverage", live |-> TRUE, alarms |-> world.alarm, complete |-> Region,
                  verdict |-> [r \in named |-> IF r \in Unparsed THEN "unsupported_resource"
                        ELSE ResourceVerdict(r,
                                [c \in Candidate |-> Evaluate(c, SeenLive, TRUE)])]]
    /\ UNCHANGED world

Existing == {c \in Slot : world.alarm[c] # "none"}

\* _calibrate_candidates: an override or a fixed threshold, or enough history.
Blocked(deployable, known) == deployable \ known

\* prepare_alarm_deployment evaluates the candidates against live alarms.
Implemented(c) == Evaluate(c, world.alarm, TRUE) \in Covered

\* The ids a caller has are those of candidates a snapshot called missing.
Prepare(id, chosen, known) ==
    LET deployable == {c \in chosen : ~Implemented(c)} IN
    /\ answer' =
        IF ~Servable \/ world.snapshot.id # id THEN [tool |-> "refused"]
        ELSE [tool |-> "deployment", chosen |-> chosen,
              excluded |-> {c \in chosen : Implemented(c)},
              blocked |-> Blocked(deployable, known),
              deployed |-> deployable \ Blocked(deployable, known)]
    /\ UNCHANGED world

Ask ==
    \/ \E rows \in SUBSET ((Monitored \ Foreign) \cup Unparsed) : AnalyseStored(rows)
    \/ \E named \in SUBSET (Monitored \cup Unparsed), mismatch \in BOOLEAN :
          AnalyseLive(named, mismatch)
    \/ /\ world.snapshot # None
       /\ \E id \in {Id, Id - 1}, chosen, known \in
               SUBSET {c \in Candidate : /\ c[1] \notin Foreign
                                         /\ world.snapshot.verdict[c] = "missing"} :
            Prepare(id, chosen, known)

Next ==
    /\ answer = NoAnswer
    /\ \/ \E c \in Slot, a \in Alarm : ChangeAlarm(c, a)
       \/ \E c \in Namesake, a \in Alarm : ChangeNamesake(c, a)
       \/ \E complete \in SUBSET Region : TakeSnapshot(complete)
       \/ \E state \in {"stale", "expired", "catalogue_mismatch"} : Grow(state)
       \/ Ask

Spec == Init /\ [][Next]_<<world, answer>>

-----------------------------------------------------------------------------
\* No verdict speaks of alarms that were not looked at: a resource is said to
\* have its alarms only if it did, and to lack one only if it did and its region's
\* inventory was complete, when it was looked at (of the resources that are away,
\* which are judged by the alarms of others, only the snapshot's rows); and an
\* alarm is deployed only where there is none now, every other choice of the
\* caller being accounted for.
VerdictsHold ==
    /\ answer.tool = "coverage" =>
        \A r \in (DOMAIN answer.verdict \cap Monitored) \ (IF answer.live THEN Away ELSE {}) :
            LET resolved == CandidatesOf(r) \ Unresolved IN
            /\ answer.verdict[r] \in Covered => \A c \in resolved : answer.alarms[c] # "none"
            /\ answer.verdict[r] = "missing" =>
                  RegionOf[r] \in answer.complete /\ \E c \in resolved : answer.alarms[c] = "none"
    /\ answer.tool = "deployment" =>
        /\ answer.deployed \cap Existing = {}
        /\ answer.chosen = answer.deployed \cup answer.excluded \cup answer.blocked

\* "Missing is authoritative only when both resource and alarm inventories are
\* complete" (docs/agents/cloudwatch.md:37): with an answer that says they are, a
\* resource that is called missing lacks an alarm.
MissingIsAuthoritative ==
    answer.tool = "coverage" =>
        \A r \in DOMAIN answer.verdict \cap Monitored :
            answer.verdict[r] = "missing" /\ RegionOf[r] \in answer.complete =>
                \E c \in CandidatesOf(r) \ Unresolved : answer.alarms[c] = "none"
=============================================================================
