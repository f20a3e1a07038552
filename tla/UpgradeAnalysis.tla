-------------------------- MODULE UpgradeAnalysis --------------------------
(***************************************************************************)
(* The report on Lambda functions whose runtime goes out of support: the   *)
(* regions are scanned in parallel, the code of the most important         *)
(* functions is searched for breaking changes                              *)
(* (src/src/lambda/mcp/lambda-runtime/handler.py).                         *)
(***************************************************************************)
EXTENDS Naturals, FiniteSets, Ranking

CONSTANTS
    Functions,      \* of every function: region, age and the two dates of its runtime
    TestNamed, Images, SdkMigrations,   \* the functions that look like a test, are an
                                        \* image, need a new SDK
    Files, Oversized, Breaking,         \* of every function: its source; the files over
                                        \* 50 KB; those with a breaking change
    LastDay, Horizon,                   \* the days there are; 180 days
    MaxCritical, MaxHigh, MaxNames      \* 75, 5 and 500 in the code

VARIABLES world, answer

Function == DOMAIN Functions
Region == {Functions[f].region : f \in Function}
In(r) == {f \in Function : Functions[f].region = r}

NoAnswer == [tool |-> "none"]

Quiet == [day |-> 0, since |-> 0, stage |-> "idle", approaching |-> FALSE, left |-> {},
          errors |-> {}, status |-> <<>>, invoked |-> <<>>, code |-> <<>>]

Init == world \in {[Quiet EXCEPT !.day = d] : d \in 0..LastDay} /\ answer = NoAnswer

\* _classify_runtime: both comparisons are with today's date.
Status(f, day) ==
    CASE day > Functions[f].eol -> "end_of_life"
      [] day <= Functions[f].eol /\ day > Functions[f].deprecated -> "deprecated"
      [] OTHER -> "active"

Included(S, approaching) ==
    {f \in S : \/ Status(f, world.day) # "active"
               \/ approaching /\ Functions[f].deprecated <= world.day + Horizon}

-----------------------------------------------------------------------------
(* The lists: one region, or several of which some may raise.              *)

Deprecated(regions, approaching, max) ==
    \E failed \in SUBSET regions :
      \E rows \in {T \in SUBSET Included(UNION {In(r) : r \in regions \ failed}, approaching) :
                    \A r \in regions \ failed :
                        T \cap In(r) \in AtMost(max, Included(In(r), approaching))} :
        /\ answer' = [tool |-> "list", rows |-> rows, max |-> max,
                      approaching |-> approaching, regions |-> regions, errors |-> failed]
        /\ UNCHANGED world

-----------------------------------------------------------------------------
(* generate_upgrade_analysis, a thread pool at a time                      *)

Generate(approaching) ==
    /\ world.stage = "idle"
    /\ world' = [world EXCEPT !.stage = "scan", !.since = world.day,
                              !.approaching = approaching, !.left = Region]
    /\ UNCHANGED answer

\* Midnight, for a call that goes on past it.
Midnight ==
    /\ world.stage = "scan" /\ world.day < LastDay
    /\ world' = [world EXCEPT !.day = @ + 1]
    /\ UNCHANGED answer

\* _scan_region_deprecated; an error leaves no function of the region.
ScanRegion(r, ok) ==
    /\ world.stage = "scan" /\ r \in world.left
    /\ LET new == IF ok THEN Included(In(r), world.approaching) ELSE {} IN
       world' = [world EXCEPT
            !.left = @ \ {r},
            !.errors = IF ok THEN @ ELSE @ \cup {r},
            !.status = [f \in DOMAIN world.status \cup new |->
                            IF f \in new THEN Status(f, world.day) ELSE world.status[f]]]
    /\ UNCHANGED answer

Found == DOMAIN world.status
Critical == {f \in Found : world.status[f] = "end_of_life"}
Older(f, g) == Functions[f].age > Functions[g].age

\* Mistake: the oldest are analysed first, whatever they are.
CriticalBeforeByAge(f, g) == Older(f, g)

\* The order of critical_all.
CriticalBefore(f, g) ==
    \/ f \notin TestNamed /\ g \in TestNamed
    \/ (f \in TestNamed <=> g \in TestNamed) /\ Older(f, g)

\* The order of high_candidates.
HighBefore(f, g) ==
    \/ f \in SdkMigrations /\ g \notin SdkMigrations
    \/ (f \in SdkMigrations <=> g \in SdkMigrations) /\ Older(f, g)

High == {f \in Found : world.status[f] = "deprecated"} \ TestNamed

\* _fetch_last_invoked_days: one call for the first names of each region, and
\* no value for the others or after an error; then the two cuts.
Select(include, asked, idle) ==
    /\ world.stage = "scan" /\ world.left = {}
    /\ \A r \in Region : asked \cap In(r) # {} => asked \cap In(r) \in AtMost(MaxNames, Found \cap In(r))
    /\ include \/ asked = {}
    /\ idle \subseteq asked
    /\ \E critical \in First(MaxCritical, Critical, CriticalBefore),
          high \in First(MaxHigh, High, HighBefore) :
        world' = [world EXCEPT
            !.stage = "code", !.left = critical \cup high,
            !.invoked = [f \in Found |-> IF f \in asked \ idle THEN "recently" ELSE "unknown"]]
    /\ UNCHANGED answer

\* _download_and_extract_code: what may be scanned of a function's code.  The files
\* over 50 KB are skipped, as are those past 200 KB in all and those that cannot be
\* read, and nothing is left of a function that is an image by now.
Extracted(f) == SUBSET (Files[f] \ Oversized)

\* _analyze_code_for_breaking_changes
Findings(scanned) == scanned \cap Breaking

\* _analyze_one_function, in whichever order the pool takes them: the status is
\* complete whatever was skipped.
AnalyzeFunction(f, status, scanned) ==
    /\ world.stage = "code" /\ f \in world.left
    /\ f \in Images <=> status = "skipped"
    /\ scanned \in Extracted(f)
    /\ scanned # {} => status = "complete"
    /\ world' = [world EXCEPT
            !.left = @ \ {f},
            !.code = [g \in DOMAIN world.code \cup {f} |->
                        IF g = f THEN [status |-> status, scanned |-> scanned,
                                       findings |-> Findings(scanned)]
                                 ELSE world.code[g]]]
    /\ UNCHANGED answer

\* The recommendation of an entry: what was found, a flip, or the family's advice.
Recommend(f) ==
    IF f \notin DOMAIN world.code THEN "generic"
    ELSE CASE world.code[f].findings # {} -> "changes"
           [] world.code[f].findings = {} /\ world.code[f].status = "complete" -> "flip"
           [] OTHER -> "generic"

Deletable == {f \in Found : f \in TestNamed \/ world.invoked[f] = "unknown"}

Render ==
    /\ world.stage = "code" /\ world.left = {}
    /\ answer' = [tool |-> "report",
                  critical |-> [f \in Critical |-> Recommend(f)],
                  deletable |-> Deletable,
                  high |-> Cardinality({f \in Found : world.status[f] = "deprecated"}),
                  medium |-> Cardinality({f \in Found : world.status[f] = "active"}),
                  scanned |-> Critical \cap DOMAIN world.code]
    /\ UNCHANGED world

Next ==
    /\ answer = NoAnswer
    /\ \/ \E regions \in SUBSET Region, approaching \in BOOLEAN, max \in {1, 2} :
            world.stage = "idle" /\ Deprecated(regions, approaching, max)
       \/ \E approaching \in BOOLEAN : Generate(approaching)
       \/ Midnight
       \/ \E r \in Region, ok \in BOOLEAN : ScanRegion(r, ok)
       \/ \E include \in BOOLEAN, asked, idle \in SUBSET Found : Select(include, asked, idle)
       \/ \E f \in Function, status \in {"complete", "error", "skipped"} :
            \E scanned \in SUBSET Files[f] : AnalyzeFunction(f, status, scanned)
       \/ Render

Spec == Init /\ [][Next]_<<world, answer>>

-----------------------------------------------------------------------------
\* A report leaves out no unsupported function of a region that was read, even
\* when midnight passed meanwhile; it names changes only where a file has one, and
\* advises a flip only after a download in which no file that was scanned has one;
\* it spends its cap on functions that are in use, and proposes to delete none that
\* is seen in use and does not look like a test.  A list that is shorter than its
\* cap is complete.
UpgradesAreJustified ==
    /\ answer.tool = "report" =>
        LET listed == DOMAIN answer.critical IN
        /\ \A f \in Function : Status(f, world.since) = "end_of_life" =>
              f \in listed \/ Functions[f].region \in world.errors
        /\ Cardinality(listed) + answer.high + answer.medium = Cardinality(Found)
        /\ \A f \in listed :
              /\ answer.critical[f] = "changes" => Files[f] \cap Breaking # {}
              /\ answer.critical[f] = "flip" =>
                    /\ f \in DOMAIN world.code /\ world.code[f].status = "complete"
                    /\ world.code[f].scanned \cap Breaking = {}
        /\ listed \ answer.scanned # {} =>
              \A f \in answer.scanned \cap TestNamed : listed \ TestNamed \subseteq answer.scanned
        /\ \A f \in answer.deletable \ TestNamed : world.invoked[f] # "recently"
    /\ answer.tool = "list" =>
        \A r \in answer.regions \ answer.errors :
            Cardinality(answer.rows \cap In(r)) < answer.max =>
                Included(In(r), answer.approaching) \subseteq answer.rows

\* "No breaking changes detected in scanned code - safe to flip the runtime setting
\* directly" (handler.py:1451): a function with this advice has no breaking change.
FlipIsSafe ==
    answer.tool = "report" =>
        \A f \in DOMAIN answer.critical :
            answer.critical[f] = "flip" => Files[f] \cap Breaking = {}
=============================================================================
