--------------------------- MODULE CommitmentPlan ---------------------------
(***************************************************************************)
(* Which Savings Plans and reservations to buy: recommendations for every  *)
(* term and payment are fetched in parallel under a time budget, each is   *)
(* sized to what the workload sustains, one option is chosen per pool of   *)
(* usage, and the commitments already held decide whether it is safe to    *)
(* buy more or what to renew (src/src/lambda/mcp/commitments).             *)
(***************************************************************************)
EXTENDS Integers, FiniteSets, FiniteSetsExt

CONSTANTS
    Query,          \* of every permutation: label, pool, option, service, rank
                    \* and the line Cost Explorer recommends
    Item,           \* of every commitment held: its renewal key, service, region,
                    \* whether it is queued, and the days that are left
    Unfilterable,   \* services whose utilization Cost Explorer does not tell
    MaxOdd,         \* bound: the sources of which something else than health is told
    Horizon, None

VARIABLES world, answer

Permutation == DOMAIN Query
Pool == {Query[q].pool : q \in Permutation}
Label == {Query[q].label : q \in Permutation}
SavingsPlans == "savings plans"
Service == {Query[q].service : q \in Permutation} \cup {Item[i].service : i \in DOMAIN Item}

NoAnswer == [tool |-> "none"]

Init ==
    /\ world = [stage |-> "sweep", done |-> {}, failed |-> {}, late |-> {},
                plan |-> {}, payBack |-> {}]
    /\ answer = NoAnswer

-----------------------------------------------------------------------------
(* Sizing one line *)

Volatility(line) ==
    CASE line.floor = None -> "unknown"
      [] line.floor # None /\ 10 * line.floor >= 8 * line.average -> "stable"
      [] line.floor # None /\ 10 * line.floor < 8 * line.average ->
            IF 2 * line.floor >= line.average THEN "moderate" ELSE "spiky"

\* _cash_break_even: with an upfront payment the savings, which are net of it,
\* must not be negative; AWS's own figure comes first.  With no upfront there is
\* nothing to pay back, whatever the savings are.
PaysBack(line) ==
    \/ line.upfront = 0
    \/ IF line.breakEven = None THEN line.savings >= 0 ELSE line.breakEven <= line.months

Least(a, b) == IF a < b THEN a ELSE b

\* Mistake: the recommendation is taken whenever it pays back.
AchievableAsIs(line) == IF PaysBack(line) THEN line.recommended ELSE 0

\* _safe_commitment and _size_line, in whole units.
Achievable(line) ==
    IF ~PaysBack(line) THEN 0
    ELSE CASE Volatility(line) \in {"unknown", "stable"} -> line.recommended
           [] Volatility(line) = "moderate" ->
                Least(line.recommended, line.floor + (line.recommended - line.floor) \div 2)
           [] Volatility(line) = "spiky" -> Least(line.recommended, line.floor)

Saved(q) == (Query[q].line.savings * Achievable(Query[q].line)) \div Query[q].line.recommended
Value(S) == MapThenSumSet(Saved, S)

-----------------------------------------------------------------------------
(* The sweep: run_jobs of a pool of threads *)

Running == Permutation \ (world.done \cup world.failed)

Finish(q, ok) ==
    /\ world.stage = "sweep" /\ q \in Running
    /\ world' = IF ok THEN [world EXCEPT !.done = @ \cup {q}]
                ELSE [world EXCEPT !.failed = @ \cup {q}]
    /\ UNCHANGED answer

-----------------------------------------------------------------------------
(* One permutation per label, one option per pool *)

Rejected(q) == ~PaysBack(Query[q].line)

\* _rank
Stronger(q, p) ==
    \/ Rejected(p) /\ ~Rejected(q)
    \/ Rejected(p) = Rejected(q) /\ Saved(q) > Saved(p)
    \/ Rejected(p) = Rejected(q) /\ Saved(q) = Saved(p) /\ Query[q].rank < Query[p].rank

\* select_best_findings
Best == {q \in world.done :
            ~\E p \in world.done : Query[p].label = Query[q].label /\ Stronger(p, q)}

OptionsOf(pool) == {Query[q].option : q \in {q \in Best : Query[q].pool = pool /\ ~Rejected(q)}}
Within(pool, option) ==
    {q \in Best : Query[q].pool = pool /\ Query[q].option = option /\ ~Rejected(q)}

\* _best_option
BestOption(pool) ==
    CHOOSE o \in OptionsOf(pool) :
        \A p \in OptionsOf(pool) : Value(Within(pool, o)) >= Value(Within(pool, p))

\* plan_purchases
Purchases ==
    UNION {Within(pool, BestOption(pool)) : pool \in {p \in Pool : OptionsOf(p) # {}}}

\* The deadline, or the last result: what still runs is left behind, and the
\* purchases are planned.
EndSweep ==
    /\ world.stage = "sweep"
    /\ world' = [world EXCEPT !.stage = "plan", !.late = Running, !.plan = Purchases,
                              !.payBack = {q \in Best : ~Rejected(q)}]
    /\ UNCHANGED answer

-----------------------------------------------------------------------------
(* The gate on what is held already *)

\* Of what is held of one source, Cost Explorer is asked for the coverage and for
\* the utilization.  "blank" is an answer without a percentage, "none held" its
\* DataUnavailableException.  Coverage: 90% and more is saturated.  Utilization:
\* 95% and more is healthy, below 50% low; idle is a percentage of nothing.
CoverageTold == {"room", "saturated", "blank", "none held", "failed"}
UtilizationTold == {"healthy", "partial", "low", "idle", "blank", "none held", "failed"}
Outcome == [coverage : CoverageTold, utilization : UtilizationTold]

Healthy == [coverage |-> "room", utilization |-> "healthy"]

Outcomes(sources) ==
    {[s \in sources |-> IF s \in DOMAIN odd THEN odd[s] ELSE Healthy] :
        odd \in UNION {[S -> Outcome] : S \in {S \in SUBSET sources : Cardinality(S) <= MaxOdd}}}

\* What collect_all measures: Savings Plans, and each service of a finding that
\* pays back or of an item of the inventory.
Sources(inventory) ==
    {SavingsPlans} \cup
    (({Query[q].service : q \in world.payBack} \cup
      {Item[i].service : i \in inventory}) \ (Unfilterable \cup {SavingsPlans}))

\* _sp_posture and _ri_posture: saturation stops Savings Plans only, and what is
\* blank neither blocks nor counts as unmeasured.
Blocked(s, outcome) ==
    \/ outcome[s].utilization \in {"partial", "low"}
    \/ s = SavingsPlans /\ outcome[s].coverage = "saturated"
Unmeasured(s, outcome) == "failed" \in {outcome[s].coverage, outcome[s].utilization}

\* safe_to_buy_more
Safe(outcome) ==
    CASE \E s \in DOMAIN outcome : Blocked(s, outcome) -> "no"
      [] ~\E s \in DOMAIN outcome : Blocked(s, outcome) ->
            IF \E s \in DOMAIN outcome : Unmeasured(s, outcome) THEN "unknown" ELSE "yes"

\* _renewal_verdict: by the utilization alone.
VerdictBy(utilization) ==
    CASE utilization = "healthy" -> "renew"
      [] utilization = "partial" -> "renew-smaller"
      [] utilization \in {"low", "idle"} -> "let-lapse"
      [] utilization \in {"blank", "none held", "failed"} -> "review"

\* analyze_expiry: what is queued for the same thing comes before utilization.
Verdict(i, inventory, outcome) ==
    CASE \E j \in inventory : Item[j].queued /\ Item[j].key = Item[i].key -> "renewal-queued"
      [] OTHER -> IF Item[i].service \in DOMAIN outcome
                  THEN VerdictBy(outcome[Item[i].service].utilization) ELSE "review"

Expiring(inventory, outcome) ==
    [i \in {i \in inventory : ~Item[i].queued /\ Item[i].days \in 0..Horizon} |->
        Verdict(i, inventory, outcome)]

\* The two tools that read what is held, and generate_commitment_analysis.
Inventory(regions) == {i \in DOMAIN Item : Item[i].region \in regions}

Analyse(regions, outcome) ==
    /\ world.stage = "plan"
    /\ DOMAIN outcome = Sources(Inventory(regions))
    /\ answer' =
        IF world.done = {} /\ Permutation # {} THEN [tool |-> "fatal"]
        ELSE [tool |-> "analysis", bought |-> world.plan,
              safe |-> Safe(outcome), outcome |-> outcome, inventory |-> Inventory(regions),
              missing |-> world.failed \cup world.late,
              expiring |-> Expiring(Inventory(regions), outcome)]
    /\ UNCHANGED world

\* size_savings_plans and size_reservations: no gate.
Size ==
    /\ world.stage = "plan" /\ world.done # {}
    /\ answer' = [tool |-> "size", bought |-> world.plan, total |-> Value(world.plan)]
    /\ UNCHANGED world

Next ==
    /\ answer = NoAnswer
    /\ \/ \E q \in Permutation, ok \in BOOLEAN : Finish(q, ok)
       \/ EndSweep
       \/ \E regions \in SUBSET {Item[i].region : i \in DOMAIN Item} :
            \E outcome \in Outcomes(Sources(Inventory(regions))) : Analyse(regions, outcome)
       \/ Size

Spec == Init /\ [][Next]_<<world, answer>>

-----------------------------------------------------------------------------
\* Purchases that do not discount the same usage twice.
Compatible(S) ==
    \A p, q \in S : p # q =>
        /\ Query[p].label # Query[q].label
        /\ Query[p].pool = Query[q].pool => Query[p].option = Query[q].option

\* What is recommended is a plan nobody needs to correct: it commits no usage
\* twice, nothing in it fails to pay back an upfront payment or, on a spiky
\* workload, exceeds the quietest hour, and another plan from the same answers
\* saves more only by leaving out a purchase that loses money.  It is called safe
\* only if everything held of the kinds bought was asked for, no query failed and
\* nothing that was measured is wasted; what to do with a commitment that ends
\* follows from a measurement, and none whose renewal is queued is renewed again.
PlanIsSound ==
    /\ answer.tool \in {"analysis", "size"} =>
        /\ world.done # {}
        /\ Compatible(answer.bought)
        /\ \A q \in answer.bought :
              LET line == Query[q].line IN
              /\ PaysBack(line)
              /\ line.floor # None /\ 2 * line.floor < line.average =>
                    Achievable(line) <= line.floor
    /\ answer.tool = "size" =>
        \A S \in SUBSET world.done :
            /\ Compatible(S)
            /\ \A q \in S : PaysBack(Query[q].line)
            /\ \A q \in world.done \ S :
                  PaysBack(Query[q].line) /\ Compatible(S \cup {q}) => Saved(q) >= 0
            => Value(S) <= answer.total
    /\ answer.tool = "analysis" =>
        /\ answer.safe = "yes" =>
            /\ \A q \in answer.bought : Query[q].service \notin Unfilterable =>
                  Query[q].service \in DOMAIN answer.outcome
            /\ \A s \in DOMAIN answer.outcome :
                  /\ "failed" \notin {answer.outcome[s].coverage, answer.outcome[s].utilization}
                  /\ answer.outcome[s].utilization \notin {"partial", "low"}
        /\ \A i \in DOMAIN answer.expiring :
            /\ answer.expiring[i] \in {"renew", "renew-smaller", "let-lapse"} =>
                  /\ Item[i].service \in DOMAIN answer.outcome
                  /\ answer.outcome[Item[i].service].utilization
                        \notin {"blank", "none held", "failed"}
            /\ answer.expiring[i] = "renew" =>
                  /\ answer.outcome[Item[i].service].utilization = "healthy"
                  /\ ~\E j \in answer.inventory : Item[j].queued /\ Item[j].key = Item[i].key
=============================================================================
