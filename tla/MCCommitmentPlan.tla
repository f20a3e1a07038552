------------------------- MODULE MCCommitmentPlan -------------------------
EXTENDS CommitmentPlan

Line(r, f, a, s, u) == [recommended |-> r, floor |-> f, average |-> a, savings |-> s,
                        upfront |-> u, breakEven |-> None, months |-> 12]
MCQuery == [
    a |-> [label |-> "Database SP", pool |-> "database", option |-> "Database SP",
           service |-> SavingsPlans, rank |-> 0, line |-> Line(4, 4, 4, 6, 0)],
    b |-> [label |-> "Redshift", pool |-> "redshift", option |-> "reservations",
           service |-> "redshift", rank |-> 0, line |-> Line(2, 2, 2, -4, 0)] ]
MCItem == [i |-> [key |-> "k", service |-> "redshift", region |-> "r", queued |-> FALSE, days |-> 30]]

\* What the comment of safe_to_buy_more excludes: it is not true when nothing of
\* what is held was measured.
SafeWasMeasured ==
    answer.tool = "analysis" /\ answer.safe = "yes" =>
        \E s \in DOMAIN answer.outcome :
            ~(answer.outcome[s].coverage = "blank" /\ answer.outcome[s].utilization = "blank")

\* What the report says of its method: a line that cannot pay back within its term
\* is excluded.  With no upfront a line pays back what it costs if it saves.
NothingLoses ==
    answer.tool \in {"analysis", "size"} =>
        \A q \in answer.bought : Query[q].line.savings >= 0
=============================================================================
