--------------------------- MODULE MCCoverageRun ---------------------------
EXTENDS CoverageRun, TLC

Symmetry == Permutations(Worker) \cup Permutations(Region)

\* What steps depend on, and the three invariants: no action reads rows, whole, dead or
\* missed.  A run older than the current one, which only gets newer, is not published
\* any more; a later one is excused by a dead message, or else by what was missed.
Open == {r \in Run : r > current.run}
Lost == {r \in Open : \E m \in dead : m.run = r}
Analysed(r) ==
    [g \in Region |-> <<whole[r][g] # {}, whole[r][g] \cap From("resource_explorer") # {}>>]
Seen == <<meta, marker, [r \in Open \cup ({current.run} \ {0}) |-> Analysed(r)], current, queue,
          Lost, missed \cap (Open \ Lost), worker, faults>>
=============================================================================
