------------------------------ MODULE Ranking ------------------------------
(***************************************************************************)
(* Lists that are cut: what `rows.sort(key=...)` and `rows[:n]` leave.     *)
(***************************************************************************)
EXTENDS Naturals, FiniteSets

\* n of S, or all of them, in an order nobody promises.
AtMost(n, S) ==
    {T \in SUBSET S : Cardinality(T) = IF Cardinality(S) < n THEN Cardinality(S) ELSE n}

\* The sets the first n of S may be, when Before is what the rows are sorted by.
First(n, S, Before(_, _)) ==
    {T \in AtMost(n, S) : \A k \in T, j \in S \ T : ~Before(j, k)}
=============================================================================
