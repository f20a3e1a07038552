-------------------------- MODULE MCMitigationWork --------------------------
(* Small instances of MitigationWork for TLC. *)
EXTENDS MitigationWork, TLC

Symmetry == Permutations(Worker) \cup Permutations(Mitigation)
=============================================================================
