-------------------- MODULE MCInvestigationCoordinator --------------------
(* Small instances of InvestigationCoordinator for TLC. *)
EXTENDS InvestigationCoordinator, TLC

Symmetry == Permutations(Investigation) \cup Permutations(Worker)
    \cup Permutations(HealthEvent) \cup Permutations(Issue)
=============================================================================
