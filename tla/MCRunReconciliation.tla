------------------------ MODULE MCRunReconciliation ------------------------
(* Instances of RunReconciliation for TLC *)
EXTENDS RunReconciliationSafety, TLC

Symmetry == Permutations(Tasks) \cup Permutations(Requests) \cup Permutations(Workspaces)
=============================================================================
