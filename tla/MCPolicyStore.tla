--------------------------- MODULE MCPolicyStore ---------------------------
(* Small instance of PolicyStore for TLC: two concurrent goroutines, two  *)
(* policy names, three UUIDs.                                             *)
EXTENDS PolicyStore, TLC

\* UUIDs, names and goroutines are interchangeable model values.
PolicySymmetry == Permutations(Ids) \cup Permutations(Names) \cup Permutations(Procs)
=============================================================================
