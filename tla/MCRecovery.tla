----------------------------- MODULE MCRecovery -----------------------------
(* Small instance of Recovery for TLC: three keepers, threshold two, the  *)
(* pilot shards at ids 1 and 2, two candidate root keys.                  *)
EXTENDS Recovery, TLC

MCKeeperIds == {1, 2, 3}
MCPilotIds == {1, 2}

\* Root keys are interchangeable: nothing distinguishes one from another.
KeySymmetry == Permutations(Keys)
=============================================================================
