--------------------------- MODULE MCTrainingQueue ---------------------------
(***************************************************************************)
(* Small instances of TrainingQueue: requests racing for one identity with *)
(* two model types, and workers that may crash.                            *)
(***************************************************************************)
EXTENDS TrainingQueue, TLC

Symmetry == Permutations(Jobs) \cup Permutations(Workers)
=============================================================================
