-------------------------- MODULE MCTrainingSystem --------------------------
(* One job, a worker that may get it again and a CLI training of the same     *)
(* directory.                                                                 *)
EXTENDS TrainingSystem, TLC
CONSTANTS j1, w1, c1, informer
=============================================================================
