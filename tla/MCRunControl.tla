---------------------------- MODULE MCRunControl ----------------------------
(* Instances of RunControl for TLC. *)
EXTENDS RunControl, TLC

CONSTANTS w1, c1, c2, r1, informer, autoformer

Symmetry == Permutations(ModelTypes)
=============================================================================
