------------------------------ MODULE MCServing -----------------------------
(* A run of three epochs and one of one, either both of the default Informer   *)
(* checkpoint or the long one of an Autoformer, and two requests.              *)
EXTENDS Serving, TLC
CONSTANTS r1, r2, q1, q2, informer, autoformer
MCLosses == {1, 2}
MCPlacements == {(r1 :> informer) @@ (r2 :> informer), (r1 :> autoformer) @@ (r2 :> informer)}
MCEpochs == (r1 :> 3) @@ (r2 :> 1)
=============================================================================
