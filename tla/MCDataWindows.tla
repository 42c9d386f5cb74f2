--------------------------- MODULE MCDataWindows ---------------------------
(* An instance of DataWindows for TLC: lengths from an invalid 0 up to 3. *)
EXTENDS DataWindows

SmallLengths == 0..3
=============================================================================
