------------------------- MODULE MCAlignmentProcessor -------------------------
(***************************************************************************)
(* Four reports; 2 and 3 share a second, 4 is exactly Dt after them and    *)
(* just too far from 1, so groups depend on where the sweep starts.        *)
(***************************************************************************)
EXTENDS AlignmentProcessor, TLC

MCSensorTime == (1 :> 1) @@ (2 :> 2) @@ (3 :> 2) @@ (4 :> 3)
=============================================================================
