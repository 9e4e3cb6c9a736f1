------------------------ MODULE MCTrackInitialization ------------------------
(***************************************************************************)
(* Groups of up to four reports, two of them of the same second; ratings   *)
(* below, at and above the threshold, so that pairs tie and differ.        *)
(***************************************************************************)
EXTENDS TrackInitialization, TLC

MCSensorTime == (1 :> 1) @@ (2 :> 2) @@ (3 :> 2) @@ (4 :> 3)
=============================================================================
