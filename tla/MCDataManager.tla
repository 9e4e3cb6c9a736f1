---------------------------- MODULE MCDataManager ----------------------------
(***************************************************************************)
(* A small instance of DataManager: four deliveries, the second and third  *)
(* taken in the same second, the last far enough from the first that the   *)
(* first can expire while later ones still arrive.  One uuid per report,   *)
(* the most that initialization can draw.                                  *)
(***************************************************************************)
EXTENDS DataManager, TLC

MCSensorTime == (1 :> 1) @@ (2 :> 2) @@ (3 :> 2) @@ (4 :> 4)
=============================================================================
