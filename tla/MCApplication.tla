---------------------------- MODULE MCApplication ----------------------------
(***************************************************************************)
(* Two ticks, so that one snapshot is drawn while the next is emitted; two *)
(* tracks; Quit chosen twice, the second time into a queue nobody reads.   *)
(***************************************************************************)
EXTENDS Application, TLC

MCValue == {"TimerTick", "MapSnapshotRequested", "QuitRequested"}
=============================================================================
