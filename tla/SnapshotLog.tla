----------------------------- MODULE SnapshotLog -----------------------------
(***************************************************************************)
(* What TracksSnapshot promises the readers of the table track_snapshots:  *)
(* a log of snapshots, each of which appears in one step with all of its   *)
(* tracks or never, under a number of its own.  Nothing is ever removed.   *)
(***************************************************************************)
EXTENDS Naturals

CONSTANT TrackId

VARIABLES
  lastId,    (* the last number given out                                  *)
  log,       (* the snapshots that can be read                             *)
  pending    (* snapshots with a number that may still appear              *)

logVars == <<lastId, log, pending>>

LogInit == lastId = 0 /\ log = {} /\ pending = {}

(* A number is given to a snapshot ...                                     *)
GiveNumber(tracks) ==
  /\ lastId' = lastId + 1
  /\ pending' = pending \cup {[id |-> lastId', tracks |-> tracks]}
  /\ UNCHANGED log

(* ... or lost.                                                            *)
LoseNumber == lastId' = lastId + 1 /\ UNCHANGED <<log, pending>>

Publish(s) ==
  /\ pending' = pending \ {s} /\ log' = log \cup {s}
  /\ UNCHANGED lastId

Discard(s) == pending' = pending \ {s} /\ UNCHANGED <<lastId, log>>

LogNext ==
  \/ \E tracks \in SUBSET TrackId : GiveNumber(tracks)
  \/ LoseNumber
  \/ \E s \in pending : Publish(s) \/ Discard(s)

LogSpec == LogInit /\ [][LogNext]_logVars

=============================================================================
