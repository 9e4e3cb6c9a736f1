---------------------------- MODULE TracksSnapshot ----------------------------
(***************************************************************************)
(* How one snapshot is stored: DynDBDriver::TracksSnapshot and Transactor  *)
(* (src/src/Model/DB/dyndbdriver.cpp), which pqxx::connection::perform     *)
(* calls, and the part of the database they touch.                         *)
(*                                                                         *)
(* The number of the snapshot is drawn in a transaction of its own, and    *)
(* sequences do not roll back.  perform runs the Transactor in a           *)
(* transaction, again when it failed while attempts are left; when the     *)
(* connection is lost after COMMIT was sent it throws in_doubt_error and   *)
(* does not try again.  The server may then still be deciding: an orphan.  *)
(***************************************************************************)
EXTENDS Naturals

CONSTANTS
  TrackId,     (* the tracks there may be                                  *)
  Attempts     (* how often perform tries, 3 unless it is told otherwise   *)

ASSUME AttemptsAssumption == Attempts \in Nat \ {0}

VARIABLES
  sequence,          (* database: the last value of track_snapshot_seq     *)
  track_snapshots,   (* database: the rows <<snapshot_id, track_id>>       *)
  orphans,           (* database: commits nobody waits for any more        *)
  snapshotId_,       (* TracksSnapshot's                                   *)
  tracks_,           (* TracksSnapshot's                                   *)
  attempts,          (* perform's local: attempts left                     *)
  transaction,       (* the open transaction: its state and its rows       *)
  outcome            (* what the program knows of the snapshot             *)

databaseVars == <<sequence, track_snapshots, orphans>>
clientVars == <<snapshotId_, tracks_, attempts, transaction, outcome>>
storeVars == <<databaseVars, clientVars>>

NoTransaction == [state |-> "none", inserted |-> {}]

Rows(id, tracks) == {id} \X tracks

Snapshot == [id |-> snapshotId_, tracks |-> tracks_]

TracksSnapshotInit ==
  /\ sequence = 0 /\ track_snapshots = {} /\ orphans = {}
  /\ snapshotId_ = 0 /\ tracks_ = {} /\ attempts = 0
  /\ transaction = NoTransaction /\ outcome = "none"

(* A new client, before its first snapshot.                                *)
NewClient ==
  /\ snapshotId_' = 0 /\ tracks_' = {} /\ attempts' = 0
  /\ transaction' = NoTransaction /\ outcome' = "none"

(* The client goes away: what it has not told to commit is rolled back.    *)
Undecided == IF transaction.state = "committing" THEN {Snapshot} ELSE {}

Disconnect ==
  /\ NewClient
  /\ orphans' = orphans \cup Undecided
  /\ UNCHANGED <<sequence, track_snapshots>>

-----------------------------------------------------------------------------
(* getSnapshotIdFromSequence, addTrack for all tracks, and perform's start.*)
GetNewTracksSnapshot(tracks) ==
  /\ sequence' = sequence + 1
  /\ snapshotId_' = sequence' /\ tracks_' = tracks
  /\ attempts' = Attempts /\ outcome' = "pending"
  /\ UNCHANGED <<track_snapshots, orphans, transaction>>

(* nextval fails, or it succeeds and its answer is lost.                   *)
LoseSnapshotId == sequence' \in {sequence, sequence + 1}

(* Mutant: attempts are not counted.                                       *)
BeginTransactionUncounted ==
  /\ outcome = "pending" /\ transaction.state = "none"
  /\ transaction' = [state |-> "open", inserted |-> {}]
  /\ UNCHANGED <<databaseVars, snapshotId_, tracks_, attempts, outcome>>

BeginTransaction ==
  /\ outcome = "pending" /\ transaction.state = "none"
  /\ attempts' = attempts - 1
  /\ transaction' = [state |-> "open", inserted |-> {}]
  /\ UNCHANGED <<databaseVars, snapshotId_, tracks_, outcome>>

(* Mutant: every row is committed by itself.                               *)
InsertTrackCommitted(t) ==
  /\ transaction.state = "open" /\ t \in tracks_ \ transaction.inserted
  /\ <<snapshotId_, t>> \notin track_snapshots
  /\ transaction' = [transaction EXCEPT !.inserted = @ \cup {t}]
  /\ track_snapshots' = track_snapshots \cup {<<snapshotId_, t>>}
  /\ UNCHANGED <<sequence, orphans, snapshotId_, tracks_, attempts, outcome>>

(* One round of the Transactor's loop; the id and the track are the key.   *)
InsertTrack(t) ==
  /\ transaction.state = "open" /\ t \in tracks_ \ transaction.inserted
  /\ <<snapshotId_, t>> \notin track_snapshots
  /\ transaction' = [transaction EXCEPT !.inserted = @ \cup {t}]
  /\ UNCHANGED <<databaseVars, snapshotId_, tracks_, attempts, outcome>>

Commit ==
  /\ transaction.state = "open" /\ transaction.inserted = tracks_
  /\ transaction' = [transaction EXCEPT !.state = "committing"]
  /\ UNCHANGED <<databaseVars, snapshotId_, tracks_, attempts, outcome>>

CommitReturns ==
  /\ transaction.state = "committed"
  /\ transaction' = NoTransaction /\ outcome' = "stored" /\ attempts' = 0
  /\ UNCHANGED <<databaseVars, snapshotId_, tracks_>>

(* Mutant: perform tries one more time than there are attempts.            *)
RetryOnceMore == attempts >= 0

Retry == attempts > 0

(* A statement fails, or the connection before COMMIT is sent, or the      *)
(* server refuses to commit: nothing is stored.                            *)
AttemptFails ==
  /\ transaction.state \in {"open", "committing"}
  /\ transaction' = NoTransaction
  /\ outcome' = IF Retry THEN "pending" ELSE "failed"
  /\ UNCHANGED <<databaseVars, snapshotId_, tracks_, attempts>>

(* Mutant: a doubtful commit is tried again.                               *)
LoseCommitRetried ==
  /\ transaction.state \in {"committing", "committed"}
  /\ orphans' = orphans \cup Undecided
  /\ transaction' = NoTransaction
  /\ outcome' = IF Retry THEN "pending" ELSE "failed"
  /\ UNCHANGED <<sequence, track_snapshots, snapshotId_, tracks_, attempts>>

(* The connection is lost before the answer to COMMIT: in_doubt_error.     *)
LoseCommit ==
  /\ transaction.state \in {"committing", "committed"}
  /\ orphans' = orphans \cup Undecided
  /\ transaction' = NoTransaction /\ outcome' = "inDoubt" /\ attempts' = 0
  /\ UNCHANGED <<sequence, track_snapshots, snapshotId_, tracks_>>

-----------------------------------------------------------------------------
(* The database                                                            *)

ServerCommits ==
  /\ transaction.state = "committing"
  /\ transaction' = [transaction EXCEPT !.state = "committed"]
  /\ track_snapshots' = track_snapshots \cup Rows(snapshotId_, transaction.inserted)
  /\ UNCHANGED <<sequence, orphans, snapshotId_, tracks_, attempts, outcome>>

DecideOrphan ==
  \E o \in orphans :
    /\ orphans' = orphans \ {o}
    /\ track_snapshots' \in {track_snapshots, track_snapshots \cup Rows(o.id, o.tracks)}
    /\ UNCHANGED <<sequence, clientVars>>

-----------------------------------------------------------------------------
(* The rows as the log they are to be; a snapshot without tracks leaves no *)
(* trace.  A snapshot may still appear until the program knows its outcome *)
(* and the server has decided.                                             *)
StoredSnapshots ==
  {[id |-> r[1], tracks |-> {q[2] : q \in {p \in track_snapshots : p[1] = r[1]}}]
     : r \in track_snapshots}

PendingSnapshots ==
  orphans \cup (IF outcome = "pending" /\ transaction.state # "committed"
                THEN {Snapshot} ELSE {})

Log == INSTANCE SnapshotLog
         WITH lastId <- sequence, log <- StoredSnapshots, pending <- PendingSnapshots

(* Whatever fails, is retried or crashes between the drawing of a number,  *)
(* the insertion of the rows and the commit: a snapshot appears in one     *)
(* step with all of its tracks or never, under a number nobody else gets.  *)
ImplementsSnapshotLog == Log!LogSpec

(* What the program believes is what the database holds: a stored snapshot *)
(* is there with exactly its tracks and is the newest one, and one given   *)
(* up after the last attempt is not there and will not come.               *)
OutcomeIsKnown ==
  LET stored == {r \in track_snapshots : r[1] = snapshotId_} IN
  /\ outcome = "stored" => /\ stored = Rows(snapshotId_, tracks_)
                           /\ \A r \in track_snapshots : r[1] <= snapshotId_
  /\ outcome = "failed" => stored = {} /\ Snapshot \notin orphans

=============================================================================
