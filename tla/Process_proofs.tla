---------------------------- MODULE Process_proofs ----------------------------
(***************************************************************************)
(* Theorems about Process: the storing of snapshots, for any number of     *)
(* attempts, tracks and restarts, and the settings, for any files.         *)
(***************************************************************************)
EXTENDS Process, Fractions_proofs, FiniteSetTheorems, TLAPS

-----------------------------------------------------------------------------
(* The rows of the table as snapshots                                      *)

TracksOf(rows, id) == {q[2] : q \in {p \in rows : p[1] = id}}

SnapshotsOf(rows) == {[id |-> r[1], tracks |-> TracksOf(rows, r[1])] : r \in rows}

HasRows(rows, id) == \E r \in rows : r[1] = id

(* Adding the rows of a snapshot that has none adds the snapshot, unless   *)
(* it is empty, and leaves the others as they are.                         *)
LEMMA AddRows ==
  ASSUME NEW rows, NEW id, ~ HasRows(rows, id), NEW tks,
         NEW more, more = rows \cup Rows(id, tks)
  PROVE  /\ tks = {} => SnapshotsOf(more) = SnapshotsOf(rows)
         /\ tks # {} => SnapshotsOf(more) = SnapshotsOf(rows) \cup {[id |-> id, tracks |-> tks]}
<1>1. \A r \in Rows(id, tks) : r[1] = id /\ r[2] \in tks
  BY DEF Rows
<1>2. \A t \in tks : <<id, t>> \in Rows(id, tks)
  BY DEF Rows
<1>3. \A r \in rows : r[1] # id
  BY DEF HasRows
<1>4. TracksOf(more, id) = tks
  <2>1. ASSUME NEW t \in tks PROVE t \in TracksOf(more, id)
    <3>1. <<id, t>> \in more /\ <<id, t>>[1] = id /\ <<id, t>>[2] = t
      BY <1>2
    <3>2. QED
      BY <3>1 DEF TracksOf
  <2>2. ASSUME NEW t \in TracksOf(more, id) PROVE t \in tks
    BY <1>1, <1>3 DEF TracksOf
  <2>3. QED
    BY <2>1, <2>2
<1>5. ASSUME NEW r \in rows PROVE TracksOf(more, r[1]) = TracksOf(rows, r[1])
  <2>1. {p \in more : p[1] = r[1]} = {p \in rows : p[1] = r[1]}
    BY <1>1, <1>3
  <2>2. QED
    BY <2>1 DEF TracksOf
<1>6. CASE tks = {}
  <2>1. more = rows
    BY <1>1, <1>6
  <2>2. QED
    BY <1>6, <2>1
<1>7. CASE tks # {}
  <2> DEFINE new == [id |-> id, tracks |-> tks]
  <2>1. PICK t \in tks : TRUE
    BY <1>7
  <2>2. <<id, t>> \in more /\ <<id, t>>[1] = id
    BY <1>2, <2>1
  <2>3. new \in SnapshotsOf(more)
    <3>1. new = [id |-> <<id, t>>[1], tracks |-> TracksOf(more, <<id, t>>[1])]
      BY <1>4, <2>2
    <3>2. QED
      BY <2>2, <3>1 DEF SnapshotsOf
  <2>4. SnapshotsOf(rows) \subseteq SnapshotsOf(more)
    <3>1. ASSUME NEW s \in SnapshotsOf(rows) PROVE s \in SnapshotsOf(more)
      <4>1. PICK r \in rows : s = [id |-> r[1], tracks |-> TracksOf(rows, r[1])]
        BY DEF SnapshotsOf
      <4>2. s = [id |-> r[1], tracks |-> TracksOf(more, r[1])]
        BY <4>1, <1>5
      <4>3. QED
        BY <4>2 DEF SnapshotsOf
    <3>2. QED
      BY <3>1
  <2>5. SnapshotsOf(more) \subseteq SnapshotsOf(rows) \cup {new}
    <3>1. ASSUME NEW s \in SnapshotsOf(more) PROVE s \in SnapshotsOf(rows) \cup {new}
      <4>1. PICK r \in more : s = [id |-> r[1], tracks |-> TracksOf(more, r[1])]
        BY DEF SnapshotsOf
      <4>2. CASE r \in rows
        BY <4>1, <4>2, <1>5 DEF SnapshotsOf
      <4>3. CASE r \in Rows(id, tks)
        BY <4>1, <4>3, <1>1, <1>4
      <4>4. QED
        BY <4>2, <4>3
    <3>2. QED
      BY <3>1
  <2>6. QED
    BY <1>7, <2>3, <2>4, <2>5
<1>8. QED
  BY <1>6, <1>7

-----------------------------------------------------------------------------
(* What holds of the table, the orphans and the client between the steps   *)

TransactionStates == {"none", "open", "committing", "committed"}

Outcomes == {"none", "pending", "stored", "failed", "inDoubt"}

StoreTypes ==
  /\ sequence \in Nat
  /\ track_snapshots \subseteq (1 .. sequence) \X TrackId
  /\ orphans \subseteq [id : 1 .. sequence, tracks : SUBSET TrackId]
  /\ snapshotId_ \in 0 .. sequence
  /\ tracks_ \subseteq TrackId
  /\ transaction \in [state : TransactionStates, inserted : SUBSET TrackId]
  /\ outcome \in Outcomes

(* What an orphan may still add, nothing else has added or will.           *)
OrphansAreAlone ==
  /\ \A o \in orphans : ~ HasRows(track_snapshots, o.id)
  /\ \A o, p \in orphans : o.id = p.id => o = p
  /\ outcome \in {"pending", "stored", "failed"} => \A o \in orphans : o.id # snapshotId_

(* Numbers are drawn one after the other, so the client's is the greatest. *)
NewestIsOurs ==
  outcome # "none" =>
    /\ snapshotId_ > 0
    /\ \A r \in track_snapshots : r[1] <= snapshotId_
    /\ \A o \in orphans : o.id <= snapshotId_

(* The transaction and the rows of its snapshot                            *)
TransactionHoldsTracks ==
  /\ outcome # "pending" => transaction.state = "none"
  /\ transaction.state \in {"committing", "committed"} => transaction.inserted = tracks_

CommittedOrAbsent ==
  /\ transaction.state = "committed" \/ outcome = "stored" =>
       {r \in track_snapshots : r[1] = snapshotId_} = Rows(snapshotId_, tracks_)
  /\ outcome \in {"pending", "failed"} /\ transaction.state # "committed" =>
       ~ HasRows(track_snapshots, snapshotId_)

StoreInv ==
  /\ StoreTypes /\ OrphansAreAlone /\ NewestIsOurs
  /\ TransactionHoldsTracks /\ CommittedOrAbsent

PlaceInv ==
  /\ pc = "store" <=> outcome = "pending"
  /\ tracks \subseteq TrackId

(* A step of the abstract log or none                                      *)
LogStep == [Log!LogNext]_Log!logVars

LEMMA StoredIsSnapshotsOf ==
  StoredSnapshots = SnapshotsOf(track_snapshots)
BY DEF StoredSnapshots, SnapshotsOf, TracksOf

LEMMA StoredIsSnapshotsOfAfter ==
  StoredSnapshots' = SnapshotsOf(track_snapshots')
BY DEF StoredSnapshots, SnapshotsOf, TracksOf

LEMMA LogStutters ==
  ASSUME UNCHANGED <<sequence, track_snapshots>>, PendingSnapshots' = PendingSnapshots
  PROVE  LogStep
BY DEF LogStep, StoredSnapshots, Log!logVars

LEMMA LogDiscards ==
  ASSUME UNCHANGED <<sequence, track_snapshots>>,
         NEW s \in PendingSnapshots, PendingSnapshots' = PendingSnapshots \ {s}
  PROVE  LogStep
BY DEF LogStep, StoredSnapshots, Log!LogNext, Log!Discard

(* Adding the rows of a pending snapshot publishes it, unless it is empty. *)
LEMMA LogPublishes ==
  ASSUME UNCHANGED sequence, NEW s \in PendingSnapshots,
         NEW id, NEW tks, s = [id |-> id, tracks |-> tks],
         ~ HasRows(track_snapshots, id),
         track_snapshots' = track_snapshots \cup Rows(id, tks),
         PendingSnapshots' = PendingSnapshots \ {s}
  PROVE  LogStep
<1>1. CASE tks = {}
  <2>1. StoredSnapshots' = StoredSnapshots
    BY <1>1, AddRows, StoredIsSnapshotsOf, StoredIsSnapshotsOfAfter
  <2>2. QED
    BY <2>1 DEF LogStep, Log!LogNext, Log!Discard
<1>2. CASE tks # {}
  <2>1. StoredSnapshots' = StoredSnapshots \cup {s}
    BY <1>2, AddRows, StoredIsSnapshotsOf, StoredIsSnapshotsOfAfter
  <2>2. QED
    BY <2>1 DEF LogStep, Log!LogNext, Log!Publish
<1>3. QED
  BY <1>1, <1>2

-----------------------------------------------------------------------------
(* The steps of the client and the server, each with the step of the log   *)

LEMMA StoreInvInit ==
  ASSUME TracksSnapshotInit
  PROVE  StoreInv
<1>1. StoreTypes
  BY DEF TracksSnapshotInit, StoreTypes, NoTransaction, TransactionStates, Outcomes
<1>2. OrphansAreAlone /\ NewestIsOurs /\ TransactionHoldsTracks /\ CommittedOrAbsent
  BY DEF TracksSnapshotInit, OrphansAreAlone, NewestIsOurs, TransactionHoldsTracks,
         CommittedOrAbsent, NoTransaction
<1>3. QED
  BY <1>1, <1>2 DEF StoreInv

(* The rows of one number, when the others are left alone                  *)
LEMMA RowsOfId ==
  ASSUME NEW rows, NEW id, NEW tks, ~ HasRows(rows, id)
  PROVE  {r \in rows \cup Rows(id, tks) : r[1] = id} = Rows(id, tks)
BY DEF HasRows, Rows

LEMMA RowsOfOthers ==
  ASSUME NEW rows, NEW id, NEW tks, NEW other, other # id
  PROVE  /\ HasRows(rows \cup Rows(id, tks), other) <=> HasRows(rows, other)
         /\ {r \in rows \cup Rows(id, tks) : r[1] = other} = {r \in rows : r[1] = other}
<1>1. \A r \in Rows(id, tks) : r[1] # other
  BY DEF Rows
<1>2. QED
  BY <1>1 DEF HasRows

LEMMA NumberIsNew ==
  ASSUME StoreTypes
  PROVE  /\ ~ HasRows(track_snapshots, sequence + 1)
         /\ \A r \in track_snapshots : r[1] \in 1 .. sequence
         /\ \A o \in orphans : o.id \in 1 .. sequence
<1>1. \A r \in track_snapshots : r[1] \in 1 .. sequence
  BY DEF StoreTypes
<1>2. \A o \in orphans : o.id \in 1 .. sequence
  BY DEF StoreTypes
<1>3. sequence \in Nat
  BY DEF StoreTypes
<1>4. QED
  BY <1>1, <1>2, <1>3 DEF HasRows

LEMMA GetNewTracksSnapshotStep ==
  ASSUME StoreInv, outcome # "pending", tracks \subseteq TrackId, GetNewTracksSnapshot(tracks)
  PROVE  StoreInv' /\ LogStep
<1> USE DEF GetNewTracksSnapshot, StoreInv
<1>1. StoreTypes'
  <2>1. sequence' \in Nat /\ snapshotId_' \in 0 .. sequence' /\ 1 .. sequence \subseteq 1 .. sequence'
    BY DEF StoreTypes
  <2>2. track_snapshots' \subseteq (1 .. sequence') \X TrackId
    BY <2>1 DEF StoreTypes
  <2>3. orphans' \subseteq [id : 1 .. sequence', tracks : SUBSET TrackId]
    BY <2>1 DEF StoreTypes
  <2>4. transaction' \in [state : TransactionStates, inserted : SUBSET TrackId]
    BY DEF StoreTypes
  <2>5. QED
    BY <2>1, <2>2, <2>3, <2>4 DEF StoreTypes, Outcomes
<1>2. transaction.state = "none"
  BY DEF TransactionHoldsTracks
<1>3. sequence \in Nat /\ snapshotId_' = sequence + 1
  BY DEF StoreTypes
<1>4. OrphansAreAlone' /\ NewestIsOurs'
  <2>1. \A o \in orphans : o.id # snapshotId_' /\ o.id <= snapshotId_'
    BY <1>3, NumberIsNew
  <2>2. \A r \in track_snapshots : r[1] <= snapshotId_'
    BY <1>3, NumberIsNew
  <2>3. QED
    BY <1>3, <2>1, <2>2 DEF OrphansAreAlone, NewestIsOurs
<1>5. TransactionHoldsTracks' /\ CommittedOrAbsent'
  BY <1>2, <1>3, NumberIsNew DEF TransactionHoldsTracks, CommittedOrAbsent
<1>6. LogStep
  <2>1. PendingSnapshots = orphans
    BY <1>2 DEF PendingSnapshots
  <2>2. PendingSnapshots' = orphans \cup {[id |-> sequence', tracks |-> tracks]}
    BY <1>2 DEF PendingSnapshots, Snapshot
  <2>3. Log!GiveNumber(tracks)
    BY <2>1, <2>2 DEF Log!GiveNumber, StoredSnapshots
  <2>4. QED
    BY <2>3 DEF LogStep, Log!LogNext
<1>7. QED
  BY <1>1, <1>4, <1>5, <1>6

(* Before COMMIT is sent, a transaction shows nothing.                     *)
LEMMA OpenTransactionStep ==
  ASSUME StoreInv, BeginTransaction \/ (\E t \in TrackId : InsertTrack(t)) \/ Commit
  PROVE  StoreInv' /\ LogStep
<1> USE DEF StoreInv
<1>1. /\ UNCHANGED <<databaseVars, snapshotId_, tracks_, outcome>>
      /\ outcome = "pending"
      /\ transaction.state # "committed"
      /\ transaction' \in [state : TransactionStates, inserted : SUBSET TrackId]
      /\ transaction'.state # "committed"
      /\ transaction'.state = "committing" => transaction'.inserted = tracks_
  <2> USE DEF StoreTypes, TransactionStates
  <2>1. CASE BeginTransaction
    BY <2>1 DEF BeginTransaction
  <2>2. CASE \E t \in TrackId : InsertTrack(t)
    <3>1. PICK t \in TrackId : InsertTrack(t)
      BY <2>2
    <3>2. transaction' = [transaction EXCEPT !.inserted = @ \cup {t}]
      BY <3>1 DEF InsertTrack
    <3>3. transaction'.state = "open" /\ transaction.state = "open"
      BY <3>1, <3>2 DEF InsertTrack
    <3>4. transaction' \in [state : TransactionStates, inserted : SUBSET TrackId]
      BY <3>2
    <3>5. QED
      BY <3>1, <3>3, <3>4 DEF InsertTrack, TransactionHoldsTracks
  <2>3. CASE Commit
    BY <2>3 DEF Commit, TransactionHoldsTracks
  <2>4. QED
    BY <2>1, <2>2, <2>3
<1>2. StoreTypes'
  BY <1>1 DEF StoreTypes, databaseVars
<1>3. OrphansAreAlone' /\ NewestIsOurs'
  BY <1>1 DEF OrphansAreAlone, NewestIsOurs, databaseVars
<1>4. TransactionHoldsTracks' /\ CommittedOrAbsent'
  BY <1>1 DEF TransactionHoldsTracks, CommittedOrAbsent, databaseVars
<1>5. LogStep
  <2>1. PendingSnapshots' = PendingSnapshots
    BY <1>1 DEF PendingSnapshots, Snapshot, databaseVars
  <2>2. QED
    BY <1>1, <2>1, LogStutters DEF databaseVars
<1>6. QED
  BY <1>2, <1>3, <1>4, <1>5

LEMMA CommitReturnsStep ==
  ASSUME StoreInv, CommitReturns
  PROVE  StoreInv' /\ LogStep
<1> USE DEF StoreInv, CommitReturns
<1>1. outcome = "pending" /\ transaction'.state = "none" /\ transaction'.inserted = {}
  BY DEF TransactionHoldsTracks, NoTransaction
<1>2. StoreTypes'
  BY DEF StoreTypes, databaseVars, NoTransaction, TransactionStates, Outcomes
<1>3. OrphansAreAlone' /\ NewestIsOurs'
  BY <1>1 DEF OrphansAreAlone, NewestIsOurs, databaseVars
<1>4. TransactionHoldsTracks' /\ CommittedOrAbsent'
  BY <1>1 DEF TransactionHoldsTracks, CommittedOrAbsent, databaseVars
<1>5. LogStep
  <2>1. PendingSnapshots' = PendingSnapshots
    BY <1>1 DEF PendingSnapshots, databaseVars
  <2>2. QED
    BY <2>1, LogStutters DEF databaseVars
<1>6. QED
  BY <1>2, <1>3, <1>4, <1>5

LEMMA AttemptFailsStep ==
  ASSUME StoreInv, AttemptFails
  PROVE  StoreInv' /\ LogStep
<1> USE DEF StoreInv, AttemptFails
<1>1. /\ outcome = "pending" /\ transaction.state # "committed"
      /\ transaction'.state = "none" /\ outcome' \in {"pending", "failed"}
  BY DEF TransactionHoldsTracks, NoTransaction
<1>2. StoreTypes'
  BY DEF StoreTypes, databaseVars, NoTransaction, TransactionStates, Outcomes
<1>3. OrphansAreAlone' /\ NewestIsOurs'
  BY <1>1 DEF OrphansAreAlone, NewestIsOurs, databaseVars
<1>4. TransactionHoldsTracks' /\ CommittedOrAbsent'
  BY <1>1 DEF TransactionHoldsTracks, CommittedOrAbsent, databaseVars
<1>5. LogStep
  <2>1. PendingSnapshots = orphans \cup {Snapshot} /\ Snapshot' = Snapshot
    BY <1>1 DEF PendingSnapshots, Snapshot
  <2>2. CASE outcome' = "pending"
    <3>1. PendingSnapshots' = PendingSnapshots
      BY <1>1, <2>1, <2>2 DEF PendingSnapshots, databaseVars
    <3>2. QED
      BY <3>1, LogStutters DEF databaseVars
  <2>3. CASE outcome' = "failed"
    <3>1. Snapshot \notin orphans
      BY <1>1 DEF OrphansAreAlone, Snapshot
    <3>2. PendingSnapshots' = PendingSnapshots \ {Snapshot}
      BY <2>1, <2>3, <3>1 DEF PendingSnapshots, databaseVars
    <3>3. QED
      BY <2>1, <3>2, LogDiscards DEF databaseVars
  <2>4. QED
    BY <1>1, <2>2, <2>3
<1>6. QED
  BY <1>2, <1>3, <1>4, <1>5

(* A client goes, in doubt or for good, and leaves what is undecided.      *)
LEMMA OrphanIsLeft ==
  ASSUME StoreInv, outcome = "pending", orphans' = orphans \cup Undecided,
         UNCHANGED <<sequence, track_snapshots>>,
         snapshotId_' \in {0, snapshotId_}, tracks_' \subseteq TrackId, transaction' = NoTransaction,
         \/ outcome' = "none"
         \/ outcome' = "inDoubt" /\ snapshotId_' = snapshotId_
  PROVE  StoreInv' /\ LogStep
<1> USE DEF StoreInv
<1>1. transaction'.state = "none" /\ outcome' \in {"none", "inDoubt"}
  BY DEF NoTransaction
<1>2. StoreTypes'
  <2>1. Undecided \subseteq [id : 1 .. sequence, tracks : SUBSET TrackId]
    <3>1. snapshotId_ \in 1 .. sequence
      BY DEF NewestIsOurs, StoreTypes
    <3>2. QED
      BY <3>1 DEF Undecided, Snapshot, StoreTypes
  <2>2. orphans' \subseteq [id : 1 .. sequence', tracks : SUBSET TrackId]
    BY <2>1 DEF StoreTypes
  <2>3. transaction' \in [state : TransactionStates, inserted : SUBSET TrackId]
    BY DEF NoTransaction, TransactionStates
  <2>4. snapshotId_' \in 0 .. sequence'
    BY DEF StoreTypes
  <2>5. QED
    BY <1>1, <2>2, <2>3, <2>4 DEF StoreTypes, Outcomes
<1>3. OrphansAreAlone'
  <2>1. \A o \in Undecided : o = Snapshot /\ transaction.state = "committing"
    BY DEF Undecided
  <2>2. \A o \in Undecided : o.id = snapshotId_ /\ ~ HasRows(track_snapshots, o.id)
    BY <2>1 DEF Snapshot, CommittedOrAbsent
  <2>3. \A o \in orphans : o.id # snapshotId_
    BY DEF OrphansAreAlone
  <2>4. \A o \in orphans' : ~ HasRows(track_snapshots, o.id)
    BY <2>2 DEF OrphansAreAlone
  <2>5. \A o, p \in orphans' : o.id = p.id => o = p
    BY <2>1, <2>2, <2>3 DEF OrphansAreAlone
  <2>6. QED
    BY <1>1, <2>4, <2>5 DEF OrphansAreAlone
<1>4. NewestIsOurs'
  <2>1. snapshotId_ <= snapshotId_
    BY DEF StoreTypes
  <2>2. \A o \in Undecided : o.id <= snapshotId_
    BY <2>1 DEF Undecided, Snapshot
  <2>3. QED
    BY <2>2 DEF NewestIsOurs
<1>5. TransactionHoldsTracks' /\ CommittedOrAbsent'
  BY <1>1 DEF TransactionHoldsTracks, CommittedOrAbsent
<1>6. LogStep
  <2>1. PendingSnapshots' = orphans \cup Undecided
    BY <1>1 DEF PendingSnapshots
  <2>2. CASE transaction.state \in {"committing", "committed"}
    <3>1. PendingSnapshots' = PendingSnapshots
      BY <2>1, <2>2 DEF PendingSnapshots, Undecided
    <3>2. QED
      BY <3>1, LogStutters
  <2>3. CASE transaction.state \notin {"committing", "committed"}
    <3>1. PendingSnapshots = orphans \cup {Snapshot} /\ Undecided = {}
      BY <2>3 DEF PendingSnapshots, Undecided
    <3>2. Snapshot \notin orphans
      BY DEF OrphansAreAlone, Snapshot
    <3>3. PendingSnapshots' = PendingSnapshots \ {Snapshot}
      BY <2>1, <3>1, <3>2
    <3>4. QED
      BY <3>1, <3>3, LogDiscards
  <2>4. QED
    BY <2>2, <2>3
<1>7. QED
  BY <1>2, <1>3, <1>4, <1>5, <1>6

LEMMA LoseCommitStep ==
  ASSUME StoreInv, LoseCommit
  PROVE  StoreInv' /\ LogStep
<1>1. outcome = "pending"
  BY DEF StoreInv, TransactionHoldsTracks, LoseCommit
<1>2. tracks_' \subseteq TrackId
  BY DEF StoreInv, StoreTypes, LoseCommit
<1>3. QED
  BY <1>1, <1>2, OrphanIsLeft DEF LoseCommit

(* A client without a snapshot under way goes, and a new one comes.        *)
LEMMA NewClientStep ==
  ASSUME StoreInv, outcome # "pending", NewClient, UNCHANGED databaseVars
  PROVE  StoreInv' /\ LogStep
<1> USE DEF StoreInv, NewClient, databaseVars
<1>1. transaction'.state = "none" /\ outcome' = "none"
  BY DEF NoTransaction
<1>2. StoreTypes'
  BY DEF StoreTypes, NoTransaction, TransactionStates, Outcomes
<1>3. OrphansAreAlone' /\ NewestIsOurs' /\ TransactionHoldsTracks' /\ CommittedOrAbsent'
  BY <1>1 DEF OrphansAreAlone, NewestIsOurs, TransactionHoldsTracks, CommittedOrAbsent
<1>4. PendingSnapshots' = PendingSnapshots
  BY <1>1 DEF PendingSnapshots
<1>5. QED
  BY <1>2, <1>3, <1>4, LogStutters

LEMMA DisconnectStep ==
  ASSUME StoreInv, Disconnect
  PROVE  StoreInv' /\ LogStep
<1>1. CASE outcome = "pending"
  BY <1>1, OrphanIsLeft DEF Disconnect, NewClient
<1>2. CASE outcome # "pending"
  <2>1. Undecided = {}
    BY <1>2 DEF StoreInv, TransactionHoldsTracks, Undecided
  <2>2. UNCHANGED databaseVars /\ NewClient
    BY <2>1 DEF Disconnect, databaseVars
  <2>3. QED
    BY <1>2, <2>2, NewClientStep
<1>3. QED
  BY <1>1, <1>2

LEMMA LoseSnapshotIdStep ==
  ASSUME StoreInv, LoseSnapshotId, UNCHANGED <<track_snapshots, orphans, clientVars>>
  PROVE  StoreInv' /\ LogStep
<1> USE DEF StoreInv, clientVars
<1>1. sequence' \in Nat /\ 0 .. sequence \subseteq 0 .. sequence' /\ 1 .. sequence \subseteq 1 .. sequence'
  BY DEF LoseSnapshotId, StoreTypes
<1>2. StoreTypes'
  <2>1. track_snapshots' \subseteq (1 .. sequence') \X TrackId
    BY <1>1 DEF StoreTypes
  <2>2. orphans' \subseteq [id : 1 .. sequence', tracks : SUBSET TrackId]
    BY <1>1 DEF StoreTypes
  <2>3. QED
    BY <1>1, <2>1, <2>2 DEF StoreTypes
<1>3. OrphansAreAlone' /\ NewestIsOurs' /\ TransactionHoldsTracks' /\ CommittedOrAbsent'
  BY DEF OrphansAreAlone, NewestIsOurs, TransactionHoldsTracks, CommittedOrAbsent
<1>4. LogStep
  <2>1. PendingSnapshots' = PendingSnapshots /\ StoredSnapshots' = StoredSnapshots
    BY DEF PendingSnapshots, Snapshot, StoredSnapshots
  <2>2. QED
    BY <2>1 DEF LoseSnapshotId, LogStep, Log!LogNext, Log!LoseNumber, Log!logVars
<1>5. QED
  BY <1>2, <1>3, <1>4

(* Rows that come under a number without any                               *)
LEMMA RowsStayTyped ==
  ASSUME StoreTypes, NEW id \in 1 .. sequence, NEW tks \in SUBSET TrackId
  PROVE  track_snapshots \cup Rows(id, tks) \subseteq (1 .. sequence) \X TrackId
<1>1. Rows(id, tks) \subseteq (1 .. sequence) \X TrackId
  BY DEF Rows
<1>2. QED
  BY <1>1 DEF StoreTypes

LEMMA ServerCommitsStep ==
  ASSUME StoreInv, ServerCommits
  PROVE  StoreInv' /\ LogStep
<1> USE DEF StoreInv
<1>1. /\ outcome = "pending" /\ transaction.state = "committing"
      /\ transaction' = [transaction EXCEPT !.state = "committed"]
      /\ track_snapshots' = track_snapshots \cup Rows(snapshotId_, tracks_)
      /\ UNCHANGED <<sequence, orphans, snapshotId_, tracks_, outcome>>
      /\ transaction.inserted = tracks_
  BY DEF ServerCommits, TransactionHoldsTracks
<1>2. /\ transaction' \in [state : TransactionStates, inserted : SUBSET TrackId]
      /\ transaction'.state = "committed" /\ transaction'.inserted = tracks_
  BY <1>1 DEF StoreTypes, TransactionStates
<1>3. /\ ~ HasRows(track_snapshots, snapshotId_)
      /\ \A o \in orphans : o.id # snapshotId_
  BY <1>1 DEF CommittedOrAbsent, OrphansAreAlone
<1>4. StoreTypes'
  <2>1. snapshotId_ \in 1 .. sequence /\ tracks_ \in SUBSET TrackId
    BY <1>1 DEF NewestIsOurs, StoreTypes
  <2>2. track_snapshots' \subseteq (1 .. sequence') \X TrackId
    BY <1>1, <2>1, RowsStayTyped
  <2>3. QED
    BY <1>1, <1>2, <2>2 DEF StoreTypes
<1>5. OrphansAreAlone'
  <2>1. \A o \in orphans : ~ HasRows(track_snapshots', o.id)
    BY <1>1, <1>3, RowsOfOthers DEF OrphansAreAlone
  <2>2. QED
    BY <1>1, <2>1 DEF OrphansAreAlone
<1>6. NewestIsOurs'
  <2>1. \A r \in Rows(snapshotId_, tracks_) : r[1] <= snapshotId_
    BY DEF Rows, StoreTypes
  <2>2. QED
    BY <1>1, <2>1 DEF NewestIsOurs
<1>7. TransactionHoldsTracks'
  BY <1>1, <1>2 DEF TransactionHoldsTracks
<1>8. CommittedOrAbsent'
  <2>1. {r \in track_snapshots' : r[1] = snapshotId_} = Rows(snapshotId_, tracks_)
    BY <1>1, <1>3, RowsOfId
  <2>2. QED
    BY <1>1, <1>2, <2>1 DEF CommittedOrAbsent
<1>9. LogStep
  <2>1. PendingSnapshots = orphans \cup {Snapshot} /\ PendingSnapshots' = orphans
    BY <1>1, <1>2 DEF PendingSnapshots
  <2>2. Snapshot \notin orphans
    BY <1>3 DEF Snapshot
  <2>3. PendingSnapshots' = PendingSnapshots \ {Snapshot} /\ Snapshot \in PendingSnapshots
    BY <2>1, <2>2
  <2>4. Snapshot = [id |-> snapshotId_, tracks |-> tracks_]
    BY DEF Snapshot
  <2>5. QED
    BY <1>1, <1>3, <2>3, <2>4, LogPublishes
<1>10. QED
  BY <1>4, <1>5, <1>6, <1>7, <1>8, <1>9

LEMMA DecideOrphanStep ==
  ASSUME StoreInv, DecideOrphan
  PROVE  StoreInv' /\ LogStep
<1> USE DEF StoreInv
<1>1. PICK o \in orphans :
        /\ orphans' = orphans \ {o}
        /\ track_snapshots' \in {track_snapshots, track_snapshots \cup Rows(o.id, o.tracks)}
        /\ UNCHANGED <<sequence, clientVars>>
  BY DEF DecideOrphan
<1>2. /\ o.id \in 1 .. sequence /\ o.tracks \in SUBSET TrackId
      /\ o = [id |-> o.id, tracks |-> o.tracks]
      /\ ~ HasRows(track_snapshots, o.id)
  BY DEF StoreTypes, OrphansAreAlone
<1>3. \A p \in orphans' : p.id # o.id
  BY <1>1 DEF OrphansAreAlone
<1>4. StoreTypes'
  <2>1. track_snapshots' \subseteq (1 .. sequence') \X TrackId
    BY <1>1, <1>2, RowsStayTyped DEF StoreTypes
  <2>2. QED
    BY <1>1, <2>1 DEF StoreTypes, clientVars
<1>5. \A id : id # o.id =>
        /\ HasRows(track_snapshots', id) <=> HasRows(track_snapshots, id)
        /\ {r \in track_snapshots' : r[1] = id} = {r \in track_snapshots : r[1] = id}
  <2>1. SUFFICES ASSUME NEW id, id # o.id
                 PROVE  /\ HasRows(track_snapshots', id) <=> HasRows(track_snapshots, id)
                        /\ {r \in track_snapshots' : r[1] = id} = {r \in track_snapshots : r[1] = id}
    OBVIOUS
  <2>2. CASE track_snapshots' = track_snapshots
    BY <2>2
  <2>3. CASE track_snapshots' = track_snapshots \cup Rows(o.id, o.tracks)
    <3> DEFINE more == track_snapshots \cup Rows(o.id, o.tracks)
    <3>1. /\ HasRows(more, id) <=> HasRows(track_snapshots, id)
          /\ {r \in more : r[1] = id} = {r \in track_snapshots : r[1] = id}
      BY <2>1, RowsOfOthers
    <3>2. track_snapshots' = more
      BY <2>3
    <3> HIDE DEF more
    <3>3. QED
      BY <3>1, <3>2
  <2>4. QED
    BY <1>1, <2>2, <2>3
<1>6. OrphansAreAlone'
  <2>1. \A p \in orphans' : ~ HasRows(track_snapshots', p.id)
    BY <1>1, <1>3, <1>5 DEF OrphansAreAlone
  <2>2. QED
    BY <1>1, <2>1 DEF OrphansAreAlone, clientVars
<1>7. NewestIsOurs'
  <2>1. \A r \in Rows(o.id, o.tracks) : r[1] = o.id
    BY DEF Rows
  <2>2. QED
    BY <1>1, <2>1 DEF NewestIsOurs, clientVars
<1>8. TransactionHoldsTracks'
  BY <1>1 DEF TransactionHoldsTracks, clientVars
<1>9. CommittedOrAbsent'
  <2>1. outcome \in {"pending", "stored", "failed"} => o.id # snapshotId_
    BY DEF OrphansAreAlone
  <2>2. transaction.state = "committed" => outcome = "pending"
    BY DEF TransactionHoldsTracks
  <2>3. QED
    BY <1>1, <1>5, <2>1, <2>2 DEF CommittedOrAbsent, clientVars
<1>10. LogStep
  <2>1. Snapshot' = Snapshot
    BY <1>1 DEF Snapshot, clientVars
  <2>2. outcome = "pending" => o # Snapshot
    BY DEF OrphansAreAlone, Snapshot
  <2>3. PendingSnapshots' = PendingSnapshots \ {o} /\ o \in PendingSnapshots
    BY <1>1, <2>1, <2>2 DEF PendingSnapshots, clientVars
  <2>4. CASE track_snapshots' = track_snapshots
    BY <1>1, <2>3, <2>4, LogDiscards
  <2>5. CASE track_snapshots' = track_snapshots \cup Rows(o.id, o.tracks)
    BY <1>1, <1>2, <2>3, <2>5, LogPublishes
  <2>6. QED
    BY <1>1, <2>4, <2>5
<1>11. QED
  BY <1>4, <1>6, <1>7, <1>8, <1>9, <1>10

-----------------------------------------------------------------------------
(* The process around the store                                            *)

(* A step that stores nothing                                              *)
Aside ==
  /\ UNCHANGED storeVars
  /\ pc # "store" /\ pc' # "store"
  /\ tracks' \subseteq TrackId

LEMMA UnchangedStore ==
  ASSUME StoreInv, UNCHANGED storeVars
  PROVE  StoreInv' /\ LogStep
<1> USE DEF storeVars, databaseVars, clientVars
<1>1. StoreInv'
  BY DEF StoreInv, StoreTypes, OrphansAreAlone, NewestIsOurs, TransactionHoldsTracks, CommittedOrAbsent
<1>2. PendingSnapshots' = PendingSnapshots
  BY DEF PendingSnapshots, Snapshot
<1>3. QED
  BY <1>1, <1>2, LogStutters

LEMMA AsideStep ==
  ASSUME StoreInv, PlaceInv, Aside
  PROVE  StoreInv' /\ PlaceInv' /\ LogStep
<1>1. UNCHANGED outcome
  BY DEF Aside, storeVars, clientVars
<1>2. QED
  BY <1>1, UnchangedStore DEF Aside, PlaceInv

LEMMA StartUpIsAside ==
  ASSUME PlaceInv, StartUp
  PROVE  Aside
<1> USE DEF PlaceInv, Aside, Throw, End
<1>1. CASE LoadSettings \/ ConnectDynDb \/ GetSensors
  BY <1>1 DEF LoadSettings, ConnectDynDb, GetSensors
<1>2. CASE ConnectStaticDb
  BY <1>2 DEF ConnectStaticDb
<1>3. CASE Construct
  BY <1>3 DEF Construct
<1>4. CASE LoadSettingsThrows \/ LoadOptionsThrows \/ ConstructThrows \/ NoSensorsThrows
  BY <1>4 DEF LoadSettingsThrows, LoadOptionsThrows, ConstructThrows, NoSensorsThrows
<1>5. QED
  BY <1>1, <1>2, <1>3, <1>4 DEF StartUp

LEMMA GetMapIsAside ==
  ASSUME PlaceInv, GetMap
  PROVE  Aside
<1> USE DEF PlaceInv, Aside, Throw, End
<1>1. CASE EnsureDBConnection
  BY <1>1 DEF EnsureDBConnection
<1>2. CASE GetStreetNodes \/ GetStreets
  BY <1>2 DEF GetStreetNodes, GetStreets
<1>3. CASE GetStreetNodesOfNull \/ EndDereferenced
  BY <1>3 DEF GetStreetNodesOfNull, EndDereferenced
<1>4. QED
  BY <1>1, <1>2, <1>3 DEF GetMap

LEMMA TickOutsideStore ==
  ASSUME PlaceInv,
         \/ VisitTimerTick \/ VisitTimerTickThrows
         \/ ComputeTracksUnrated \/ ComputeTracksRated \/ RatingThrows
         \/ ShowNothing \/ ShowState \/ ShowStateThrows
  PROVE  Aside
<1> USE DEF PlaceInv, Aside, Throw, End
<1>1. CASE VisitTimerTick
  BY <1>1 DEF VisitTimerTick
<1>2. CASE ComputeTracksUnrated
  BY <1>2 DEF ComputeTracksUnrated
<1>3. CASE ComputeTracksRated
  BY <1>3 DEF ComputeTracksRated
<1>4. CASE ShowNothing
  BY <1>4 DEF ShowNothing
<1>5. CASE ShowState
  BY <1>5 DEF ShowState
<1>6. CASE VisitTimerTickThrows \/ RatingThrows \/ ShowStateThrows
  BY <1>6 DEF VisitTimerTickThrows, RatingThrows, ShowStateThrows
<1>7. QED
  BY <1>1, <1>2, <1>3, <1>4, <1>5, <1>6

LEMMA StoreStep ==
  ASSUME StoreInv, PlaceInv, [Next]_vars
  PROVE  StoreInv' /\ PlaceInv' /\ LogStep
<1> USE DEF PlaceInv
<1>1. CASE Start
  <2>1. outcome # "pending" /\ pc' = "load"
    BY <1>1 DEF Start, Running
  <2>2. QED
    BY <1>1, <2>1, NewClientStep DEF Start, NewClient
<1>2. CASE StartUp
  BY <1>2, StartUpIsAside, AsideStep
<1>3. CASE GetMap
  BY <1>3, GetMapIsAside, AsideStep
<1>4. CASE \/ VisitTimerTick \/ VisitTimerTickThrows
           \/ ComputeTracksUnrated \/ ComputeTracksRated \/ RatingThrows
           \/ ShowNothing \/ ShowState \/ ShowStateThrows
  BY <1>4, TickOutsideStore, AsideStep
<1>5. CASE PutTracksSnapshotIntoDB
  <2>1. outcome # "pending" /\ outcome' = "pending" /\ pc' = "store"
    BY <1>5 DEF PutTracksSnapshotIntoDB, GetNewTracksSnapshot
  <2>2. QED
    BY <1>5, <2>1, GetNewTracksSnapshotStep DEF PutTracksSnapshotIntoDB
<1>6. CASE StoreTracks
  <2>1. CASE BeginTransaction \/ (\E t \in TrackId : InsertTrack(t)) \/ Commit
    <3>1. UNCHANGED outcome
      BY <2>1 DEF BeginTransaction, InsertTrack, Commit
    <3>2. QED
      BY <1>6, <2>1, <3>1, OpenTransactionStep DEF StoreTracks
  <2>2. CASE CommitReturns
    <3>1. outcome' = "stored"
      BY <2>2 DEF CommitReturns
    <3>2. QED
      BY <1>6, <2>2, <3>1, CommitReturnsStep DEF StoreTracks
  <2>3. QED
    BY <1>6, <2>1, <2>2 DEF StoreTracks
<1>7. CASE StoreTracksFails
  <2>1. StoreInv' /\ LogStep
    BY <1>7, AttemptFailsStep, LoseCommitStep DEF StoreTracksFails
  <2>2. PlaceInv'
    BY <1>7 DEF StoreTracksFails, Throw, End
  <2>3. QED
    BY <2>1, <2>2
<1>8. CASE QueryFails
  <2>1. outcome # "pending" /\ UNCHANGED outcome /\ pc' = "aborted" /\ tracks' = {}
    BY <1>8 DEF QueryFails, Throw, End, clientVars
  <2>2. CASE UNCHANGED sequence
    BY <1>8, <2>1, <2>2, AsideStep DEF QueryFails, Aside, storeVars, databaseVars
  <2>3. CASE LoseSnapshotId
    BY <1>8, <2>1, <2>3, LoseSnapshotIdStep DEF QueryFails
  <2>4. QED
    BY <1>8, <2>2, <2>3 DEF QueryFails
<1>9. CASE Stop
  BY <1>9, DisconnectStep DEF Stop, End, Disconnect, NewClient
<1>10. CASE StreetIsAdded
  BY <1>10, UnchangedStore DEF StreetIsAdded, storeVars, clientVars
<1>11. CASE Server
  <2>1. UNCHANGED outcome
    BY <1>11 DEF Server, ServerCommits, DecideOrphan, clientVars
  <2>2. QED
    BY <1>11, <2>1, ServerCommitsStep, DecideOrphanStep DEF Server
<1>12. CASE UNCHANGED vars
  BY <1>12, UnchangedStore DEF vars, storeVars, clientVars
<1>13. QED
  BY <1>1, <1>2, <1>3, <1>4, <1>5, <1>6, <1>7, <1>8, <1>9, <1>10, <1>11, <1>12 DEF Next, Tick

(* The storage invariant, for any number of attempts, tracks, restarts.    *)
LEMMA StoreInvariant == Spec => [](StoreInv /\ PlaceInv)
<1>1. Init => StoreInv /\ PlaceInv
  BY StoreInvInit DEF Init, TracksSnapshotInit, PlaceInv
<1>2. StoreInv /\ PlaceInv /\ [Next]_vars => StoreInv' /\ PlaceInv'
  BY StoreStep
<1>3. QED
  BY <1>1, <1>2, PTL DEF Spec

(* What the program believes of a snapshot is what the database holds.     *)
THEOREM OutcomesAreKnown == Spec => []OutcomeIsKnown
<1>1. StoreInv => OutcomeIsKnown
  <2>1. SUFFICES ASSUME StoreInv PROVE OutcomeIsKnown
    OBVIOUS
  <2>2. outcome = "failed" => {r \in track_snapshots : r[1] = snapshotId_} = {} /\ Snapshot \notin orphans
    BY <2>1 DEF StoreInv, OrphansAreAlone, TransactionHoldsTracks, CommittedOrAbsent, HasRows, Snapshot
  <2>3. outcome = "stored" => /\ {r \in track_snapshots : r[1] = snapshotId_} = Rows(snapshotId_, tracks_)
                              /\ \A r \in track_snapshots : r[1] <= snapshotId_
    BY <2>1 DEF StoreInv, NewestIsOurs, CommittedOrAbsent
  <2>4. QED
    BY <2>2, <2>3 DEF OutcomeIsKnown
<1>2. QED
  BY <1>1, StoreInvariant, PTL

(* Every behaviour of the process is one of the log of snapshots.          *)
THEOREM SnapshotsAreALog == Spec => ImplementsSnapshotLog
<1>1. Init => Log!LogInit
  BY DEF Init, TracksSnapshotInit, Log!LogInit, StoredSnapshots, PendingSnapshots
<1>2. StoreInv /\ PlaceInv /\ [Next]_vars => [Log!LogNext]_Log!logVars
  BY StoreStep DEF LogStep
<1>3. QED
  BY <1>1, <1>2, StoreInvariant, PTL DEF Spec, ImplementsSnapshotLog, Log!LogSpec

-----------------------------------------------------------------------------
(* Settings that were looked up once                                       *)

(* An option found once is found again, and WorkMode was looked up before  *)
(* any report was rated or track drawn.                                    *)
LookedUpInv ==
  /\ rated \/ drawn => pc \in {"idle", "compute", "number", "store", "show"}
  /\ pc \in {"compute", "number", "store", "show"} => IsWorkModeKnown
  /\ rated \/ drawn => IsWorkModeKnown
  /\ rated => IsInConfiguration(MaximumPositionRate)
  /\ drawn => IsInConfiguration(VarianceFactor)

LEMMA SameMapSameOptions ==
  ASSUME UNCHANGED map_
  PROVE  /\ IsWorkModeKnown' <=> IsWorkModeKnown
         /\ IsInConfiguration(MaximumPositionRate)' <=> IsInConfiguration(MaximumPositionRate)
         /\ IsInConfiguration(VarianceFactor)' <=> IsInConfiguration(VarianceFactor)
BY DEF IsWorkModeKnown, IsInConfiguration, Value, WorkMode, MaximumPositionRate, VarianceFactor, WorkModes, Word

(* A step of a healthy process between two looked-up options               *)
LEMMA LookedUpIsKept ==
  ASSUME LookedUpInv, UNCHANGED <<map_, rated, drawn>>, pc' # "aborted",
         rated \/ drawn => pc' \in {"idle", "compute", "number", "store", "show"},
         pc' \in {"compute", "number", "store", "show"} => IsWorkModeKnown
  PROVE  LookedUpInv'
BY SameMapSameOptions DEF LookedUpInv

(* What is not a tick happens before any rating and any drawing.           *)
EarlyPlaces == {"off", "load", "connect", "connectStatic", "construct", "sensors",
                "getMap", "getStreetNodes", "nodes", "streets", "aborted"}

LatePlaces == {"compute", "number", "store", "show"}

LEMMA ThrowForgets ==
  ASSUME Throw
  PROVE  LookedUpInv'
BY DEF Throw, End, LookedUpInv

LEMMA EarlySteps ==
  ASSUME Start \/ StartUp \/ GetMap
  PROVE  /\ pc \in EarlyPlaces
         /\ \/ Throw
            \/ UNCHANGED <<rated, drawn>> /\ pc' \notin LatePlaces /\ pc' # "aborted"
<1> USE DEF EarlyPlaces, LatePlaces
<1>1. CASE Start
  BY <1>1 DEF Start, Running
<1>2. CASE LoadSettings \/ ConnectDynDb \/ GetSensors \/ ConnectStaticDb
  BY <1>2 DEF LoadSettings, ConnectDynDb, GetSensors, ConnectStaticDb, ghostVars
<1>3. CASE Construct
  BY <1>3 DEF Construct, ghostVars
<1>4. CASE LoadSettingsThrows \/ LoadOptionsThrows \/ ConstructThrows \/ NoSensorsThrows
  BY <1>4 DEF LoadSettingsThrows, LoadOptionsThrows, ConstructThrows, NoSensorsThrows
<1>5. CASE EnsureDBConnection
  BY <1>5 DEF EnsureDBConnection
<1>6. CASE GetStreetNodes \/ GetStreets
  BY <1>6 DEF GetStreetNodes, GetStreets, ghostVars
<1>7. CASE GetStreetNodesOfNull \/ EndDereferenced
  BY <1>7 DEF GetStreetNodesOfNull, EndDereferenced
<1>8. QED
  BY <1>1, <1>2, <1>3, <1>4, <1>5, <1>6, <1>7 DEF StartUp, GetMap

LEMMA LookedUpStep ==
  ASSUME LookedUpInv, [Next]_vars
  PROVE  LookedUpInv' /\ (Running /\ rated /\ drawn /\ pc' = "aborted" => failed')
<1>1. CASE Start \/ StartUp \/ GetMap
  <2>1. ~ rated /\ ~ drawn
    BY <1>1, EarlySteps DEF EarlyPlaces, LookedUpInv
  <2>2. LookedUpInv'
    BY <1>1, <2>1, EarlySteps, ThrowForgets DEF LookedUpInv, LatePlaces
  <2>3. QED
    BY <2>1, <2>2
<1>2. CASE VisitTimerTick
  <2>1. LookedUpInv'
    BY <1>2, SameMapSameOptions DEF VisitTimerTick, LookUp, LookedUpInv
  <2>2. QED
    BY <1>2, <2>1 DEF VisitTimerTick
<1>3. CASE VisitTimerTickThrows
  <2>1. ~ IsWorkModeKnown /\ Throw
    BY <1>3 DEF VisitTimerTickThrows
  <2>2. QED
    BY <2>1, ThrowForgets DEF LookedUpInv
<1>4. CASE ComputeTracksUnrated
  <2>1. UNCHANGED <<map_, rated, drawn>> /\ pc = "compute" /\ pc' = "number"
    BY <1>4 DEF ComputeTracksUnrated, settingsVars, ghostVars
  <2>2. QED
    BY <2>1, LookedUpIsKept DEF LookedUpInv
<1>5. CASE ComputeTracksRated
  <2>1. /\ pc = "compute" /\ pc' = "number" /\ UNCHANGED <<map_, drawn>>
        /\ IsInConfiguration(MaximumPositionRate)
    BY <1>5 DEF ComputeTracksRated, LookUp
  <2>2. QED
    BY <2>1, SameMapSameOptions DEF LookedUpInv
<1>6. CASE RatingThrows
  <2>1. ~ rated
    BY <1>6 DEF RatingThrows, LookedUpInv
  <2>2. QED
    BY <1>6, <2>1, ThrowForgets DEF RatingThrows
<1>7. CASE PutTracksSnapshotIntoDB \/ StoreTracks
  <2>1. /\ UNCHANGED <<map_, rated, drawn>>
        /\ pc \in {"number", "store"} /\ pc' \in {"store", "show"}
    BY <1>7 DEF PutTracksSnapshotIntoDB, StoreTracks, settingsVars, ghostVars
  <2>2. QED
    BY <2>1, LookedUpIsKept DEF LookedUpInv
<1>8. CASE StoreTracksFails
  <2>1. failed'
    BY <1>8 DEF StoreTracksFails
  <2>2. CASE UNCHANGED <<settingsVars, pc, rated, drawn>> /\ pc = "store"
    BY <2>1, <2>2, LookedUpIsKept DEF LookedUpInv, settingsVars
  <2>3. CASE Throw
    BY <2>1, <2>3, ThrowForgets
  <2>4. QED
    BY <1>8, <2>2, <2>3 DEF StoreTracksFails
<1>9. CASE ShowNothing
  <2>1. UNCHANGED <<map_, rated, drawn>> /\ pc = "show" /\ pc' = "idle"
    BY <1>9 DEF ShowNothing, settingsVars, ghostVars
  <2>2. QED
    BY <2>1, LookedUpIsKept DEF LookedUpInv
<1>10. CASE ShowState
  <2>1. /\ pc = "show" /\ pc' = "idle" /\ UNCHANGED <<map_, rated>>
        /\ IsInConfiguration(VarianceFactor)
    BY <1>10 DEF ShowState, LookUp
  <2>2. QED
    BY <2>1, SameMapSameOptions DEF LookedUpInv
<1>11. CASE ShowStateThrows
  <2>1. ~ drawn
    BY <1>11 DEF ShowStateThrows, LookedUpInv
  <2>2. QED
    BY <1>11, <2>1, ThrowForgets DEF ShowStateThrows
<1>12. CASE QueryFails
  BY <1>12, ThrowForgets DEF QueryFails
<1>13. CASE Stop
  <2>1. pc' = "off" /\ rated' = FALSE /\ drawn' = FALSE
    BY <1>13 DEF Stop, End
  <2>2. QED
    BY <2>1 DEF LookedUpInv
<1>14. CASE StreetIsAdded \/ Server \/ UNCHANGED vars
  <2>1. UNCHANGED <<map_, rated, drawn, pc>>
    BY <1>14 DEF StreetIsAdded, Server, vars, settingsVars, ghostVars
  <2>2. LookedUpInv'
    BY <2>1, SameMapSameOptions DEF LookedUpInv
  <2>3. QED
    BY <2>1, <2>2 DEF Running
<1>15. QED
  BY <1>1, <1>2, <1>3, <1>4, <1>5, <1>6, <1>7, <1>8, <1>9, <1>10, <1>11, <1>12, <1>13, <1>14
     DEF Next, Tick

(* A process that has rated a report and drawn a track is past every       *)
(* surprise its settings may hold.                                         *)
THEOREM SettingsSurpriseOnce == Spec => OnlyTheDatabaseStopsIt
<1>1. Init => LookedUpInv
  BY DEF Init, LookedUpInv
<1>2. LookedUpInv /\ [Next]_vars => LookedUpInv'
  BY LookedUpStep
<1>3. LookedUpInv /\ [Next]_vars =>
        [Running /\ rated /\ drawn /\ pc' = "aborted" => failed']_vars
  BY LookedUpStep
<1>4. QED
  BY <1>1, <1>2, <1>3, PTL DEF Spec, OnlyTheDatabaseStopsIt

-----------------------------------------------------------------------------
(* What the ConfigurationManager holds of a file                           *)

EntryOf(options, o) ==
  [module |-> o[1],
   keys |-> [k \in {p[2] : p \in {q \in DOMAIN options : q[1] = o[1]}} |-> options[<<o[1], k>>]]]

(* The entries are gathered, so there is one for each module ...           *)
LEMMA OneEntryPerModule ==
  ASSUME NEW options
  PROVE  /\ ~ ModuleAlreadyExists(Entries(options))
         /\ Entries(options) = {EntryOf(options, o) : o \in DOMAIN options}
<1>1. Entries(options) = {EntryOf(options, o) : o \in DOMAIN options}
  BY DEF Entries, EntryOf
<1>2. ASSUME NEW e \in Entries(options), NEW f \in Entries(options), e.module = f.module
      PROVE  e = f
  <2>1. PICK o \in DOMAIN options : e = EntryOf(options, o)
    BY <1>1
  <2>2. PICK p \in DOMAIN options : f = EntryOf(options, p)
    BY <1>1
  <2>3. o[1] = p[1]
    BY <1>2, <2>1, <2>2 DEF EntryOf
  <2>4. QED
    BY <2>1, <2>2, <2>3 DEF EntryOf
<1>3. QED
  BY <1>1, <1>2 DEF ModuleAlreadyExists

(* ... and an option that is written is found, as it is written.           *)
LEMMA WrittenIsFound ==
  ASSUME NEW options, NEW o \in DOMAIN options, o = <<o[1], o[2]>>,
         NEW map, map = Configuration(Entries(options))
  PROVE  o[1] \in DOMAIN map /\ o[2] \in DOMAIN map[o[1]] /\ map[o[1]][o[2]] = options[o]
<1> DEFINE entry == EntryOf(options, o)
           entries == Entries(options)
<1>1. entry \in entries /\ entry.module = o[1]
  BY OneEntryPerModule DEF EntryOf
<1>2. \A e \in entries : e.module = o[1] => e = entry
  BY <1>1, OneEntryPerModule DEF ModuleAlreadyExists
<1>3. (CHOOSE e \in entries : e.module = o[1]) = entry
  BY <1>1, <1>2
<1>4. o[1] \in DOMAIN map /\ map[o[1]] = entry.keys
  <2>1. o[1] \in {e.module : e \in entries}
    BY <1>1
  <2>2. QED
    BY <1>3, <2>1 DEF Configuration
<1>5. o[2] \in DOMAIN entry.keys /\ entry.keys[o[2]] = options[o]
  <2>1. o[2] \in {p[2] : p \in {q \in DOMAIN options : q[1] = o[1]}}
    OBVIOUS
  <2>2. QED
    BY <2>1 DEF EntryOf
<1>6. QED
  BY <1>4, <1>5

LEMMA OptionsArePairs == \A o \in Option : o = <<o[1], o[2]>>
BY DEF Option, PacketSize, TimeDelta, InitializationThreshold, Threshold, TTL,
       MaximumPositionRate, WorkMode, VarianceFactor

LEMMA ParametersAreOptions ==
  /\ Len(ParameterOrder) = 5
  /\ \A n \in 1 .. 5 : ParameterOrder[n] \in Option
<1>1. Len(ParameterOrder) = 5
  BY DEF ParameterOrder
<1>2. \A n \in 1 .. 5 : n = 1 \/ n = 2 \/ n = 3 \/ n = 4 \/ n = 5
  OBVIOUS
<1>3. /\ ParameterOrder[1] \in Option /\ ParameterOrder[2] \in Option /\ ParameterOrder[3] \in Option
      /\ ParameterOrder[4] \in Option /\ ParameterOrder[5] \in Option
  BY DEF ParameterOrder, Option
<1>4. QED
  BY <1>1, <1>2, <1>3

(* A sequence, of whatever it holds                                        *)
IsSequence(s) == s \in Seq({s[i] : i \in DOMAIN s})

LEMMA AppendIsSequence ==
  ASSUME NEW s, IsSequence(s), NEW x
  PROVE  IsSequence(Append(s, x)) /\ Len(Append(s, x)) = Len(s) + 1
<1> DEFINE S == {s[i] : i \in DOMAIN s}
           t == Append(s, x)
<1>1. s \in Seq(S \cup {x}) /\ Len(s) \in Nat /\ s \in Seq(S)
  BY DEF IsSequence
<1>2. t \in Seq(S \cup {x}) /\ Len(t) = Len(s) + 1
  BY <1>1
<1> HIDE DEF t
<1>3. DOMAIN t = 1 .. Len(t) /\ Len(t) \in Nat
  BY <1>2
<1>4. t \in [1 .. Len(t) -> {t[i] : i \in DOMAIN t}]
  BY <1>2, <1>3
<1>5. t \in Seq({t[i] : i \in DOMAIN t})
  BY <1>3, <1>4
<1>6. QED
  BY <1>2, <1>5 DEF IsSequence

-----------------------------------------------------------------------------
(* The process with a complete set of settings                             *)

IsLoaded == \A o \in Option : IsInConfiguration(o) /\ Value(o) = site.options[o]

SettingsInv ==
  /\ IsComplete(site) /\ pc \notin {"off", "aborted", "load"} => IsLoaded
  /\ pc \in {"off", "aborted", "load", "connect", "connectStatic"} => parameters = <<>>
  /\ IsSequence(parameters)
  /\ pc = "construct" => Len(parameters) < 5
  /\ pc = "sensors" => Len(parameters) = 2

(* What getMap keeps is closed, unless the tables changed under it.        *)
ClosedMapInv ==
  /\ ~ Running => staticMap_ = NoMap
  /\ ~ raced /\ pc = "streets" => vertexes = Ends(streets)
  /\ ~ raced /\ staticMap_ # NoMap => Ends(staticMap_.edges) \subseteq staticMap_.vertexes

HealthyInv ==
  /\ SettingsInv /\ ClosedMapInv
  /\ IsComplete(site) /\ ~ failed /\ ~ raced => pc # "aborted"

LEMMA EmptyIsSequence == IsSequence(<<>>)
<1>1. \A S : <<>> \in Seq(S)
  OBVIOUS
<1>2. QED
  BY <1>1 DEF IsSequence

LEMMA LoadedAfterLoad ==
  ASSUME IsComplete(site), Load, UNCHANGED site
  PROVE  IsLoaded'
<1>1. DOMAIN site.options = Option
  BY DEF IsComplete
<1>2. SUFFICES ASSUME NEW o \in Option
               PROVE  (IsInConfiguration(o) /\ Value(o) = site.options[o])'
  BY DEF IsLoaded
<1>3. map_' = Configuration(Entries(site'.options)) /\ o \in DOMAIN site'.options
  BY <1>1, <1>2 DEF Load
<1>4. QED
  BY <1>2, <1>3, OptionsArePairs, WrittenIsFound DEF IsInConfiguration, Value

LEMMA EndKeepsInv ==
  ASSUME NEW place \in {"off", "aborted"}, End(place)
  PROVE  SettingsInv' /\ ClosedMapInv'
<1>1. SettingsInv'
  BY EmptyIsSequence DEF End, ClearSettings, SettingsInv
<1>2. ClosedMapInv'
  BY DEF End, ClearStaticMap, ClosedMapInv
<1>3. QED
  BY <1>1, <1>2

LEMMA ExcusedThrow ==
  ASSUME Throw, failed' \/ raced \/ ~ IsComplete(site)
  PROVE  HealthyInv'
<1>1. SettingsInv' /\ ClosedMapInv'
  BY EndKeepsInv DEF Throw
<1>2. UNCHANGED <<site, raced>>
  BY DEF Throw, End
<1>3. QED
  BY <1>1, <1>2 DEF HealthyInv

(* Steps after the constructors leave the settings alone.                  *)
LEMMA SettingsKept ==
  ASSUME SettingsInv, UNCHANGED settingsVars, Running, pc # "load",
         pc' \in {"construct", "sensors"} => pc' = pc,
         pc' \notin {"off", "aborted", "load", "connect", "connectStatic"}
  PROVE  SettingsInv'
<1>1. IsLoaded' <=> IsLoaded
  BY DEF IsLoaded, IsInConfiguration, Value, settingsVars
<1>2. QED
  BY <1>1 DEF SettingsInv, Running, settingsVars

LEMMA MapKept ==
  ASSUME ClosedMapInv, UNCHANGED <<raced, staticMap_>>, Running, pc' \notin {"streets", "off", "aborted"}
  PROVE  ClosedMapInv'
BY DEF ClosedMapInv, Running

LEMMA HealthyStart ==
  ASSUME HealthyInv, Start
  PROVE  HealthyInv'
<1>1. SettingsInv'
  BY DEF HealthyInv, SettingsInv, Start, Running
<1>2. ClosedMapInv'
  BY DEF HealthyInv, ClosedMapInv, Start, mapVars, Running
<1>3. QED
  BY <1>1, <1>2 DEF HealthyInv, Start

LEMMA HealthyStartUp ==
  ASSUME HealthyInv, StartUp
  PROVE  HealthyInv'
<1> USE DEF HealthyInv
<1>1. CASE LoadSettings
  <2>1. IsComplete(site) => IsLoaded'
    BY <1>1, LoadedAfterLoad DEF LoadSettings
  <2>2. SettingsInv'
    BY <1>1, <2>1 DEF LoadSettings, SettingsInv
  <2>3. ClosedMapInv'
    BY <1>1, MapKept DEF LoadSettings, mapVars, ghostVars, Running
  <2>4. QED
    BY <1>1, <2>2, <2>3 DEF LoadSettings
<1>2. CASE ConnectDynDb \/ ConnectStaticDb \/ GetSensors
  <2>1. /\ UNCHANGED settingsVars
        /\ \/ pc = "connect" /\ pc' = "connectStatic"
           \/ pc = "connectStatic" /\ pc' = "construct"
           \/ pc = "sensors" /\ pc' = "construct"
    BY <1>2 DEF ConnectDynDb, ConnectStaticDb, GetSensors
  <2>2. IsLoaded' <=> IsLoaded
    BY <2>1 DEF IsLoaded, IsInConfiguration, Value, settingsVars
  <2>3. SettingsInv'
    BY <2>1, <2>2 DEF SettingsInv, settingsVars
  <2>4. UNCHANGED <<raced, staticMap_>>
    BY <1>2 DEF ConnectDynDb, ConnectStaticDb, GetSensors, mapVars, ghostVars, Connect, ConnectFails
  <2>5. ClosedMapInv'
    BY <2>1, <2>4, MapKept DEF Running
  <2>6. QED
    BY <2>1, <2>3, <2>5
<1>3. CASE Construct
  <2>1. /\ UNCHANGED <<site, map_>>
        /\ \E x : parameters' = Append(parameters, x)
        /\ pc = "construct"
    BY <1>3 DEF Construct, ReadParameter, LookUp
  <2>2. IsSequence(parameters') /\ Len(parameters') = Len(parameters) + 1
    BY <2>1, AppendIsSequence DEF SettingsInv
  <2>3. Len(parameters) \in Nat /\ Len(parameters) < 5
    BY <2>1 DEF SettingsInv, IsSequence
  <2>4. /\ pc' \in {"sensors", "construct", "getMap"}
        /\ pc' = "sensors" => Len(parameters') = 2
        /\ pc' = "construct" => Len(parameters') # 5
    BY <1>3, ParametersAreOptions DEF Construct
  <2>5. IsLoaded' <=> IsLoaded
    BY <2>1 DEF IsLoaded, IsInConfiguration, Value
  <2>6. SettingsInv'
    BY <2>1, <2>2, <2>3, <2>4, <2>5 DEF SettingsInv
  <2>7. UNCHANGED <<raced, staticMap_>>
    BY <1>3 DEF Construct, mapVars, ghostVars
  <2>8. ClosedMapInv'
    BY <2>1, <2>4, <2>7, MapKept DEF Running
  <2>9. QED
    BY <2>4, <2>6, <2>8
<1>4. CASE LoadSettingsThrows
  <2>1. ~ IsComplete(site)
    BY <1>4, OneEntryPerModule DEF LoadSettingsThrows, CanBeLoaded, IsComplete
  <2>2. QED
    BY <1>4, <2>1, ExcusedThrow DEF LoadSettingsThrows
<1>5. CASE LoadOptionsThrows \/ NoSensorsThrows
  BY <1>5, ExcusedThrow DEF LoadOptionsThrows, NoSensorsThrows, IsComplete
<1>6. CASE ConstructThrows
  <2>1. Len(parameters) + 1 \in 1 .. 5
    BY <1>6 DEF ConstructThrows, SettingsInv, IsSequence
  <2>2. ~ IsLoaded
    BY <1>6, <2>1, ParametersAreOptions DEF ConstructThrows, IsLoaded
  <2>3. ~ IsComplete(site)
    BY <1>6, <2>2 DEF ConstructThrows, SettingsInv
  <2>4. QED
    BY <1>6, <2>3, ExcusedThrow DEF ConstructThrows
<1>7. QED
  BY <1>1, <1>2, <1>3, <1>4, <1>5, <1>6 DEF StartUp

LEMMA HealthyGetMap ==
  ASSUME HealthyInv, GetMap
  PROVE  HealthyInv'
<1> USE DEF HealthyInv
<1>1. CASE EnsureDBConnection
  <2>1. /\ UNCHANGED <<settingsVars, raced, staticMap_>>
        /\ pc \in {"getMap", "getStreetNodes"} /\ pc' \in {"getStreetNodes", "nodes"}
    BY <1>1 DEF EnsureDBConnection, Connect, ConnectFails, mapVars
  <2>2. SettingsInv' /\ ClosedMapInv'
    BY <2>1, SettingsKept, MapKept DEF Running
  <2>3. QED
    BY <2>1, <2>2
<1>2. CASE GetStreetNodes
  <2>1. /\ UNCHANGED <<settingsVars, raced, staticMap_, streets>>
        /\ pc = "nodes" /\ pc' = "streets" /\ vertexes' = Ends(streets)
    BY <1>2 DEF GetStreetNodes, ReadNodes, ghostVars
  <2>2. SettingsInv'
    BY <2>1, SettingsKept DEF Running
  <2>3. ClosedMapInv'
    BY <2>1 DEF ClosedMapInv, Running, Ends
  <2>4. QED
    BY <2>1, <2>2, <2>3
<1>3. CASE GetStreets
  <2>1. /\ UNCHANGED <<settingsVars, raced>> /\ pc = "streets" /\ pc' = "idle"
        /\ staticMap_' = [vertexes |-> vertexes, edges |-> streets]
    BY <1>3 DEF GetStreets, ReadStreets, ghostVars
  <2>2. SettingsInv'
    BY <2>1, SettingsKept DEF Running
  <2>3. ClosedMapInv'
    BY <2>1 DEF ClosedMapInv, Running
  <2>4. QED
    BY <2>1, <2>2, <2>3
<1>4. CASE GetStreetNodesOfNull
  BY <1>4, ExcusedThrow DEF GetStreetNodesOfNull
<1>5. CASE EndDereferenced
  <2>1. raced
    BY <1>5 DEF EndDereferenced, IsDangling, ClosedMapInv
  <2>2. QED
    BY <1>5, <2>1, ExcusedThrow DEF EndDereferenced
<1>6. QED
  BY <1>1, <1>2, <1>3, <1>4, <1>5 DEF GetMap

LEMMA HealthyTick ==
  ASSUME HealthyInv, VisitTimerTick \/ VisitTimerTickThrows \/ Tick
  PROVE  HealthyInv'
<1> USE DEF HealthyInv
<1>1. CASE \/ VisitTimerTick \/ ComputeTracksUnrated \/ ComputeTracksRated
           \/ PutTracksSnapshotIntoDB \/ StoreTracks \/ ShowNothing \/ ShowState
  <2>1. /\ UNCHANGED <<settingsVars, raced, staticMap_>>
        /\ pc \in {"idle", "compute", "number", "store", "show"}
        /\ pc' \in {"idle", "compute", "number", "store", "show"}
    BY <1>1 DEF VisitTimerTick, ComputeTracksUnrated, ComputeTracksRated, PutTracksSnapshotIntoDB,
                StoreTracks, ShowNothing, ShowState, LookUp, settingsVars, mapVars, ghostVars
  <2>2. SettingsInv' /\ ClosedMapInv'
    BY <2>1, SettingsKept, MapKept DEF Running
  <2>3. QED
    BY <2>1, <2>2
<1>2. CASE VisitTimerTickThrows
  <2>1. WorkMode \in Option
    BY DEF Option
  <2>2. ~ IsComplete(site)
    BY <1>2, <2>1 DEF VisitTimerTickThrows, SettingsInv, IsLoaded, IsWorkModeKnown, IsComplete
  <2>3. QED
    BY <1>2, <2>2, ExcusedThrow DEF VisitTimerTickThrows
<1>3. CASE RatingThrows \/ ShowStateThrows
  <2>1. MaximumPositionRate \in Option /\ VarianceFactor \in Option
    BY DEF Option
  <2>2. ~ IsComplete(site)
    BY <1>3, <2>1 DEF RatingThrows, ShowStateThrows, SettingsInv, IsLoaded
  <2>3. QED
    BY <1>3, <2>2, ExcusedThrow DEF RatingThrows, ShowStateThrows
<1>4. CASE StoreTracksFails
  <2>1. CASE Throw
    BY <1>4, <2>1, ExcusedThrow DEF StoreTracksFails
  <2>2. CASE UNCHANGED <<settingsVars, mapVars, pc, tracks, rated, drawn, raced>>
    <3>1. UNCHANGED staticMap_ /\ pc = "store"
      BY <1>4, <2>2 DEF StoreTracksFails, mapVars
    <3>2. SettingsInv' /\ ClosedMapInv'
      BY <2>2, <3>1, SettingsKept, MapKept DEF Running
    <3>3. QED
      BY <2>2, <3>1, <3>2
  <2>3. QED
    BY <1>4, <2>1, <2>2 DEF StoreTracksFails
<1>5. QED
  BY <1>1, <1>2, <1>3, <1>4 DEF Tick

LEMMA HealthyStep ==
  ASSUME HealthyInv, [Next]_vars
  PROVE  HealthyInv'
<1>1. CASE Start \/ StartUp \/ GetMap \/ VisitTimerTick \/ VisitTimerTickThrows \/ Tick
  BY <1>1, HealthyStart, HealthyStartUp, HealthyGetMap, HealthyTick
<1>2. CASE QueryFails
  BY <1>2, ExcusedThrow DEF QueryFails
<1>3. CASE Stop
  <2>1. SettingsInv' /\ ClosedMapInv'
    BY <1>3, EndKeepsInv DEF Stop
  <2>2. QED
    BY <1>3, <2>1 DEF Stop, End, HealthyInv
<1>4. CASE StreetIsAdded
  <2>1. UNCHANGED <<site, map_, parameters, pc, failed, vertexes, staticMap_>>
    BY <1>4 DEF StreetIsAdded, AddStreet, settingsVars
  <2>2. raced' = (raced \/ pc = "streets")
    BY <1>4 DEF StreetIsAdded
  <2>3. SettingsInv'
    BY <2>1 DEF HealthyInv, SettingsInv, IsLoaded, IsInConfiguration, Value
  <2>4. ClosedMapInv'
    BY <2>1, <2>2 DEF HealthyInv, ClosedMapInv, Running
  <2>5. QED
    BY <2>1, <2>2, <2>3, <2>4 DEF HealthyInv
<1>5. CASE Server \/ UNCHANGED vars
  <2>1. UNCHANGED <<site, map_, parameters, pc, failed, raced, streets, vertexes, staticMap_>>
    BY <1>5 DEF Server, vars, settingsVars, mapVars, ghostVars
  <2>2. SettingsInv' /\ ClosedMapInv'
    BY <2>1 DEF HealthyInv, SettingsInv, IsLoaded, IsInConfiguration, Value, ClosedMapInv, Running, Ends
  <2>3. QED
    BY <2>1, <2>2 DEF HealthyInv
<1>6. QED
  BY <1>1, <1>2, <1>3, <1>4, <1>5 DEF Next

LEMMA InitIsHealthy ==
  ASSUME Init
  PROVE  HealthyInv
<1>1. SettingsInv
  BY EmptyIsSequence DEF Init, SettingsInit, SettingsInv
<1>2. ClosedMapInv
  BY DEF Init, StaticMapInit, Running, ClosedMapInv
<1>3. QED
  BY <1>1, <1>2 DEF Init, HealthyInv

(* With a complete set of settings only a failing database or a town that  *)
(* is rebuilt meanwhile ends the process, and the map it keeps is closed.  *)
THEOREM CompleteSettingsSuffice == Spec => []HealthyProcessKeepsRunning
<1>1. Init => HealthyInv
  BY InitIsHealthy
<1>2. HealthyInv /\ [Next]_vars => HealthyInv'
  BY HealthyStep
<1>3. HealthyInv => HealthyProcessKeepsRunning
  BY DEF HealthyInv, ClosedMapInv, HealthyProcessKeepsRunning
<1>4. QED
  BY <1>1, <1>2, <1>3, PTL DEF Spec

-----------------------------------------------------------------------------
(* The rates of reports, for any distance and maximum rate                 *)

(* The mean of rates is not below 0.                                       *)
LEMMA NonNegativeIsChosen ==
  ASSUME NEW n \in Nat, NEW rates, Len(rates) = n, rates = <<>> <=> n = 0,
         \A k \in 1 .. n : rates[k] \in NonNegative
  PROVE  IsChosen(rates)
<1>1. OverallRate(rates) \in NonNegative
  <2>1. CASE rates = <<>>
    BY <2>1, SmallNumbers DEF OverallRate, NonNegative, Fraction
  <2>2. CASE rates # <<>>
    <3>1. PICK s \in NonNegative : s = SumOf(rates)
      BY SumIsNonNegative
    <3>2. PICK c \in Fraction : c = Number(n, 1)
      BY NumberIsFraction
    <3>3. c.num > 0
      <4>1. Zero \in Fraction /\ Zero.num = 0 /\ Zero.den = 1
        BY SmallNumbers DEF Fraction
      <4>2. Less(Zero, c) <=> Zero.num * 1 < n * Zero.den
        BY <3>2, <4>1, NumberOrder
      <4>3. n > 0
        BY <2>2
      <4>4. c.num \in Int /\ c.den \in Nat \ {0}
        BY DEF Fraction
      <4>5. QED
        BY <4>1, <4>2, <4>3, <4>4 DEF Less
    <3>4. /\ s.num \in Nat /\ s.den \in Nat \ {0}
          /\ c.num \in Nat \ {0} /\ c.den \in Nat \ {0}
      BY <3>3 DEF NonNegative, Fraction
    <3>5. \A a \in Nat : \A b, d, e \in Nat \ {0} : a * b \in Nat /\ d * e \in Nat \ {0}
      OBVIOUS
    <3>6. s.num * c.den \in Nat /\ c.num * s.den \in Nat \ {0} /\ ~ (c.num < 0)
      BY <3>4, <3>5
    <3>7. Over(s, c) = Number(s.num * c.den, c.num * s.den)
      BY <3>6 DEF Over
    <3>8. Over(s, c) \in NonNegative
      BY <3>6, <3>7, NumberIsFraction DEF NonNegative
    <3>9. QED
      BY <2>2, <3>1, <3>2, <3>8 DEF OverallRate
  <2>3. QED
    BY <2>1, <2>2
<1>2. Number(-1, 1) # NaN /\ OverallRate(rates) # NaN
  BY <1>1, SmallNumbers, NaNAssumption DEF NonNegative, Fraction
<1>3. PICK x \in NonNegative : x = OverallRate(rates)
  BY <1>1
<1>4. x.num \in Nat /\ x.den \in Nat \ {0}
  BY DEF NonNegative, Fraction
<1>5. Less(Number(-1, 1), x)
  BY <1>4, SmallNumbers DEF Less
<1>6. QED
  BY <1>2, <1>3, <1>5 DEF IsChosen, Greater

(* The position result is not above the maximum, unless it is the maximum. *)
LEMMA PositionProperties ==
  ASSUME NEW d \in Nat, NEW M \in Fraction
  PROVE  /\ PositionResult(d, M) \in Fraction
         /\ \/ PositionResult(d, M) = M
            \/ /\ d > 0 /\ PositionResult(d, M) = Number(1, d) /\ AtMost(Number(1, d), M)
         /\ d = 0 => PositionResult(d, M) = M
         /\ d > 0 /\ PositionResult(d, M) = M => AtMost(M, Number(1, d))
<1>1. CASE d = 0
  BY <1>1 DEF PositionResult
<1>2. CASE d # 0
  <2>1. PICK x \in Fraction : x = Number(1, d)
    BY <1>2, NumberIsFraction
  <2>2. x # NaN /\ M # NaN
    BY NaNAssumption
  <2>3. /\ x.num \in Int /\ x.den \in Nat \ {0} /\ M.num \in Int /\ M.den \in Nat \ {0}
    BY DEF Fraction
  <2>4. x.num * M.den \in Int /\ M.num * x.den \in Int
    BY <2>3
  <2>5. Less(M, x) <=> ~ AtMost(x, M)
    BY <2>4 DEF Less, AtMost
  <2>6. Greater(x, M) <=> ~ AtMost(x, M)
    BY <2>2, <2>5 DEF Greater
  <2>7. AtMost(M, x) \/ AtMost(x, M)
    BY <2>4 DEF AtMost
  <2>8. d > 0 /\ PositionResult(d, M) = IF ~ AtMost(x, M) THEN M ELSE x
    BY <1>2, <2>1, <2>6 DEF PositionResult
  <2>9. M = x => AtMost(M, x)
    BY <2>3 DEF AtMost
  <2>10. QED
    BY <2>1, <2>7, <2>8, <2>9
<1>3. QED
  BY <1>1, <1>2

(* The rate for the position.                                              *)
Position(d, M) == Divide(PositionResult(d, M), M)

(* It is undefined or not below 0: a negative maximum is divided by itself.*)
LEMMA PositionIsNonNegative ==
  ASSUME NEW d \in Nat, NEW M \in Fraction, M.num = 0 => M = Zero
  PROVE  Position(d, M) = NaN \/ Position(d, M) \in NonNegative
<1>1. PICK x \in Fraction : x = PositionResult(d, M)
  BY PositionProperties
<1>2. M.num \in Int /\ M.den \in Nat \ {0} /\ x.num \in Int /\ x.den \in Nat \ {0}
  BY DEF Fraction
<1>3. CASE M.num = 0
  BY <1>3 DEF Position, Divide
<1>4. CASE M.num < 0
  <2>1. x = M
    <3>1. ASSUME d > 0, AtMost(Number(1, d), M) PROVE FALSE
      <4>1. 1 * M.den <= M.num * d
        BY <3>1, NumberOrder
      <4>2. \A a \in Int : \A b, c \in Nat \ {0} : a < 0 => ~ (1 * b <= a * c)
        OBVIOUS
      <4>3. QED
        BY <1>2, <1>4, <3>1, <4>1, <4>2
    <3>2. QED
      BY <1>1, <3>1, PositionProperties
  <2>2. M # Zero
    BY <1>4, SmallNumbers
  <2>3. PICK k \in Nat : k = - M.num * M.den
    <3>1. \A a \in Int : \A b \in Nat \ {0} : a < 0 => - a * b \in Nat
      OBVIOUS
    <3>2. QED
      BY <1>2, <1>4, <3>1
  <2>4. k # 0
    <3>1. \A a \in Int : \A b \in Nat \ {0} : a < 0 => - a * b # 0
      OBVIOUS
    <3>2. QED
      BY <1>2, <1>4, <2>3, <3>1
  <2>5. Position(d, M) = Number(k, k)
    BY <1>1, <1>4, <2>1, <2>2, <2>3 DEF Position, Divide, Over
  <2>6. QED
    BY <2>4, <2>5, NumberIsFraction DEF NonNegative
<1>5. CASE M.num > 0
  <2>1. x.num >= 0
    <3>1. CASE x = M
      BY <1>2, <1>5, <3>1
    <3>2. CASE d > 0 /\ x = Number(1, d)
      BY <3>2, NumberIsFraction
    <3>3. QED
      BY <1>1, <3>1, <3>2, PositionProperties
  <2>2. \A a \in Nat : \A b, c, e \in Nat \ {0} : a * b \in Nat /\ c * e \in Nat \ {0}
    OBVIOUS
  <2>3. x.num * M.den \in Nat /\ M.num * x.den \in Nat \ {0}
    BY <1>2, <1>5, <2>1, <2>2
  <2>4. M # Zero /\ ~ (M.num < 0)
    BY <1>2, <1>5, SmallNumbers
  <2>5. Position(d, M) = Number(x.num * M.den, M.num * x.den)
    BY <1>1, <2>4 DEF Position, Divide, Over
  <2>6. QED
    BY <2>3, <2>5, NumberIsFraction DEF NonNegative
<1>6. QED
  BY <1>2, <1>3, <1>4, <1>5

(* For a positive maximum it is a quotient of naturals, at most 1.         *)
LEMMA PositionOfPositive ==
  ASSUME NEW d \in Nat, NEW M \in Fraction, M.num > 0
  PROVE  LET x == PositionResult(d, M) IN
         /\ x.num \in Nat /\ x.den \in Nat \ {0} /\ AtMost(x, M)
         /\ Position(d, M) = Number(x.num * M.den, M.num * x.den)
         /\ x.num * M.den \in Nat /\ M.num * x.den \in Nat \ {0}
<1>1. PICK x \in Fraction : x = PositionResult(d, M)
  BY PositionProperties
<1>2. M.num \in Int /\ M.den \in Nat \ {0} /\ x.num \in Int /\ x.den \in Nat \ {0}
  BY DEF Fraction
<1>3. x.num >= 0
  <2>1. CASE x = M
    BY <1>2, <2>1
  <2>2. CASE d > 0 /\ x = Number(1, d)
    BY <2>2, NumberIsFraction
  <2>3. QED
    BY <1>1, <2>1, <2>2, PositionProperties
<1>4. AtMost(x, M)
  <2>1. AtMost(M, M)
    BY <1>2 DEF AtMost
  <2>2. QED
    BY <1>1, <2>1, PositionProperties
<1>5. \A a \in Nat : \A b, c, e \in Nat \ {0} : a * b \in Nat /\ c * e \in Nat \ {0}
  OBVIOUS
<1>6. x.num * M.den \in Nat /\ M.num * x.den \in Nat \ {0}
  BY <1>2, <1>3, <1>5
<1>7. M # Zero /\ ~ (M.num < 0)
  BY <1>2, SmallNumbers
<1>8. Position(d, M) = Number(x.num * M.den, M.num * x.den)
  BY <1>1, <1>7 DEF Position, Divide, Over
<1>9. QED
  BY <1>1, <1>2, <1>3, <1>4, <1>6, <1>8

(* Halving keeps the order and what is not below 0.                        *)
LEMMA Halved ==
  ASSUME NEW x \in NonNegative
  PROVE  /\ Times(x, Number(1, 2)) \in NonNegative
         /\ AtMost(Times(x, Number(1, 2)), x)
         /\ \A y \in NonNegative :
              AtMost(x, y) => AtMost(Times(x, Number(1, 2)), Times(y, Number(1, 2)))
<1>1. Number(1, 2).num = 1 /\ Number(1, 2).den = 2
  BY SmallNumbers
<1>2. \A y \in NonNegative : /\ y.num \in Nat /\ y.den \in Nat \ {0}
                             /\ Times(y, Number(1, 2)) = Number(y.num, y.den * 2)
  BY <1>1 DEF NonNegative, Fraction, Times
<1>3. Times(x, Number(1, 2)) \in NonNegative
  <2>1. x.num \in Nat /\ x.den * 2 \in Nat \ {0}
    BY <1>2
  <2>2. QED
    BY <1>2, <2>1, NumberIsFraction DEF NonNegative
<1>4. AtMost(Times(x, Number(1, 2)), x)
  <2>1. PICK a \in Nat : a = x.num
    BY <1>2
  <2>2. PICK b \in Nat \ {0} : b = x.den
    BY <1>2
  <2>3. AtMost(Number(a, b * 2), x) <=> a * x.den <= x.num * (b * 2)
    <3>1. b * 2 \in Nat \ {0} /\ x \in Fraction
      BY DEF NonNegative
    <3>2. QED
      BY <3>1, NumberOrder
  <2>4. a * b <= a * (b * 2)
    OBVIOUS
  <2>5. QED
    BY <1>2, <2>1, <2>2, <2>3, <2>4
<1>5. ASSUME NEW y \in NonNegative, AtMost(x, y)
      PROVE  AtMost(Times(x, Number(1, 2)), Times(y, Number(1, 2)))
  <2>1. \A a, c \in Nat : \A b, e \in Nat \ {0} :
          a * e <= c * b => a * (e * 2) <= c * (b * 2) /\ b * 2 \in Nat \ {0} /\ e * 2 \in Nat \ {0}
    OBVIOUS
  <2>2. /\ x.num * (y.den * 2) <= y.num * (x.den * 2)
        /\ x.den * 2 \in Nat \ {0} /\ y.den * 2 \in Nat \ {0}
    BY <1>2, <1>5, <2>1 DEF AtMost
  <2>3. AtMost(Number(x.num, x.den * 2), Number(y.num, y.den * 2))
    BY <1>2, <2>2, NumbersOrder
  <2>4. QED
    BY <1>2, <2>3
<1>6. QED
  BY <1>3, <1>4, <1>5

(* The rate of a report: undefined, where the maximum is 0, or not below 0 *)
LEMMA RateIsNonNegative ==
  ASSUME NEW d \in Nat, NEW f \in BOOLEAN, NEW M \in Fraction, M.num = 0 => M = Zero
  PROVE  DRRate(d, f, M) = NaN \/ DRRate(d, f, M) \in NonNegative
BY PositionIsNonNegative, Halved DEF DRRate, Position

(* With a positive maximum, rates are between 0 and 1, the one of the      *)
(* track's own place is 1, and they fall with the distance.                *)
LEMMA RatesOfPositive ==
  ASSUME NEW M \in Fraction, M.num > 0
  PROVE  /\ \A d \in Nat, f \in BOOLEAN :
              DRRate(d, f, M) \in NonNegative /\ AtMost(DRRate(d, f, M), One)
         /\ AtMost(One, DRRate(0, FALSE, M))
         /\ \A d, e \in Nat, f \in BOOLEAN :
              d <= e => AtMost(DRRate(e, f, M), DRRate(d, f, M))
<1>1. M.num \in Nat \ {0} /\ M.den \in Nat \ {0}
  BY DEF Fraction
<1>2. One \in Fraction /\ One.num = 1 /\ One.den = 1
  BY SmallNumbers DEF Fraction
<1>3. ASSUME NEW d \in Nat
      PROVE  Position(d, M) \in NonNegative /\ AtMost(Position(d, M), One)
  <2>1. PICK x : x = PositionResult(d, M)
    OBVIOUS
  <2>2. /\ AtMost(x, M) /\ Position(d, M) = Number(x.num * M.den, M.num * x.den)
        /\ x.num * M.den \in Nat /\ M.num * x.den \in Nat \ {0}
    BY <2>1, PositionOfPositive
  <2>3. AtMost(Position(d, M), One) <=> x.num * M.den * 1 <= 1 * (M.num * x.den)
    BY <1>2, <2>2, NumberOrder
  <2>4. x.num * M.den <= M.num * x.den
    BY <2>2 DEF AtMost
  <2>5. QED
    BY <2>2, <2>3, <2>4, NumberIsFraction DEF NonNegative
<1>4. AtMost(One, Position(0, M))
  <2>1. PositionResult(0, M) = M
    BY DEF PositionResult
  <2>2. PICK k \in Nat \ {0} : k = M.num * M.den
    BY <2>1, PositionOfPositive
  <2>3. Position(0, M) = Number(k, k)
    BY <2>1, <2>2, PositionOfPositive
  <2>4. QED
    BY <1>2, <2>3, NumberOrder
<1>5. ASSUME NEW d \in Nat, NEW e \in Nat, d <= e
      PROVE  AtMost(PositionResult(e, M), PositionResult(d, M))
  <2>1. CASE PositionResult(d, M) = M
    BY <2>1, PositionOfPositive
  <2>2. CASE PositionResult(d, M) # M
    <3>1. d > 0 /\ PositionResult(d, M) = Number(1, d)
      BY <2>2, PositionProperties
    <3>2. e > 0 /\ AtMost(Number(1, e), Number(1, d))
      BY <1>5, <3>1, NumbersOrder
    <3>3. CASE PositionResult(e, M) = M
      <4>1. AtMost(M, Number(1, e))
        BY <3>2, <3>3, PositionProperties
      <4>2. Number(1, e) \in Fraction /\ Number(1, d) \in Fraction
        BY <3>1, <3>2, NumberIsFraction
      <4>3. QED
        BY <3>1, <3>2, <3>3, <4>1, <4>2, AtMostIsTransitive
    <3>4. CASE PositionResult(e, M) # M
      BY <3>1, <3>2, <3>4, PositionProperties
    <3>5. QED
      BY <3>3, <3>4
  <2>3. QED
    BY <2>1, <2>2
<1>6. ASSUME NEW d \in Nat, NEW e \in Nat, d <= e
      PROVE  AtMost(Position(e, M), Position(d, M))
  <2>1. PICK x : x = PositionResult(e, M)
    OBVIOUS
  <2>2. PICK y : y = PositionResult(d, M)
    OBVIOUS
  <2>3. /\ x.num \in Nat /\ x.den \in Nat \ {0}
        /\ Position(e, M) = Number(x.num * M.den, M.num * x.den)
        /\ x.num * M.den \in Nat /\ M.num * x.den \in Nat \ {0}
    BY <2>1, PositionOfPositive
  <2>4. /\ y.num \in Nat /\ y.den \in Nat \ {0}
        /\ Position(d, M) = Number(y.num * M.den, M.num * y.den)
        /\ y.num * M.den \in Nat /\ M.num * y.den \in Nat \ {0}
    BY <2>2, PositionOfPositive
  <2>5. x.num * y.den <= y.num * x.den
    BY <1>6, <1>5, <2>1, <2>2 DEF AtMost
  <2>6. (x.num * M.den) * (M.num * y.den) <= (y.num * M.den) * (M.num * x.den)
    <3>1. ASSUME NEW a \in Nat, NEW b \in Nat \ {0}, NEW c \in Nat, NEW z \in Nat \ {0},
                 NEW m \in Nat \ {0}, NEW n \in Nat \ {0}, a * z <= c * b
          PROVE  (a * n) * (m * z) <= (c * n) * (m * b)
      <4>1. (a * n) * (m * z) = (m * n) * (a * z) /\ (c * n) * (m * b) = (m * n) * (c * b)
        OBVIOUS
      <4>2. \A k, u, v \in Nat : u <= v => k * u <= k * v
        OBVIOUS
      <4>3. m * n \in Nat /\ a * z \in Nat /\ c * b \in Nat
        OBVIOUS
      <4>4. QED
        BY <3>1, <4>1, <4>2, <4>3
    <3>2. QED
      BY <1>1, <2>3, <2>4, <2>5, <3>1
  <2>7. QED
    BY <2>3, <2>4, <2>6, NumbersOrder
<1>7. NaN \notin NonNegative
  BY NaNAssumption DEF NonNegative
<1>8. \A d \in Nat, f \in BOOLEAN :
        DRRate(d, f, M) = IF f THEN Times(Position(d, M), Number(1, 2)) ELSE Position(d, M)
  BY <1>3, <1>7 DEF DRRate, Position
<1>9. ASSUME NEW d \in Nat, NEW f \in BOOLEAN
      PROVE  DRRate(d, f, M) \in NonNegative /\ AtMost(DRRate(d, f, M), One)
  <2>1. CASE f
    <3>1. PICK x \in NonNegative : x = Position(d, M) /\ AtMost(x, One)
      BY <1>3
    <3>2. Times(x, Number(1, 2)) \in NonNegative /\ AtMost(Times(x, Number(1, 2)), x)
      BY Halved
    <3>3. AtMost(Times(x, Number(1, 2)), One)
      BY <1>2, <3>1, <3>2, AtMostIsTransitive DEF NonNegative
    <3>4. QED
      BY <1>8, <2>1, <3>1, <3>2, <3>3
  <2>2. CASE ~ f
    BY <1>3, <1>8, <2>2
  <2>3. QED
    BY <2>1, <2>2
<1>10. AtMost(One, DRRate(0, FALSE, M))
  BY <1>4, <1>8
<1>11. ASSUME NEW d \in Nat, NEW e \in Nat, NEW f \in BOOLEAN, d <= e
       PROVE  AtMost(DRRate(e, f, M), DRRate(d, f, M))
  BY <1>3, <1>6, <1>8, <1>11, Halved
<1>12. QED
  BY <1>9, <1>10, <1>11


(* The sequence the rates of a group are listed in                         *)
LEMMA RatesAreListed ==
  ASSUME NEW S, IsFiniteSet(S)
  PROVE  /\ SetToSeq(S) \in [1 .. Cardinality(S) -> S]
         /\ Len(SetToSeq(S)) = Cardinality(S) /\ Cardinality(S) \in Nat
         /\ SetToSeq(S) = <<>> <=> Cardinality(S) = 0
<1>1. PICK n \in Nat : n = Cardinality(S)
  BY FS_CardinalityType
<1>2. PICK f \in Bijection(1 .. n, S) : TRUE
  BY <1>1, FS_CardinalityType DEF ExistsBijection
<1>3. f \in [1 .. n -> S] /\ \A a, b \in 1 .. n : f[a] = f[b] => a = b
  BY <1>2 DEF Bijection, Injection, IsInjective
<1>4. IsInjective(f)
  BY <1>3 DEF IsInjective
<1>5. SetToSeq(S) \in [1 .. n -> S]
  BY <1>1, <1>3, <1>4 DEF SetToSeq
<1>6. PICK s \in [1 .. n -> S] : s = SetToSeq(S)
  BY <1>5
<1>7. Len(s) = n /\ (s = <<>> <=> n = 0)
  <2>1. s \in Seq(S) /\ DOMAIN s = 1 .. n
    OBVIOUS
  <2>2. QED
    BY <2>1
<1>8. QED
  BY <1>1, <1>6, <1>7

(* The rates of the reports that match are those of a chosen group.        *)
LEMMA GroupIsChosen ==
  ASSUME NEW M \in Fraction, M.num = 0 => M = Zero, NEW threshold \in Fraction,
         NEW S \in SUBSET (0 .. MaxDistance)
  PROVE  IsChosen(SetToSeq({DRRate(d, FALSE, M) : d \in {e \in S : Matches(e, FALSE, M, threshold)}}))
<1> DEFINE T == {e \in S : Matches(e, FALSE, M, threshold)}
           R == {DRRate(d, FALSE, M) : d \in T}
<1>1. R \subseteq NonNegative
  <2>1. ASSUME NEW d \in T PROVE DRRate(d, FALSE, M) \in NonNegative
    <3>1. d \in S /\ Matches(d, FALSE, M, threshold)
      OBVIOUS
    <3>2. d \in Nat /\ FALSE \in BOOLEAN
      BY <3>1
    <3>3. DRRate(d, FALSE, M) # NaN
      BY <3>1 DEF Matches, AtLeast
    <3>4. QED
      BY <3>2, <3>3, RateIsNonNegative
  <2>2. QED
    BY <2>1
<1>2. IsFiniteSet(R)
  <2>1. IsFiniteSet(0 .. MaxDistance)
    <3>1. 0 \in Int /\ MaxDistance \in Int
      BY BoundsAssumption
    <3>2. QED
      BY <3>1, FS_Interval, Zenon
  <2>2. IsFiniteSet(T)
    BY <2>1, FS_Subset
  <2>3. [d \in T |-> DRRate(d, FALSE, M)] \in Surjection(T, R)
    BY DEF Surjection
  <2>4. QED
    BY <2>2, <2>3, FS_Surjection
<1> HIDE DEF R
<1>3. PICK s : s = SetToSeq(R)
  OBVIOUS
<1>4. PICK n \in Nat : n = Cardinality(R)
  BY <1>2, RatesAreListed
<1>5. s \in [1 .. n -> R] /\ Len(s) = n /\ (s = <<>> <=> n = 0)
  BY <1>2, <1>3, <1>4, RatesAreListed
<1>6. IsChosen(s)
  BY <1>1, <1>5, NonNegativeIsChosen
<1>7. QED
  BY <1>3, <1>6 DEF R

(* A maximum rate above 0                                                  *)
LEMMA PositiveIsGreater ==
  ASSUME NEW M \in Fraction, Greater(M, Zero)
  PROVE  M.num > 0
BY SmallNumbers DEF Greater, Less, Fraction

(* A maximum above 0 and a threshold not above 1: the rates are between 0  *)
(* and 1, and what matches is what is near enough.                         *)
LEMMA MatchesOfPositive ==
  ASSUME NEW M \in Fraction, Greater(M, Zero), NEW threshold \in Fraction, AtLeast(One, threshold)
  PROVE  /\ \A d \in Nat, f \in BOOLEAN :
              AtLeast(DRRate(d, f, M), Zero) /\ AtLeast(One, DRRate(d, f, M))
         /\ Matches(0, FALSE, M, threshold)
         /\ \A d, e \in Nat, f \in BOOLEAN :
              d <= e /\ Matches(e, f, M, threshold) => Matches(d, f, M, threshold)
<1>1. M.num > 0
  BY PositiveIsGreater
<1>2. One \in Fraction /\ Zero \in Fraction /\ Zero.num = 0 /\ Zero.den = 1
  BY SmallNumbers DEF Fraction
<1>3. \A x \in Fraction : x # NaN
  BY NaNAssumption
<1>4. \A x \in NonNegative : AtMost(Zero, x)
  BY <1>2 DEF NonNegative, Fraction, AtMost
<1>5. ASSUME NEW d \in Nat, NEW f \in BOOLEAN
      PROVE  /\ DRRate(d, f, M) \in Fraction
             /\ AtLeast(DRRate(d, f, M), Zero) /\ AtLeast(One, DRRate(d, f, M))
  <2>1. PICK x \in NonNegative : x = DRRate(d, f, M) /\ AtMost(x, One)
    BY <1>1, RatesOfPositive
  <2>2. x \in Fraction
    BY DEF NonNegative
  <2>3. AtLeast(x, Zero) /\ AtLeast(One, x)
    BY <1>2, <1>3, <1>4, <2>1, <2>2 DEF AtLeast
  <2>4. QED
    BY <2>1, <2>2, <2>3
<1>6. Matches(0, FALSE, M, threshold)
  <2>1. PICK x \in Fraction : x = DRRate(0, FALSE, M)
    BY <1>5
  <2>2. AtMost(threshold, One) /\ AtMost(One, x)
    BY <1>1, <2>1, RatesOfPositive DEF AtLeast
  <2>3. AtMost(threshold, x)
    BY <1>2, <2>2, AtMostIsTransitive
  <2>4. QED
    BY <1>3, <2>1, <2>3 DEF Matches, AtLeast
<1>7. ASSUME NEW d \in Nat, NEW e \in Nat, NEW f \in BOOLEAN, d <= e, Matches(e, f, M, threshold)
      PROVE  Matches(d, f, M, threshold)
  <2>1. PICK x \in Fraction : x = DRRate(e, f, M)
    BY <1>5
  <2>2. PICK y \in Fraction : y = DRRate(d, f, M)
    BY <1>5
  <2>3. AtMost(threshold, x) /\ AtMost(x, y)
    BY <1>1, <1>7, <2>1, <2>2, RatesOfPositive DEF Matches, AtLeast
  <2>4. AtMost(threshold, y)
    BY <2>3, AtMostIsTransitive
  <2>5. QED
    BY <1>3, <2>2, <2>4 DEF Matches, AtLeast
<1>8. QED
  BY <1>5, <1>6, <1>7

-----------------------------------------------------------------------------
(* What the settings hold is what was written                              *)

(* A fraction, and not below 0 where it becomes an unsigned integer        *)
IsRead(option, value) == value \in Fraction /\ (option \in Counts => value.num >= 0)

HeldInv ==
  /\ site \in Site
  /\ \A m \in DOMAIN map_ : \A k \in DOMAIN map_[m] :
       <<m, k>> \in Option /\ IsWritten(<<m, k>>, map_[m][k])

LaterPlaces == {"getMap", "getStreetNodes", "nodes", "streets",
                "idle", "compute", "number", "store", "show"}

ParametersInv ==
  /\ Len(parameters) <= 5
  /\ \A i \in 1 .. Len(parameters) : IsRead(ParameterOrder[i], parameters[i])
  /\ pc \in LaterPlaces => Len(parameters) = 5

(* Options with a default and their defaults                               *)
LEMMA DefaultsAreNumbers ==
  ASSUME NEW option \in Option \ {WorkMode, VarianceFactor}
  PROVE  \E p \in Nat, q \in Nat \ {0} : Default(option) = Number(p, q)
<1> USE DEF Option, PacketSize, TimeDelta, InitializationThreshold, Threshold, TTL,
            MaximumPositionRate, WorkMode, VarianceFactor, Default
<1>1. CASE option = PacketSize
  BY <1>1
<1>2. CASE option = TimeDelta
  BY <1>2
<1>3. CASE option = InitializationThreshold
  BY <1>3
<1>4. CASE option = Threshold
  BY <1>4
<1>5. CASE option = TTL
  BY <1>5
<1>6. CASE option = MaximumPositionRate
  BY <1>6
<1>7. QED
  BY <1>1, <1>2, <1>3, <1>4, <1>5, <1>6

(* A value that can be cast is the number that was written.                *)
LEMMA CastedIsRead ==
  ASSUME NEW option \in Option \ {WorkMode, VarianceFactor}, HeldInv, IsInConfiguration(option)
  PROVE  /\ IsRead(option, CastedValue(option))
         /\ CastedValue(option).num = 0 => CastedValue(option) = Zero
<1>1. option = <<option[1], option[2]>>
  BY OptionsArePairs
<1>2. IsWritten(option, Value(option))
  BY <1>1 DEF HeldInv, IsInConfiguration, Value
<1>3. PICK x : x = Value(option)
  OBVIOUS
<1>4. CASE IsCastable(option, x)
  <2>1. IsNumber(x) /\ (option \in Counts => x.num >= 0)
    BY <1>2, <1>3, <1>4 DEF IsWritten, IsCastable
  <2>2. x.num \in Int /\ x.den \in Nat \ {0} /\ x = Number(x.num, x.den)
    BY <2>1 DEF IsNumber, Fraction
  <2>3. x.num = 0 => x = Zero
    BY <2>2, ZeroHasOneForm
  <2>4. QED
    BY <1>3, <1>4, <2>1, <2>3 DEF CastedValue, IsRead, IsNumber
<1>5. CASE ~ IsCastable(option, x)
  <2>1. PICK p \in Nat, q \in Nat \ {0} : Default(option) = Number(p, q)
    BY DefaultsAreNumbers
  <2>2. CastedValue(option) = Number(p, q)
    BY <1>3, <1>5, <2>1 DEF CastedValue
  <2>3. QED
    BY <2>2, NumberIsFraction, ZeroHasOneForm DEF IsRead
<1>6. QED
  BY <1>4, <1>5

(* What the constructor makes of it is typed like it.                      *)
LEMMA ParameterIsRead ==
  ASSUME NEW option \in Option \ {WorkMode, VarianceFactor}, HeldInv, IsInConfiguration(option)
  PROVE  IsRead(option, Parameter(option))
<1>1. PICK x : x = CastedValue(option)
  OBVIOUS
<1>2. IsRead(option, x)
  BY <1>1, CastedIsRead
<1>3. CASE option \in {PacketSize, TTL}
  <2>1. x.num \in Nat /\ x.den \in Nat \ {0}
    BY <1>2, <1>3 DEF IsRead, Counts, Fraction
  <2>2. x.num \div x.den \in Nat
    BY <2>1, Division
  <2>3. Parameter(option) = Number(x.num \div x.den, 1)
    BY <1>1, <1>3 DEF Parameter
  <2>4. QED
    BY <2>2, <2>3, NumberIsFraction DEF IsRead
<1>4. CASE option \notin {PacketSize, TTL}
  BY <1>1, <1>2, <1>4 DEF Parameter
<1>5. QED
  BY <1>3, <1>4

LEMMA ParametersHaveDefaults ==
  \A n \in 1 .. 5 : ParameterOrder[n] \in Option \ {WorkMode, VarianceFactor}
<1>1. \A n \in 1 .. 5 : n = 1 \/ n = 2 \/ n = 3 \/ n = 4 \/ n = 5
  OBVIOUS
<1>2. /\ ParameterOrder[1] = PacketSize /\ ParameterOrder[2] = TimeDelta
      /\ ParameterOrder[3] = InitializationThreshold
      /\ ParameterOrder[4] = Threshold /\ ParameterOrder[5] = TTL
  BY DEF ParameterOrder
<1>3. {PacketSize, TimeDelta, InitializationThreshold, Threshold, TTL}
        \subseteq Option \ {WorkMode, VarianceFactor}
  BY DEF Option, PacketSize, TimeDelta, InitializationThreshold, Threshold, TTL, WorkMode, VarianceFactor
<1>4. QED
  BY <1>1, <1>2, <1>3

(* Loading puts there what the file says and nothing else.                 *)
LEMMA LoadedIsWritten ==
  ASSUME site \in Site, Load
  PROVE  \A m \in DOMAIN map_' : \A k \in DOMAIN map_'[m] :
           <<m, k>> \in Option /\ IsWritten(<<m, k>>, map_'[m][k])
<1>1. PICK options : options = site.options
  OBVIOUS
<1>2. DOMAIN options \subseteq Option /\ \A o \in DOMAIN options : IsWritten(o, options[o])
  BY <1>1, SiteAssumption
<1>3. PICK map : map = Configuration(Entries(options))
  OBVIOUS
<1>4. ASSUME NEW m \in DOMAIN map, NEW k \in DOMAIN map[m]
      PROVE  <<m, k>> \in Option /\ IsWritten(<<m, k>>, map[m][k])
  <2>1. PICK e \in Entries(options) : e.module = m
    BY <1>3 DEF Configuration
  <2>2. \A f \in Entries(options) : f.module = m => f = e
    BY <2>1, OneEntryPerModule DEF ModuleAlreadyExists
  <2>3. (CHOOSE f \in Entries(options) : f.module = m) = e
    BY <2>1, <2>2
  <2>4. map[m] = e.keys
    <3>1. m \in {f.module : f \in Entries(options)}
      BY <2>1
    <3>2. QED
      BY <1>3, <2>3, <3>1 DEF Configuration
  <2>5. PICK o \in DOMAIN options : e = EntryOf(options, o)
    BY OneEntryPerModule
  <2>6. o[1] = m
    BY <2>1, <2>5 DEF EntryOf
  <2>7. /\ k \in {p[2] : p \in {q \in DOMAIN options : q[1] = m}}
        /\ map[m][k] = options[<<m, k>>]
    BY <2>4, <2>5, <2>6 DEF EntryOf
  <2>8. PICK p \in DOMAIN options : p[1] = m /\ p[2] = k
    BY <2>7
  <2>9. p = <<m, k>>
    BY <1>2, <2>8, OptionsArePairs
  <2>10. QED
    BY <1>2, <2>7, <2>8, <2>9
<1>5. map_' = map
  BY <1>1, <1>3 DEF Load
<1>6. QED
  BY <1>4, <1>5

-----------------------------------------------------------------------------
(* A step either ends the process or takes it on.                          *)

GoesOn ==
  \/ Start \/ LoadSettings \/ ConnectDynDb \/ ConnectStaticDb \/ Construct \/ GetSensors
  \/ EnsureDBConnection \/ GetStreetNodes \/ GetStreets
  \/ VisitTimerTick \/ ComputeTracksUnrated \/ ComputeTracksRated
  \/ PutTracksSnapshotIntoDB \/ StoreTracks
  \/ StoreTracksFails /\ UNCHANGED <<settingsVars, mapVars, pc, tracks, rated, drawn, raced>>
  \/ ShowNothing \/ ShowState \/ StreetIsAdded \/ Server \/ UNCHANGED vars

LEMMA EndsOrGoesOn ==
  ASSUME [Next]_vars
  PROVE  GoesOn \/ (\E place \in {"off", "aborted"} : End(place))
<1>1. CASE StartUp
  BY <1>1 DEF StartUp, GoesOn, LoadSettingsThrows, LoadOptionsThrows, ConstructThrows,
              NoSensorsThrows, Throw
<1>2. CASE GetMap
  BY <1>2 DEF GetMap, GoesOn, GetStreetNodesOfNull, EndDereferenced, Throw
<1>3. CASE Tick
  BY <1>3 DEF Tick, GoesOn, RatingThrows, StoreTracksFails, ShowStateThrows, Throw
<1>4. CASE VisitTimerTickThrows \/ QueryFails \/ Stop
  BY <1>4 DEF VisitTimerTickThrows, QueryFails, Stop, Throw
<1>5. CASE Start \/ VisitTimerTick \/ StreetIsAdded \/ Server \/ UNCHANGED vars
  BY <1>5 DEF GoesOn
<1>6. QED
  BY <1>1, <1>2, <1>3, <1>4, <1>5 DEF Next

(* The steps that leave what was read alone                                *)
LEMMA SettingsStay ==
  ASSUME GoesOn, ~ LoadSettings, ~ Construct, ~ Start
  PROVE  /\ UNCHANGED <<site, map_, parameters>>
         /\ pc' \in LaterPlaces => pc \in LaterPlaces
<1> USE DEF LaterPlaces
<1>1. CASE ConnectDynDb \/ ConnectStaticDb \/ GetSensors
  BY <1>1 DEF ConnectDynDb, ConnectStaticDb, GetSensors, settingsVars
<1>2. CASE EnsureDBConnection \/ GetStreetNodes \/ GetStreets
  BY <1>2 DEF EnsureDBConnection, GetStreetNodes, GetStreets, settingsVars
<1>3. CASE VisitTimerTick \/ ComputeTracksUnrated \/ ComputeTracksRated
  BY <1>3 DEF VisitTimerTick, ComputeTracksUnrated, ComputeTracksRated, LookUp, settingsVars
<1>4. CASE PutTracksSnapshotIntoDB \/ StoreTracks \/ ShowNothing \/ ShowState
  BY <1>4 DEF PutTracksSnapshotIntoDB, StoreTracks, ShowNothing, ShowState, LookUp, settingsVars
<1>5. CASE \/ StoreTracksFails /\ UNCHANGED <<settingsVars, mapVars, pc, tracks, rated, drawn, raced>>
           \/ StreetIsAdded \/ Server \/ UNCHANGED vars
  BY <1>5 DEF StreetIsAdded, Server, vars, settingsVars
<1>6. QED
  BY <1>1, <1>2, <1>3, <1>4, <1>5 DEF GoesOn

LEMMA HeldStep ==
  ASSUME HeldInv, ParametersInv, SettingsInv, [Next]_vars
  PROVE  HeldInv' /\ ParametersInv'
<1>1. CASE Start
  <2>1. /\ site' \in Site /\ UNCHANGED <<map_, parameters>> /\ pc' = "load"
    BY <1>1 DEF Start
  <2>2. QED
    BY <2>1 DEF HeldInv, ParametersInv, LaterPlaces
<1>2. CASE \E place \in {"off", "aborted"} : End(place)
  <2>1. /\ UNCHANGED site /\ map_' = <<>> /\ parameters' = <<>> /\ pc' \notin LaterPlaces
    BY <1>2 DEF End, ClearSettings, LaterPlaces
  <2>2. Len(parameters') = 0 /\ 1 .. 0 = {} /\ DOMAIN map_' = {}
    BY <2>1
  <2>3. QED
    BY <2>1, <2>2 DEF HeldInv, ParametersInv
<1>3. CASE LoadSettings
  <2>1. /\ Load /\ UNCHANGED <<site, parameters>> /\ pc' = "connect"
    BY <1>3 DEF LoadSettings
  <2>2. HeldInv'
    BY <2>1, LoadedIsWritten DEF HeldInv
  <2>3. QED
    BY <2>1, <2>2 DEF ParametersInv, LaterPlaces
<1>4. CASE Construct
  <2>1. IsSequence(parameters) /\ Len(parameters) \in Nat /\ Len(parameters) < 5
    BY <1>4 DEF Construct, SettingsInv, IsSequence
  <2>2. PICK n \in 1 .. 5 : n = Len(parameters) + 1
    BY <2>1
  <2>3. PICK option : option = ParameterOrder[n]
    OBVIOUS
  <2>4. /\ UNCHANGED <<site, map_>> /\ IsInConfiguration(option)
        /\ parameters' = Append(parameters, Parameter(option))
    BY <1>4, <2>2, <2>3 DEF Construct, ReadParameter, LookUp
  <2>5. IsRead(option, Parameter(option))
    BY <2>3, <2>4, ParametersHaveDefaults, ParameterIsRead
  <2>6. PICK x : x = Parameter(option)
    OBVIOUS
  <2>7. /\ IsSequence(parameters') /\ Len(parameters') = n
        /\ parameters'[n] = x
        /\ \A i \in 1 .. Len(parameters) : parameters'[i] = parameters[i]
    BY <2>1, <2>2, <2>4, <2>6, AppendIsSequence DEF IsSequence
  <2>8. \A i \in 1 .. n : IsRead(ParameterOrder[i], parameters'[i])
    <3>1. ASSUME NEW i \in 1 .. n PROVE IsRead(ParameterOrder[i], parameters'[i])
      <4>1. CASE i = n
        BY <2>3, <2>5, <2>6, <2>7, <4>1
      <4>2. CASE i # n
        <5>1. i \in 1 .. Len(parameters)
          BY <2>1, <2>2, <4>2
        <5>2. QED
          BY <2>7, <5>1 DEF ParametersInv
      <4>3. QED
        BY <4>1, <4>2
    <3>2. QED
      BY <3>1
  <2>9. pc' \in LaterPlaces => n = 5
    BY <1>4, <2>7, ParametersAreOptions DEF Construct, LaterPlaces
  <2>10. HeldInv'
    BY <2>4 DEF HeldInv
  <2>11. QED
    BY <2>7, <2>8, <2>9, <2>10 DEF ParametersInv
<1>5. CASE GoesOn /\ ~ LoadSettings /\ ~ Construct /\ ~ Start
  BY <1>5, SettingsStay DEF HeldInv, ParametersInv
<1>6. QED
  BY <1>1, <1>2, <1>3, <1>4, <1>5, EndsOrGoesOn

(* The settings of every reachable state                                   *)
LEMMA SettingsInvariant == Spec => [](HeldInv /\ ParametersInv /\ SettingsInv)
<1>1. Init => HeldInv /\ ParametersInv /\ HealthyInv
  <2> SUFFICES ASSUME Init PROVE HeldInv /\ ParametersInv /\ HealthyInv
    OBVIOUS
  <2>2. site \in Site /\ map_ = <<>> /\ parameters = <<>> /\ pc = "off"
    BY DEF Init, SettingsInit
  <2>3. Len(parameters) = 0 /\ 1 .. 0 = {} /\ DOMAIN map_ = {}
    BY <2>2
  <2>4. QED
    BY <2>2, <2>3, InitIsHealthy DEF HeldInv, ParametersInv, LaterPlaces
<1>2. HeldInv /\ ParametersInv /\ HealthyInv /\ [Next]_vars => HeldInv' /\ ParametersInv' /\ HealthyInv'
  BY HeldStep, HealthyStep DEF HealthyInv
<1>3. HealthyInv => SettingsInv
  BY DEF HealthyInv
<1>4. QED
  BY <1>1, <1>2, <1>3, PTL DEF Spec

-----------------------------------------------------------------------------
(* The rest of the types                                                   *)

MapTypes ==
  /\ streets \subseteq Street /\ connection_ \in {Null, "open"}
  /\ vertexes \subseteq Ends(Street)
  /\ staticMap_ = NoMap \/ staticMap_.edges \subseteq Street

(* A number may still be drawn in a tick that has not drawn one.           *)
NumbersLeft ==
  /\ sequence <= MaxSnapshots
  /\ pc \in {"compute", "number"} => sequence < MaxSnapshots

(* perform begins a transaction with an attempt to spend.                  *)
AttemptsLeft ==
  /\ attempts \in 0 .. Attempts
  /\ outcome = "pending" /\ transaction.state = "none" => attempts > 0

Places == {"off", "load", "connect", "connectStatic", "construct", "sensors", "getMap",
           "getStreetNodes", "nodes", "streets", "idle", "compute", "number", "store", "show", "aborted"}

PlaceTypes ==
  /\ pc \in Places
  /\ rated \in BOOLEAN /\ drawn \in BOOLEAN /\ failed \in BOOLEAN /\ raced \in BOOLEAN

LEMMA EndsAreMonotone ==
  ASSUME NEW S, NEW T, S \subseteq T
  PROVE  Ends(S) \subseteq Ends(T)
BY DEF Ends

LEMMA MapTypesStep ==
  ASSUME MapTypes, [Next]_vars
  PROVE  MapTypes'
<1>1. CASE \E place \in {"off", "aborted"} : End(place)
  BY <1>1 DEF End, ClearStaticMap, MapTypes
<1>2. CASE ConnectStaticDb \/ EnsureDBConnection
  BY <1>2 DEF ConnectStaticDb, EnsureDBConnection, Connect, ConnectFails, MapTypes, mapVars
<1>3. CASE GetStreetNodes
  <2>1. vertexes' = Ends(streets) /\ UNCHANGED <<streets, connection_, staticMap_>>
    BY <1>3 DEF GetStreetNodes, ReadNodes
  <2>2. QED
    BY <2>1, EndsAreMonotone DEF MapTypes
<1>4. CASE GetStreets
  BY <1>4 DEF GetStreets, ReadStreets, MapTypes
<1>5. CASE StreetIsAdded
  BY <1>5 DEF StreetIsAdded, AddStreet, MapTypes
<1>6. CASE Start \/ LoadSettings \/ ConnectDynDb \/ Construct \/ GetSensors
  BY <1>6 DEF Start, LoadSettings, ConnectDynDb, Construct, GetSensors, MapTypes, mapVars
<1>7. CASE VisitTimerTick \/ ComputeTracksUnrated \/ ComputeTracksRated
  BY <1>7 DEF VisitTimerTick, ComputeTracksUnrated, ComputeTracksRated, MapTypes, mapVars
<1>8. CASE PutTracksSnapshotIntoDB \/ StoreTracks \/ ShowNothing \/ ShowState
  BY <1>8 DEF PutTracksSnapshotIntoDB, StoreTracks, ShowNothing, ShowState, MapTypes, mapVars
<1>9. CASE \/ StoreTracksFails /\ UNCHANGED <<settingsVars, mapVars, pc, tracks, rated, drawn, raced>>
           \/ Server \/ UNCHANGED vars
  BY <1>9 DEF Server, vars, MapTypes, mapVars
<1>10. QED
  BY <1>1, <1>2, <1>3, <1>4, <1>5, <1>6, <1>7, <1>8, <1>9, EndsOrGoesOn DEF GoesOn

LEMMA PlaceTypesStep ==
  ASSUME PlaceTypes, [Next]_vars
  PROVE  PlaceTypes'
<1> USE DEF PlaceTypes, Places
<1>1. failed' \in BOOLEAN
  BY DEF Next, StartUp, GetMap, Tick, Start, LoadSettings, LoadSettingsThrows, ConnectDynDb,
         LoadOptionsThrows, ConnectStaticDb, Construct, ConstructThrows, GetSensors, NoSensorsThrows,
         EnsureDBConnection, GetStreetNodes, GetStreetNodesOfNull, GetStreets, EndDereferenced,
         VisitTimerTick, VisitTimerTickThrows, ComputeTracksUnrated, ComputeTracksRated, RatingThrows,
         PutTracksSnapshotIntoDB, StoreTracks, StoreTracksFails, ShowNothing, ShowState,
         ShowStateThrows, QueryFails, Stop, StreetIsAdded, Server, vars, ghostVars
<1>2. CASE \E place \in {"off", "aborted"} : End(place)
  BY <1>1, <1>2 DEF End
<1>3. CASE \/ Start \/ LoadSettings \/ ConnectDynDb \/ ConnectStaticDb \/ GetSensors
  BY <1>1, <1>3 DEF Start, LoadSettings, ConnectDynDb, ConnectStaticDb, GetSensors, ghostVars
<1>4. CASE Construct
  BY <1>1, <1>4 DEF Construct, ghostVars
<1>5. CASE EnsureDBConnection \/ GetStreetNodes \/ GetStreets \/ VisitTimerTick
  BY <1>1, <1>5 DEF EnsureDBConnection, GetStreetNodes, GetStreets, VisitTimerTick, ghostVars
<1>6. CASE ComputeTracksUnrated \/ ComputeTracksRated \/ PutTracksSnapshotIntoDB \/ StoreTracks
  BY <1>1, <1>6 DEF ComputeTracksUnrated, ComputeTracksRated, PutTracksSnapshotIntoDB, StoreTracks, ghostVars
<1>7. CASE ShowNothing \/ ShowState
  BY <1>1, <1>7 DEF ShowNothing, ShowState, ghostVars
<1>8. CASE StreetIsAdded
  <2>1. raced' = (raced \/ pc = "streets") /\ UNCHANGED <<pc, rated, drawn>>
    BY <1>8 DEF StreetIsAdded
  <2>2. raced' \in BOOLEAN
    BY <2>1
  <2>3. QED
    BY <1>1, <2>1, <2>2
<1>9. CASE \/ StoreTracksFails /\ UNCHANGED <<settingsVars, mapVars, pc, tracks, rated, drawn, raced>>
           \/ Server \/ UNCHANGED vars
  BY <1>1, <1>9 DEF Server, vars, ghostVars
<1>10. QED
  BY <1>2, <1>3, <1>4, <1>5, <1>6, <1>7, <1>8, <1>9, EndsOrGoesOn DEF GoesOn

LEMMA NumbersLeftStep ==
  ASSUME NumbersLeft, sequence \in Nat, [Next]_vars
  PROVE  NumbersLeft'
<1> USE DEF NumbersLeft
<1>1. MaxSnapshots \in Nat
  BY BoundsAssumption
<1>2. CASE PutTracksSnapshotIntoDB
  <2>1. sequence' = sequence + 1 /\ pc = "number" /\ pc' = "store"
    BY <1>2 DEF PutTracksSnapshotIntoDB, GetNewTracksSnapshot
  <2>2. QED
    BY <1>1, <2>1
<1>3. CASE QueryFails
  <2>1. pc' = "aborted"
    BY <1>3 DEF QueryFails, Throw, End
  <2>2. sequence' = sequence \/ (pc = "number" /\ sequence' = sequence + 1)
    BY <1>3 DEF QueryFails, LoseSnapshotId
  <2>3. QED
    BY <1>1, <2>1, <2>2
<1>4. CASE VisitTimerTick
  BY <1>4 DEF VisitTimerTick, storeVars, databaseVars
<1>5. CASE Start \/ StartUp \/ GetMap \/ VisitTimerTickThrows
  <2>1. UNCHANGED sequence
    BY <1>5 DEF Start, StartUp, GetMap, VisitTimerTickThrows, LoadSettings, LoadSettingsThrows,
                ConnectDynDb, LoadOptionsThrows, ConnectStaticDb, Construct, ConstructThrows,
                GetSensors, NoSensorsThrows, EnsureDBConnection, GetStreetNodes,
                GetStreetNodesOfNull, GetStreets, EndDereferenced, storeVars, databaseVars
  <2>2. pc' \notin {"compute", "number"}
    BY <1>5, EarlySteps DEF VisitTimerTickThrows, Throw, End, LatePlaces
  <2>3. QED
    BY <2>1, <2>2
<1>6. CASE ComputeTracksUnrated \/ ComputeTracksRated
  BY <1>6 DEF ComputeTracksUnrated, ComputeTracksRated, storeVars, databaseVars
<1>7. CASE StoreTracks \/ StoreTracksFails
  <2>1. UNCHANGED sequence
    BY <1>7 DEF StoreTracks, StoreTracksFails, BeginTransaction, InsertTrack, Commit, CommitReturns,
                AttemptFails, LoseCommit, databaseVars
  <2>2. pc' \notin {"compute", "number"}
    BY <1>7 DEF StoreTracks, StoreTracksFails, Throw, End
  <2>3. QED
    BY <2>1, <2>2
<1>8. CASE RatingThrows \/ ShowNothing \/ ShowState \/ ShowStateThrows \/ Stop
  <2>1. UNCHANGED sequence
    BY <1>8 DEF RatingThrows, ShowNothing, ShowState, ShowStateThrows, Stop, Disconnect, storeVars, databaseVars
  <2>2. pc' \notin {"compute", "number"}
    BY <1>8 DEF RatingThrows, ShowNothing, ShowState, ShowStateThrows, Stop, Throw, End
  <2>3. QED
    BY <2>1, <2>2
<1>9. CASE StreetIsAdded \/ Server \/ UNCHANGED vars
  BY <1>9 DEF StreetIsAdded, Server, ServerCommits, DecideOrphan, vars, storeVars, databaseVars
<1>10. QED
  BY <1>2, <1>3, <1>4, <1>5, <1>6, <1>7, <1>8, <1>9 DEF Next, Tick

(* The steps that leave the attempts and the transaction alone             *)
LEMMA AttemptsStay ==
  ASSUME AttemptsLeft, UNCHANGED clientVars
  PROVE  AttemptsLeft'
BY DEF AttemptsLeft, clientVars

LEMMA AttemptsLeftStep ==
  ASSUME AttemptsLeft, StoreInv, PlaceInv, [Next]_vars
  PROVE  AttemptsLeft'
<1>1. Attempts \in Nat \ {0}
  BY AttemptsAssumption
<1>2. CASE Start \/ Stop
  BY <1>1, <1>2 DEF Start, Stop, Disconnect, NewClient, AttemptsLeft
<1>3. CASE StartUp \/ GetMap
  BY <1>3, StartUpIsAside, GetMapIsAside, AttemptsStay DEF Aside, storeVars
<1>4. CASE \/ VisitTimerTick \/ VisitTimerTickThrows
           \/ ComputeTracksUnrated \/ ComputeTracksRated \/ RatingThrows
           \/ ShowNothing \/ ShowState \/ ShowStateThrows
  BY <1>4, TickOutsideStore, AttemptsStay DEF Aside, storeVars
<1>5. CASE PutTracksSnapshotIntoDB
  BY <1>1, <1>5 DEF PutTracksSnapshotIntoDB, GetNewTracksSnapshot, AttemptsLeft
<1>6. CASE StoreTracks
  <2>1. CASE BeginTransaction
    BY <1>1, <2>1 DEF BeginTransaction, AttemptsLeft
  <2>2. CASE \E t \in TrackId : InsertTrack(t)
    <3>1. PICK t \in TrackId : InsertTrack(t)
      BY <2>2
    <3>2. transaction \in [state : TransactionStates, inserted : SUBSET TrackId]
      BY DEF StoreInv, StoreTypes
    <3>3. transaction'.state = "open" /\ UNCHANGED attempts
      BY <3>1, <3>2 DEF InsertTrack
    <3>4. QED
      BY <3>3 DEF AttemptsLeft
  <2>3. CASE Commit
    <3>1. transaction \in [state : TransactionStates, inserted : SUBSET TrackId]
      BY DEF StoreInv, StoreTypes
    <3>2. transaction'.state = "committing" /\ UNCHANGED attempts
      BY <2>3, <3>1 DEF Commit
    <3>3. QED
      BY <3>2 DEF AttemptsLeft
  <2>4. CASE CommitReturns
    BY <1>1, <2>4 DEF CommitReturns, AttemptsLeft
  <2>5. QED
    BY <1>6, <2>1, <2>2, <2>3, <2>4 DEF StoreTracks
<1>7. CASE StoreTracksFails
  <2>1. CASE AttemptFails
    BY <1>1, <2>1 DEF AttemptFails, Retry, AttemptsLeft
  <2>2. CASE LoseCommit
    BY <1>1, <2>2 DEF LoseCommit, AttemptsLeft
  <2>3. QED
    BY <1>7, <2>1, <2>2 DEF StoreTracksFails
<1>8. CASE QueryFails \/ StreetIsAdded \/ UNCHANGED vars
  BY <1>8, AttemptsStay DEF QueryFails, StreetIsAdded, vars, storeVars
<1>9. CASE Server
  <2>1. CASE ServerCommits
    <3>1. transaction \in [state : TransactionStates, inserted : SUBSET TrackId]
      BY DEF StoreInv, StoreTypes
    <3>2. transaction'.state = "committed" /\ UNCHANGED attempts
      BY <2>1, <3>1 DEF ServerCommits
    <3>3. QED
      BY <3>2 DEF AttemptsLeft
  <2>2. CASE DecideOrphan
    BY <2>2, AttemptsStay DEF DecideOrphan
  <2>3. QED
    BY <1>9, <2>1, <2>2 DEF Server
<1>10. QED
  BY <1>2, <1>3, <1>4, <1>5, <1>6, <1>7, <1>8, <1>9 DEF Next, Tick

(* All that TypeOK follows from                                            *)
TypesInv == MapTypes /\ PlaceTypes /\ NumbersLeft /\ AttemptsLeft

LEMMA InitIsTyped ==
  ASSUME Init
  PROVE  TypesInv
<1>1. MapTypes
  BY DEF Init, StaticMapInit, MapTypes
<1>2. PlaceTypes
  BY DEF Init, PlaceTypes, Places
<1>3. NumbersLeft
  BY BoundsAssumption DEF Init, TracksSnapshotInit, NumbersLeft
<1>4. AttemptsLeft
  BY AttemptsAssumption DEF Init, TracksSnapshotInit, AttemptsLeft
<1>5. QED
  BY <1>1, <1>2, <1>3, <1>4 DEF TypesInv

LEMMA TypesInvariant == Spec => []TypesInv
<1>1. TypesInv /\ StoreInv /\ PlaceInv /\ [Next]_vars => TypesInv'
  <2> SUFFICES ASSUME TypesInv, StoreInv, PlaceInv, [Next]_vars
               PROVE  TypesInv'
    OBVIOUS
  <2>2. sequence \in Nat
    BY DEF StoreInv, StoreTypes
  <2>3. QED
    BY <2>2, MapTypesStep, PlaceTypesStep, NumbersLeftStep, AttemptsLeftStep DEF TypesInv
<1>2. QED
  BY <1>1, InitIsTyped, StoreInvariant, PTL DEF Spec

(* Every variable of the process keeps its type, whatever the files hold:  *)
(* numbers read from them are fractions in lowest terms, and those that    *)
(* become unsigned integers are not below 0.                               *)
THEOREM TypeCorrect == Spec => []TypeOK
<1>1. HeldInv /\ ParametersInv /\ SettingsInv /\ StoreInv /\ PlaceInv /\ TypesInv => TypeOK
  <2> SUFFICES ASSUME HeldInv, ParametersInv, SettingsInv, StoreInv, PlaceInv, TypesInv
               PROVE  TypeOK
    OBVIOUS
  <2>2. /\ Len(parameters) <= Len(ParameterOrder)
        /\ \A i \in DOMAIN parameters :
             parameters[i] \in Fraction /\ (ParameterOrder[i] \in Counts => parameters[i].num >= 0)
    <3>1. DOMAIN parameters = 1 .. Len(parameters)
      BY DEF SettingsInv, IsSequence
    <3>2. QED
      BY <3>1, ParametersAreOptions DEF ParametersInv, IsRead
  <2>3. /\ sequence \in 0 .. MaxSnapshots /\ 0 .. sequence \subseteq 0 .. MaxSnapshots
        /\ 1 .. sequence \subseteq 1 .. MaxSnapshots
    BY BoundsAssumption DEF StoreInv, StoreTypes, TypesInv, NumbersLeft
  <2>4. track_snapshots \subseteq (1 .. MaxSnapshots) \X TrackId
    BY <2>3 DEF StoreInv, StoreTypes
  <2>5. \A o \in orphans : o.id \in 1 .. MaxSnapshots /\ o.tracks \subseteq TrackId
    BY <2>3 DEF StoreInv, StoreTypes
  <2>6. snapshotId_ \in 0 .. MaxSnapshots /\ tracks_ \subseteq TrackId
    BY <2>3 DEF StoreInv, StoreTypes
  <2>7. /\ transaction.state \in {"none", "open", "committing", "committed"}
        /\ transaction.inserted \subseteq TrackId
        /\ outcome \in {"none", "pending", "stored", "failed", "inDoubt"}
    BY DEF StoreInv, StoreTypes, TransactionStates, Outcomes
  <2>8. site \in Site /\ \A m \in DOMAIN map_ : \A k \in DOMAIN map_[m] : <<m, k>> \in Option
    BY DEF HeldInv
  <2>9. attempts \in 0 .. Attempts /\ tracks \subseteq TrackId
    BY DEF TypesInv, AttemptsLeft, PlaceInv
  <2>10. QED
    BY <2>2, <2>3, <2>4, <2>5, <2>6, <2>7, <2>8, <2>9 DEF TypeOK, TypesInv, MapTypes, PlaceTypes, Places
<1>2. QED
  BY <1>1, SettingsInvariant, StoreInvariant, TypesInvariant, PTL

(* The rating of a tick is sound whatever threshold and maximum rate the   *)
(* file has: the only group is chosen, and rates tell near from far.       *)
THEOREM RatingsAreSound == Spec => []RatingIsSound
<1>1. HeldInv /\ ParametersInv => RatingIsSound
  <2>1. SUFFICES ASSUME HeldInv, ParametersInv, pc = "compute", IsInConfiguration(MaximumPositionRate)
                 PROVE  LET M == CastedValue(MaximumPositionRate)
                            threshold == parameters[4]
                            Distance == 0 .. MaxDistance
                            Rate(d, f) == DRRate(d, f, M)
                            Match(d, f) == Matches(d, f, M, threshold)
                            Rates(S) == SetToSeq({Rate(d, FALSE) : d \in {e \in S : Match(e, FALSE)}})
                        IN  /\ \A S \in SUBSET Distance : IsChosen(Rates(S))
                            /\ Greater(M, Zero) /\ AtLeast(One, threshold) =>
                                 /\ \A d \in Distance, f \in BOOLEAN :
                                      AtLeast(Rate(d, f), Zero) /\ AtLeast(One, Rate(d, f))
                                 /\ Match(0, FALSE)
                                 /\ \A d, e \in Distance, f \in BOOLEAN :
                                      d <= e /\ Match(e, f) => Match(d, f)
    BY DEF RatingIsSound
  <2>2. MaximumPositionRate \in Option \ {WorkMode, VarianceFactor}
    BY DEF Option, MaximumPositionRate, WorkMode, VarianceFactor
  <2>3. PICK M \in Fraction : M = CastedValue(MaximumPositionRate) /\ (M.num = 0 => M = Zero)
    BY <2>1, <2>2, CastedIsRead DEF IsRead
  <2>4. PICK threshold \in Fraction : threshold = parameters[4]
    BY <2>1 DEF ParametersInv, IsRead, LaterPlaces
  <2>5. \A S \in SUBSET (0 .. MaxDistance) :
          IsChosen(SetToSeq({DRRate(d, FALSE, M) : d \in {e \in S : Matches(e, FALSE, M, threshold)}}))
    BY <2>3, GroupIsChosen
  <2>6. ASSUME Greater(M, Zero), AtLeast(One, threshold)
        PROVE  /\ \A d \in 0 .. MaxDistance, f \in BOOLEAN :
                    AtLeast(DRRate(d, f, M), Zero) /\ AtLeast(One, DRRate(d, f, M))
               /\ Matches(0, FALSE, M, threshold)
               /\ \A d, e \in 0 .. MaxDistance, f \in BOOLEAN :
                    d <= e /\ Matches(e, f, M, threshold) => Matches(d, f, M, threshold)
    <3>1. 0 .. MaxDistance \subseteq Nat
      BY BoundsAssumption
    <3>2. QED
      BY <2>6, <3>1, MatchesOfPositive
  <2>7. QED
    BY <2>3, <2>4, <2>5, <2>6
<1>2. QED
  BY <1>1, SettingsInvariant, PTL

=============================================================================
