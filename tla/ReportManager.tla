---------------------------- MODULE ReportManager ----------------------------
(***************************************************************************)
(* How rows of detection_reports reach the tracker: ReportManager::getDRs  *)
(* (src/src/Model/reportmanager.cpp) over DynDBDriver::DRCursor            *)
(* (src/src/Model/DB/dyndbdriver.cpp), while sensors keep inserting rows.  *)
(*                                                                         *)
(* A cursor pages through                                                  *)
(*   WHERE sensor_time >= start AND dr_id > before                         *)
(*   ORDER BY sensor_time, upload_time LIMIT packet OFFSET offset,         *)
(* each page a transaction of its own; inserts fall between pages.  When a *)
(* page is empty, the next cursor starts from the last row fetched.        *)
(*                                                                         *)
(* A row is named by its dr_id, which the table's sequence draws; ids are  *)
(* unique here (rows inserted with explicit ids could repeat one for       *)
(* another sensor).  Sensor times are whole seconds, as the code reads     *)
(* them; Stamp orders the rows of one second the way the query does, by    *)
(* the fraction of the second and the upload time.  Rows may be tied: the  *)
(* upload time is by default that of the transaction, sensor times come in *)
(* whole seconds, and nothing demands that they differ.  Each query puts   *)
(* tied rows in an order of its own.                                       *)
(***************************************************************************)
EXTENDS DetectionReport, SequencesExt

CONSTANTS
  Stamp,       (* Stamp[d]: order within a second                          *)
  PacketSize   (* packetSize_, of the manager and of its cursors           *)

ASSUME StampAssumption ==
  /\ Stamp \in [DR -> Nat]
  /\ PacketSize \in Nat \ {0}

NoDR == -1

VARIABLES
  table,       (* detection_reports, in the order of insertion             *)
  pc,          (* "idle": outside getDRs, "loop": inside                   *)
  i, result,   (* locals of getDRs                                         *)
  lastDR_,     (* the row fetched last                                     *)
  startingTime_, beforeFirstDRId, offset_, resultInitialized_,
  result_,     (* what resultIterator_ has still to go through             *)
  handed,      (* ghost: rows fetched so far                               *)
  again,       (* ghost: rows fetched more than once                       *)
  received,    (* ghost: the rows of the cursor's pages, by their place    *)
  present,     (* ghost: rows in the table at the cursor's first query     *)
  raced        (* ghost: a row was inserted while a cursor was half way    *)

cursorVars == <<startingTime_, beforeFirstDRId, offset_, resultInitialized_, result_>>
ghostVars == <<handed, again, received, present>>
vars == <<table, pc, i, result, lastDR_, cursorVars, ghostVars, raced>>

-----------------------------------------------------------------------------
QueryLess(l, r) ==
  \/ SensorTime[l] < SensorTime[r]
  \/ SensorTime[l] = SensorTime[r] /\ Stamp[l] < Stamp[r]

Tied(l, r) == SensorTime[l] = SensorTime[r] /\ Stamp[l] = Stamp[r]

(* Mutant: rows of the last second are left out.                           *)
SelectedLater(rows) ==
  {d \in rows : SensorTime[d] > startingTime_ /\ d > beforeFirstDRId}

Selected(rows) ==
  {d \in rows : SensorTime[d] >= startingTime_
                /\ (beforeFirstDRId > -1 => d > beforeFirstDRId)}

(* The rows that ORDER BY must put before a row, and those it may.         *)
Rank(rows, d) == Cardinality({e \in rows : QueryLess(e, d)})

Reach(rows, d) == Cardinality({e \in rows : ~ QueryLess(d, e)})

(* The pages a query at an offset may give: among tied rows any order.     *)
Pages(offset) ==
  LET rows == Selected(ToSet(table))
      left == Cardinality(rows) - offset
  IN {page \in [1 .. (IF PacketSize < left THEN PacketSize ELSE left) -> rows] :
        /\ IsInjective(page)
        /\ \A j \in DOMAIN page :
             offset + j - 1 \in Rank(rows, page[j]) .. (Reach(rows, page[j]) - 1)}

Init ==
  /\ table = <<>> /\ pc = "idle" /\ i = 0 /\ result = {} /\ lastDR_ = NoDR
  /\ startingTime_ = Epoch /\ beforeFirstDRId = NoDR /\ offset_ = 0
  /\ resultInitialized_ = FALSE /\ result_ = <<>>
  /\ handed = {} /\ again = {} /\ received = <<>> /\ present = {} /\ raced = FALSE

(* A sensor's transaction commits; ids and times are in no given order.    *)
InsertDR(d) ==
  /\ d \notin ToSet(table)
  /\ table' = Append(table, d)
  /\ raced' = (raced \/ resultInitialized_)
  /\ UNCHANGED <<pc, i, result, lastDR_, cursorVars, ghostVars>>

GetDRs ==
  /\ pc = "idle"
  /\ pc' = "loop" /\ i' = 0 /\ result' = {}
  /\ UNCHANGED <<table, lastDR_, cursorVars, ghostVars, raced>>

(* One iteration that fetches row d.                                       *)
Take(d) ==
  /\ lastDR_' = d
  /\ result' = result \cup {d}
  /\ i' = i + 1
  /\ handed' = handed \cup {d}
  /\ again' = IF d \in handed THEN again \cup {d} ELSE again

(* The row is at hand.                                                     *)
FetchRow ==
  /\ pc = "loop" /\ i < PacketSize
  /\ resultInitialized_ /\ result_ # <<>>
  /\ Take(Head(result_))
  /\ result_' = Tail(result_)
  /\ UNCHANGED <<table, pc, startingTime_, beforeFirstDRId, offset_, resultInitialized_,
                 received, present, raced>>

(* Mutant: the next page starts one row too far.                           *)
OffsetTooFar == IF resultInitialized_ THEN offset_ + PacketSize + 1 ELSE offset_

(* advancePacket, when a page was fetched before.                          *)
Offset == IF resultInitialized_ THEN offset_ + PacketSize ELSE offset_

(* A page has to be fetched first.                                         *)
FetchRows ==
  /\ pc = "loop" /\ i < PacketSize
  /\ resultInitialized_ => result_ = <<>>
  /\ \E page \in Pages(Offset) \ {<<>>} :
       /\ Take(Head(page))
       /\ result_' = Tail(page)
       /\ received' = [p \in DOMAIN received \cup {Offset + j - 1 : j \in DOMAIN page}
                        |-> IF p < Offset THEN received[p] ELSE page[p - Offset + 1]]
  /\ offset_' = Offset
  /\ resultInitialized_' = TRUE
  /\ present' = IF resultInitialized_ THEN present ELSE ToSet(table)
  /\ UNCHANGED <<table, pc, startingTime_, beforeFirstDRId, raced>>

(* Mutant: the cursor is set up from the lowest time.                      *)
SetupCursorFromId ==
  /\ startingTime_' = Epoch
  /\ beforeFirstDRId' = lastDR_

SetupCursor ==
  /\ startingTime_' = IF lastDR_ = NoDR THEN Epoch ELSE SensorTime[lastDR_]
  /\ beforeFirstDRId' = lastDR_

(* The page is empty: NoResultAvailable.  getDRs sets up the next cursor   *)
(* and returns what it has.                                                *)
NoResultAvailable ==
  /\ pc = "loop" /\ i < PacketSize
  /\ resultInitialized_ => result_ = <<>>
  /\ <<>> \in Pages(Offset)
  /\ SetupCursor
  /\ offset_' = 0 /\ resultInitialized_' = FALSE /\ result_' = <<>> /\ received' = <<>>
  /\ present' = IF resultInitialized_ THEN present ELSE ToSet(table)
  /\ pc' = "idle"
  /\ UNCHANGED <<table, i, result, lastDR_, handed, again, raced>>

(* The packet is full.                                                     *)
ReturnDRs ==
  /\ pc = "loop" /\ i = PacketSize
  /\ pc' = "idle"
  /\ UNCHANGED <<table, i, result, lastDR_, cursorVars, ghostVars, raced>>

Next ==
  \/ \E d \in DR : InsertDR(d)
  \/ GetDRs \/ FetchRow \/ FetchRows \/ NoResultAvailable \/ ReturnDRs

Spec == Init /\ [][Next]_vars

-----------------------------------------------------------------------------
TypeOK ==
  /\ table \in Seq(DR) /\ pc \in {"idle", "loop"}
  /\ i \in 0 .. PacketSize /\ result \subseteq DR /\ lastDR_ \in DR \cup {NoDR}
  /\ startingTime_ \in Time /\ beforeFirstDRId \in DR \cup {NoDR}
  /\ offset_ \in Nat /\ resultInitialized_ \in BOOLEAN
  /\ result_ \in Seq(DR) /\ Len(result_) < PacketSize
  /\ handed \subseteq DR /\ again \subseteq handed /\ present \subseteq DR
  /\ DOMAIN received \subseteq Nat /\ \A p \in DOMAIN received : received[p] \in DR
  /\ raced \in BOOLEAN

(* The table so far was filled in the order of ids and of query.           *)
InOrder ==
  \A m, n \in DOMAIN table :
    m < n => table[m] < table[n] /\ QueryLess(table[m], table[n])

(* A cursor has run dry: getDRs just returned after an empty page.         *)
Exhausted == pc = "idle" /\ ~ resultInitialized_

(* The rows that came while the cursor is half way and belong before the   *)
(* row fetched last: they shift the pages that are still to be asked for.  *)
Late == {d \in Selected(ToSet(table) \ present) : QueryLess(d, lastDR_)}

(* The tracker receives reports in the order of their seconds, within one  *)
(* getDRs and from one to the next, also when cursors are replaced.  One   *)
(* late row only makes a cursor repeat the row before the next page; it    *)
(* takes two to make it go back in time.                                   *)
TimeNeverGoesBack ==
  [][lastDR_ # NoDR /\ (resultInitialized_ => Cardinality(Late) <= 1)
       => SensorTime[lastDR_'] >= SensorTime[lastDR_]]_vars

(* Of the rows that were there and matched when its cursor first asked, a  *)
(* cursor fetches before it runs dry at least as many of each key as there *)
(* were, whatever is inserted meanwhile.  So a row that no other is tied   *)
(* with is fetched; of tied rows one may be fetched twice and another, on  *)
(* a border of pages, not at all, in a table nobody writes to even: what   *)
(* reportmanager.h:18 says, "Each invokation gives another part of DRs",   *)
(* does not hold of them.  present is of the cursor that ran dry; the rows *)
(* before its start were left to the cursors before it.                    *)
PresentRowsAreFetched ==
  [][pc = "loop" /\ pc' = "idle" /\ ~ resultInitialized_'
       => /\ \A p \in DOMAIN received : received[p] \in handed'
          /\ \A d \in Selected(present') :
               Cardinality({p \in DOMAIN received : Tied(received[p], d)})
                 >= Cardinality({e \in Selected(present') : Tied(e, d)})]_vars

(* The types hold.  When rows come in order, none is handed to the tracker *)
(* twice; and when moreover none comes while a cursor is half way, a cursor*)
(* that runs dry has left no row of the table behind.                      *)
OnceInOrder ==
  /\ TypeOK
  /\ InOrder => again = {}
  /\ Exhausted /\ InOrder /\ ~ raced => present \subseteq handed

=============================================================================
