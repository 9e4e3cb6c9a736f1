------------------------- MODULE ReportManager_proofs -------------------------
(***************************************************************************)
(* Theorems about ReportManager, for any rows, any order of insertion and  *)
(* any size of the packets.                                                *)
(***************************************************************************)
EXTENDS ReportManager, FiniteSetTheorems, SequenceTheorems, WellFoundedInduction, TLAPS

(* What the query selects from the table as it is.                         *)
Matching == Selected(ToSet(table))

(* The row fetched last, and those the cursor has at hand.                 *)
AtHand == ToSet(result_)

(* What has been fetched or is at hand was in the table.                   *)
FromTable ==
  /\ present \subseteq ToSet(table)
  /\ handed \subseteq ToSet(table)
  /\ lastDR_ \in ToSet(table) \cup {NoDR}
  /\ lastDR_ = NoDR => handed = {}
  /\ pc = "loop" /\ i > 0 => resultInitialized_

(* A new cursor starts from the row fetched last.                          *)
NewCursor ==
  ~ resultInitialized_ =>
    /\ beforeFirstDRId = lastDR_
    /\ startingTime_ = IF lastDR_ = NoDR THEN Epoch ELSE SensorTime[lastDR_]
    /\ offset_ = 0 /\ result_ = <<>> /\ received = <<>>

(* One row may come after another on a page.                               *)
MayFollow(d, e) == e # d /\ ~ QueryLess(e, d)

(* What is at hand follows the row fetched last in the order of the query. *)
Sorted ==
  resultInitialized_ =>
    /\ lastDR_ \in Matching
    /\ \A j \in DOMAIN result_ : result_[j] \in Matching /\ MayFollow(lastDR_, result_[j])
    /\ \A j, k \in DOMAIN result_ : j < k => MayFollow(result_[j], result_[k])

(* Of the rows present at the start, these lie on a page asked for.        *)
PagesOfPresent ==
  resultInitialized_ =>
    \A d \in AtHand \cup {lastDR_} :
      Rank(Selected(present), d) < offset_ + PacketSize

(* The rows of a cursor's pages were selected, and are fetched or at hand.  *)
ReceivedRows ==
  resultInitialized_ =>
    \A p \in DOMAIN received :
      /\ p < offset_ + PacketSize /\ received[p] \in Matching
      /\ received[p] \in handed \cup AtHand

(* The rows present at the start with the key of a row; and the places     *)
(* where its key can start: the first, and those after a lower one.        *)
Twins(d) == Cardinality({e \in Selected(present) : Tied(e, d)})

Starts(d) == {0} \cup {p + 1 : p \in {q \in DOMAIN received : QueryLess(received[q], d)}}

(* What a cursor received before a row lies below the rank of that row ... *)
LowerInPlace ==
  resultInitialized_ =>
    \A d \in Selected(present) : \A b \in Starts(d) : b <= Rank(Matching, d)

(* ... and what lies after it, or on no page, leaves room for its twins.   *)
UpperFar ==
  resultInitialized_ =>
    \A d \in Selected(present), q \in 0 .. (offset_ + PacketSize - 1) :
      (q \in DOMAIN received => QueryLess(d, received[q]))
        => \A b \in Starts(d) : b <= q => b + Twins(d) <= q

(* Rows that come in order never shift a page.                             *)
PagesInOrder ==
  InOrder =>
    /\ again = {}
    /\ \A d \in handed : d = lastDR_ \/ QueryLess(d, lastDR_)
    /\ resultInitialized_ =>
         \A d \in AtHand \cup {lastDR_} : Rank(Matching, d) < offset_ + PacketSize

(* Then, and when none comes while a cursor is half way, every row is      *)
(* either fetched or still to be selected.                                 *)
NoneLeftBehind ==
  InOrder /\ ~ raced =>
    IF resultInitialized_
    THEN /\ present = ToSet(table)
         /\ ToSet(table) \subseteq handed \cup Matching
    ELSE /\ present \subseteq handed
         /\ \A d \in ToSet(table) : d \in handed \/ lastDR_ = NoDR \/ lastDR_ < d

IInv ==
  /\ TypeOK /\ FromTable /\ NewCursor /\ Sorted
  /\ PagesOfPresent /\ ReceivedRows /\ LowerInPlace /\ UpperFar
  /\ PagesInOrder /\ NoneLeftBehind

-----------------------------------------------------------------------------
(* The order of the query: rows that it puts neither way are tied.         *)
LEMMA QueryLessOrders ==
  ASSUME NEW d \in DR, NEW e \in DR
  PROVE  /\ ~ QueryLess(d, d)
         /\ QueryLess(d, e) => ~ QueryLess(e, d)
         /\ Tied(d, e) <=> ~ QueryLess(d, e) /\ ~ QueryLess(e, d)
         /\ ~ QueryLess(e, d) => SensorTime[d] <= SensorTime[e]
<1>1. /\ SensorTime[d] \in Nat /\ SensorTime[e] \in Nat
      /\ Stamp[d] \in Nat /\ Stamp[e] \in Nat
  BY DRAssumption, StampAssumption
<1>2. QED
  BY <1>1 DEF QueryLess, Tied

(* What is not after a row is before all that is.                          *)
LEMMA QueryLessIsWeak ==
  ASSUME NEW d \in DR, NEW e \in DR, NEW f \in DR
  PROVE  /\ ~ QueryLess(e, d) /\ QueryLess(e, f) => QueryLess(d, f)
         /\ QueryLess(d, e) /\ ~ QueryLess(f, e) => QueryLess(d, f)
<1>1. /\ SensorTime[d] \in Nat /\ SensorTime[e] \in Nat /\ SensorTime[f] \in Nat
      /\ Stamp[d] \in Nat /\ Stamp[e] \in Nat /\ Stamp[f] \in Nat
  BY DRAssumption, StampAssumption
<1>2. QED
  BY <1>1 DEF QueryLess

LEMMA QueryLessIsTransitive ==
  ASSUME NEW d \in DR, NEW e \in DR, NEW f \in DR, QueryLess(d, e), QueryLess(e, f)
  PROVE  QueryLess(d, f)
BY QueryLessOrders, QueryLessIsWeak

(* The elements of a sequence are finitely many.                           *)
LEMMA ToSetIsFinite ==
  ASSUME NEW s \in Seq(DR)
  PROVE  ToSet(s) \subseteq DR /\ IsFiniteSet(ToSet(s))
<1>1. /\ Len(s) \in Nat /\ DOMAIN s = 1 .. Len(s)
      /\ s \in [1 .. Len(s) -> DR]
  BY LenProperties
<1>2. s \in Surjection(1 .. Len(s), ToSet(s))
  BY <1>1 DEF Surjection, ToSet
<1>3. IsFiniteSet(1 .. Len(s))
  BY <1>1, FS_Interval
<1>4. IsFiniteSet(ToSet(s))
  BY <1>2, <1>3, FS_Surjection
<1>5. QED
  BY <1>1, <1>4 DEF ToSet

-----------------------------------------------------------------------------
(* Ranks.  A set of rows is finite.                                        *)
RowSet == {rows \in SUBSET DR : IsFiniteSet(rows)}

(* More rows, higher ranks.                                                *)
LEMMA RankIsMonotone ==
  ASSUME NEW rows \in RowSet, NEW few \in SUBSET rows, NEW d
  PROVE  /\ few \in RowSet
         /\ Rank(few, d) \in Nat /\ Rank(rows, d) \in Nat
         /\ Rank(few, d) <= Rank(rows, d)
<1> DEFINE Before(S) == {e \in S : QueryLess(e, d)}
<1>1. Before(rows) \subseteq rows /\ Before(few) \subseteq few /\ Before(few) \subseteq Before(rows)
  OBVIOUS
<1>2. IsFiniteSet(rows) /\ IsFiniteSet(few)
  BY FS_Subset DEF RowSet
<1>3. IsFiniteSet(Before(rows)) /\ IsFiniteSet(Before(few))
  BY <1>1, <1>2, FS_Subset
<1>4. /\ Cardinality(Before(rows)) \in Nat /\ Cardinality(Before(few)) \in Nat
      /\ Cardinality(Before(few)) <= Cardinality(Before(rows))
  BY <1>1, <1>3, FS_Subset, FS_CardinalityType
<1>5. few \in RowSet
  BY <1>2 DEF RowSet
<1>6. QED
  BY <1>4, <1>5 DEF Rank

(* A row of the set has a rank lower than the number of rows.              *)
LEMMA RankOrder ==
  ASSUME NEW rows \in RowSet, NEW d \in rows
  PROVE  Rank(rows, d) \in 0 .. (Cardinality(rows) - 1)
<1> DEFINE lower == {f \in rows : QueryLess(f, d)}
<1>1. IsFiniteSet(rows) /\ rows \subseteq DR /\ lower \subseteq rows
  BY DEF RowSet
<1>2. IsFiniteSet(lower) /\ Cardinality(lower) \in Nat /\ d \notin lower
  BY <1>1, FS_Subset, FS_CardinalityType, QueryLessOrders
<1>3. /\ Cardinality(rows) \in Nat /\ Cardinality(lower) <= Cardinality(rows)
      /\ Cardinality(rows) = Cardinality(lower) => rows = lower
  BY <1>1, FS_Subset, FS_CardinalityType
<1>4. QED
  BY <1>2, <1>3 DEF Rank

(* A row that does not come before d leaves its rank as it is.             *)
LEMMA RankOfLater ==
  ASSUME NEW rows \in RowSet, NEW more \in RowSet, NEW d, rows \subseteq more,
         \A e \in more \ rows : ~ QueryLess(e, d)
  PROVE  Rank(more, d) = Rank(rows, d)
<1>1. {e \in more : QueryLess(e, d)} = {e \in rows : QueryLess(e, d)}
  OBVIOUS
<1>2. QED
  BY <1>1 DEF Rank

(* Rows raise a rank at most by the number of those that come before.      *)
LEMMA RankOfMore ==
  ASSUME NEW rows \in RowSet, NEW more \in RowSet, NEW d, rows \subseteq more
  PROVE  /\ Cardinality({e \in more \ rows : QueryLess(e, d)}) \in Nat
         /\ Rank(more, d) <= Rank(rows, d) + Cardinality({e \in more \ rows : QueryLess(e, d)})
<1> DEFINE new == {e \in more \ rows : QueryLess(e, d)}
           old == {e \in rows : QueryLess(e, d)}
           all == {e \in more : QueryLess(e, d)}
<1>1. IsFiniteSet(rows) /\ IsFiniteSet(more)
  BY DEF RowSet
<1>2. new \subseteq more /\ old \subseteq rows
  OBVIOUS
<1>3. IsFiniteSet(new) /\ IsFiniteSet(old)
  BY <1>1, <1>2, FS_Subset
<1>4. old \cap new = {} /\ old \cup new = all
  OBVIOUS
<1> HIDE DEF new, old, all
<1>5. /\ Cardinality(new) \in Nat /\ Cardinality(old) \in Nat
      /\ Cardinality(old \cup new)
           = Cardinality(old) + Cardinality(new) - Cardinality(old \cap new)
  BY <1>3, FS_Union, FS_CardinalityType
<1>6. Cardinality(all) = Cardinality(old) + Cardinality(new)
  <2>1. Cardinality(old \cap new) = 0 /\ Cardinality(old \cup new) = Cardinality(all)
    BY <1>4, FS_EmptySet, Zenon
  <2>2. QED
    BY <1>5, <2>1
<1>7. Cardinality(new) \in Nat /\ Cardinality(all) <= Cardinality(old) + Cardinality(new)
  BY <1>5, <1>6
<1>8. QED
  BY <1>7 DEF Rank, new, old, all

(* Reach.  The rows before d and those tied with it come no later; a row   *)
(* after d has them all before it.                                         *)
LEMMA ReachProperties ==
  ASSUME NEW rows \in RowSet, NEW few \in SUBSET rows, NEW d \in DR
  PROVE  /\ Cardinality({e \in few : Tied(e, d)}) \in Nat
         /\ Rank(rows, d) \in Nat /\ Reach(rows, d) \in Nat /\ Cardinality(rows) \in Nat
         /\ Rank(rows, d) + Cardinality({e \in few : Tied(e, d)}) <= Reach(rows, d)
         /\ Reach(rows, d) <= Cardinality(rows)
         /\ \A e \in DR : QueryLess(d, e) => Reach(rows, d) <= Rank(rows, e)
<1> DEFINE lower(e) == {f \in rows : QueryLess(f, e)}
           twins == {e \in few : Tied(e, d)}
           upTo == {e \in rows : ~ QueryLess(d, e)}
<1>1. IsFiniteSet(rows) /\ rows \subseteq DR /\ few \subseteq rows
  BY DEF RowSet
<1>2. upTo \subseteq rows /\ twins \subseteq rows /\ \A e : lower(e) \subseteq rows
  BY <1>1
<1>3. /\ \A X \in SUBSET rows : IsFiniteSet(X) /\ Cardinality(X) \in Nat
                                /\ Cardinality(X) <= Cardinality(rows)
      /\ Cardinality(rows) \in Nat
  BY <1>1, FS_Subset, FS_CardinalityType
<1>4. lower(d) \cap twins = {} /\ lower(d) \cup twins \subseteq upTo
  BY <1>1, QueryLessOrders
<1>5. Cardinality(lower(d)) + Cardinality(twins) <= Cardinality(upTo)
  <2>1. /\ IsFiniteSet(lower(d)) /\ IsFiniteSet(twins) /\ IsFiniteSet(upTo)
        /\ Cardinality(lower(d)) \in Nat /\ Cardinality(twins) \in Nat
    BY <1>2, <1>3
  <2>2. Cardinality(lower(d) \cup twins)
          = Cardinality(lower(d)) + Cardinality(twins) - Cardinality(lower(d) \cap twins)
    BY <2>1, FS_Union
  <2>3. Cardinality(lower(d) \cap twins) = 0
    BY <1>4, FS_EmptySet
  <2>4. Cardinality(lower(d) \cup twins) <= Cardinality(upTo)
    BY <1>4, <2>1, FS_Subset
  <2>5. QED
    BY <2>1, <2>2, <2>3, <2>4
<1>6. ASSUME NEW e \in DR, QueryLess(d, e) PROVE Cardinality(upTo) <= Cardinality(lower(e))
  <2>1. upTo \subseteq lower(e)
    BY <1>1, <1>6, QueryLessIsWeak
  <2>2. IsFiniteSet(lower(e))
    BY <1>2, <1>3
  <2>3. QED
    BY <2>1, <2>2, FS_Subset
<1>7. /\ Cardinality(lower(d)) \in Nat /\ Cardinality(upTo) \in Nat
      /\ Cardinality(twins) \in Nat /\ Cardinality(upTo) <= Cardinality(rows)
  BY <1>2, <1>3
<1>8. QED
  BY <1>3, <1>5, <1>6, <1>7 DEF Rank, Reach

(* A place below the rank of d holds a row that is not after d, and one    *)
(* from its reach on a row that is.                                        *)
LEMMA PlacesTellOrder ==
  ASSUME NEW rows \in RowSet, NEW d \in DR, NEW e \in DR, NEW p \in Nat,
         Rank(rows, e) <= p, p < Reach(rows, e)
  PROVE  /\ QueryLess(e, d) => p < Rank(rows, d)
         /\ QueryLess(d, e) => Reach(rows, d) <= p
<1>1. /\ Rank(rows, e) \in Nat /\ Rank(rows, d) \in Nat
      /\ Reach(rows, e) \in Nat /\ Reach(rows, d) \in Nat
  BY ReachProperties
<1>2. QueryLess(e, d) => Reach(rows, e) <= Rank(rows, d)
  BY ReachProperties
<1>3. QueryLess(d, e) => Reach(rows, d) <= Rank(rows, e)
  BY ReachProperties
<1>4. QED
  BY <1>1, <1>2, <1>3

(* A set of naturals has a greatest element below a bound.                 *)
LEMMA GreatestExists ==
  ASSUME NEW N \in Nat, NEW X, X # {}, \A x \in X : x \in Nat /\ x <= N
  PROVE  \E x \in X : \A y \in X : y <= x
<1> DEFINE below == {N - x : x \in X}
<1>1. below \subseteq Nat /\ below # {}
  OBVIOUS
<1>2. PICK l \in below : \A k \in below : <<k, l>> \notin OpToRel(<, Nat)
  BY <1>1, NatLessThanWellFounded, WFMin
<1>3. PICK x \in X : l = N - x
  OBVIOUS
<1>4. ASSUME NEW y \in X PROVE y <= x
  <2>1. N - y \in below /\ N - y \in Nat /\ l \in Nat
    BY <1>1
  <2>2. ~ (N - y < l)
    BY <1>2, <2>1 DEF OpToRel
  <2>3. QED
    BY <1>3, <2>2
<1>5. QED
  BY <1>4

-----------------------------------------------------------------------------
(* The rows of the table, and what a query selects.                        *)
LEMMA TableRows ==
  ASSUME TypeOK, FromTable
  PROVE  /\ ToSet(table) \in RowSet /\ Matching \in RowSet /\ Matching \subseteq ToSet(table)
         /\ present \in RowSet /\ Selected(present) \in RowSet
         /\ Selected(present) \subseteq Matching
<1>1. ToSet(table) \subseteq DR /\ IsFiniteSet(ToSet(table)) /\ present \subseteq ToSet(table)
  BY ToSetIsFinite DEF TypeOK, FromTable
<1>2. /\ Matching \subseteq ToSet(table) /\ Selected(present) \subseteq Matching
  BY <1>1 DEF Matching, Selected
<1>3. /\ IsFiniteSet(present) /\ IsFiniteSet(Matching) /\ IsFiniteSet(Selected(present))
  <2>1. \A S \in SUBSET ToSet(table) : IsFiniteSet(S)
    BY <1>1, FS_Subset
  <2>2. Selected(present) \subseteq ToSet(table)
    BY <1>2
  <2>3. QED
    BY <1>1, <1>2, <2>1, <2>2
<1>4. QED
  BY <1>1, <1>2, <1>3 DEF RowSet

(* A page has selected rows, each at a place from its rank to its reach,   *)
(* and no place before the end of the selection is left empty.             *)
LEMMA PageProperties ==
  ASSUME TypeOK, FromTable, NEW offset \in Nat, NEW page \in Pages(offset)
  PROVE  /\ page \in Seq(DR) /\ Len(page) <= PacketSize
         /\ \A j \in DOMAIN page :
              /\ page[j] \in Matching
              /\ Rank(Matching, page[j]) <= offset + j - 1
              /\ offset + j - 1 < Reach(Matching, page[j])
         /\ \A j, k \in DOMAIN page : j < k => MayFollow(page[j], page[k])
         /\ \A j \in (1 .. PacketSize) \ DOMAIN page : Cardinality(Matching) <= offset + j - 1
<1> DEFINE c == Cardinality(Matching)
           n == IF PacketSize < c - offset THEN PacketSize
                ELSE IF c - offset > 0 THEN c - offset ELSE 0
<1>1. Matching \in RowSet /\ Matching \subseteq DR /\ c \in Nat
  BY TableRows, FS_CardinalityType DEF RowSet
<1>2. PacketSize \in Nat \ {0} /\ n \in Nat /\ n <= PacketSize
  BY <1>1, StampAssumption
<1>3. /\ page \in [1 .. n -> Matching] /\ IsInjective(page)
      /\ \A j \in 1 .. n : offset + j - 1 \in Rank(Matching, page[j]) .. (Reach(Matching, page[j]) - 1)
  <2>1. 1 .. n = 1 .. (IF PacketSize < c - offset THEN PacketSize ELSE c - offset)
    BY <1>1, <1>2
  <2>2. QED
    BY <2>1 DEF Pages, Matching
<1>4. ASSUME NEW j \in (1 .. PacketSize) \ (1 .. n) PROVE c <= offset + j - 1
  BY <1>1, <1>2
<1>5. n \in Nat /\ n <= PacketSize
  BY <1>2
<1> HIDE DEF n
<1>6. page \in Seq(DR) /\ Len(page) = n /\ DOMAIN page = 1 .. n
  BY <1>1, <1>3, <1>5
<1>7. ASSUME NEW j \in 1 .. n
      PROVE  /\ page[j] \in Matching /\ page[j] \in DR
             /\ Rank(Matching, page[j]) \in Nat /\ Reach(Matching, page[j]) \in Nat
             /\ Rank(Matching, page[j]) <= offset + j - 1
             /\ offset + j - 1 < Reach(Matching, page[j])
  <2>1. page[j] \in Matching /\ page[j] \in DR
    BY <1>1, <1>3
  <2>2. Rank(Matching, page[j]) \in Nat /\ Reach(Matching, page[j]) \in Nat
    BY <1>1, <2>1, ReachProperties
  <2>3. QED
    BY <1>3, <2>1, <2>2
<1>8. ASSUME NEW j \in 1 .. n, NEW k \in 1 .. n, j < k
      PROVE  MayFollow(page[j], page[k])
  <2>1. page[k] # page[j]
    BY <1>3, <1>6, <1>8 DEF IsInjective
  <2>2. QueryLess(page[k], page[j]) => offset + k - 1 < Rank(Matching, page[j])
    <3>1. offset + k - 1 \in Nat
      OBVIOUS
    <3>2. QED
      BY <1>1, <1>7, <3>1, PlacesTellOrder
  <2>3. ~ QueryLess(page[k], page[j])
    BY <1>7, <1>8, <2>2
  <2>4. QED
    BY <2>1, <2>3 DEF MayFollow
<1>9. QED
  BY <1>4, <1>5, <1>6, <1>7, <1>8

(* A page is empty when no selected row is left at its offset.             *)
LEMMA EmptyPage ==
  ASSUME TypeOK, FromTable, NEW offset \in Nat, <<>> \in Pages(offset)
  PROVE  Cardinality(Matching) <= offset
<1>1. 1 \in (1 .. PacketSize) \ DOMAIN <<>>
  BY StampAssumption
<1>2. Cardinality(Matching) <= offset + 1 - 1
  BY <1>1, PageProperties
<1>3. Cardinality(Matching) \in Nat
  BY TableRows, FS_CardinalityType DEF RowSet
<1>4. QED
  BY <1>2, <1>3

(* The first row of a sequence and the others.                             *)
LEMMA HeadAndTail ==
  ASSUME NEW s \in Seq(DR), s # <<>>
  PROVE  /\ 1 \in DOMAIN s /\ Head(s) = s[1] /\ Head(s) \in DR
         /\ Tail(s) \in Seq(DR) /\ Len(Tail(s)) = Len(s) - 1
         /\ \A j \in DOMAIN Tail(s) : j + 1 \in DOMAIN s /\ Tail(s)[j] = s[j + 1] /\ j \in Nat \ {0}
         /\ ToSet(s) = {Head(s)} \cup ToSet(Tail(s))
<1>1. /\ Head(s) \in DR /\ Tail(s) \in Seq(DR) /\ Len(Tail(s)) = Len(s) - 1
      /\ \A j \in 1 .. Len(Tail(s)) : Tail(s)[j] = s[j + 1]
  BY HeadTailProperties
<1>2. /\ Len(s) \in Nat \ {0} /\ DOMAIN s = 1 .. Len(s)
      /\ DOMAIN Tail(s) = 1 .. Len(Tail(s))
  BY <1>1, LenProperties, EmptySeq
<1>3. Head(s) = s[1] /\ 1 \in DOMAIN s
  BY <1>2
<1>4. \A j \in DOMAIN Tail(s) :
        j + 1 \in DOMAIN s /\ Tail(s)[j] = s[j + 1] /\ j \in Nat \ {0}
  BY <1>1, <1>2
<1>5. ToSet(s) = {Head(s)} \cup ToSet(Tail(s))
  <2>1. ASSUME NEW j \in DOMAIN s, j # 1 PROVE s[j] \in ToSet(Tail(s))
    <3>1. j - 1 \in DOMAIN Tail(s) /\ Tail(s)[j - 1] = s[(j - 1) + 1] /\ (j - 1) + 1 = j
      BY <1>1, <1>2, <2>1
    <3>2. QED
      BY <3>1 DEF ToSet
  <2>2. \A x \in ToSet(s) : x = Head(s) \/ x \in ToSet(Tail(s))
    BY <1>3, <2>1 DEF ToSet
  <2>3. \A x \in ToSet(Tail(s)) : x \in ToSet(s)
    BY <1>4 DEF ToSet
  <2>4. QED
    BY <1>3, <2>2, <2>3 DEF ToSet
<1>6. QED
  BY <1>1, <1>3, <1>4, <1>5

(* A row inserted: the table has it too, at the end.                       *)
LEMMA TableAppended ==
  ASSUME TypeOK, NEW d \in DR, InsertDR(d)
  PROVE  /\ ToSet(table)' = ToSet(table) \cup {d} /\ d \notin ToSet(table)
         /\ table' \in Seq(DR)
         /\ InOrder' => /\ InOrder
                        /\ \A e \in ToSet(table) : e < d /\ QueryLess(e, d)
<1>1. table \in Seq(DR) /\ table' = Append(table, d) /\ d \notin ToSet(table)
  BY DEF TypeOK, InsertDR
<1>2. /\ table' \in Seq(DR) /\ Len(table) \in Nat /\ DOMAIN table = 1 .. Len(table)
      /\ DOMAIN table' = 1 .. (Len(table) + 1)
      /\ table'[Len(table) + 1] = d
      /\ \A j \in DOMAIN table : table'[j] = table[j] /\ j \in DOMAIN table'
  BY <1>1
<1>3. ToSet(table)' = ToSet(table) \cup {d}
  <2>1. \A j \in DOMAIN table' : j \in DOMAIN table \/ j = Len(table) + 1
    BY <1>2
  <2>2. \A x \in ToSet(table)' : x \in ToSet(table) \cup {d}
    BY <1>2, <2>1 DEF ToSet
  <2>3. \A x \in ToSet(table) : x \in ToSet(table)'
    BY <1>2 DEF ToSet
  <2>4. d \in ToSet(table)'
    <3>1. Len(table) + 1 \in DOMAIN table'
      BY <1>2
    <3>2. QED
      BY <1>2, <3>1 DEF ToSet
  <2>5. QED
    BY <2>2, <2>3, <2>4
<1>4. ASSUME InOrder' PROVE InOrder /\ \A e \in ToSet(table) : e < d /\ QueryLess(e, d)
  <2>1. \A j, k \in DOMAIN table' :
          j < k => table'[j] < table'[k] /\ QueryLess(table'[j], table'[k])
    BY <1>4 DEF InOrder, QueryLess
  <2>2. \A j, k \in DOMAIN table :
          j < k => table[j] < table[k] /\ QueryLess(table[j], table[k])
    BY <1>2, <2>1
  <2>3. ASSUME NEW j \in DOMAIN table PROVE table[j] < d /\ QueryLess(table[j], d)
    <3>1. j < Len(table) + 1 /\ Len(table) + 1 \in DOMAIN table' /\ j \in DOMAIN table'
      BY <1>2
    <3>2. QED
      BY <1>2, <2>1, <3>1
  <2>4. QED
    BY <2>2, <2>3 DEF InOrder, ToSet
<1>5. QED
  BY <1>1, <1>2, <1>3, <1>4

(* When rows come in order, ids and the query agree on it.                 *)
LEMMA InOrderAgrees ==
  ASSUME TypeOK, InOrder, NEW d \in ToSet(table), NEW e \in ToSet(table), d < e
  PROVE  QueryLess(d, e)
<1>1. table \in Seq(DR)
  BY DEF TypeOK
<1>2. PICK j \in DOMAIN table : table[j] = d
  BY DEF ToSet
<1>3. PICK k \in DOMAIN table : table[k] = e
  BY DEF ToSet
<1>4. j \in Int /\ k \in Int /\ d \in Nat /\ e \in Nat
  BY <1>1, <1>2, <1>3, DRAssumption
<1>5. ~ (k < j) /\ j # k
  BY <1>2, <1>3, <1>4 DEF InOrder
<1>6. QED
  BY <1>2, <1>3, <1>4, <1>5 DEF InOrder

(* So no two rows are tied then, and what may follow a row is after it.    *)
LEMMA InOrderFollows ==
  ASSUME TypeOK, FromTable, InOrder, NEW d \in ToSet(table), NEW e \in ToSet(table)
  PROVE  /\ d = e \/ QueryLess(d, e) \/ QueryLess(e, d)
         /\ MayFollow(d, e) => QueryLess(d, e)
<1>1. d \in Nat /\ e \in Nat
  BY TableRows, DRAssumption DEF RowSet
<1>2. QED
  BY <1>1, InOrderAgrees DEF MayFollow

(* And a row can take one place only.                                      *)
LEMMA InOrderReach ==
  ASSUME TypeOK, FromTable, InOrder, NEW rows \in RowSet, rows \subseteq ToSet(table),
         NEW d \in rows
  PROVE  Reach(rows, d) <= Rank(rows, d) + 1
<1> DEFINE lower == {e \in rows : QueryLess(e, d)}
           upTo == {e \in rows : ~ QueryLess(d, e)}
<1>1. upTo \subseteq lower \cup {d}
  BY InOrderFollows
<1>2. IsFiniteSet(lower) /\ Cardinality(lower) \in Nat
  BY FS_Subset, FS_CardinalityType DEF RowSet
<1>3. /\ IsFiniteSet(lower \cup {d})
      /\ Cardinality(lower \cup {d}) = IF d \in lower THEN Cardinality(lower) ELSE Cardinality(lower) + 1
  BY <1>2, FS_AddElement
<1>4. Cardinality(upTo) <= Cardinality(lower \cup {d}) /\ Cardinality(upTo) \in Nat
  BY <1>1, <1>3, FS_Subset, FS_CardinalityType
<1>5. QED
  BY <1>2, <1>3, <1>4 DEF Rank, Reach

(* What a new cursor selects is not before the row fetched last; when rows *)
(* come in order, it is all of what comes after it.                        *)
LEMMA NewCursorSelects ==
  ASSUME TypeOK, FromTable, NewCursor, ~ resultInitialized_, NEW d \in ToSet(table)
  PROVE  /\ d \in Matching /\ lastDR_ # NoDR => SensorTime[lastDR_] <= SensorTime[d]
         /\ InOrder => (d \in Matching <=> lastDR_ = NoDR \/ lastDR_ < d)
         /\ InOrder /\ d \in Matching /\ lastDR_ # NoDR => QueryLess(lastDR_, d)
<1>1. d \in DR /\ d \in Nat /\ SensorTime[d] \in Nat
  <2>1. d \in DR
    BY TableRows DEF RowSet
  <2>2. QED
    BY <2>1, DRAssumption
<1>2. CASE lastDR_ = NoDR
  <2>1. d \in Matching
    BY <1>1, <1>2 DEF NewCursor, Matching, Selected, Epoch, NoDR
  <2>2. QED
    BY <1>2, <2>1
<1>3. CASE lastDR_ # NoDR
  <2>1. lastDR_ \in ToSet(table) /\ lastDR_ \in Nat /\ SensorTime[lastDR_] \in Nat
    <3>1. lastDR_ \in ToSet(table) /\ lastDR_ \in DR
      BY <1>3 DEF FromTable, TypeOK
    <3>2. QED
      BY <3>1, DRAssumption
  <2>2. d \in Matching <=> SensorTime[lastDR_] <= SensorTime[d] /\ lastDR_ < d
    BY <1>1, <1>3, <2>1 DEF NewCursor, Matching, Selected
  <2>3. InOrder /\ lastDR_ < d => QueryLess(lastDR_, d)
    BY <2>1, InOrderAgrees
  <2>4. QueryLess(lastDR_, d) => SensorTime[lastDR_] <= SensorTime[d]
    BY <1>1, <2>1 DEF QueryLess
  <2>5. QED
    BY <1>3, <2>2, <2>3, <2>4
<1>4. QED
  BY <1>2, <1>3

(* A page fetched: its rows lie at the places from the offset on.          *)
LEMMA FetchedPage ==
  ASSUME TypeOK, FromTable, NewCursor, ReceivedRows, FetchRows
  PROVE  /\ Matching' = Matching /\ Offset \in Nat /\ offset_' = Offset
         /\ lastDR_' \in Matching /\ Rank(Matching, lastDR_') <= Offset
         /\ Offset < Reach(Matching, lastDR_')
         /\ result_' \in Seq(DR) /\ Len(result_') < PacketSize
         /\ \A j \in DOMAIN result_' :
              /\ result_'[j] \in Matching /\ MayFollow(lastDR_', result_'[j])
              /\ Rank(Matching, result_'[j]) < Offset + PacketSize
         /\ \A j, k \in DOMAIN result_' : j < k => MayFollow(result_'[j], result_'[k])
         /\ DOMAIN received' \subseteq Nat /\ DOMAIN received \subseteq DOMAIN received'
         /\ \A p \in DOMAIN received' :
              p < Offset => p \in DOMAIN received /\ received'[p] = received[p]
         /\ \A p \in DOMAIN received' :
              Offset <= p =>
                /\ p < Offset + PacketSize /\ received'[p] \in Matching
                /\ received'[p] = lastDR_' \/ received'[p] \in ToSet(result_')
                /\ Rank(Matching, received'[p]) <= p /\ p < Reach(Matching, received'[p])
         /\ \A q \in (Offset .. (Offset + PacketSize - 1)) \ DOMAIN received' :
              Cardinality(Matching) <= q
<1>1. Offset \in Nat /\ PacketSize \in Nat \ {0}
  BY StampAssumption DEF TypeOK, Offset
<1>2. PICK o \in Nat : o = Offset
  BY <1>1
<1>3. PICK page \in Pages(o) :
        /\ page # <<>> /\ lastDR_' = Head(page) /\ result_' = Tail(page)
        /\ received' = [p \in DOMAIN received \cup {o + j - 1 : j \in DOMAIN page}
                          |-> IF p < o THEN received[p] ELSE page[p - o + 1]]
  BY <1>2 DEF FetchRows, Take
<1>4. PICK S : S = Matching
  OBVIOUS
<1>5. /\ page \in Seq(DR) /\ Len(page) <= PacketSize
      /\ \A j \in DOMAIN page : /\ page[j] \in S /\ Rank(S, page[j]) <= o + j - 1
                                /\ o + j - 1 < Reach(S, page[j])
      /\ \A j, k \in DOMAIN page : j < k => MayFollow(page[j], page[k])
      /\ \A j \in (1 .. PacketSize) \ DOMAIN page : Cardinality(S) <= o + j - 1
  BY <1>4, PageProperties
<1>6. offset_' = o /\ Matching' = S
  BY <1>2, <1>4 DEF FetchRows, Matching, Selected
<1>7. /\ 1 \in DOMAIN page /\ Head(page) = page[1] /\ Head(page) \in DR
      /\ Tail(page) \in Seq(DR) /\ Len(Tail(page)) = Len(page) - 1
      /\ \A j \in DOMAIN Tail(page) :
           j + 1 \in DOMAIN page /\ Tail(page)[j] = page[j + 1] /\ j \in Nat \ {0}
      /\ ToSet(page) = {Head(page)} \cup ToSet(Tail(page))
  BY <1>3, <1>5, HeadAndTail
<1>8. Len(Tail(page)) < PacketSize /\ DOMAIN page = 1 .. Len(page) /\ Len(page) \in Nat
  BY <1>1, <1>5, <1>7, LenProperties
<1>9. Head(page) \in S /\ Rank(S, Head(page)) <= o /\ o < Reach(S, Head(page))
  <2>1. o + 1 - 1 = o
    OBVIOUS
  <2>2. QED
    BY <1>5, <1>7, <2>1
<1>10. ASSUME NEW j \in DOMAIN Tail(page)
       PROVE  /\ Tail(page)[j] \in S /\ MayFollow(Head(page), Tail(page)[j])
              /\ Rank(S, Tail(page)[j]) < o + PacketSize
  <2>1. /\ j + 1 \in DOMAIN page /\ Tail(page)[j] = page[j + 1] /\ j \in Nat \ {0}
        /\ 1 < j + 1 /\ j + 1 <= PacketSize
    BY <1>1, <1>5, <1>7, <1>8
  <2>2. page[j + 1] \in S /\ Rank(S, page[j + 1]) <= o + (j + 1) - 1
    BY <1>5, <2>1
  <2>3. MayFollow(page[1], page[j + 1])
    BY <1>5, <1>7, <2>1
  <2>4. Rank(S, page[j + 1]) \in Nat
    BY <1>4, <2>2, TableRows, RankOrder
  <2>5. QED
    BY <1>1, <1>7, <2>1, <2>2, <2>3, <2>4
<1>11. ASSUME NEW j \in DOMAIN Tail(page), NEW k \in DOMAIN Tail(page), j < k
       PROVE  MayFollow(Tail(page)[j], Tail(page)[k])
  <2>1. /\ j + 1 \in DOMAIN page /\ Tail(page)[j] = page[j + 1] /\ j \in Nat
        /\ k + 1 \in DOMAIN page /\ Tail(page)[k] = page[k + 1] /\ k \in Nat
    BY <1>7
  <2>2. j + 1 < k + 1
    BY <1>11, <2>1
  <2>3. QED
    BY <1>5, <2>1, <2>2
<1>12. /\ DOMAIN received \subseteq Nat /\ \A p \in DOMAIN received : p < o
       /\ DOMAIN received' = DOMAIN received \cup {o + j - 1 : j \in DOMAIN page}
       /\ \A p \in DOMAIN received' :
            received'[p] = IF p < o THEN received[p] ELSE page[p - o + 1]
  BY <1>2, <1>3 DEF TypeOK, NewCursor, ReceivedRows, Offset
<1>13. \A j \in DOMAIN page : o + j - 1 \in Nat /\ o <= o + j - 1
  BY <1>8
<1>14. ASSUME NEW p \in DOMAIN received', o <= p
       PROVE  /\ p < o + PacketSize /\ received'[p] \in S
              /\ received'[p] = Head(page) \/ received'[p] \in ToSet(Tail(page))
              /\ Rank(S, received'[p]) <= p /\ p < Reach(S, received'[p])
  <2>1. PICK j \in DOMAIN page : p = o + j - 1
    BY <1>12, <1>14
  <2>2. received'[p] = page[j]
    <3>1. p - o + 1 = j /\ ~ (p < o)
      BY <1>8, <1>13, <2>1
    <3>2. QED
      BY <1>12, <1>14, <3>1
  <2>3. page[j] \in ToSet(page)
    BY DEF ToSet
  <2>4. p < o + PacketSize
    BY <1>1, <1>5, <1>8, <2>1
  <2>5. QED
    BY <1>5, <1>7, <2>1, <2>2, <2>3, <2>4
<1>15. ASSUME NEW q \in (o .. (o + PacketSize - 1)) \ DOMAIN received'
       PROVE  Cardinality(S) <= q
  <2>1. q - o + 1 \in 1 .. PacketSize /\ o + (q - o + 1) - 1 = q
    BY <1>1
  <2>2. q - o + 1 \notin DOMAIN page
    BY <1>12, <2>1
  <2>3. QED
    BY <1>5, <2>1, <2>2
<1>16. /\ DOMAIN received' \subseteq Nat /\ DOMAIN received \subseteq DOMAIN received'
       /\ \A p \in DOMAIN received' :
            p < o => p \in DOMAIN received /\ received'[p] = received[p]
  BY <1>12, <1>13
<1>17. QED
  BY <1>2, <1>3, <1>4, <1>6, <1>7, <1>8, <1>9, <1>10, <1>11, <1>14, <1>15, <1>16

-----------------------------------------------------------------------------
(* The invariant                                                           *)

LEMMA InitIsSound ==
  Init => IInv
<1> SUFFICES ASSUME Init PROVE IInv
  OBVIOUS
<1>1. /\ table = <<>> /\ result_ = <<>> /\ ToSet(table) = {} /\ DOMAIN table = {}
      /\ ToSet(table) \cup {NoDR} = {NoDR}
  BY DEF Init, ToSet
<1>2. TypeOK
  <2>1. Epoch \in Time /\ 0 \in 0 .. PacketSize /\ Len(result_) < PacketSize
    BY <1>1, DRAssumption, StampAssumption DEF Time, Epoch
  <2>2. <<>> \in Seq(DR) /\ DOMAIN <<>> = {}
    OBVIOUS
  <2>3. QED
    BY <1>1, <2>1, <2>2 DEF Init, TypeOK
<1>3. FromTable /\ NewCursor
  BY <1>1 DEF Init, FromTable, NewCursor
<1>4. Sorted /\ PagesOfPresent /\ PagesInOrder /\ NoneLeftBehind
  BY <1>1 DEF Init, Sorted, PagesOfPresent, PagesInOrder, NoneLeftBehind
<1>5. ReceivedRows /\ LowerInPlace /\ UpperFar
  BY DEF Init, ReceivedRows, LowerInPlace, UpperFar
<1>6. QED
  BY <1>2, <1>3, <1>4, <1>5 DEF IInv

(* A row inserted raises ranks, and comes last when rows come in order.    *)
LEMMA InsertDRKeeps ==
  ASSUME IInv, NEW d \in DR, InsertDR(d)
  PROVE  IInv'
<1>1. TypeOK /\ FromTable /\ NewCursor /\ Sorted /\ PagesOfPresent
      /\ ReceivedRows /\ LowerInPlace /\ UpperFar /\ PagesInOrder /\ NoneLeftBehind
  BY DEF IInv
<1>2. PICK T : T = ToSet(table)
  OBVIOUS
<1>3. PICK S : S = Matching
  OBVIOUS
<1>4. PICK S2 : S2 = Matching'
  OBVIOUS
<1>5. /\ ToSet(table)' = T \cup {d} /\ d \notin T /\ table' \in Seq(DR)
      /\ InOrder' => InOrder /\ \A e \in T : e < d /\ QueryLess(e, d)
  BY <1>1, <1>2, TableAppended
<1>6. /\ UNCHANGED <<pc, i, result, lastDR_, cursorVars, ghostVars>>
      /\ raced' = (raced \/ resultInitialized_)
      /\ Selected(present)' = Selected(present) /\ AtHand' = AtHand
  BY DEF InsertDR, cursorVars, ghostVars, Selected, AtHand
<1>7. S \subseteq S2 /\ S2 \subseteq S \cup {d} /\ S \subseteq T
  BY <1>2, <1>3, <1>4, <1>5, <1>6 DEF Matching, Selected, cursorVars
<1>8. S \in RowSet /\ S2 \in RowSet /\ T \subseteq DR
  <2>1. ToSet(table') \subseteq DR /\ IsFiniteSet(ToSet(table'))
    BY <1>5, ToSetIsFinite
  <2>2. S2 \subseteq ToSet(table')
    BY <1>4 DEF Matching, Selected
  <2>3. S2 \in RowSet
    BY <2>1, <2>2, FS_Subset DEF RowSet
  <2>4. S \in RowSet /\ T \subseteq DR
    BY <1>1, <1>2, <1>3, TableRows DEF RowSet
  <2>5. QED
    BY <2>3, <2>4
<1>9. \A e : /\ Rank(S, e) \in Nat /\ Rank(S2, e) \in Nat
             /\ Rank(S, e) <= Rank(S2, e)
  BY <1>7, <1>8, RankIsMonotone
<1>10. ASSUME InOrder', NEW e \in T PROVE Rank(S2, e) = Rank(S, e)
  <2>1. ~ QueryLess(d, e)
    BY <1>5, <1>8, <1>10, QueryLessOrders
  <2>2. \A f \in S2 \ S : ~ QueryLess(f, e)
    BY <1>7, <2>1
  <2>3. QED
    BY <1>7, <1>8, <2>2, RankOfLater
<1>11. TypeOK'
  BY <1>1, <1>5, <1>6 DEF TypeOK, cursorVars, ghostVars
<1>12. FromTable' /\ NewCursor'
  BY <1>1, <1>2, <1>5, <1>6 DEF FromTable, NewCursor, cursorVars, ghostVars
<1>13. Sorted'
  BY <1>1, <1>3, <1>4, <1>6, <1>7 DEF Sorted, MayFollow, QueryLess, cursorVars, ghostVars
<1>14. PagesOfPresent'
  BY <1>1, <1>6 DEF PagesOfPresent, Rank, QueryLess, cursorVars, ghostVars
<1>15. ReceivedRows' /\ UpperFar'
  <2>1. ReceivedRows'
    BY <1>1, <1>3, <1>4, <1>6, <1>7 DEF ReceivedRows, cursorVars, ghostVars
  <2>2. UpperFar'
    BY <1>1, <1>6 DEF UpperFar, Starts, Twins, Tied, QueryLess, cursorVars, ghostVars
  <2>3. QED
    BY <2>1, <2>2
<1>16. LowerInPlace'
  <2>1. ASSUME resultInitialized_, NEW e \in Selected(present), NEW b \in Starts(e)
        PROVE  b <= Rank(S2, e)
    <3>1. b <= Rank(S, e)
      BY <1>1, <1>3, <2>1 DEF LowerInPlace
    <3>2. b \in Nat
      BY <1>1, <2>1 DEF Starts, TypeOK
    <3>3. QED
      BY <1>9, <3>1, <3>2
  <2>2. QED
    BY <1>4, <1>6, <2>1 DEF LowerInPlace, Starts, QueryLess, cursorVars, ghostVars
<1>17. PagesInOrder'
  <2> SUFFICES ASSUME InOrder' PROVE PagesInOrder'
    BY DEF PagesInOrder
  <2>1. /\ again = {} /\ \A e \in handed : e = lastDR_ \/ QueryLess(e, lastDR_)
        /\ resultInitialized_ =>
             \A e \in AtHand \cup {lastDR_} : Rank(S, e) < offset_ + PacketSize
    BY <1>1, <1>3, <1>5 DEF PagesInOrder
  <2>2. resultInitialized_ => AtHand \cup {lastDR_} \subseteq T
    BY <1>1, <1>3, <1>7 DEF Sorted, AtHand, ToSet
  <2>3. resultInitialized_ =>
          \A e \in AtHand \cup {lastDR_} : Rank(S2, e) < offset_ + PacketSize
    BY <1>10, <2>1, <2>2
  <2>4. QED
    BY <1>4, <1>6, <2>1, <2>3 DEF PagesInOrder, QueryLess, cursorVars, ghostVars
<1>18. NoneLeftBehind'
  <2> SUFFICES ASSUME InOrder', ~ raced' PROVE NoneLeftBehind'
    BY DEF NoneLeftBehind
  <2>1. InOrder /\ ~ raced /\ ~ resultInitialized_ /\ ~ resultInitialized_'
    BY <1>5, <1>6 DEF cursorVars
  <2>2. present \subseteq handed /\ \A e \in T : e \in handed \/ lastDR_ = NoDR \/ lastDR_ < e
    BY <1>1, <1>2, <2>1 DEF NoneLeftBehind
  <2>3. lastDR_ = NoDR \/ lastDR_ < d
    BY <1>1, <1>2, <1>5 DEF FromTable
  <2>4. QED
    BY <1>5, <1>6, <2>1, <2>2, <2>3 DEF NoneLeftBehind, cursorVars, ghostVars
<1>19. QED
  BY <1>11, <1>12, <1>13, <1>14, <1>15, <1>16, <1>17, <1>18 DEF IInv

(* A row at hand is fetched: it comes right after the last one.            *)
LEMMA FetchRowKeeps ==
  ASSUME IInv, FetchRow
  PROVE  IInv'
<1>1. TypeOK /\ FromTable /\ NewCursor /\ Sorted /\ PagesOfPresent
      /\ ReceivedRows /\ LowerInPlace /\ UpperFar /\ PagesInOrder /\ NoneLeftBehind
  BY DEF IInv
<1>2. PICK h : h = Head(result_)
  OBVIOUS
<1>3. PICK t : t = Tail(result_)
  OBVIOUS
<1>4. /\ pc = "loop" /\ i < PacketSize /\ resultInitialized_ /\ result_ # <<>>
      /\ lastDR_' = h /\ result' = result \cup {h} /\ i' = i + 1
      /\ handed' = handed \cup {h}
      /\ again' = IF h \in handed THEN again \cup {h} ELSE again
      /\ result_' = t
      /\ UNCHANGED <<table, pc, startingTime_, beforeFirstDRId, offset_,
                     resultInitialized_, received, present, raced>>
  BY <1>2, <1>3 DEF FetchRow, Take
<1>5. /\ 1 \in DOMAIN result_ /\ h = result_[1] /\ h \in DR
      /\ t \in Seq(DR) /\ Len(t) = Len(result_) - 1
      /\ \A j \in DOMAIN t : j + 1 \in DOMAIN result_ /\ t[j] = result_[j + 1] /\ j \in Nat \ {0}
      /\ AtHand = {h} \cup ToSet(t)
  BY <1>1, <1>2, <1>3, <1>4, HeadAndTail DEF TypeOK, AtHand
<1>6. AtHand' = ToSet(t) /\ Matching' = Matching /\ Selected(present)' = Selected(present)
      /\ ToSet(table)' = ToSet(table) /\ InOrder' = InOrder
  BY <1>4 DEF AtHand, Matching, Selected, InOrder, QueryLess, ToSet
<1>7. /\ h \in Matching /\ lastDR_ \in Matching /\ MayFollow(lastDR_, h)
      /\ h \in ToSet(table) /\ lastDR_ \in ToSet(table)
  <2>1. h \in Matching /\ lastDR_ \in Matching /\ MayFollow(lastDR_, h)
    BY <1>1, <1>4, <1>5 DEF Sorted
  <2>2. QED
    BY <1>1, <2>1, TableRows
<1>8. TypeOK'
  <2>1. Len(result_) \in Nat /\ Len(t) < PacketSize
    BY <1>1, <1>5, StampAssumption DEF TypeOK
  <2>2. i' \in 0 .. PacketSize
    BY <1>1, <1>4, StampAssumption DEF TypeOK
  <2>3. again' \subseteq handed'
    BY <1>1, <1>4 DEF TypeOK
  <2>4. QED
    BY <1>1, <1>4, <1>5, <2>1, <2>2, <2>3 DEF TypeOK
<1>9. FromTable'
  <2>1. h # NoDR
    BY <1>5, DRAssumption DEF NoDR
  <2>2. QED
    BY <1>1, <1>4, <1>6, <1>7, <2>1 DEF FromTable
<1>10. NewCursor'
  BY <1>4 DEF NewCursor
<1>11. Sorted'
  <2>1. ASSUME NEW j \in DOMAIN t PROVE t[j] \in Matching /\ MayFollow(h, t[j])
    <3>1. j + 1 \in DOMAIN result_ /\ t[j] = result_[j + 1] /\ 1 < j + 1
      BY <1>5
    <3>2. QED
      BY <1>1, <1>4, <1>5, <3>1 DEF Sorted
  <2>2. ASSUME NEW j \in DOMAIN t, NEW k \in DOMAIN t, j < k PROVE MayFollow(t[j], t[k])
    <3>1. /\ j + 1 \in DOMAIN result_ /\ t[j] = result_[j + 1]
          /\ k + 1 \in DOMAIN result_ /\ t[k] = result_[k + 1] /\ j + 1 < k + 1
      BY <1>5, <2>2
    <3>2. QED
      BY <1>1, <1>4, <3>1 DEF Sorted
  <2>3. QED
    BY <1>4, <1>6, <1>7, <2>1, <2>2 DEF Sorted, MayFollow, QueryLess
<1>12. PagesOfPresent'
  BY <1>1, <1>4, <1>5, <1>6 DEF PagesOfPresent, Rank, QueryLess
<1>13. ReceivedRows' /\ LowerInPlace' /\ UpperFar'
  <2>1. ReceivedRows'
    BY <1>1, <1>4, <1>5, <1>6 DEF ReceivedRows
  <2>2. LowerInPlace'
    BY <1>1, <1>4, <1>6 DEF LowerInPlace, Starts, Rank, QueryLess
  <2>3. UpperFar'
    BY <1>1, <1>4, <1>6 DEF UpperFar, Starts, Twins, Tied, QueryLess
  <2>4. QED
    BY <2>1, <2>2, <2>3
<1>14. PagesInOrder'
  <2> SUFFICES ASSUME InOrder' PROVE PagesInOrder'
    BY DEF PagesInOrder
  <2>1. /\ again = {} /\ \A e \in handed : e = lastDR_ \/ QueryLess(e, lastDR_)
        /\ \A e \in AtHand \cup {lastDR_} : Rank(Matching, e) < offset_ + PacketSize
    BY <1>1, <1>4, <1>6 DEF PagesInOrder
  <2>2. lastDR_ \in DR /\ handed \subseteq DR /\ QueryLess(lastDR_, h)
    BY <1>1, <1>6, <1>7, TableRows, InOrderFollows DEF RowSet, TypeOK
  <2>3. \A e \in handed : QueryLess(e, h)
    BY <1>5, <2>1, <2>2, QueryLessIsTransitive
  <2>4. h \notin handed
    BY <1>5, <2>3, QueryLessOrders
  <2>5. again' = {} /\ \A e \in handed' : e = h \/ QueryLess(e, h)
    BY <1>4, <2>1, <2>3, <2>4
  <2>6. \A e \in ToSet(t) \cup {h} : Rank(Matching, e) < offset_ + PacketSize
    BY <1>5, <2>1
  <2>7. QED
    BY <1>4, <1>6, <2>5, <2>6 DEF PagesInOrder, QueryLess
<1>15. NoneLeftBehind'
  BY <1>1, <1>4, <1>6 DEF NoneLeftBehind
<1>16. QED
  BY <1>8, <1>9, <1>10, <1>11, <1>12, <1>13, <1>14, <1>15 DEF IInv

(* The rows of a new page take the places after those of the pages before. *)
LEMMA PageIsReceived ==
  ASSUME IInv, FetchRows
  PROVE  ReceivedRows' /\ LowerInPlace' /\ UpperFar'
<1>1. TypeOK /\ FromTable /\ NewCursor /\ ReceivedRows /\ LowerInPlace /\ UpperFar
  BY DEF IInv
<1>2. PICK h : h = lastDR_'
  OBVIOUS
<1>3. PICK t : t = result_'
  OBVIOUS
<1>4. PICK S : S = Matching
  OBVIOUS
<1>5. PICK o : o = Offset
  OBVIOUS
<1>6. PICK P : P = Selected(present)'
  OBVIOUS
<1>7. PICK rec : rec = received'
  OBVIOUS
<1>8. /\ Matching' = S /\ o \in Nat /\ offset_' = o
      /\ DOMAIN rec \subseteq Nat /\ DOMAIN received \subseteq DOMAIN rec
      /\ \A p \in DOMAIN rec : p < o => p \in DOMAIN received /\ rec[p] = received[p]
      /\ \A p \in DOMAIN rec :
           o <= p => /\ p < o + PacketSize /\ rec[p] \in S /\ rec[p] \in {h} \cup ToSet(t)
                     /\ Rank(S, rec[p]) <= p /\ p < Reach(S, rec[p])
      /\ \A q \in (o .. (o + PacketSize - 1)) \ DOMAIN rec : Cardinality(S) <= q
  BY <1>1, <1>2, <1>3, <1>4, <1>5, <1>7, FetchedPage
<1>9. /\ handed' = handed \cup {h} /\ AtHand' = ToSet(t) /\ resultInitialized_' = TRUE
      /\ P = Selected(IF resultInitialized_ THEN present ELSE ToSet(table))
      /\ resultInitialized_ => AtHand = {}
  BY <1>2, <1>3, <1>6 DEF FetchRows, Take, AtHand, ToSet, Selected
<1>10. /\ S \in RowSet /\ S \subseteq DR /\ P \subseteq S
       /\ resultInitialized_ => P = Selected(present)
  BY <1>1, <1>4, <1>9, TableRows DEF RowSet, Matching
<1>11. /\ PacketSize \in Nat \ {0} /\ offset_ \in Nat
       /\ resultInitialized_ => o = offset_ + PacketSize
       /\ ~ resultInitialized_ => o = 0 /\ DOMAIN received = {}
  BY <1>1, <1>5, StampAssumption DEF Offset, NewCursor, TypeOK
<1> DEFINE starts(d) == {0} \cup {p + 1 : p \in {q \in DOMAIN rec : QueryLess(rec[q], d)}}
           twins(d) == Cardinality({e \in P : Tied(e, d)})
<1>12. ASSUME NEW d \in P
       PROVE  /\ d \in DR /\ twins(d) \in Nat
              /\ Rank(S, d) \in Nat /\ Reach(S, d) \in Nat /\ Cardinality(S) \in Nat
              /\ Rank(S, d) + twins(d) <= Reach(S, d) /\ Reach(S, d) <= Cardinality(S)
  BY <1>10, ReachProperties
<1> HIDE DEF twins
<1>13. ASSUME NEW d \in P, NEW b \in starts(d), b > 0, b <= o
       PROVE  b \in Starts(d)
  <2>1. PICK p \in DOMAIN rec : b = p + 1 /\ QueryLess(rec[p], d)
    BY <1>13
  <2>2. p < o
    BY <1>8, <1>13, <2>1
  <2>3. QED
    BY <1>8, <2>1, <2>2 DEF Starts
<1>14. ASSUME NEW d \in P, NEW b \in starts(d)
       PROVE  b \in Nat /\ b <= Rank(S, d)
  <2>1. CASE b = 0
    BY <1>12, <2>1
  <2>2. CASE b # 0
    <3>1. PICK p \in DOMAIN rec : b = p + 1 /\ QueryLess(rec[p], d)
      BY <2>2
    <3>2. p \in Nat /\ b \in Nat /\ b > 0
      BY <1>8, <3>1
    <3>3. CASE p < o
      <4>1. resultInitialized_ /\ b \in Starts(d) /\ d \in Selected(present)
        BY <1>8, <1>10, <1>11, <1>13, <3>1, <3>2, <3>3
      <4>2. QED
        BY <1>1, <1>4, <3>2, <4>1 DEF LowerInPlace
    <3>4. CASE ~ (p < o)
      <4>1. rec[p] \in S /\ rec[p] \in DR /\ Rank(S, rec[p]) <= p /\ p < Reach(S, rec[p])
        BY <1>8, <1>10, <3>1, <3>2, <3>4
      <4>2. p < Rank(S, d)
        BY <1>10, <1>12, <3>1, <3>2, <4>1, PlacesTellOrder
      <4>3. QED
        BY <1>12, <3>1, <3>2, <4>2
    <3>5. QED
      BY <3>3, <3>4
  <2>3. QED
    BY <2>1, <2>2
<1>15. ASSUME NEW d \in P, NEW q \in 0 .. (o + PacketSize - 1), NEW b \in starts(d),
              q \in DOMAIN rec => QueryLess(d, rec[q]), b <= q
       PROVE  b + twins(d) <= q
  <2>1. q \in Nat /\ b \in Nat /\ b <= Rank(S, d)
    BY <1>14
  <2>2. CASE o <= q
    <3>1. Reach(S, d) <= q
      <4>1. CASE q \in DOMAIN rec
        <5>1. rec[q] \in S /\ rec[q] \in DR /\ Rank(S, rec[q]) <= q /\ q < Reach(S, rec[q])
          BY <1>8, <1>10, <2>2, <4>1
        <5>2. QED
          BY <1>10, <1>12, <1>15, <2>1, <4>1, <5>1, PlacesTellOrder
      <4>2. CASE q \notin DOMAIN rec
        <5>1. Cardinality(S) <= q
          BY <1>8, <2>2, <4>2
        <5>2. QED
          BY <1>12, <2>1, <5>1
      <4>3. QED
        BY <4>1, <4>2
    <3>2. QED
      BY <1>12, <2>1, <3>1
  <2>3. CASE q < o
    <3>1. resultInitialized_ /\ P = Selected(present) /\ q \in 0 .. (offset_ + PacketSize - 1)
      BY <1>8, <1>10, <1>11, <2>1, <2>3
    <3>2. q \in DOMAIN received => QueryLess(d, received[q])
      BY <1>8, <1>15, <2>3
    <3>3. b \in Starts(d)
      <4>1. CASE b = 0
        BY <4>1 DEF Starts
      <4>2. CASE b # 0
        BY <1>8, <1>13, <1>15, <2>1, <2>3, <4>2
      <4>3. QED
        BY <4>1, <4>2
    <3>4. b + Twins(d) <= q
      BY <1>1, <1>15, <3>1, <3>2, <3>3 DEF UpperFar
    <3>5. QED
      BY <3>1, <3>4 DEF Twins, twins
  <2>4. QED
    BY <1>8, <2>1, <2>2, <2>3
<1>16. ReceivedRows'
  <2>1. ASSUME NEW p \in DOMAIN rec
        PROVE  /\ p < o + PacketSize /\ rec[p] \in S
               /\ rec[p] \in (handed \cup {h}) \cup ToSet(t)
    <3>1. CASE p < o
      <4>1. resultInitialized_ /\ p \in DOMAIN received /\ rec[p] = received[p] /\ AtHand = {}
        BY <1>8, <1>9, <1>11, <3>1
      <4>2. received[p] \in S /\ received[p] \in handed
        BY <1>1, <1>4, <4>1 DEF ReceivedRows
      <4>3. p < o + PacketSize
        BY <1>8, <1>11, <3>1
      <4>4. QED
        BY <4>1, <4>2, <4>3
    <3>2. CASE ~ (p < o)
      BY <1>8, <3>2
    <3>3. QED
      BY <3>1, <3>2
  <2>2. QED
    BY <1>7, <1>8, <1>9, <2>1 DEF ReceivedRows
<1>17. LowerInPlace'
  BY <1>6, <1>7, <1>8, <1>14 DEF LowerInPlace, Starts, Rank, QueryLess
<1>18. UpperFar'
  BY <1>6, <1>7, <1>8, <1>15 DEF UpperFar, Starts, Twins, twins, Tied, QueryLess
<1>19. QED
  BY <1>16, <1>17, <1>18

(* A page is fetched: by a new cursor, from what follows the last row; or  *)
(* by one half way, from the ranks after those of the pages before.        *)
LEMMA FetchRowsKeeps ==
  ASSUME IInv, FetchRows
  PROVE  IInv'
<1>1. TypeOK /\ FromTable /\ NewCursor /\ Sorted /\ PagesOfPresent
      /\ ReceivedRows /\ LowerInPlace /\ UpperFar /\ PagesInOrder /\ NoneLeftBehind
  BY DEF IInv
<1>2. PICK h : h = lastDR_'
  OBVIOUS
<1>3. PICK t : t = result_'
  OBVIOUS
<1>4. PICK S : S = Matching
  OBVIOUS
<1>5. PICK o : o = Offset
  OBVIOUS
<1>6. PICK pr : pr = present'
  OBVIOUS
<1>7. /\ Matching' = S /\ o \in Nat /\ offset_' = o
      /\ h \in S /\ Rank(S, h) <= o /\ o < Reach(S, h)
      /\ t \in Seq(DR) /\ Len(t) < PacketSize
      /\ \A j \in DOMAIN t : t[j] \in S /\ MayFollow(h, t[j]) /\ Rank(S, t[j]) < o + PacketSize
      /\ \A j, k \in DOMAIN t : j < k => MayFollow(t[j], t[k])
  BY <1>1, <1>2, <1>3, <1>4, <1>5, FetchedPage
<1>8. /\ pc = "loop" /\ i < PacketSize /\ (resultInitialized_ => result_ = <<>>)
      /\ result' = result \cup {h} /\ i' = i + 1 /\ handed' = handed \cup {h}
      /\ again' = IF h \in handed THEN again \cup {h} ELSE again
      /\ resultInitialized_' = TRUE
      /\ pr = IF resultInitialized_ THEN present ELSE ToSet(table)
      /\ UNCHANGED <<table, pc, startingTime_, beforeFirstDRId, raced>>
  BY <1>2, <1>6 DEF FetchRows, Take
<1>9. /\ AtHand' = ToSet(t) /\ Selected(present)' = Selected(pr)
      /\ ToSet(table)' = ToSet(table) /\ InOrder' = InOrder
  BY <1>3, <1>6, <1>8 DEF AtHand, Selected, InOrder, QueryLess, ToSet
<1>10. /\ S \in RowSet /\ S \subseteq ToSet(table) /\ ToSet(table) \subseteq DR
       /\ Selected(pr) \subseteq S /\ pr \subseteq ToSet(table)
       /\ (resultInitialized_ => pr = present) /\ (~ resultInitialized_ => Selected(pr) = S)
  BY <1>1, <1>4, <1>8, TableRows DEF RowSet, Matching, FromTable
<1>11. PacketSize \in Nat \ {0} /\ h \in DR
  BY <1>7, <1>10, StampAssumption
<1>12. TypeOK'
  <2>1. i' \in 0 .. PacketSize
    BY <1>1, <1>8, <1>11 DEF TypeOK
  <2>2. again' \subseteq handed' /\ handed' \subseteq DR
    BY <1>1, <1>8, <1>11 DEF TypeOK
  <2>3. DOMAIN received' \subseteq Nat /\ \A p \in DOMAIN received' : received'[p] \in DR
    <3>1. \A p \in DOMAIN received' : p \in Nat
      BY <1>1, FetchedPage
    <3>2. \A p \in DOMAIN received' : received'[p] \in S
      BY <1>7, <1>8, PageIsReceived DEF ReceivedRows
    <3>3. QED
      BY <1>10, <3>1, <3>2
  <2>4. pr \subseteq DR
    BY <1>10
  <2>5. QED
    BY <1>1, <1>2, <1>3, <1>6, <1>7, <1>8, <1>11, <2>1, <2>2, <2>3, <2>4 DEF TypeOK
<1>13. FromTable'
  <2>1. h # NoDR
    BY <1>11, DRAssumption DEF NoDR
  <2>2. QED
    BY <1>1, <1>2, <1>6, <1>7, <1>8, <1>9, <1>10, <2>1 DEF FromTable
<1>14. NewCursor'
  BY <1>8 DEF NewCursor
<1>15. Sorted'
  BY <1>2, <1>3, <1>7 DEF Sorted, MayFollow, QueryLess
<1>16. \A d \in ToSet(t) \cup {h} : d \in S /\ Rank(S, d) < o + PacketSize
  <2>1. Rank(S, h) \in Nat
    BY <1>7, <1>10, RankOrder
  <2>2. QED
    BY <1>7, <1>11, <2>1 DEF ToSet
<1>17. PagesOfPresent'
  <2>1. ASSUME NEW d \in ToSet(t) \cup {h} PROVE Rank(Selected(pr), d) < o + PacketSize
    <3>1. /\ Rank(Selected(pr), d) \in Nat /\ Rank(S, d) \in Nat
          /\ Rank(Selected(pr), d) <= Rank(S, d)
      BY <1>10, RankIsMonotone
    <3>2. QED
      BY <1>7, <1>11, <1>16, <3>1
  <2>2. QED
    BY <1>2, <1>7, <1>9, <2>1 DEF PagesOfPresent, Rank, QueryLess
<1>18. ReceivedRows' /\ LowerInPlace' /\ UpperFar'
  BY PageIsReceived
<1>19. ASSUME InOrder, NEW d \in handed PROVE QueryLess(d, h)
  <2>1. d = lastDR_ \/ QueryLess(d, lastDR_)
    BY <1>1, <1>19 DEF PagesInOrder
  <2>2. lastDR_ # NoDR /\ lastDR_ \in DR /\ d \in DR
    BY <1>1, <1>10 DEF FromTable, TypeOK
  <2>3. QueryLess(lastDR_, h)
    <3>1. CASE resultInitialized_
      <4>1. o = offset_ + PacketSize /\ lastDR_ \in S
        BY <1>1, <1>4, <1>5, <3>1 DEF Offset, Sorted
      <4>2. Rank(S, lastDR_) < o
        BY <1>1, <1>4, <1>19, <3>1, <4>1 DEF PagesInOrder
      <4>3. Reach(S, lastDR_) <= Rank(S, lastDR_) + 1
        BY <1>1, <1>10, <1>19, <4>1, InOrderReach
      <4>4. /\ Rank(S, lastDR_) \in Nat /\ Reach(S, lastDR_) \in Nat /\ Reach(S, h) \in Nat
            /\ QueryLess(h, lastDR_) => Reach(S, h) <= Rank(S, lastDR_)
        BY <1>10, <1>11, <2>2, ReachProperties
      <4>5. h # lastDR_ /\ ~ QueryLess(h, lastDR_)
        BY <1>7, <4>2, <4>3, <4>4
      <4>6. QED
        BY <1>1, <1>7, <1>10, <1>19, <4>1, <4>5, InOrderFollows
    <3>2. CASE ~ resultInitialized_
      BY <1>1, <1>4, <1>7, <1>10, <1>19, <2>2, <3>2, NewCursorSelects
    <3>3. QED
      BY <3>1, <3>2
  <2>4. QED
    BY <1>11, <2>1, <2>2, <2>3, QueryLessIsTransitive
<1>20. PagesInOrder'
  <2> SUFFICES ASSUME InOrder' PROVE PagesInOrder'
    BY DEF PagesInOrder
  <2>1. InOrder /\ again = {}
    BY <1>1, <1>9 DEF PagesInOrder
  <2>2. h \notin handed
    BY <1>11, <1>19, <2>1, QueryLessOrders
  <2>3. again' = {} /\ \A d \in handed' : d = h \/ QueryLess(d, h)
    BY <1>8, <1>19, <2>1, <2>2
  <2>4. QED
    BY <1>2, <1>7, <1>9, <1>16, <2>3 DEF PagesInOrder, Rank, QueryLess
<1>21. NoneLeftBehind'
  <2> SUFFICES ASSUME InOrder', ~ raced' PROVE NoneLeftBehind'
    BY DEF NoneLeftBehind
  <2>1. InOrder /\ ~ raced
    BY <1>8, <1>9
  <2>2. pr = ToSet(table) /\ ToSet(table) \subseteq handed \cup S
    <3>1. CASE resultInitialized_
      BY <1>1, <1>4, <1>10, <2>1, <3>1 DEF NoneLeftBehind
    <3>2. CASE ~ resultInitialized_
      BY <1>1, <1>4, <1>8, <2>1, <3>2, NewCursorSelects DEF NoneLeftBehind
    <3>3. QED
      BY <3>1, <3>2
  <2>3. QED
    BY <1>6, <1>7, <1>8, <1>9, <2>2 DEF NoneLeftBehind
<1>22. QED
  BY <1>12, <1>13, <1>14, <1>15, <1>17, <1>18, <1>20, <1>21 DEF IInv

(* When the page is empty, all of the cursor's rows are fetched; and of    *)
(* each key present at the start, as many as there were: they have the     *)
(* places from the last start of the key on.                               *)
LEMMA DryCursor ==
  ASSUME IInv, NoResultAvailable
  PROVE  /\ \A p \in DOMAIN received : received[p] \in handed
         /\ \A d \in Selected(present') :
              Cardinality({p \in DOMAIN received : Tied(received[p], d)})
                >= Cardinality({e \in Selected(present') : Tied(e, d)})
         /\ ~ resultInitialized_ => Matching = {}
<1>1. TypeOK /\ FromTable /\ NewCursor /\ ReceivedRows /\ LowerInPlace /\ UpperFar
  BY DEF IInv
<1>2. /\ <<>> \in Pages(Offset) /\ (resultInitialized_ => result_ = <<>>)
      /\ present' = IF resultInitialized_ THEN present ELSE ToSet(table)
  BY DEF NoResultAvailable
<1>3. Offset \in Nat /\ Cardinality(Matching) <= Offset
  <2>1. Offset \in Nat
    BY <1>1, StampAssumption DEF TypeOK, Offset
  <2>2. QED
    BY <1>1, <1>2, <2>1, EmptyPage
<1>4. /\ Matching \in RowSet /\ Matching \subseteq DR
      /\ Selected(present) \subseteq Matching /\ Cardinality(Matching) \in Nat
  BY <1>1, TableRows, FS_CardinalityType DEF RowSet
<1>5. CASE resultInitialized_
  <2>1. Offset = offset_ + PacketSize /\ AtHand = {} /\ present' = present
    BY <1>2, <1>5 DEF Offset, AtHand, ToSet
  <2>2. offset_ \in Nat /\ PacketSize \in Nat \ {0}
    BY <1>1, StampAssumption DEF TypeOK
  <2>3. \A p \in DOMAIN received : p \in 0 .. (Offset - 1) /\ received[p] \in handed
    BY <1>1, <1>3, <1>5, <2>1 DEF ReceivedRows, TypeOK
  <2>4. ASSUME NEW d \in Selected(present)
        PROVE  Cardinality({p \in DOMAIN received : Tied(received[p], d)}) >= Twins(d)
    <3> DEFINE mine == {p \in DOMAIN received : Tied(received[p], d)}
    <3>1. /\ d \in DR /\ Twins(d) \in Nat /\ Rank(Matching, d) \in Nat
          /\ Rank(Matching, d) + Twins(d) <= Offset
      <4>1. /\ d \in DR /\ Twins(d) \in Nat
            /\ Rank(Matching, d) \in Nat /\ Reach(Matching, d) \in Nat
            /\ Rank(Matching, d) + Twins(d) <= Reach(Matching, d)
            /\ Reach(Matching, d) <= Cardinality(Matching)
        BY <1>4, ReachProperties DEF Twins
      <4>2. QED
        BY <1>3, <1>4, <4>1
    <3>2. PICK b \in Starts(d) : \A c \in Starts(d) : c <= b
      <4>1. \A c \in Starts(d) : c \in Nat /\ c <= Rank(Matching, d)
        BY <1>1, <1>5 DEF LowerInPlace, Starts, TypeOK
      <4>2. Starts(d) # {}
        BY DEF Starts
      <4>3. QED
        BY <3>1, <4>1, <4>2, GreatestExists
    <3>3. b \in Nat /\ b <= Rank(Matching, d)
      BY <1>1, <1>5 DEF LowerInPlace, Starts, TypeOK
    <3>4. ASSUME NEW q \in b .. (b + Twins(d) - 1) PROVE q \in mine
      <4>1. q \in 0 .. (offset_ + PacketSize - 1) /\ b <= q /\ ~ (b + Twins(d) <= q)
        BY <1>3, <2>1, <2>2, <3>1, <3>3
      <4>2. q \in DOMAIN received /\ ~ QueryLess(d, received[q])
        BY <1>1, <1>5, <4>1 DEF UpperFar
      <4>3. ~ QueryLess(received[q], d)
        <5>1. QueryLess(received[q], d) => q + 1 <= b
          BY <3>2, <4>2 DEF Starts
        <5>2. QED
          BY <3>3, <4>1, <5>1
      <4>4. received[q] \in DR
        BY <1>1, <4>2 DEF TypeOK
      <4>5. QED
        BY <3>1, <4>2, <4>3, <4>4, QueryLessOrders
    <3>5. Cardinality(b .. (b + Twins(d) - 1)) = Twins(d)
      BY <3>1, <3>3, FS_Interval
    <3>6. IsFiniteSet(mine)
      <4>1. mine \subseteq 0 .. (Offset - 1) /\ IsFiniteSet(0 .. (Offset - 1))
        BY <1>3, <2>3, FS_Interval
      <4>2. QED
        BY <4>1, FS_Subset
    <3>7. Cardinality(b .. (b + Twins(d) - 1)) <= Cardinality(mine) /\ Cardinality(mine) \in Nat
      <4>1. b .. (b + Twins(d) - 1) \subseteq mine
        BY <3>4
      <4>2. QED
        BY <3>6, <4>1, FS_Subset, FS_CardinalityType
    <3>8. QED
      BY <3>1, <3>5, <3>7
  <2>5. QED
    BY <1>5, <2>1, <2>3, <2>4 DEF Twins
<1>6. CASE ~ resultInitialized_
  <2>1. Offset = 0 /\ received = <<>>
    BY <1>1, <1>6 DEF Offset, NewCursor
  <2>2. Matching = {}
    <3>1. Cardinality(Matching) = 0
      BY <1>3, <1>4, <2>1
    <3>2. QED
      BY <1>4, <3>1, FS_EmptySet DEF RowSet
  <2>3. Selected(present') = {} /\ DOMAIN received = {}
    BY <1>2, <1>6, <2>1, <2>2 DEF Matching
  <2>4. QED
    BY <2>2, <2>3
<1>7. QED
  BY <1>5, <1>6

(* When rows come in order a row is the only one of its key: it is fetched.*)
LEMMA DryCursorInOrder ==
  ASSUME IInv, NoResultAvailable, InOrder, resultInitialized_
  PROVE  Selected(present) \subseteq handed
<1>1. TypeOK /\ FromTable /\ ReceivedRows /\ present' = present
  BY DEF IInv, NoResultAvailable
<1>2. /\ Selected(present) \in RowSet /\ Selected(present) \subseteq ToSet(table)
      /\ Matching \subseteq ToSet(table) /\ ToSet(table) \subseteq DR
  BY <1>1, TableRows DEF RowSet
<1>3. SUFFICES ASSUME NEW d \in Selected(present) PROVE d \in handed
  OBVIOUS
<1> DEFINE twins == {e \in Selected(present) : Tied(e, d)}
           mine == {p \in DOMAIN received : Tied(received[p], d)}
<1>4. Cardinality(mine) >= Cardinality(twins)
  BY <1>1, DryCursor
<1>5. mine # {}
  <2>1. d \in twins
    BY DEF Tied
  <2>2. IsFiniteSet(twins) /\ Cardinality(twins) \in Nat
    BY <1>2, FS_Subset, FS_CardinalityType DEF RowSet
  <2>3. Cardinality(twins) # 0
    BY <2>1, <2>2, FS_EmptySet
  <2>4. Cardinality({}) = 0
    BY FS_EmptySet
  <2>5. QED
    BY <1>4, <2>2, <2>3, <2>4
<1>6. PICK p \in DOMAIN received : Tied(received[p], d)
  BY <1>5
<1>7. received[p] \in ToSet(table) /\ received[p] \in handed
  BY <1>1, <1>2, DryCursor DEF ReceivedRows
<1>8. received[p] = d
  BY <1>1, <1>2, <1>6, <1>7, InOrderFollows, QueryLessOrders
<1>9. QED
  BY <1>7, <1>8

(* A cursor has run dry: the next one starts from the row fetched last.    *)
LEMMA NoResultAvailableKeeps ==
  ASSUME IInv, NoResultAvailable
  PROVE  IInv'
<1>1. TypeOK /\ FromTable /\ NewCursor /\ Sorted /\ PagesOfPresent
      /\ ReceivedRows /\ LowerInPlace /\ UpperFar /\ PagesInOrder /\ NoneLeftBehind
  BY DEF IInv
<1>2. /\ pc' = "idle" /\ offset_' = 0 /\ resultInitialized_' = FALSE /\ result_' = <<>>
      /\ received' = <<>> /\ DOMAIN received' = {}
      /\ startingTime_' = (IF lastDR_ = NoDR THEN Epoch ELSE SensorTime[lastDR_])
      /\ beforeFirstDRId' = lastDR_
      /\ present' = IF resultInitialized_ THEN present ELSE ToSet(table)
      /\ UNCHANGED <<table, i, result, lastDR_, handed, again, raced>>
  BY DEF NoResultAvailable, SetupCursor
<1>3. ToSet(table)' = ToSet(table) /\ InOrder' = InOrder /\ ToSet(table) \subseteq DR
  BY <1>1, <1>2, TableRows DEF InOrder, QueryLess, ToSet, RowSet
<1>4. TypeOK'
  <2>1. startingTime_' \in Time
    BY <1>1, <1>2, DRAssumption DEF TypeOK, Time, Epoch
  <2>2. present' \subseteq DR
    BY <1>1, <1>2, <1>3 DEF TypeOK
  <2>3. result_' \in Seq(DR) /\ Len(result_') < PacketSize
    BY <1>2, StampAssumption
  <2>4. QED
    BY <1>1, <1>2, <2>1, <2>2, <2>3 DEF TypeOK
<1>5. FromTable'
  BY <1>1, <1>2, <1>3 DEF FromTable
<1>6. /\ NewCursor' /\ Sorted' /\ PagesOfPresent'
      /\ ReceivedRows' /\ LowerInPlace' /\ UpperFar'
  BY <1>2 DEF NewCursor, Sorted, PagesOfPresent, ReceivedRows, LowerInPlace, UpperFar
<1>7. PagesInOrder'
  BY <1>1, <1>2, <1>3 DEF PagesInOrder, QueryLess
<1>8. NoneLeftBehind'
  <2> SUFFICES ASSUME InOrder', ~ raced' PROVE NoneLeftBehind'
    BY DEF NoneLeftBehind
  <2>1. InOrder /\ ~ raced
    BY <1>2, <1>3
  <2>2. ToSet(table) \subseteq handed
    <3>1. CASE resultInitialized_
      <4>1. Selected(present) \subseteq handed /\ present = ToSet(table)
            /\ ToSet(table) \subseteq handed \cup Matching
        BY <1>1, <2>1, <3>1, DryCursorInOrder DEF NoneLeftBehind
      <4>2. QED
        BY <4>1 DEF Matching
    <3>2. CASE ~ resultInitialized_
      <4>1. Matching = {} /\ \A d \in ToSet(table) : d \in handed \/ lastDR_ = NoDR \/ lastDR_ < d
        BY <1>1, <2>1, <3>2, DryCursor DEF NoneLeftBehind
      <4>2. QED
        BY <1>1, <2>1, <3>2, <4>1, NewCursorSelects
    <3>3. QED
      BY <3>1, <3>2
  <2>3. present' \subseteq ToSet(table)
    BY <1>1, <1>2 DEF FromTable
  <2>4. QED
    BY <1>2, <1>3, <2>2, <2>3 DEF NoneLeftBehind
<1>9. QED
  BY <1>4, <1>5, <1>6, <1>7, <1>8 DEF IInv

(* Calling getDRs, and returning with a full packet.                       *)
LEMMA CallKeeps ==
  ASSUME IInv, GetDRs \/ ReturnDRs \/ UNCHANGED vars
  PROVE  IInv'
<1>1. TypeOK /\ FromTable /\ NewCursor /\ Sorted /\ PagesOfPresent
      /\ ReceivedRows /\ LowerInPlace /\ UpperFar /\ PagesInOrder /\ NoneLeftBehind
  BY DEF IInv
<1>2. /\ UNCHANGED <<table, lastDR_, cursorVars, ghostVars, raced>>
      /\ result' \subseteq DR /\ pc' \in {"idle", "loop"} /\ i' \in 0 .. PacketSize
      /\ pc' = "loop" /\ i' > 0 => pc = "loop" /\ i > 0
  <2>1. CASE GetDRs
    BY <2>1, StampAssumption DEF GetDRs
  <2>2. CASE ReturnDRs
    BY <1>1, <2>2 DEF ReturnDRs, TypeOK
  <2>3. CASE UNCHANGED vars
    BY <1>1, <2>3 DEF vars, TypeOK
  <2>4. QED
    BY <2>1, <2>2, <2>3
<1>3. /\ ToSet(table)' = ToSet(table) /\ Matching' = Matching /\ AtHand' = AtHand
      /\ Selected(present)' = Selected(present) /\ InOrder' = InOrder
  BY <1>2 DEF cursorVars, ghostVars, Matching, AtHand, Selected, ToSet, InOrder, QueryLess
<1>4. TypeOK'
  BY <1>1, <1>2 DEF TypeOK, cursorVars, ghostVars
<1>5. FromTable' /\ NewCursor'
  BY <1>1, <1>2, <1>3 DEF FromTable, NewCursor, cursorVars, ghostVars
<1>6. Sorted'
  BY <1>1, <1>2, <1>3 DEF Sorted, MayFollow, QueryLess, cursorVars, ghostVars
<1>7. PagesOfPresent' /\ ReceivedRows' /\ LowerInPlace' /\ UpperFar'
  <2>1. PagesOfPresent' /\ ReceivedRows'
    BY <1>1, <1>2, <1>3 DEF PagesOfPresent, ReceivedRows, Rank, QueryLess, cursorVars, ghostVars
  <2>2. LowerInPlace'
    BY <1>1, <1>2, <1>3 DEF LowerInPlace, Starts, Rank, QueryLess, cursorVars, ghostVars
  <2>3. UpperFar'
    BY <1>1, <1>2, <1>3 DEF UpperFar, Starts, Twins, Tied, QueryLess, cursorVars, ghostVars
  <2>4. QED
    BY <2>1, <2>2, <2>3
<1>8. PagesInOrder'
  BY <1>1, <1>2, <1>3 DEF PagesInOrder, Rank, QueryLess, cursorVars, ghostVars
<1>9. NoneLeftBehind'
  BY <1>1, <1>2, <1>3 DEF NoneLeftBehind, cursorVars, ghostVars
<1>10. QED
  BY <1>4, <1>5, <1>6, <1>7, <1>8, <1>9 DEF IInv

LEMMA NextKeeps ==
  IInv /\ [Next]_vars => IInv'
<1> SUFFICES ASSUME IInv, [Next]_vars PROVE IInv'
  OBVIOUS
<1>1. CASE \E d \in DR : InsertDR(d)
  BY <1>1, InsertDRKeeps
<1>2. CASE GetDRs \/ ReturnDRs \/ UNCHANGED vars
  BY <1>2, CallKeeps
<1>3. CASE FetchRow
  BY <1>3, FetchRowKeeps
<1>4. CASE FetchRows
  BY <1>4, FetchRowsKeeps
<1>5. CASE NoResultAvailable
  BY <1>5, NoResultAvailableKeeps
<1>6. QED
  BY <1>1, <1>2, <1>3, <1>4, <1>5 DEF Next

LEMMA SpecInvariant ==
  Spec => []IInv
<1>1. QED
  BY InitIsSound, NextKeeps, PTL DEF Spec

-----------------------------------------------------------------------------
(* getDRs hands no row to the tracker twice as long as rows are inserted   *)
(* in the order of their ids and of the query; and when moreover none is   *)
(* inserted while a cursor is half way, a cursor that runs dry has left no *)
(* row behind.                                                             *)
THEOREM FetchedOnceInOrder ==
  Spec => []OnceInOrder
<1>1. IInv => OnceInOrder
  BY DEF IInv, PagesInOrder, NoneLeftBehind, Exhausted, OnceInOrder
<1>2. QED
  BY <1>1, SpecInvariant, PTL

(* The rows fetched never go back by a second, across the pages of a       *)
(* cursor, the calls of getDRs and the cursors that follow each other, as  *)
(* long as at most one row that belongs before the last one comes late.    *)
THEOREM ReportsFollowTime ==
  Spec => TimeNeverGoesBack
<1> DEFINE Forward ==
      lastDR_ # NoDR /\ (resultInitialized_ => Cardinality(Late) <= 1)
        => SensorTime[lastDR_'] >= SensorTime[lastDR_]
<1>1. ASSUME IInv, [Next]_vars PROVE [Forward]_vars
  <2>1. TypeOK /\ FromTable /\ NewCursor /\ Sorted /\ PagesOfPresent /\ ReceivedRows
    BY <1>1 DEF IInv
  <2> SUFFICES ASSUME lastDR_ # NoDR, resultInitialized_ => Cardinality(Late) <= 1
               PROVE  SensorTime[lastDR_'] >= SensorTime[lastDR_]
    OBVIOUS
  <2>2. lastDR_ \in DR /\ lastDR_ \in ToSet(table) /\ SensorTime[lastDR_] \in Nat
    <3>1. lastDR_ \in DR /\ lastDR_ \in ToSet(table)
      BY <2>1 DEF FromTable, TypeOK
    <3>2. QED
      BY <3>1, DRAssumption
  <2>3. CASE FetchRow
    <3>1. result_ \in Seq(DR) /\ result_ # <<>> /\ resultInitialized_
          /\ lastDR_' = Head(result_)
      BY <2>1, <2>3 DEF FetchRow, Take, TypeOK
    <3>2. lastDR_' \in DR /\ ~ QueryLess(lastDR_', lastDR_)
      BY <2>1, <3>1, HeadAndTail DEF Sorted, MayFollow
    <3>3. SensorTime[lastDR_] <= SensorTime[lastDR_'] /\ SensorTime[lastDR_'] \in Nat
      BY <2>2, <3>2, QueryLessOrders, DRAssumption
    <3>4. QED
      BY <2>2, <3>3
  <2>4. CASE FetchRows
    <3>1. PICK d : d = lastDR_'
      OBVIOUS
    <3>2. PICK S : S = Matching
      OBVIOUS
    <3>3. /\ d \in S /\ Offset < Reach(S, d) /\ Offset \in Nat
          /\ S \in RowSet /\ S \subseteq ToSet(table)
          /\ present \in RowSet /\ Selected(present) \in RowSet /\ Selected(present) \subseteq S
      BY <2>1, <2>4, <3>1, <3>2, FetchedPage, TableRows
    <3>4. d \in DR /\ SensorTime[d] \in Nat
      BY <3>3, DRAssumption DEF RowSet
    <3>5. CASE ~ resultInitialized_
      <4>1. SensorTime[lastDR_] <= SensorTime[d]
        BY <2>1, <2>2, <3>2, <3>3, <3>5, NewCursorSelects
      <4>2. QED
        BY <2>2, <3>1, <3>4, <4>1
    <3>6. CASE resultInitialized_
      <4>1. Offset = offset_ + PacketSize /\ lastDR_ \in S
        BY <2>1, <3>2, <3>6 DEF Offset, Sorted
      <4>2. Rank(Selected(present), lastDR_) < offset_ + PacketSize
        BY <2>1, <3>6 DEF PagesOfPresent
      <4>3. Late = {e \in S \ Selected(present) : QueryLess(e, lastDR_)}
        BY <3>2 DEF Late, Matching, Selected
      <4>4. /\ Cardinality(Late) \in Nat
            /\ Rank(S, lastDR_) <= Rank(Selected(present), lastDR_) + Cardinality(Late)
        BY <3>3, <4>3, RankOfMore
      <4>5. Rank(S, lastDR_) \in Nat /\ Rank(Selected(present), lastDR_) \in Nat
        BY <3>3, RankIsMonotone
      <4>6. Rank(S, lastDR_) <= Offset
        BY <2>1, <3>3, <3>6, <4>1, <4>2, <4>4, <4>5, StampAssumption DEF TypeOK
      <4>7. ~ QueryLess(d, lastDR_)
        <5>1. Reach(S, d) \in Nat /\ (QueryLess(d, lastDR_) => Reach(S, d) <= Rank(S, lastDR_))
          BY <2>2, <3>3, <3>4, ReachProperties
        <5>2. QED
          BY <3>3, <4>5, <4>6, <5>1
      <4>8. SensorTime[lastDR_] <= SensorTime[d]
        BY <2>2, <3>4, <4>7, QueryLessOrders
      <4>9. QED
        BY <2>2, <3>1, <3>4, <4>8
    <3>7. QED
      BY <3>5, <3>6
  <2>5. CASE lastDR_' = lastDR_
    BY <2>2, <2>5
  <2>6. FetchRow \/ FetchRows \/ lastDR_' = lastDR_
    BY <1>1 DEF Next, InsertDR, GetDRs, NoResultAvailable, ReturnDRs, vars
  <2>7. QED
    BY <2>3, <2>4, <2>5, <2>6
<1>2. QED
  BY <1>1, SpecInvariant, PTL DEF Spec, TimeNeverGoesBack

(* Whatever is inserted meanwhile, and however the queries order tied rows,*)
(* a cursor that runs dry has fetched at least as many rows of each key as *)
(* were in the table and matched when it first asked.                      *)
THEOREM NoKeyFallsShort ==
  Spec => PresentRowsAreFetched
<1> DEFINE Fetched ==
      pc = "loop" /\ pc' = "idle" /\ ~ resultInitialized_'
        => /\ \A p \in DOMAIN received : received[p] \in handed'
           /\ \A d \in Selected(present') :
                Cardinality({p \in DOMAIN received : Tied(received[p], d)})
                  >= Cardinality({e \in Selected(present') : Tied(e, d)})
<1>1. ASSUME IInv, [Next]_vars PROVE [Fetched]_vars
  <2>1. CASE NoResultAvailable
    <3>1. handed' = handed
      BY <2>1 DEF NoResultAvailable
    <3>2. QED
      BY <1>1, <2>1, <3>1, DryCursor
  <2>2. CASE ReturnDRs
    <3>1. i > 0 /\ pc = "loop" /\ resultInitialized_' = resultInitialized_
      BY <2>2, StampAssumption DEF ReturnDRs, cursorVars
    <3>2. resultInitialized_
      BY <1>1, <3>1 DEF IInv, FromTable
    <3>3. QED
      BY <3>1, <3>2
  <2>3. CASE UNCHANGED vars
    BY <2>3
  <2>4. CASE ~ (pc = "loop" /\ pc' = "idle")
    BY <2>4
  <2>5. QED
    BY <1>1, <2>1, <2>2, <2>3, <2>4
       DEF Next, InsertDR, GetDRs, FetchRow, FetchRows
<1>2. QED
  BY <1>1, SpecInvariant, PTL DEF Spec, PresentRowsAreFetched

=============================================================================
