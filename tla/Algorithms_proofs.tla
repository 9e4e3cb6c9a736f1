-------------------------- MODULE Algorithms_proofs ---------------------------
(***************************************************************************)
(* Theorems about the two algorithms that DataManager takes in one step:   *)
(* AlignmentProcessor, for any set of reports, any sensor times and any    *)
(* width of a group, and TrackInitialization, for any group of reports and *)
(* any ratings: the order of the pairs, the removal of the claimed ones,   *)
(* and the sets that become tracks.                                        *)
(***************************************************************************)
EXTENDS AlignmentProcessor, TrackInitialization,
        FiniteSetTheorems, WellFoundedInduction, TLAPS

(* Facts about the order of reports.                                       *)

(* A nonempty set of natural numbers has a least one.                      *)
LEMMA LeastExists ==
  ASSUME NEW S \in SUBSET Nat, S # {}
  PROVE  \E l \in S : \A x \in S : l <= x
<1>1. PICK l \in S : \A x \in S : <<x, l>> \notin OpToRel(<, Nat)
  BY NatLessThanWellFounded, WFMin
<1>2. \A x \in S : ~ (x < l)
  BY <1>1 DEF OpToRel
<1>3. QED
  BY <1>2

(* std::less is a strict total order of the reports.                       *)
LEMMA LessIsTotal ==
  ASSUME NEW d \in DR, NEW e \in DR
  PROVE  /\ ~ Less(d, d)
         /\ d # e => (Less(d, e) <=> ~ Less(e, d))
         /\ Less(d, e) => SensorTime[d] <= SensorTime[e]
BY DRAssumption DEF Less

LEMMA LessIsTransitive ==
  ASSUME NEW d \in DR, NEW e \in DR, NEW f \in DR, Less(d, e), Less(e, f)
  PROVE  Less(d, f)
<1>1. /\ d \in Nat /\ e \in Nat /\ f \in Nat
      /\ SensorTime[d] \in Int /\ SensorTime[e] \in Int /\ SensorTime[f] \in Int
  BY DRAssumption
<1>2. QED
  BY <1>1 DEF Less

(* A set of reports that is not empty has a first one, of the earliest     *)
(* second and in it of the lowest dr_id.                                   *)
LEMMA FirstProperties ==
  ASSUME NEW reports \in SUBSET DR, reports # {}
  PROVE  /\ First(reports) \in reports
         /\ \A e \in reports \ {First(reports)} : Less(First(reports), e)
         /\ \A e \in reports : SensorTime[First(reports)] <= SensorTime[e]
<1> DEFINE Times == {SensorTime[d] : d \in reports}
<1>1. Times \subseteq Nat /\ Times # {}
  <2>1. \A d \in reports : SensorTime[d] \in Nat
    BY DRAssumption
  <2>2. QED
    BY <2>1
<1>2. PICK m \in Times : \A x \in Times : m <= x
  BY <1>1, LeastExists
<1> DEFINE Earliest == {d \in reports : SensorTime[d] = m}
<1>3. Earliest \subseteq Nat /\ Earliest # {}
  BY DRAssumption
<1>4. PICK f \in Earliest : \A d \in Earliest : f <= d
  BY <1>3, LeastExists
<1>5. f \in reports /\ \A e \in reports \ {f} : Less(f, e)
  <2>1. f \in reports /\ SensorTime[f] = m
    OBVIOUS
  <2>2. ASSUME NEW e \in reports \ {f} PROVE Less(f, e)
    <3>1. SensorTime[e] \in Times /\ m <= SensorTime[e]
      BY <1>2
    <3>2. SensorTime[e] = m => f <= e
      BY <1>4
    <3>3. f \in Nat /\ e \in Nat /\ m \in Nat /\ SensorTime[e] \in Nat
      BY <2>1, DRAssumption
    <3>4. QED
      BY <2>1, <3>1, <3>2, <3>3 DEF Less
  <2>3. QED
    BY <2>1, <2>2
<1>6. First(reports) \in reports /\ \A e \in reports \ {First(reports)} : Less(First(reports), e)
  BY <1>5 DEF First
<1>7. ASSUME NEW e \in reports PROVE SensorTime[First(reports)] <= SensorTime[e]
  <2>1. CASE e = First(reports)
    BY <2>1, DRAssumption
  <2>2. CASE e # First(reports)
    BY <2>2, <1>6, LessIsTotal
  <2>3. QED
    BY <2>1, <2>2
<1>8. QED
  BY <1>6, <1>7

-----------------------------------------------------------------------------
(* AlignmentProcessor                                                      *)

(* What the sweep keeps: the group under construction holds reports within *)
(* Dt of the first of all that were there when it began.  It stops at the  *)
(* first report that is too late, so none within Dt is left behind.        *)
AlignedInv ==
  IF stage = "sweep"
  THEN /\ aligned # {}
       /\ lastTime = SensorTime[First(DRs_ \cup aligned)]
       /\ \A d \in aligned : InGroup(d)
       /\ Len(groups) < MaxGroups
  ELSE aligned = {}

AlignmentIInv == NothingLostOrRepeated /\ GroupsAreAligned /\ AlignedInv

-----------------------------------------------------------------------------
(* Appending a group                                                       *)

Handed(gs) == UNION {gs[i] : i \in DOMAIN gs}

Before(gs, i) == UNION {gs[j] : j \in 1 .. i - 1}

(* The shape of a sequence of groups that grew by one.                     *)
LEMMA AppendShape ==
  \A gs \in Seq(SUBSET DR) : \A g \in SUBSET DR :
    /\ Append(gs, g) \in Seq(SUBSET DR)
    /\ Len(gs) \in Nat /\ Len(Append(gs, g)) = Len(gs) + 1
    /\ DOMAIN gs = 1 .. Len(gs) /\ DOMAIN Append(gs, g) = DOMAIN gs \cup {Len(gs) + 1}
    /\ Append(gs, g)[Len(gs) + 1] = g
    /\ \A i \in DOMAIN gs : Append(gs, g)[i] = gs[i]
OBVIOUS

(* Appending changes neither the groups there are nor what was handed out  *)
(* before each; before the new one it is everything handed out so far.     *)
LEMMA AppendGroup ==
  ASSUME NEW gs \in Seq(SUBSET DR), NEW g \in SUBSET DR
  PROVE  /\ Handed(Append(gs, g)) = Handed(gs) \cup g
         /\ Before(Append(gs, g), Len(gs) + 1) = Handed(gs)
         /\ \A i \in DOMAIN gs : Before(Append(gs, g), i) = Before(gs, i)
<1> DEFINE hs == Append(gs, g)
           n == Len(gs) + 1
<1>1. /\ Len(gs) \in Nat /\ DOMAIN gs = 1 .. Len(gs)
      /\ DOMAIN hs = DOMAIN gs \cup {n}
      /\ hs[n] = g
      /\ \A i \in DOMAIN gs : hs[i] = gs[i]
  BY AppendShape
<1> HIDE DEF hs
<1>2. Handed(hs) = Handed(gs) \cup g
  BY <1>1 DEF Handed
<1>3. Before(hs, n) = Handed(gs)
  <2>1. 1 .. n - 1 = DOMAIN gs
    BY <1>1
  <2>2. QED
    BY <1>1, <2>1 DEF Before, Handed
<1>4. ASSUME NEW i \in DOMAIN gs PROVE Before(hs, i) = Before(gs, i)
  <2>1. \A j \in 1 .. i - 1 : j \in DOMAIN gs
    BY <1>1
  <2>2. QED
    BY <1>1, <2>1 DEF Before
<1>5. QED
  BY <1>2, <1>3, <1>4 DEF hs

(* The next group may be appended when it consists of reports not handed   *)
(* out yet and is the aligned group of all of these.                       *)
LEMMA AppendKeeps ==
  ASSUME NothingLostOrRepeated, GroupsAreAligned, UNCHANGED collection,
         NEW g \in SUBSET DR, groups' = Append(groups, g),
         g \cap HandedOut = {}, g = AlignedGroup(collection \ HandedOut, Dt)
  PROVE  /\ groups' \in Seq(SUBSET DR) /\ Len(groups') = Len(groups) + 1
         /\ Len(groups) \in Nat
         /\ HandedOut' = HandedOut \cup g
         /\ \A i, j \in DOMAIN groups' : i # j => groups'[i] \cap groups'[j] = {}
         /\ GroupsAreAligned'
<1>1. groups \in Seq(SUBSET DR)
  BY DEF NothingLostOrRepeated, AlignmentTypeOK
<1>2. PICK n \in Nat : n = Len(groups) + 1
  BY <1>1
<1>3. /\ groups' \in Seq(SUBSET DR) /\ Len(groups') = n /\ Len(groups) \in Nat
      /\ DOMAIN groups' = DOMAIN groups \cup {n} /\ n \notin DOMAIN groups
      /\ groups'[n] = g
      /\ \A i \in DOMAIN groups : groups'[i] = groups[i]
  <2>1. DOMAIN groups = 1 .. Len(groups) /\ Len(groups) \in Nat
    BY <1>1
  <2>2. n \notin DOMAIN groups
    BY <1>2, <2>1
  <2>3. /\ groups' \in Seq(SUBSET DR) /\ Len(groups') = Len(groups) + 1
        /\ DOMAIN groups' = DOMAIN groups \cup {Len(groups) + 1}
        /\ groups'[Len(groups) + 1] = g
        /\ \A i \in DOMAIN groups : groups'[i] = groups[i]
    BY <1>1, AppendShape, Zenon
  <2>4. QED
    BY <1>2, <2>1, <2>2, <2>3
<1>4. /\ Handed(groups') = Handed(groups) \cup g
      /\ Before(groups', n) = Handed(groups)
      /\ \A i \in DOMAIN groups : Before(groups', i) = Before(groups, i)
  BY <1>1, <1>2, AppendGroup
<1>5. /\ HandedOut = Handed(groups) /\ HandedOut' = Handed(groups')
      /\ \A i : HandedOutBefore(i) = Before(groups, i)
      /\ \A i : HandedOutBefore(i)' = Before(groups', i)
  BY DEF HandedOut, Handed, HandedOutBefore, Before
<1>6. \A i, j \in DOMAIN groups' : i # j => groups'[i] \cap groups'[j] = {}
  <2>1. \A i, j \in DOMAIN groups : i # j => groups[i] \cap groups[j] = {}
    BY DEF NothingLostOrRepeated
  <2>2. \A i \in DOMAIN groups : g \cap groups[i] = {}
    BY DEF HandedOut
  <2>3. ASSUME NEW i \in DOMAIN groups', NEW j \in DOMAIN groups', i # j
        PROVE  groups'[i] \cap groups'[j] = {}
    <3>1. CASE i = n
      BY <3>1, <2>2, <2>3, <1>3
    <3>2. CASE j = n
      BY <3>2, <2>2, <2>3, <1>3
    <3>3. CASE i # n /\ j # n
      BY <3>3, <2>1, <2>3, <1>3
    <3>4. QED
      BY <3>1, <3>2, <3>3
  <2>4. QED
    BY <2>3
<1>7. GroupsAreAligned'
  <2> SUFFICES ASSUME NEW i \in DOMAIN groups'
               PROVE  groups'[i] = AlignedGroup(collection \ Before(groups', i), Dt)
    BY <1>5 DEF GroupsAreAligned
  <2>1. CASE i \in DOMAIN groups
    BY <2>1, <1>3, <1>4, <1>5 DEF GroupsAreAligned
  <2>2. CASE i = n
    BY <2>2, <1>3, <1>4, <1>5
  <2>3. QED
    BY <2>1, <2>2, <1>3
<1>8. QED
  BY <1>2, <1>3, <1>4, <1>5, <1>6, <1>7

-----------------------------------------------------------------------------
LEMMA AlignmentInvInit == AlignmentInit => AlignmentIInv
<1> SUFFICES ASSUME AlignmentInit PROVE AlignmentIInv
  OBVIOUS
<1> USE DRAssumption, BoundsAssumption DEF AlignmentInit
<1>1. AlignmentTypeOK
  BY DEF AlignmentTypeOK, Time, Epoch
<1>2. HandedOut = {}
  BY DEF HandedOut
<1>3. NothingLostOrRepeated
  BY <1>1, <1>2 DEF NothingLostOrRepeated
<1>4. QED
  BY <1>3 DEF AlignmentIInv, GroupsAreAligned, AlignedInv

(* The collection is replaced: nothing of it was handed out yet.           *)
LEMMA SetDRsCollectionKeeps ==
  ASSUME AlignmentIInv, NEW reports \in SUBSET DR, SetDRsCollection(reports)
  PROVE  AlignmentIInv'
<1> USE DEF SetDRsCollection, AlignmentIInv
<1>1. AlignmentTypeOK'
  BY BoundsAssumption DEF NothingLostOrRepeated, AlignmentTypeOK
<1>2. HandedOut' = {} /\ DOMAIN groups' = {}
  BY DEF HandedOut
<1>3. aligned' = {}
  BY DEF AlignedInv
<1>4. NothingLostOrRepeated'
  BY <1>1, <1>2, <1>3 DEF NothingLostOrRepeated
<1>5. GroupsAreAligned' /\ AlignedInv'
  BY <1>2, <1>3 DEF GroupsAreAligned, AlignedInv
<1>6. QED
  BY <1>4, <1>5

(* With no report left the empty group is the aligned one; otherwise the   *)
(* first report opens the group.                                           *)
LEMMA CallKeeps == AlignmentIInv /\ CallGetNextAlignedGroup => AlignmentIInv'
<1> SUFFICES ASSUME AlignmentIInv, CallGetNextAlignedGroup PROVE AlignmentIInv'
  OBVIOUS
<1> USE DEF AlignmentIInv
<1>1. stage = "ready" /\ aligned = {} /\ Len(groups) < MaxGroups
  BY DEF CallGetNextAlignedGroup, AlignedInv
<1>2. CASE DRs_ = {}
  <2>1. /\ groups' = Append(groups, {})
        /\ UNCHANGED <<stage, DRs_, aligned, lastTime, collection, calls>>
    BY <1>2 DEF CallGetNextAlignedGroup
  <2>2. {} = AlignedGroup(collection \ HandedOut, Dt)
    BY <1>1, <1>2 DEF NothingLostOrRepeated, AlignedGroup
  <2>3. /\ groups' \in Seq(SUBSET DR) /\ Len(groups') = Len(groups) + 1
        /\ Len(groups) \in Nat /\ HandedOut' = HandedOut
        /\ \A i, j \in DOMAIN groups' : i # j => groups'[i] \cap groups'[j] = {}
        /\ GroupsAreAligned'
    <3>1. /\ NothingLostOrRepeated /\ GroupsAreAligned /\ UNCHANGED collection
          /\ {} \cap HandedOut = {} /\ {} \in SUBSET DR
      BY <2>1
    <3>2. HandedOut \cup {} = HandedOut
      OBVIOUS
    <3>3. QED
      BY <2>1, <2>2, <3>1, <3>2, AppendKeeps
  <2>4. AlignmentTypeOK'
    BY <1>1, <2>1, <2>3, BoundsAssumption DEF NothingLostOrRepeated, AlignmentTypeOK
  <2>5. NothingLostOrRepeated'
    BY <2>1, <2>3, <2>4 DEF NothingLostOrRepeated
  <2>6. AlignedInv'
    BY <1>1, <2>1 DEF AlignedInv
  <2>7. QED
    BY <2>3, <2>5, <2>6
<1>3. CASE DRs_ # {}
  <2> DEFINE f == First(DRs_)
  <2>1. /\ lastTime' = SensorTime[f] /\ aligned' = {f} /\ DRs_' = DRs_ \ {f}
        /\ stage' = "sweep" /\ UNCHANGED <<groups, collection, calls>>
    BY <1>3 DEF CallGetNextAlignedGroup, TakeFirst
  <2>2. DRs_ \subseteq DR
    BY DEF NothingLostOrRepeated, AlignmentTypeOK
  <2>3. f \in DRs_ /\ f \in DR
    BY <1>3, <2>2, FirstProperties
  <2> HIDE DEF f
  <2>4. SensorTime[f] \in Time /\ SensorTime[f] \in Int
    BY <2>3, DRAssumption DEF Time
  <2>5. AlignmentTypeOK'
    BY <2>1, <2>2, <2>3, <2>4 DEF NothingLostOrRepeated, AlignmentTypeOK
  <2>6. HandedOut' = HandedOut
    BY <2>1 DEF HandedOut
  <2>7. NothingLostOrRepeated'
    BY <1>1, <2>1, <2>3, <2>5, <2>6 DEF NothingLostOrRepeated
  <2>8. GroupsAreAligned'
    BY <2>1 DEF GroupsAreAligned, HandedOutBefore
  <2>9. AlignedInv'
    <3>1. DRs_' \cup aligned' = DRs_
      BY <2>1, <2>3
    <3>2. lastTime' = SensorTime[First(DRs_' \cup aligned')]
      BY <2>1, <3>1 DEF f
    <3>3. \A d \in aligned' : InGroup(d)'
      BY <2>1, <2>4, BoundsAssumption DEF InGroup
    <3>4. QED
      BY <1>1, <2>1, <3>2, <3>3 DEF AlignedInv
  <2>10. QED
    BY <2>7, <2>8, <2>9
<1>4. QED
  BY <1>2, <1>3

(* A report moves from the collection to the group.                        *)
LEMMA SweepDRsKeeps == AlignmentIInv /\ SweepDRs => AlignmentIInv'
<1> SUFFICES ASSUME AlignmentIInv, SweepDRs PROVE AlignmentIInv'
  OBVIOUS
<1> DEFINE f == First(DRs_)
<1> USE DEF AlignmentIInv
<1>1. /\ stage = "sweep" /\ DRs_ # {} /\ InGroup(f)
      /\ aligned' = aligned \cup {f} /\ DRs_' = DRs_ \ {f}
      /\ UNCHANGED <<stage, lastTime, collection, groups, calls>>
  BY DEF SweepDRs
<1>2. f \in DRs_ /\ DRs_ \subseteq DR
  BY <1>1, FirstProperties DEF NothingLostOrRepeated, AlignmentTypeOK
<1> HIDE DEF f
<1>3. HandedOut' = HandedOut
  BY <1>1 DEF HandedOut
<1>4. NothingLostOrRepeated'
  <2>1. AlignmentTypeOK'
    BY <1>1, <1>2 DEF NothingLostOrRepeated, AlignmentTypeOK
  <2>2. QED
    BY <1>1, <1>2, <1>3, <2>1 DEF NothingLostOrRepeated
<1>5. GroupsAreAligned'
  BY <1>1 DEF GroupsAreAligned, HandedOutBefore
<1>6. AlignedInv'
  <2>1. DRs_' \cup aligned' = DRs_ \cup aligned
    BY <1>1, <1>2
  <2>2. QED
    BY <1>1, <2>1 DEF AlignedInv, InGroup
<1>7. QED
  BY <1>4, <1>5, <1>6

(* The first report left is the earliest one: when it is too late, or      *)
(* there is none, all those within Dt are in the group.                    *)
LEMMA ReturnGroupKeeps == AlignmentIInv /\ ReturnGroup => AlignmentIInv'
<1> SUFFICES ASSUME AlignmentIInv, ReturnGroup PROVE AlignmentIInv'
  OBVIOUS
<1> DEFINE R == DRs_ \cup aligned
<1> USE DEF AlignmentIInv
<1>1. /\ stage = "sweep"
      /\ DRs_ # {} => ~ InGroup(First(DRs_))
      /\ groups' = Append(groups, aligned) /\ stage' = "ready"
      /\ aligned' = {} /\ lastTime' = Epoch
      /\ UNCHANGED <<DRs_, collection, calls>>
  BY DEF ReturnGroup
<1>2. /\ R \subseteq DR /\ aligned \subseteq DR /\ DRs_ \subseteq DR /\ lastTime \in Int
      /\ \A d \in R : SensorTime[d] \in Int
  BY DRAssumption DEF NothingLostOrRepeated, AlignmentTypeOK, Time
<1>3. collection \ HandedOut = R /\ aligned \cap HandedOut = {}
  BY DEF NothingLostOrRepeated
<1>4. /\ lastTime = SensorTime[First(R)] /\ Len(groups) < MaxGroups
      /\ \A d \in aligned : SensorTime[d] - lastTime <= Dt
  BY <1>1 DEF AlignedInv, InGroup
<1>5. ASSUME NEW d \in DRs_ PROVE ~ (SensorTime[d] - lastTime <= Dt)
  <2>1. SensorTime[First(DRs_)] <= SensorTime[d] /\ First(DRs_) \in R
    BY <1>2, FirstProperties
  <2>2. ~ (SensorTime[First(DRs_)] - lastTime <= Dt)
    BY <1>1 DEF InGroup
  <2>3. QED
    BY <1>2, <2>1, <2>2, BoundsAssumption
<1>6. aligned = AlignedGroup(R, Dt)
  BY <1>4, <1>5 DEF AlignedGroup
<1> HIDE DEF R
<1>7. /\ groups' \in Seq(SUBSET DR) /\ Len(groups') = Len(groups) + 1
      /\ Len(groups) \in Nat /\ HandedOut' = HandedOut \cup aligned
      /\ \A i, j \in DOMAIN groups' : i # j => groups'[i] \cap groups'[j] = {}
      /\ GroupsAreAligned'
  <2>1. /\ NothingLostOrRepeated /\ GroupsAreAligned /\ UNCHANGED collection
        /\ aligned \in SUBSET DR
    BY <1>1, <1>2
  <2>2. QED
    BY <1>1, <1>3, <1>6, <2>1, AppendKeeps
<1>8. AlignmentTypeOK'
  BY <1>1, <1>4, <1>7, DRAssumption, BoundsAssumption
     DEF NothingLostOrRepeated, AlignmentTypeOK, Time, Epoch
<1>9. NothingLostOrRepeated'
  BY <1>1, <1>7, <1>8 DEF NothingLostOrRepeated
<1>10. AlignedInv'
  BY <1>1 DEF AlignedInv
<1>11. QED
  BY <1>7, <1>9, <1>10

LEMMA AlignmentInvariant == AlignmentSpec => []AlignmentIInv
<1>1. AlignmentInit => AlignmentIInv
  BY AlignmentInvInit
<1>2. AlignmentIInv /\ [AlignmentNext]_alignmentVars => AlignmentIInv'
  <2>1. AlignmentIInv /\ UNCHANGED alignmentVars => AlignmentIInv'
    BY DEF alignmentVars, AlignmentIInv, NothingLostOrRepeated, AlignmentTypeOK, HandedOut, GroupsAreAligned,
           HandedOutBefore, AlignedInv, InGroup
  <2>2. QED
    BY <2>1, SetDRsCollectionKeeps, CallKeeps, SweepDRsKeeps, ReturnGroupKeeps DEF AlignmentNext
<1>3. QED
  BY <1>1, <1>2, PTL DEF AlignmentSpec

-----------------------------------------------------------------------------
(* At every moment each report of the collection is in exactly one place:  *)
(* held, in the group being built, or in one group returned.               *)
THEOREM ReportsArePartitioned == AlignmentSpec => []NothingLostOrRepeated
<1>1. AlignmentIInv => NothingLostOrRepeated
  BY DEF AlignmentIInv
<1>2. QED
  BY <1>1, AlignmentInvariant, PTL

(* Each group returned holds all the reports within Dt of the earliest one *)
(* not handed out before, and only them, although the sweep looks at       *)
(* nothing but the head of the ordered set: module DataManager may take    *)
(* the group in one step.                                                  *)
THEOREM SweepComputesAlignedGroups == AlignmentSpec => []GroupsAreAligned
<1>1. AlignmentIInv => GroupsAreAligned
  BY DEF AlignmentIInv
<1>2. QED
  BY <1>1, AlignmentInvariant, PTL

-----------------------------------------------------------------------------
(* TrackInitialization                                                     *)

(* The order of the pairs                                                  *)

LEMMA TupleFacts ==
  ASSUME NEW S \in SUBSET DR, NEW t \in Tuples(S)
  PROVE  /\ t = <<t[1], t[2], t[3]>> /\ t # End
         /\ t[1] \in S /\ t[2] \in S /\ t[3] \in 0 .. MaxRate
         /\ Less(t[1], t[2]) /\ t[1] # t[2]
<1>1. PICK p \in Pairs(S), r \in 0 .. MaxRate : t = <<p[1], p[2], r>>
  BY DEF Tuples
<1>2. p[1] \in S /\ p[2] \in S /\ Less(p[1], p[2])
  BY DEF Pairs
<1>3. p[1] # p[2]
  BY <1>2, LessIsTotal
<1>4. QED
  BY <1>1, <1>2, <1>3 DEF End

LEMMA TuplesAreTyped ==
  ASSUME NEW S \in SUBSET DR, NEW l \in S, NEW r \in S, Less(l, r), NEW n \in 0 .. MaxRate
  PROVE  <<l, r, n>> \in Tuples(S)
<1>1. <<l, r>> \in Pairs(S) /\ <<l, r>>[1] = l /\ <<l, r>>[2] = r
  BY DEF Pairs
<1>2. QED
  BY <1>1 DEF Tuples

LEMMA TuplesGrow ==
  ASSUME NEW S \in SUBSET DR
  PROVE  Tuples(S) \subseteq Tuples(DR)
BY DEF Tuples, Pairs

LEMMA TupleOrder ==
  ASSUME NEW t \in Tuples(DR), NEW u \in Tuples(DR)
  PROVE  /\ ~ TupleLess(t, t)
         /\ t # u => (TupleLess(t, u) <=> ~ TupleLess(u, t))
<1>1. /\ t = <<t[1], t[2], t[3]>> /\ u = <<u[1], u[2], u[3]>>
      /\ t[1] \in DR /\ t[2] \in DR /\ u[1] \in DR /\ u[2] \in DR
      /\ t[3] \in Nat /\ u[3] \in Nat
  BY TupleFacts, RateAssumption
<1>2. /\ ~ Less(t[1], t[1]) /\ ~ Less(t[2], t[2])
      /\ t[1] # u[1] => (Less(t[1], u[1]) <=> ~ Less(u[1], t[1]))
      /\ t[2] # u[2] => (Less(t[2], u[2]) <=> ~ Less(u[2], t[2]))
  BY <1>1, LessIsTotal
<1>3. ~ TupleLess(t, t)
  BY <1>1, <1>2 DEF TupleLess
<1>4. ASSUME t # u PROVE TupleLess(t, u) <=> ~ TupleLess(u, t)
  <2>1. t[1] # u[1] \/ t[2] # u[2] \/ t[3] # u[3]
    BY <1>1, <1>4
  <2>2. CASE t[3] # u[3]
    BY <1>1, <2>2 DEF TupleLess
  <2>3. CASE t[3] = u[3] /\ t[1] # u[1]
    BY <1>1, <1>2, <2>3 DEF TupleLess
  <2>4. CASE t[3] = u[3] /\ t[1] = u[1] /\ t[2] # u[2]
    BY <1>1, <1>2, <2>4 DEF TupleLess
  <2>5. QED
    BY <2>1, <2>2, <2>3, <2>4
<1>5. QED
  BY <1>3, <1>4

LEMMA TupleLessIsTransitive ==
  ASSUME NEW t \in Tuples(DR), NEW u \in Tuples(DR), NEW v \in Tuples(DR),
         TupleLess(t, u), TupleLess(u, v)
  PROVE  TupleLess(t, v)
<1>1. /\ t[1] \in DR /\ t[2] \in DR /\ u[1] \in DR /\ u[2] \in DR /\ v[1] \in DR /\ v[2] \in DR
      /\ t[3] \in Nat /\ u[3] \in Nat /\ v[3] \in Nat
  BY TupleFacts, RateAssumption
<1>2. /\ Less(t[1], u[1]) /\ Less(u[1], v[1]) => Less(t[1], v[1])
      /\ Less(t[2], u[2]) /\ Less(u[2], v[2]) => Less(t[2], v[2])
  BY <1>1, LessIsTransitive
<1>3. QED
  BY <1>1, <1>2 DEF TupleLess

(* begin() of a set of pairs that is not empty is its least one.           *)
LEMMA BeginIsLeast ==
  ASSUME NEW T \in SUBSET Tuples(DR), T # {}
  PROVE  /\ Begin(T) \in T
         /\ \A u \in T \ {Begin(T)} : TupleLess(Begin(T), u)
<1> DEFINE Rates == {t[3] : t \in T}
<1>1. \A t \in T : /\ t = <<t[1], t[2], t[3]>>
                   /\ t[1] \in DR /\ t[2] \in DR /\ t[3] \in Nat
  BY TupleFacts, RateAssumption
<1>2. PICK r \in Rates : \A x \in Rates : r <= x
  <2>1. Rates \subseteq Nat /\ Rates # {}
    BY <1>1
  <2>2. QED
    BY <2>1, LeastExists
<1> DEFINE Firsts == {t[1] : t \in {u \in T : u[3] = r}}
           d == First(Firsts)
<1>3. d \in Firsts /\ \A e \in Firsts \ {d} : Less(d, e)
  <2>1. Firsts \subseteq DR /\ Firsts # {}
    BY <1>1, <1>2
  <2>2. QED
    BY <2>1, FirstProperties
<1> HIDE DEF d
<1> DEFINE Seconds == {t[2] : t \in {u \in T : u[3] = r /\ u[1] = d}}
           e == First(Seconds)
<1>4. e \in Seconds /\ \A f \in Seconds \ {e} : Less(e, f)
  <2>1. Seconds \subseteq DR /\ Seconds # {}
    BY <1>1, <1>3
  <2>2. QED
    BY <2>1, FirstProperties
<1> HIDE DEF e
<1>5. PICK t \in T : t[1] = d /\ t[2] = e /\ t[3] = r
  BY <1>4
<1>6. ASSUME NEW u \in T \ {t} PROVE TupleLess(t, u)
  <2>1. /\ u[3] \in Rates /\ r <= u[3]
        /\ r \in Nat /\ u[3] \in Nat
    BY <1>1, <1>2
  <2>2. CASE u[3] # r
    BY <1>5, <2>1, <2>2 DEF TupleLess
  <2>3. CASE u[3] = r /\ u[1] # d
    <3>1. u[1] \in Firsts
      BY <2>3
    <3>2. Less(d, u[1])
      BY <1>3, <2>3, <3>1
    <3>3. QED
      BY <1>5, <2>3, <3>2 DEF TupleLess
  <2>4. CASE u[3] = r /\ u[1] = d
    <3>1. u[2] # e
      BY <1>1, <1>5, <2>4
    <3>2. u[2] \in Seconds
      BY <2>4
    <3>3. Less(e, u[2])
      BY <1>4, <3>1, <3>2
    <3>4. QED
      BY <1>5, <2>4, <3>3 DEF TupleLess
  <2>5. QED
    BY <2>2, <2>3, <2>4
<1>7. QED
  BY <1>5, <1>6 DEF Begin

(* The next pair: what precedes it precedes or is the one it follows.      *)
LEMMA AfterIsNext ==
  ASSUME NEW T \in SUBSET Tuples(DR), NEW t \in Tuples(DR)
  PROVE  /\ After(T, t) = End => \A u \in T : u = t \/ TupleLess(u, t)
         /\ After(T, t) # End =>
              /\ After(T, t) \in T \ {t}
              /\ \A u \in T : TupleLess(u, After(T, t)) => u = t \/ TupleLess(u, t)
<1> DEFINE later == {u \in T : TupleLess(t, u)}
<1>1. later \subseteq Tuples(DR)
  OBVIOUS
<1>2. CASE later = {}
  <2>1. After(T, t) = End
    BY <1>2 DEF After
  <2>2. \A u \in T : u = t \/ TupleLess(u, t)
    BY <1>2, TupleOrder
  <2>3. QED
    BY <2>1, <2>2
<1>3. CASE later # {}
  <2>1. /\ After(T, t) \in later
        /\ \A u \in later \ {After(T, t)} : TupleLess(After(T, t), u)
    BY <1>1, <1>3, BeginIsLeast DEF After
  <2>2. After(T, t) # End
    BY <2>1, TupleFacts
  <2>3. After(T, t) \in T \ {t}
    BY <2>1, TupleOrder
  <2>4. ASSUME NEW u \in T, TupleLess(u, After(T, t)) PROVE u = t \/ TupleLess(u, t)
    <3>1. After(T, t) \in Tuples(DR)
      BY <2>1
    <3>2. u # After(T, t) /\ ~ TupleLess(After(T, t), u)
      BY <2>4, <3>1, TupleOrder
    <3>3. ~ TupleLess(t, u)
      BY <2>1, <3>2
    <3>4. QED
      BY <3>3, TupleOrder
  <2>5. QED
    BY <2>2, <2>3, <2>4
<1>4. QED
  BY <1>2, <1>3

-----------------------------------------------------------------------------
(* The inductive invariant                                                 *)

(* A tuple that is left is a pair that rates well enough, of reports that  *)
(* no set has claimed; of each such pair that is gone, one was claimed.    *)
TuplesInv ==
  pc \in {"choose", "sweep", "remove"} =>
    /\ \A t \in tuples : GoodEnough(t[1], t[2]) /\ t[3] = rating[<<t[1], t[2]>>]
    /\ \A s \in result : s \cap Members(tuples) = {}
    /\ \A p \in Pairs(DRs) : GoodEnough(p[1], p[2]) =>
         <<p[1], p[2], rating[p]>> \in tuples \/ p[1] \in used \/ p[2] \in used

(* What was rated is split, and the used reports are those in the sets.    *)
ClaimsInv ==
  /\ pc \in {"choose", "sweep", "remove"} =>
       /\ notAssigned = DRs \ tuplesOriginally
       /\ Members(tuples) \subseteq tuplesOriginally /\ used \subseteq tuplesOriginally
  /\ pc = "rate" => result = {} /\ used = {}
  /\ pc = "choose" => used = UNION result
  /\ pc \in {"sweep", "remove"} =>
       /\ used = currentSet \cup UNION result
       /\ currentSet \cap UNION result = {}

(* Two seeds rate well enough with each other and with all the others.     *)
AreSeeds(a, b, S) ==
  /\ a \in S /\ b \in S /\ a # b /\ SameTrack(a, b)
  /\ \A m \in S \ {a, b} : SameTrack(a, m) /\ SameTrack(b, m)

SetsInv ==
  /\ \A s, t \in result : s # t => s \cap t = {}
  /\ {} \notin result
  /\ \A s \in result : \A d, e \in s : d # e => \E a, b \in s : AreSeeds(a, b, s)
  /\ pc # "done" => \A s \in result : \E a, b \in s : a # b

(* The sweep: what is left of the two sets is paired with its seed.        *)
SweepInv ==
  /\ pc = "sweep" =>
       /\ tuples # {} /\ firstSet \cup secondSet \subseteq Members(tuples)
       /\ \E a, b \in currentSet :
            /\ AreSeeds(a, b, currentSet)
            /\ \A d \in firstSet \ {a} : SameTrack(a, d)
            /\ \A d \in secondSet \ {b} : SameTrack(b, d)
  /\ pc = "remove" => \E a, b \in currentSet : AreSeeds(a, b, currentSet)

(* The removal: what lies before the iterator has stayed, and so has the   *)
(* tuple at it as far as it was compared, unless one was just erased.      *)
Survives(t, S) == t[1] \notin S /\ t[2] \notin S

RemoveInv ==
  /\ pc \in {"rate", "choose", "sweep"} => rest = {}
  /\ pc = "remove" =>
       /\ it = End => \A t \in tuples : Survives(t, currentSet)
       /\ it # End =>
            /\ it \in tuples
            /\ \A t \in tuples : TupleLess(t, it) => Survives(t, currentSet)
            /\ ~ erased => Survives(it, currentSet \ rest)

DoneInv ==
  pc = "done" =>
    /\ UNION result = DRs
    /\ \A d, e \in DRs : {d} \in result /\ {e} \in result /\ d # e => ~ SameTrack(d, e)

IInv ==
  /\ TypeOK /\ TuplesInv /\ ClaimsInv /\ SetsInv /\ SweepInv /\ RemoveInv /\ DoneInv

-----------------------------------------------------------------------------
LEMMA RatingKept ==
  ASSUME UNCHANGED rating
  PROVE  /\ \A l, r : GoodEnough(l, r)' <=> GoodEnough(l, r)
         /\ \A l, r : SameTrack(l, r)' <=> SameTrack(l, r)
         /\ \A a, b, S : AreSeeds(a, b, S)' <=> AreSeeds(a, b, S)
BY DEF GoodEnough, SameTrack, AreSeeds

LEMMA MembersOfTuples ==
  ASSUME NEW S \in SUBSET DR, NEW T \in SUBSET Tuples(S)
  PROVE  /\ Members(T) \subseteq S
         /\ \A U \in SUBSET T : Members(U) \subseteq Members(T)
         /\ \A t \in T : t[1] \in Members(T) /\ t[2] \in Members(T)
BY TupleFacts DEF Members

LEMMA TypedTuples ==
  ASSUME TypeOK
  PROVE  /\ DRs \in SUBSET DR /\ tuples \in SUBSET Tuples(DRs)
         /\ tuples \in SUBSET Tuples(DR) /\ Members(tuples) \subseteq DRs
BY TuplesGrow, MembersOfTuples DEF TypeOK

(* Whoever is paired with a report rates well enough with it.              *)
LEMMA PairedIsSameTrack ==
  ASSUME TypeOK, \A t \in tuples : GoodEnough(t[1], t[2])
  PROVE  /\ \A t \in tuples : SameTrack(t[1], t[2]) /\ SameTrack(t[2], t[1])
         /\ \A d, e : e \in GetSetOfPairedDRs(d) => SameTrack(d, e) /\ e \in Members(tuples)
<1>1. \A t \in tuples : Less(t[1], t[2]) /\ ~ Less(t[2], t[1])
  BY TypedTuples, TupleFacts, LessIsTotal
<1>2. \A t \in tuples : SameTrack(t[1], t[2]) /\ SameTrack(t[2], t[1])
  BY <1>1 DEF SameTrack
<1>3. \A d, e : e \in GetSetOfPairedDRs(d) =>
        \E t \in tuples : (t[1] = d /\ t[2] = e) \/ (t[2] = d /\ t[1] = e)
  BY DEF GetSetOfPairedDRs
<1>4. \A t \in tuples : t[1] \in Members(tuples) /\ t[2] \in Members(tuples)
  BY DEF Members
<1>5. QED
  BY <1>2, <1>3, <1>4

LEMMA InvInit == Init => IInv
<1> SUFFICES ASSUME Init PROVE IInv
  OBVIOUS
<1> USE DEF Init
<1>1. TypeOK
  BY DEF TypeOK
<1>2. TuplesInv /\ ClaimsInv /\ SetsInv
  BY DEF TuplesInv, ClaimsInv, SetsInv
<1>3. SweepInv /\ RemoveInv /\ DoneInv
  BY DEF SweepInv, RemoveInv, DoneInv
<1>4. QED
  BY <1>1, <1>2, <1>3 DEF IInv

LEMMA GetRatedPairsKeeps ==
  ASSUME IInv, GetRatedPairs
  PROVE  IInv'
<1> USE DEF IInv
<1>1. /\ pc = "rate" /\ pc' = "choose"
      /\ tuples' = {<<p[1], p[2], rating[p]>> : p \in {q \in Pairs(DRs) : GoodEnough(q[1], q[2])}}
      /\ tuplesOriginally' = Members(tuples') /\ notAssigned' = DRs \ Members(tuples')
      /\ UNCHANGED <<DRs, rating, used, currentSet, firstSet, secondSet, it, rest, erased, result>>
  BY DEF GetRatedPairs
<1>2. result = {} /\ used = {} /\ DRs \in SUBSET DR /\ rating \in [Pairs(DRs) -> 0 .. MaxRate]
  BY <1>1 DEF ClaimsInv, TypeOK
<1>3. \A p \in Pairs(DRs) : p = <<p[1], p[2]>> /\ p[1] \in DRs /\ p[2] \in DRs /\ Less(p[1], p[2])
  BY DEF Pairs
<1>4. tuples' \subseteq Tuples(DRs)
  BY <1>1, <1>2, <1>3, TuplesAreTyped
<1>5. Members(tuples') \subseteq DRs
  BY <1>2, <1>4, MembersOfTuples
<1>6. TypeOK'
  BY <1>1, <1>4, <1>5 DEF TypeOK
<1>7. TuplesInv'
  <2>1. ASSUME NEW t \in tuples'
        PROVE  GoodEnough(t[1], t[2]) /\ t[3] = rating[<<t[1], t[2]>>]
    <3>1. PICK p \in Pairs(DRs) : GoodEnough(p[1], p[2]) /\ t = <<p[1], p[2], rating[p]>>
      BY <1>1
    <3>2. QED
      BY <1>3, <3>1
  <2>2. \A p \in Pairs(DRs) : GoodEnough(p[1], p[2]) => <<p[1], p[2], rating[p]>> \in tuples'
    BY <1>1
  <2>3. QED
    BY <1>1, <1>2, <2>1, <2>2, RatingKept DEF TuplesInv
<1>8. ClaimsInv'
  <2>1. Members(tuples)' = Members(tuples')
    BY DEF Members
  <2>2. QED
    BY <1>1, <1>2, <2>1 DEF ClaimsInv
<1>9. SetsInv'
  BY <1>1, <1>2 DEF SetsInv
<1>10. SweepInv' /\ RemoveInv' /\ DoneInv'
  BY <1>1 DEF SweepInv, RemoveInv, DoneInv
<1>11. QED
  BY <1>6, <1>7, <1>8, <1>9, <1>10

LEMMA ChooseSeedsKeeps ==
  ASSUME IInv, ChooseSeeds
  PROVE  IInv'
<1> USE DEF IInv
<1>1. PICK t : t = Begin(tuples)
  OBVIOUS
<1>2. /\ pc = "choose" /\ pc' = "sweep" /\ tuples # {}
      /\ currentSet' = {t[1], t[2]} /\ used' = used \cup {t[1], t[2]}
      /\ firstSet' = GetSetOfPairedDRs(t[1]) /\ secondSet' = GetSetOfPairedDRs(t[2])
      /\ UNCHANGED <<DRs, rating, tuples, notAssigned, tuplesOriginally, it, rest, erased, result>>
  BY <1>1 DEF ChooseSeeds
<1>3. t \in tuples
  BY <1>1, <1>2, TypedTuples, BeginIsLeast
<1>4. /\ t[1] \in DRs /\ t[2] \in DRs /\ t[1] # t[2]
      /\ t[1] \in Members(tuples) /\ t[2] \in Members(tuples)
  BY <1>3, TypedTuples, TupleFacts, MembersOfTuples
<1>5. /\ SameTrack(t[1], t[2])
      /\ \A d, e : e \in GetSetOfPairedDRs(d) => SameTrack(d, e) /\ e \in Members(tuples)
  BY <1>2, <1>3, PairedIsSameTrack DEF TuplesInv
<1>6. firstSet' \subseteq Members(tuples) /\ secondSet' \subseteq Members(tuples)
  BY <1>2, <1>5
<1>7. TypeOK'
  <2>1. rest = {}
    BY <1>2 DEF RemoveInv
  <2>2. currentSet' \subseteq DRs /\ used' \subseteq DRs
    BY <1>2, <1>4 DEF TypeOK
  <2>3. firstSet' \subseteq DRs /\ secondSet' \subseteq DRs
    BY <1>6, TypedTuples
  <2>4. QED
    BY <1>2, <2>1, <2>2, <2>3 DEF TypeOK
<1>8. TuplesInv'
  BY <1>2, RatingKept DEF TuplesInv, Members
<1>9. ClaimsInv'
  <2>1. {t[1], t[2]} \cap UNION result = {}
    BY <1>2, <1>4 DEF TuplesInv
  <2>2. Members(tuples)' = Members(tuples)
    BY <1>2 DEF Members
  <2>3. QED
    BY <1>2, <1>4, <2>1, <2>2 DEF ClaimsInv
<1>10. SetsInv'
  BY <1>2, RatingKept DEF SetsInv
<1>11. SweepInv'
  <2>1. AreSeeds(t[1], t[2], currentSet')
    BY <1>2, <1>4, <1>5 DEF AreSeeds
  <2>2. /\ \A d \in firstSet' : SameTrack(t[1], d)
        /\ \A d \in secondSet' : SameTrack(t[2], d)
    BY <1>2, <1>5
  <2>3. \E a, b \in currentSet' :
          /\ AreSeeds(a, b, currentSet')
          /\ \A d \in firstSet' \ {a} : SameTrack(a, d)
          /\ \A d \in secondSet' \ {b} : SameTrack(b, d)
    BY <1>2, <2>1, <2>2
  <2>4. Members(tuples)' = Members(tuples)
    BY <1>2 DEF Members
  <2>5. QED
    BY <1>2, <1>6, <2>3, <2>4, RatingKept DEF SweepInv
<1>12. RemoveInv' /\ DoneInv'
  BY <1>2 DEF RemoveInv, DoneInv
<1>13. QED
  BY <1>7, <1>8, <1>9, <1>10, <1>11, <1>12

LEMMA SweepKeeps ==
  ASSUME IInv, Sweep
  PROVE  IInv'
<1> USE DEF IInv
<1>1. PICK d : d = First(firstSet)
  OBVIOUS
<1>2. /\ pc = "sweep" /\ pc' = "sweep" /\ firstSet # {} /\ firstSet' = firstSet \ {d}
      /\ \/ /\ d \in secondSet
            /\ currentSet' = currentSet \cup {d} /\ used' = used \cup {d}
            /\ secondSet' = secondSet \ {d}
         \/ UNCHANGED <<currentSet, used, secondSet>>
      /\ UNCHANGED <<DRs, rating, tuples, notAssigned, tuplesOriginally, it, rest, erased, result>>
  BY <1>1 DEF Sweep, PairedWithBoth
<1>3. firstSet \subseteq DR /\ firstSet \subseteq DRs
  BY DEF TypeOK
<1>4. d \in firstSet
  BY <1>1, <1>2, <1>3, FirstProperties
<1>5. PICK a \in currentSet, b \in currentSet :
        /\ AreSeeds(a, b, currentSet)
        /\ \A m \in firstSet \ {a} : SameTrack(a, m)
        /\ \A m \in secondSet \ {b} : SameTrack(b, m)
  BY <1>2 DEF SweepInv
<1>6. /\ firstSet \cup secondSet \subseteq Members(tuples) /\ tuples # {}
      /\ Members(tuples)' = Members(tuples)
  BY <1>2 DEF SweepInv, Members
<1>7. TypeOK'
  BY <1>2, <1>3, <1>4 DEF TypeOK
<1>8. TuplesInv'
  BY <1>2, <1>6, RatingKept DEF TuplesInv
<1>9. ClaimsInv'
  <2>1. d \in Members(tuples) /\ d \notin UNION result
    BY <1>2, <1>4, <1>6 DEF TuplesInv
  <2>2. used = currentSet \cup UNION result /\ currentSet \cap UNION result = {}
    BY <1>2 DEF ClaimsInv
  <2>3. used' = currentSet' \cup UNION result /\ currentSet' \cap UNION result = {}
    BY <1>2, <2>1, <2>2
  <2>4. used' \subseteq tuplesOriginally
    BY <1>2, <2>1 DEF ClaimsInv
  <2>5. QED
    BY <1>2, <1>6, <2>3, <2>4 DEF ClaimsInv
<1>10. SetsInv'
  BY <1>2, RatingKept DEF SetsInv
<1>11. SweepInv'
  <2>1. AreSeeds(a, b, currentSet')
    <3>1. CASE d \in secondSet /\ currentSet' = currentSet \cup {d}
      BY <1>4, <1>5, <3>1 DEF AreSeeds
    <3>2. CASE UNCHANGED currentSet
      BY <1>5, <3>2
    <3>3. QED
      BY <1>2, <3>1, <3>2
  <2>2. /\ firstSet' \subseteq firstSet /\ secondSet' \subseteq secondSet
        /\ a \in currentSet' /\ b \in currentSet'
    BY <1>2
  <2>3. \E x, y \in currentSet' :
          /\ AreSeeds(x, y, currentSet')
          /\ \A m \in firstSet' \ {x} : SameTrack(x, m)
          /\ \A m \in secondSet' \ {y} : SameTrack(y, m)
    BY <1>5, <2>1, <2>2
  <2>4. QED
    BY <1>2, <1>6, <2>2, <2>3, RatingKept DEF SweepInv
<1>12. RemoveInv' /\ DoneInv'
  BY <1>2 DEF RemoveInv, DoneInv
<1>13. QED
  BY <1>7, <1>8, <1>9, <1>10, <1>11, <1>12

LEMMA EndSweepKeeps ==
  ASSUME IInv, EndSweep
  PROVE  IInv'
<1> USE DEF IInv
<1>1. /\ pc = "sweep" /\ pc' = "remove"
      /\ it' = Begin(tuples) /\ rest' = currentSet /\ erased' = FALSE
      /\ UNCHANGED <<DRs, rating, tuples, notAssigned, tuplesOriginally, used,
                     currentSet, firstSet, secondSet, result>>
  BY DEF EndSweep
<1>2. tuples # {}
  BY <1>1 DEF SweepInv
<1>3. /\ it' \in tuples
      /\ \A u \in tuples \ {it'} : TupleLess(it', u)
  BY <1>1, <1>2, TypedTuples, BeginIsLeast
<1>4. it' \in Tuples(DRs) /\ it' \in Tuples(DR)
  BY <1>3, TypedTuples
<1>5. TypeOK'
  BY <1>1, <1>4 DEF TypeOK
<1>6. TuplesInv' /\ ClaimsInv' /\ SetsInv'
  <2>1. Members(tuples)' = Members(tuples)
    BY <1>1 DEF Members
  <2>2. QED
    BY <1>1, <2>1, RatingKept DEF TuplesInv, ClaimsInv, SetsInv
<1>7. SweepInv'
  BY <1>1, RatingKept DEF SweepInv
<1>8. RemoveInv'
  <2>1. it' # End
    BY <1>4, TupleFacts
  <2>2. \A t \in tuples : ~ TupleLess(t, it')
    BY <1>3, <1>4, TypedTuples, TupleOrder
  <2>3. Survives(it', currentSet \ rest')
    BY <1>1 DEF Survives
  <2>4. \A t \in tuples : TupleLess(t, it)' => FALSE
    BY <2>2 DEF TupleLess, Less
  <2>5. QED
    BY <1>1, <1>3, <2>1, <2>3, <2>4 DEF RemoveInv, Survives
<1>9. DoneInv'
  BY <1>1 DEF DoneInv
<1>10. QED
  BY <1>5, <1>6, <1>7, <1>8, <1>9

(* A step of the removal: the sets stay, and claimed pairs may go.         *)
LEMMA RemovalKeeps ==
  ASSUME IInv, pc = "remove", pc' \in {"remove", "crashed"}, tuples' \subseteq tuples,
         \A t \in tuples \ tuples' : ~ Survives(t, currentSet),
         it' \in tuples \cup {it, End}, rest' \subseteq currentSet, erased' \in BOOLEAN,
         RemoveInv',
         UNCHANGED <<DRs, rating, notAssigned, tuplesOriginally, used,
                     currentSet, firstSet, secondSet, result>>
  PROVE  IInv'
<1> USE DEF IInv
<1>1. TypeOK'
  BY TypedTuples DEF TypeOK
<1>2. Members(tuples') \subseteq Members(tuples)
  BY TypedTuples, MembersOfTuples
<1>3. Members(tuples)' = Members(tuples')
  BY DEF Members
<1>4. TuplesInv'
  <2>1. used = currentSet \cup UNION result
    BY DEF ClaimsInv
  <2>2. ASSUME NEW p \in Pairs(DRs), GoodEnough(p[1], p[2])
        PROVE  <<p[1], p[2], rating[p]>> \in tuples' \/ p[1] \in used \/ p[2] \in used
    <3>1. CASE <<p[1], p[2], rating[p]>> \in tuples \ tuples'
      <4>1. ~ Survives(<<p[1], p[2], rating[p]>>, currentSet)
        BY <3>1
      <4>2. p[1] \in currentSet \/ p[2] \in currentSet
        BY <4>1 DEF Survives
      <4>3. QED
        BY <2>1, <4>2
    <3>2. QED
      BY <2>2, <3>1 DEF TuplesInv
  <2>3. \A s \in result : s \cap Members(tuples') = {}
    BY <1>2 DEF TuplesInv
  <2>4. \A t \in tuples' : GoodEnough(t[1], t[2]) /\ t[3] = rating[<<t[1], t[2]>>]
    BY DEF TuplesInv
  <2>5. QED
    BY <1>3, <2>2, <2>3, <2>4, RatingKept DEF TuplesInv
<1>5. ClaimsInv'
  BY <1>2, <1>3 DEF ClaimsInv
<1>6. SetsInv'
  BY RatingKept DEF SetsInv
<1>7. SweepInv'
  BY RatingKept DEF SweepInv
<1>8. DoneInv'
  BY DEF DoneInv
<1>9. QED
  BY <1>1, <1>4, <1>5, <1>6, <1>7, <1>8

LEMMA CompareTupleKeeps ==
  ASSUME IInv, CompareTuple
  PROVE  IInv'
<1> USE DEF IInv
<1>1. PICK d : d = First(rest)
  OBVIOUS
<1>2. /\ pc = "remove" /\ pc' = "remove" /\ it # End /\ rest # {} /\ rest' = rest \ {d}
      /\ IF Touches(it, d)
         THEN tuples' = tuples \ {it} /\ it' = After(tuples, it) /\ erased' = TRUE
         ELSE UNCHANGED <<tuples, it, erased>>
      /\ UNCHANGED <<DRs, rating, notAssigned, tuplesOriginally, used,
                     currentSet, firstSet, secondSet, result>>
  BY <1>1 DEF CompareTuple
<1>3. /\ it \in tuples
      /\ \A t \in tuples : TupleLess(t, it) => Survives(t, currentSet)
      /\ ~ erased => Survives(it, currentSet \ rest)
  BY <1>2 DEF RemoveInv
<1>4. rest \subseteq currentSet /\ d \in rest
  <2>1. rest \subseteq currentSet /\ rest \subseteq DR
    BY DEF TypeOK
  <2>2. QED
    BY <1>1, <1>2, <2>1, FirstProperties
<1>5. CASE Touches(it, d)
  <2>1. tuples' = tuples \ {it} /\ it' = After(tuples, it) /\ erased' = TRUE
    BY <1>2, <1>5
  <2>2. ~ Survives(it, currentSet)
    BY <1>4, <1>5 DEF Touches, Survives
  <2>3. /\ it' = End => \A u \in tuples : u = it \/ TupleLess(u, it)
        /\ it' # End =>
             /\ it' \in tuples \ {it}
             /\ \A u \in tuples : TupleLess(u, it') => u = it \/ TupleLess(u, it)
    BY <1>3, <2>1, TypedTuples, AfterIsNext
  <2>4. it' = End => \A u \in tuples' : Survives(u, currentSet)
    BY <1>3, <2>1, <2>3
  <2>5. it' # End => \A u \in tuples' : TupleLess(u, it') => Survives(u, currentSet)
    BY <1>3, <2>1, <2>3
  <2>6. \A u : TupleLess(u, it)' <=> TupleLess(u, it')
    BY DEF TupleLess, Less
  <2>7. \A u : Survives(u, currentSet)' <=> Survives(u, currentSet)
    BY <1>2 DEF Survives
  <2>8. RemoveInv'
    BY <1>2, <2>1, <2>3, <2>4, <2>5, <2>6, <2>7 DEF RemoveInv
  <2>9. it' \in tuples \cup {it, End}
    BY <2>3
  <2>10. rest' \subseteq currentSet /\ tuples' \subseteq tuples
    BY <1>2, <1>4, <2>1
  <2>11. \A t \in tuples \ tuples' : ~ Survives(t, currentSet)
    BY <2>1, <2>2
  <2>12. QED
    BY <1>2, <2>1, <2>8, <2>9, <2>10, <2>11, RemovalKeeps
<1>6. CASE ~ Touches(it, d)
  <2>1. UNCHANGED <<tuples, it, erased>>
    BY <1>2, <1>6
  <2>2. ~ erased => Survives(it, currentSet \ rest')
    BY <1>2, <1>3, <1>6 DEF Survives, Touches
  <2>3. \A t : TupleLess(t, it)' <=> TupleLess(t, it)
    BY <2>1 DEF TupleLess, Less
  <2>4. /\ \A u : Survives(u, currentSet)' <=> Survives(u, currentSet)
        /\ Survives(it, currentSet \ rest)' <=> Survives(it, currentSet \ rest')
    BY <1>2, <2>1 DEF Survives
  <2>5. RemoveInv'
    BY <1>2, <1>3, <2>1, <2>2, <2>3, <2>4 DEF RemoveInv
  <2>6. rest' \subseteq currentSet /\ erased' \in BOOLEAN
    BY <1>2, <1>4, <2>1 DEF TypeOK
  <2>7. QED
    BY <1>2, <2>1, <2>5, <2>6, RemovalKeeps
<1>7. QED
  BY <1>5, <1>6

LEMMA CompareEndKeeps ==
  ASSUME IInv, CompareEnd
  PROVE  IInv'
<1> USE DEF IInv
<1>1. /\ pc = "remove" /\ pc' \in {"remove", "crashed"} /\ it = End /\ rest' \subseteq rest
      /\ UNCHANGED <<DRs, rating, tuples, notAssigned, tuplesOriginally, used,
                     currentSet, firstSet, secondSet, it, erased, result>>
  BY DEF CompareEnd
<1>2. RemoveInv'
  BY <1>1 DEF RemoveInv, Survives
<1>3. rest' \subseteq currentSet /\ erased' \in BOOLEAN
  BY <1>1 DEF TypeOK
<1>4. QED
  BY <1>1, <1>2, <1>3, RemovalKeeps

LEMMA NextTupleKeeps ==
  ASSUME IInv, NextTuple
  PROVE  IInv'
<1> USE DEF IInv
<1>1. /\ pc = "remove" /\ pc' = "remove" /\ it # End /\ rest = {} /\ erased' = FALSE
      /\ it' = IF erased THEN it ELSE After(tuples, it)
      /\ rest' = IF it' = End THEN {} ELSE currentSet
      /\ UNCHANGED <<DRs, rating, tuples, notAssigned, tuplesOriginally, used,
                     currentSet, firstSet, secondSet, result>>
  BY DEF NextTuple
<1>2. /\ it \in tuples
      /\ \A t \in tuples : TupleLess(t, it) => Survives(t, currentSet)
      /\ ~ erased => Survives(it, currentSet \ rest)
  BY <1>1 DEF RemoveInv
<1>3. /\ it' = End => \A t \in tuples : Survives(t, currentSet)
      /\ it' # End => it' \in tuples /\ \A t \in tuples : TupleLess(t, it') => Survives(t, currentSet)
  <2>1. CASE erased
    BY <1>1, <1>2, <2>1
  <2>2. CASE ~ erased
    <3>1. Survives(it, currentSet) /\ it' = After(tuples, it)
      BY <1>1, <1>2, <2>2 DEF Survives
    <3>2. /\ it' = End => \A u \in tuples : u = it \/ TupleLess(u, it)
          /\ it' # End =>
               /\ it' \in tuples \ {it}
               /\ \A u \in tuples : TupleLess(u, it') => u = it \/ TupleLess(u, it)
      BY <1>2, <3>1, TypedTuples, AfterIsNext
    <3>3. QED
      BY <1>2, <3>1, <3>2
  <2>3. erased \in BOOLEAN
    BY DEF TypeOK
  <2>4. QED
    BY <2>1, <2>2, <2>3
<1>4. \A u : TupleLess(u, it)' <=> TupleLess(u, it')
  BY DEF TupleLess, Less
<1>5. /\ \A u : Survives(u, currentSet)' <=> Survives(u, currentSet)
      /\ it' # End => Survives(it, currentSet \ rest)'
  BY <1>1 DEF Survives
<1>6. RemoveInv'
  BY <1>1, <1>3, <1>4, <1>5 DEF RemoveInv
<1>7. it' \in tuples \cup {it, End} /\ rest' \subseteq currentSet
  BY <1>1, <1>3
<1>8. QED
  BY <1>1, <1>6, <1>7, RemovalKeeps

LEMMA EndRemoveKeeps ==
  ASSUME IInv, EndRemove
  PROVE  IInv'
<1> USE DEF IInv
<1>1. /\ pc = "remove" /\ pc' = "choose" /\ it = End /\ rest = {}
      /\ result' = result \cup {currentSet}
      /\ UNCHANGED <<DRs, rating, tuples, notAssigned, tuplesOriginally, used,
                     currentSet, firstSet, secondSet, it, rest, erased>>
  BY DEF EndRemove
<1>2. /\ used = currentSet \cup UNION result /\ currentSet \cap UNION result = {}
  BY <1>1 DEF ClaimsInv
<1>3. PICK a \in currentSet, b \in currentSet : AreSeeds(a, b, currentSet)
  BY <1>1 DEF SweepInv
<1>4. a # b
  BY <1>3 DEF AreSeeds
<1>5. Members(tuples)' = Members(tuples)
  BY <1>1 DEF Members
<1>6. TypeOK'
  BY <1>1 DEF TypeOK
<1>7. TuplesInv'
  <2>1. \A t \in tuples : Survives(t, currentSet)
    BY <1>1 DEF RemoveInv
  <2>2. currentSet \cap Members(tuples) = {}
    BY <2>1 DEF Survives, Members
  <2>3. \A s \in result' : s \cap Members(tuples) = {}
    BY <1>1, <2>2 DEF TuplesInv
  <2>4. QED
    BY <1>1, <1>5, <2>3, RatingKept DEF TuplesInv
<1>8. ClaimsInv'
  <2>1. UNION result' = currentSet \cup UNION result
    BY <1>1
  <2>2. QED
    BY <1>1, <1>2, <1>5, <2>1 DEF ClaimsInv
<1>9. SetsInv'
  <2>1. \A s \in result : s \cap currentSet = {}
    BY <1>2
  <2>2. \A s, t \in result' : s # t => s \cap t = {}
    BY <1>1, <2>1 DEF SetsInv
  <2>3. /\ {} \notin result'
        /\ \A s \in result' : \E x, y \in s : x # y
    BY <1>1, <1>4 DEF SetsInv
  <2>4. \A s \in result' : \A d, e \in s : d # e => \E x, y \in s : AreSeeds(x, y, s)
    BY <1>1, <1>3 DEF SetsInv
  <2>5. QED
    BY <1>1, <2>2, <2>3, <2>4, RatingKept DEF SetsInv
<1>10. SweepInv' /\ RemoveInv' /\ DoneInv'
  BY <1>1 DEF SweepInv, RemoveInv, DoneInv
<1>11. QED
  BY <1>6, <1>7, <1>8, <1>9, <1>10

LEMMA ChooseSinglesKeeps ==
  ASSUME IInv, ChooseSingles
  PROVE  IInv'
<1> USE DEF IInv
<1>1. PICK singles : singles = notAssigned'
  OBVIOUS
<1>2. /\ pc = "choose" /\ pc' = "done" /\ tuples = {}
      /\ notAssigned' = singles /\ singles = notAssigned \cup (tuplesOriginally \ used)
      /\ result' = result \cup {{d} : d \in singles}
      /\ UNCHANGED <<DRs, rating, tuples, tuplesOriginally, used,
                     currentSet, firstSet, secondSet, it, rest, erased>>
  BY <1>1 DEF ChooseSingles
<1>3. /\ notAssigned = DRs \ tuplesOriginally /\ used \subseteq tuplesOriginally
      /\ tuplesOriginally \subseteq DRs /\ used = UNION result
  BY <1>2 DEF ClaimsInv, TypeOK
<1>4. singles = DRs \ used
  BY <1>2, <1>3
<1>5. TypeOK'
  BY <1>2, <1>4 DEF TypeOK
<1>6. TuplesInv' /\ ClaimsInv' /\ SweepInv' /\ RemoveInv'
  BY <1>2 DEF TuplesInv, ClaimsInv, SweepInv, RemoveInv
<1>7. SetsInv'
  <2>1. \A s \in result : \A d \in singles : d \notin s
    BY <1>3, <1>4
  <2>2. \A s, t \in result' : s # t => s \cap t = {}
    <3>1. \A s, t \in result : s # t => s \cap t = {}
      BY DEF SetsInv
    <3>2. \A d \in singles : \A s \in result : s \cap {d} = {} /\ {d} \cap s = {}
      BY <2>1
    <3>3. \A s \in result' : s \in result \/ \E d \in singles : s = {d}
      BY <1>2
    <3>4. SUFFICES ASSUME NEW s \in result', NEW t \in result', s # t
                   PROVE  s \cap t = {}
      OBVIOUS
    <3>5. CASE s \in result /\ t \in result
      BY <3>1, <3>4, <3>5
    <3>6. CASE s \in result /\ t \notin result
      BY <3>2, <3>3, <3>6
    <3>7. CASE s \notin result /\ t \in result
      BY <3>2, <3>3, <3>7
    <3>8. CASE s \notin result /\ t \notin result
      <4>1. PICK d \in singles : s = {d}
        BY <3>3, <3>8
      <4>2. PICK e \in singles : t = {e}
        BY <3>3, <3>8
      <4>3. d # e
        BY <3>4, <4>1, <4>2
      <4>4. QED
        BY <4>1, <4>2, <4>3
    <3>9. QED
      BY <3>5, <3>6, <3>7, <3>8
  <2>3. {} \notin result'
    BY <1>2 DEF SetsInv
  <2>4. \A s \in result' : \A d, e \in s : d # e => \E x, y \in s : AreSeeds(x, y, s)
    BY <1>2 DEF SetsInv
  <2>5. QED
    BY <1>2, <2>2, <2>3, <2>4, RatingKept DEF SetsInv
<1>8. DoneInv'
  <2>1. UNION result' = DRs
    <3>1. \A x : x \in UNION result' <=> x \in UNION result \/ x \in singles
      <4>1. ASSUME NEW s \in result', NEW x \in s PROVE x \in UNION result \/ x \in singles
        <5>1. CASE s \in result
          BY <5>1
        <5>2. CASE s \notin result
          BY <1>2, <5>2
        <5>3. QED
          BY <5>1, <5>2
      <4>2. \A s \in result : s \in result'
        BY <1>2
      <4>3. \A x \in singles : {x} \in result'
        BY <1>2
      <4>4. ASSUME NEW x, x \in UNION result \/ x \in singles PROVE x \in UNION result'
        <5>1. CASE x \in UNION result
          BY <4>2, <5>1
        <5>2. CASE x \in singles
          BY <4>3, <5>2
        <5>3. QED
          BY <4>4, <5>1, <5>2
      <4>5. ASSUME NEW x, x \in UNION result' PROVE x \in UNION result \/ x \in singles
        <5>1. PICK s \in result' : x \in s
          BY <4>5
        <5>2. QED
          BY <4>1, <5>1
      <4>6. QED
        BY <4>4, <4>5
    <3>2. \A x : x \in UNION result' <=> x \in DRs
      BY <1>3, <1>4, <3>1
    <3>3. QED
      BY <3>2
  <2>2. ASSUME NEW d \in DRs, NEW e \in DRs, {d} \in result', {e} \in result', d # e
        PROVE  ~ SameTrack(d, e)
    <3>1. d \notin used /\ e \notin used
      <4>1. {d} \notin result /\ {e} \notin result
        BY <1>2 DEF SetsInv
      <4>2. QED
        BY <1>2, <1>4, <2>2, <4>1
    <3>2. \A p \in Pairs(DRs) : GoodEnough(p[1], p[2]) => p[1] \in used \/ p[2] \in used
      BY <1>2 DEF TuplesInv
    <3>3. \A l, r \in DRs : Less(l, r) /\ GoodEnough(l, r) => l \in used \/ r \in used
      <4>1. \A l, r \in DRs : Less(l, r) => <<l, r>> \in Pairs(DRs)
        BY DEF Pairs
      <4>2. \A l, r : <<l, r>>[1] = l /\ <<l, r>>[2] = r
        OBVIOUS
      <4>3. QED
        BY <3>2, <4>1, <4>2
    <3>4. Less(d, e) \/ Less(e, d)
      BY <2>2, LessIsTotal DEF TypeOK
    <3>5. QED
      BY <2>2, <3>1, <3>3, <3>4 DEF SameTrack
  <2>3. QED
    BY <1>2, <2>1, <2>2, RatingKept DEF DoneInv
<1>9. QED
  BY <1>5, <1>6, <1>7, <1>8

LEMMA InvStep == IInv /\ [Next]_vars => IInv'
<1> SUFFICES ASSUME IInv, [Next]_vars PROVE IInv'
  OBVIOUS
<1>1. CASE GetRatedPairs
  BY <1>1, GetRatedPairsKeeps
<1>2. CASE ChooseSeeds
  BY <1>2, ChooseSeedsKeeps
<1>3. CASE Sweep
  BY <1>3, SweepKeeps
<1>4. CASE EndSweep
  BY <1>4, EndSweepKeeps
<1>5. CASE CompareTuple
  BY <1>5, CompareTupleKeeps
<1>6. CASE CompareEnd
  BY <1>6, CompareEndKeeps
<1>7. CASE NextTuple
  BY <1>7, NextTupleKeeps
<1>8. CASE EndRemove
  BY <1>8, EndRemoveKeeps
<1>9. CASE ChooseSingles
  BY <1>9, ChooseSinglesKeeps
<1>10. CASE UNCHANGED vars
  <2>1. /\ UNCHANGED <<pc, DRs, rating, tuples, notAssigned, tuplesOriginally, used>>
        /\ UNCHANGED <<currentSet, firstSet, secondSet, it, rest, erased, result>>
    BY <1>10 DEF vars
  <2>2. Members(tuples)' = Members(tuples)
    BY <2>1 DEF Members
  <2>3. TypeOK'
    BY <2>1 DEF IInv, TypeOK
  <2>4. TuplesInv' /\ ClaimsInv' /\ SetsInv' /\ DoneInv'
    BY <2>1, <2>2, RatingKept DEF IInv, TuplesInv, ClaimsInv, SetsInv, DoneInv
  <2>5. SweepInv'
    BY <2>1, <2>2, RatingKept DEF IInv, SweepInv
  <2>6. RemoveInv'
    <3>1. /\ \A t, S : Survives(t, S)' <=> Survives(t, S)
          /\ \A t : Survives(t, currentSet)' <=> Survives(t, currentSet)
          /\ Survives(it, currentSet \ rest)' <=> Survives(it, currentSet \ rest)
          /\ \A t : TupleLess(t, it)' <=> TupleLess(t, it)
      BY <2>1 DEF Survives, TupleLess, Less
    <3>2. QED
      BY <2>1, <3>1 DEF IInv, RemoveInv
  <2>7. QED
    BY <2>3, <2>4, <2>5, <2>6 DEF IInv
<1>11. QED
  BY <1>1, <1>2, <1>3, <1>4, <1>5, <1>6, <1>7, <1>8, <1>9, <1>10 DEF Next

LEMMA Invariant == Spec => []IInv
BY InvInit, InvStep, PTL DEF Spec

-----------------------------------------------------------------------------
(* chooseFromRated returns a partition of the group it was given: each     *)
(* report becomes part of exactly one new track, and no set is empty,      *)
(* whatever pairs the removal's misplaced iterator skips or erases.        *)
THEOREM ResultPartitionsTheGroup == Spec => []ResultIsPartition
<1>1. IInv => ResultIsPartition
  BY DEF IInv, SetsInv, DoneInv, ResultIsPartition
<1>2. QED
  BY <1>1, Invariant, PTL

(* Every set of several reports holds two seeds that rate well enough with *)
(* each other and with all the rest, and no two reports that rate well     *)
(* enough are both left alone: the threshold decides, for any ratings.     *)
THEOREM TheThresholdDecides == Spec => []ThresholdDecides
<1>1. IInv => ThresholdDecides
  BY DEF IInv, SetsInv, DoneInv, ThresholdDecides, AreSeeds
<1>2. QED
  BY <1>1, Invariant, PTL

=============================================================================
