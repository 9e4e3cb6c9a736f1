-------------------------- MODULE DataManager_proofs --------------------------
(***************************************************************************)
(* Theorems about DataManager, for any set of reports and tracks, any      *)
(* sensor times, TTL and group width.                                      *)
(***************************************************************************)
EXTENDS DataManager, FiniteSetTheorems, TLAPS

(* Facts about sensor times.                                               *)

(* A nonempty set of times has a latest one.  The times up to some member  *)
(* of S are the interval 0 .. k - 1, where k is their number.              *)
LEMMA LatestExists ==
  ASSUME NEW S \in SUBSET Time, S # {}
  PROVE  \E h \in S : \A x \in S : x <= h
<1> DEFINE D == {n \in Time : \E x \in S : n <= x}
           k == Cardinality(D)
<1> USE DRAssumption DEF Time
<1>1. /\ D \subseteq Nat /\ IsFiniteSet(D)
      /\ k \in Nat /\ k = Cardinality(D)
  <2>1. IsFiniteSet(0 .. MaxTime) /\ D \subseteq 0 .. MaxTime
    BY FS_Interval
  <2>2. QED
    BY <2>1, FS_Subset, FS_CardinalityType
<1>2. \A n \in D : \A m \in 0 .. n : m \in D
  OBVIOUS
<1>3. D # {} /\ S \subseteq D /\ \A n \in D : \E x \in S : n <= x
  <2>1. ASSUME NEW x \in S PROVE x \in D
    OBVIOUS
  <2>2. QED
    BY <2>1
<1>4. S \subseteq Nat
  OBVIOUS
<1> HIDE DEF D, k
<1>5. k - 1 \in D
  <2>1. k > 0
    BY <1>1, <1>3, FS_EmptySet
  <2>2. ASSUME k - 1 \notin D PROVE D \subseteq 0 .. (k - 2)
    <3>1. ASSUME NEW n \in D, n >= k - 1 PROVE FALSE
      <4>1. k - 1 \in 0 .. n
        BY <1>1, <2>1, <3>1
      <4>2. QED
        BY <1>2, <2>2, <4>1
    <3>2. QED
      BY <3>1, <1>1, <2>1
  <2>3. Cardinality(0 .. (k - 2)) = k - 1 /\ IsFiniteSet(0 .. (k - 2))
    <3>1. ASSUME NEW b \in Int
          PROVE  /\ IsFiniteSet(0 .. b)
                 /\ Cardinality(0 .. b) = IF 0 > b THEN 0 ELSE b - 0 + 1
      BY FS_Interval
    <3>2. k - 2 \in Int
      BY <1>1
    <3>3. QED
      BY <3>1, <3>2, <2>1, <1>1
  <2>4. ASSUME D \subseteq 0 .. (k - 2) PROVE FALSE
    <3>1. Cardinality(D) <= Cardinality(0 .. (k - 2))
      BY <2>3, <2>4, FS_Subset
    <3>2. QED
      BY <3>1, <2>3, <1>1
  <2>5. QED
    BY <2>2, <2>4
<1>6. k \notin D
  <2>1. ASSUME k \in D PROVE FALSE
    <3>1. 0 .. k \subseteq D
      BY <1>2, <2>1
    <3>2. Cardinality(0 .. k) = k + 1
      BY <1>1, FS_Interval
    <3>3. QED
      BY <1>1, <3>1, <3>2, FS_Subset
  <2>2. QED
    BY <2>1
<1>7. PICK h \in S : k - 1 <= h
  BY <1>5, <1>3
<1>8. \A x \in S : x < k
  <2>1. ASSUME NEW x \in S, k <= x PROVE FALSE
    <3>1. k \in 0 .. x /\ x \in D
      BY <1>1, <1>3, <1>4, <2>1
    <3>2. QED
      BY <3>1, <1>2, <1>6
  <2>2. QED
    BY <2>1, <1>1, <1>4
<1>9. QED
  BY <1>1, <1>4, <1>7, <1>8

(* HighestSensorTime is a time, bounds its reports, and is taken by one of *)
(* them unless there is none.                                              *)
LEMMA HighestProperties ==
  ASSUME NEW DRs \in SUBSET DR
  PROVE  /\ HighestSensorTime(DRs) \in Time
         /\ \A d \in DRs : SensorTime[d] <= HighestSensorTime(DRs)
         /\ DRs # {} => \E d \in DRs : SensorTime[d] = HighestSensorTime(DRs)
         /\ DRs = {} => HighestSensorTime(DRs) = Epoch
<1> DEFINE Times == {SensorTime[d] : d \in DRs}
<1>1. Times \subseteq Time
  BY DRAssumption DEF Time
<1>2. CASE DRs = {}
  BY <1>2, DRAssumption DEF HighestSensorTime, Time, Epoch
<1>3. CASE DRs # {}
  <2>1. Times # {}
    BY <1>3
  <2>2. \E h \in Times : \A x \in Times : x <= h
    BY <1>1, <2>1, LatestExists
  <2>3. \E h \in Times : \A d \in DRs : SensorTime[d] <= h
    BY <2>2
  <2>4. /\ HighestSensorTime(DRs) \in Times
        /\ \A d \in DRs : SensorTime[d] <= HighestSensorTime(DRs)
    BY <2>3, <1>3 DEF HighestSensorTime
  <2>5. QED
    BY <2>4, <1>1, <1>3
<1>4. QED
  BY <1>2, <1>3

(* h is the highest sensor time among DRs.                                 *)
IsHighest(h, DRs) ==
  /\ \A d \in DRs : SensorTime[d] <= h
  /\ \E d \in DRs : SensorTime[d] = h

(* There is only one such h.                                               *)
LEMMA HighestUnique ==
  ASSUME NEW DRs \in SUBSET DR, NEW h \in Time, IsHighest(h, DRs)
  PROVE  h = HighestSensorTime(DRs)
<1>1. DRs # {}
  BY DEF IsHighest
<1>2. PICK d \in DRs : SensorTime[d] = h
  BY DEF IsHighest
<1>3. PICK e \in DRs : SensorTime[e] = HighestSensorTime(DRs)
  BY <1>1, HighestProperties
<1>4. SensorTime[d] <= SensorTime[e] /\ SensorTime[e] <= SensorTime[d]
  BY <1>2, <1>3, HighestProperties DEF IsHighest
<1>5. SensorTime[d] \in Int /\ SensorTime[e] \in Int
  BY DRAssumption
<1>6. QED
  BY <1>2, <1>3, <1>4, <1>5

-----------------------------------------------------------------------------

-----------------------------------------------------------------------------
(* The inductive invariant, in four parts.                                 *)

(* Everything track t has, or will have once fusion is over.               *)
Owned(t) == measurements[t] \cup associatedDRs_[t] \cup fusing[t] \cup initialized[t]

(* Reports that were delivered and are on their way to a track.            *)
InGroups ==
  IF pc = "associate" THEN UNION DRGroups_
  ELSE IF pc = "initialize" THEN UNION unclaimed
  ELSE {}

Disjoint(groups) == \A g, h \in groups : g # h => g \cap h = {}

(* 1. No two owners, and nothing on its way is owned.                      *)
OwnershipInv ==
  /\ \A s, t \in TrackId : s # t => Owned(s) \cap Owned(t) = {}
  /\ \A t \in TrackId : Owned(t) \subseteq delivered
  /\ \A t \in TrackId : Owned(t) \cap (DRs_ \cup InGroups) = {}
  /\ DRs_ \cap InGroups = {}
  /\ DRs_ \cup InGroups \subseteq delivered
  /\ pc = "associate" => Disjoint(DRGroups_)
  /\ pc = "initialize" => Disjoint(unclaimed)
  /\ tracks_ \subseteq created
  /\ pc = "associate" => unvisited \subseteq tracks_
  /\ \A t \in TrackId \ created : Owned(t) = {}
  /\ \A t \in created : Owned(t) # {}

(* 2. How far each phase has brought the reports it deals with.            *)
PhaseInv ==
  /\ Drained => DRs_ = {}
  /\ pc \notin {"initialize", "fuseAssociated", "fuseInitialized"} => fusing = NoReports
  /\ pc = "associate" => \A t \in (TrackId \ tracks_) \cup unvisited : associatedDRs_[t] \subseteq measurements[t]
  /\ pc = "initialize" => fusing = associatedDRs_
  /\ pc = "fuseAssociated" =>
       \A t \in TrackId : associatedDRs_[t] \subseteq measurements[t] \cup fusing[t]
  /\ pc \notin {"associate", "initialize", "fuseAssociated"} =>
       \A t \in TrackId : associatedDRs_[t] \subseteq measurements[t]
  /\ pc = "fuseInitialized" =>
       \A t \in TrackId : initialized[t] \subseteq measurements[t] \cup fusing[t]
  /\ pc \notin {"initialize", "fuseAssociated", "fuseInitialized"} =>
       \A t \in TrackId : initialized[t] \subseteq measurements[t]
  /\ \A d \in delivered : d \in DRs_ \cup InGroups \/ \E t \in TrackId : d \in Owned(t)

(* 3. A track's refresh time is the highest sensor time of what it owns.   *)
RefreshInv ==
  /\ \A t \in created : IsHighest(refreshTime_[t], Owned(t))
  /\ ElapsedNeverPositive

(* 4. Removed tracks stay out of date; the survivors of the last expiry    *)
(* are up to date, and so is the snapshot made of them.                    *)
Outlived(t) ==
  IF mode = "online" THEN now - refreshTime_[t] > TTL
  ELSE \E u \in tracks_ : refreshTime_[u] - refreshTime_[t] > TTL

ExpiryInv ==
  /\ mode = "batch" => now = Epoch
  /\ pc \notin {"idle", "terminated"} /\ mode = "online" => now # Epoch
  /\ \A t \in created \ tracks_ : Outlived(t)
  /\ pc \in {"publish", "store", "idle"} =>
       \A t \in tracks_ : Reference - refreshTime_[t] <= TTL
  /\ pc \in {"store", "idle"} => snapshot_ = {<<t, refreshTime_[t]>> : t \in tracks_}
  /\ pc = "idle" => stored = snapshot_

IInv == TypeOK /\ OwnershipInv /\ PhaseInv /\ RefreshInv /\ ExpiryInv

-----------------------------------------------------------------------------
(* Type correctness.                                                       *)

(* A uuid that is drawn is new.                                            *)
LEMMA NewTrackIsFresh ==
  ASSUME created \subseteq TrackId, created # TrackId
  PROVE  (CHOOSE id \in TrackId \ created : TRUE) \in TrackId \ created
OBVIOUS

LEMMA TypeInit == Init => TypeOK
<1> SUFFICES ASSUME Init PROVE TypeOK
  OBVIOUS
<1> USE DRAssumption DEF Init, Time, Epoch, NoReports
<1>1. TrackTypeOK
  BY DEF TrackInit, TrackTypeOK
<1>2. TrackManagerTypeOK
  BY DEF TrackManagerInit, TrackManagerTypeOK
<1>3. DataAssociatorTypeOK
  BY DEF DataAssociatorInit, DataAssociatorTypeOK
<1>4. fusing \in [TrackId -> SUBSET DR]
  OBVIOUS
<1>5. QED
  BY <1>1, <1>2, <1>3, <1>4 DEF TypeOK, Modes, Steps

LEMMA TypeStep == TypeOK /\ [Next]_vars => TypeOK'
<1> SUFFICES ASSUME TypeOK, [Next]_vars PROVE TypeOK'
  OBVIOUS
<1> USE DRAssumption
    DEF TypeOK, TrackTypeOK, TrackManagerTypeOK, DataAssociatorTypeOK,
        trackVars, trackManagerVars, associatorVars, managerVars, Modes, Steps
<1>1. CASE ComputeState
  BY <1>1 DEF ComputeState, Time, Epoch
<1>2. ASSUME NEW DRs \in SUBSET (DR \ delivered), GetDRs(DRs) PROVE TypeOK'
  BY <1>2 DEF GetDRs
<1>3. CASE GetNextAlignedGroup
  BY <1>3 DEF GetNextAlignedGroup, SetInput, MeasurementGroups, AlignedGroup
<1>4. CASE NoMoreGroups
  BY <1>4 DEF NoMoreGroups
<1>5. ASSUME NEW t \in unvisited, NEW group \in DRGroups_, NEW chosen \in SUBSET group,
             Associate(t, group, chosen)
      PROVE  TypeOK'
  <2>1. HighestSensorTime(chosen) \in Time
    BY HighestProperties
  <2>2. Refreshed(t, HighestSensorTime(chosen)) \in Time
    BY <2>1 DEF Refreshed
  <2>3. QED
    BY <1>5, <2>2 DEF Associate, AssociateTrack, RemoveChosen, Refresh
<1>6. CASE Associated
  BY <1>6 DEF Associated, FinishCompute, BeginInitializeTracks, NoReports
<1>7. ASSUME NEW group \in unclaimed, NEW DRs \in (SUBSET group) \ {{}}, Initialize(group, DRs)
      PROVE  TypeOK'
  <2> DEFINE t == CHOOSE id \in TrackId \ created : TRUE
  <2>1. t \in TrackId
    BY <1>7, NewTrackIsFresh DEF Initialize, InitializeTrack
  <2>2. HighestSensorTime(DRs) \in Time
    BY HighestProperties
  <2> HIDE DEF t
  <2>3. TrackTypeOK'
    BY <1>7, <2>1, <2>2 DEF Initialize, InitializeTrack, Create, t
  <2>4. TrackManagerTypeOK'
    BY <1>7, <2>1 DEF Initialize, InitializeTrack, t
  <2>5. QED
    BY <1>7, <2>3, <2>4 DEF Initialize
<1>8. CASE BeginFusion
  BY <1>8 DEF BeginFusion
<1>9. ASSUME NEW t \in TrackId, NEW d \in fusing[t], Fuse(t, d) PROVE TypeOK'
  <2>1. SensorTime[d] \in Time /\ d \in DR
    BY DEF Time
  <2>2. Refreshed(t, SensorTime[d]) \in Time /\ TimePassed(t, d) \in Int
    BY <2>1 DEF Refreshed, TimePassed, Time
  <2>3. QED
    BY <1>9, <2>1, <2>2 DEF Fuse, ApplyMeasurement
<1>10. CASE FusedAssociated
  BY <1>10 DEF FusedAssociated
<1>11. CASE FusedInitialized
  BY <1>11 DEF FusedInitialized
<1>12. CASE Expire
  BY <1>12 DEF Expire, RemoveExpiredTracks
<1>13. CASE Publish
  BY <1>13 DEF Publish
<1>14. CASE Store
  BY <1>14 DEF Store
<1>15. CASE DatabaseFails
  BY <1>15 DEF DatabaseFails
<1>16. CASE UNCHANGED vars
  BY <1>16 DEF vars
<1>17. QED
  BY <1>1, <1>2, <1>3, <1>4, <1>5, <1>6, <1>7, <1>8, <1>9, <1>10, <1>11, <1>12, <1>13,
     <1>14, <1>15, <1>16
     DEF Next, Compute, AssociateSome, InitializeSome, FuseSome

(* Every variable keeps its type: in particular every track's refresh time *)
(* stays a time and every set of reports a set of delivered ids.           *)
THEOREM TypeCorrect == Spec => []TypeOK
<1>1. QED
  BY TypeInit, TypeStep, PTL DEF Spec

-----------------------------------------------------------------------------
(* Where every report is.                                                  *)

Placement == TypeOK /\ OwnershipInv /\ PhaseInv

(* Taking reports out of one of a collection of disjoint groups takes them *)
(* out of the collection, and leaves it disjoint.                          *)
LEMMA TakenFromGroups ==
  ASSUME NEW G, NEW g \in G, NEW c \in SUBSET g, Disjoint(G)
  PROVE  LET H == (G \ {g}) \cup {g \ c} IN
         /\ UNION H = (UNION G) \ c /\ Disjoint(H)
         /\ UNION (H \ {{}}) = (UNION G) \ c /\ Disjoint(H \ {{}})
<1> DEFINE H == (G \ {g}) \cup {g \ c}
<1>1. ASSUME NEW x \in UNION H PROVE x \in (UNION G) \ c
  <2>1. PICK h \in H : x \in h
    OBVIOUS
  <2>2. CASE h = g \ c
    <3>1. x \in g /\ x \notin c
      BY <2>1, <2>2
    <3>2. QED
      BY <3>1
  <2>3. CASE h \in G \ {g}
    <3>1. h \cap g = {}
      BY <2>3 DEF Disjoint
    <3>2. x \notin c
      BY <2>1, <3>1
    <3>3. QED
      BY <2>1, <2>3, <3>2
  <2>4. QED
    BY <2>1, <2>2, <2>3
<1>2. ASSUME NEW x \in (UNION G) \ c PROVE x \in UNION (H \ {{}})
  <2>1. PICK h \in G : x \in h
    OBVIOUS
  <2>2. CASE h = g
    <3>1. x \in g \ c /\ g \ c \in H \ {{}}
      BY <2>1, <2>2
    <3>2. QED
      BY <3>1
  <2>3. CASE h # g
    <3>1. h \in H \ {{}}
      BY <2>1, <2>3
    <3>2. QED
      BY <2>1, <3>1
  <2>4. QED
    BY <2>2, <2>3
<1>3. UNION H = (UNION G) \ c /\ UNION (H \ {{}}) = (UNION G) \ c
  <2>1. UNION (H \ {{}}) \subseteq UNION H
    OBVIOUS
  <2>2. UNION H \subseteq (UNION G) \ c /\ (UNION G) \ c \subseteq UNION (H \ {{}})
    BY <1>1, <1>2
  <2> HIDE DEF H
  <2>3. QED
    BY <2>1, <2>2
<1>4. Disjoint(H)
  <2>1. ASSUME NEW h \in G \ {g} PROVE h \cap (g \ c) = {}
    BY DEF Disjoint
  <2>2. QED
    BY <2>1 DEF Disjoint
<1>5. Disjoint(H \ {{}})
  BY <1>4 DEF Disjoint
<1>6. QED
  BY <1>3, <1>4, <1>5

LEMMA PlacementInit == Init => OwnershipInv /\ PhaseInv
BY DEF Init, TrackInit, TrackManagerInit, DataAssociatorInit, OwnershipInv, PhaseInv,
       Owned, InGroups, NoReports, Drained

LEMMA PlacementStep == Placement /\ [Next]_vars => OwnershipInv' /\ PhaseInv'
<1> SUFFICES ASSUME TypeOK, OwnershipInv, PhaseInv, [Next]_vars
             PROVE  OwnershipInv' /\ PhaseInv'
  BY DEF Placement
<1> USE DEF TypeOK, TrackTypeOK, TrackManagerTypeOK, DataAssociatorTypeOK,
        trackVars, trackManagerVars, associatorVars, managerVars
<1>1. CASE ComputeState
  BY <1>1 DEF ComputeState, OwnershipInv, PhaseInv, Owned, InGroups, Drained
<1>2. ASSUME NEW DRs \in SUBSET (DR \ delivered), GetDRs(DRs)
      PROVE  OwnershipInv' /\ PhaseInv'
  <2>1. OwnershipInv'
    BY <1>2 DEF GetDRs, OwnershipInv, PhaseInv, Owned, InGroups, Drained
  <2>2. PhaseInv'
    BY <1>2 DEF GetDRs, OwnershipInv, PhaseInv, Owned, InGroups, Drained
  <2>3. QED
    BY <2>1, <2>2
<1>3. CASE GetNextAlignedGroup
  <2>1. OwnershipInv'
    BY <1>3 DEF GetNextAlignedGroup, SetInput, MeasurementGroups, AlignedGroup, OwnershipInv, PhaseInv, Owned, InGroups, Drained, Disjoint
  <2>2. PhaseInv'
    BY <1>3 DEF GetNextAlignedGroup, SetInput, MeasurementGroups, AlignedGroup, OwnershipInv, PhaseInv, Owned, InGroups, Drained, Disjoint
  <2>3. QED
    BY <2>1, <2>2
<1>4. CASE NoMoreGroups
  BY <1>4 DEF NoMoreGroups, OwnershipInv, PhaseInv, Owned, InGroups, Drained
<1>5. ASSUME NEW t \in unvisited, NEW group \in DRGroups_, NEW chosen \in SUBSET group,
             Associate(t, group, chosen)
      PROVE  OwnershipInv' /\ PhaseInv'
  <2>1. /\ pc = "associate" /\ pc' = "associate" /\ t \in tracks_
        /\ UNCHANGED <<measurements, trackManagerVars, managerVars>>
        /\ unvisited' = unvisited \ {t}
        /\ DRGroups_' = (DRGroups_ \ {group}) \cup {group \ chosen}
        /\ associatedDRs_' = [associatedDRs_ EXCEPT ![t] = chosen]
    BY <1>5 DEF Associate, AssociateTrack, RemoveChosen, Refresh, OwnershipInv
  <2>2. Disjoint(DRGroups_) /\ chosen \subseteq UNION DRGroups_
    BY <2>1 DEF OwnershipInv
  <2>3. InGroups = UNION DRGroups_ /\ InGroups' = (UNION DRGroups_) \ chosen
    <3>1. UNION DRGroups_' = (UNION DRGroups_) \ chosen
      BY <2>1, <2>2, TakenFromGroups
    <3>2. QED
      BY <2>1, <3>1 DEF InGroups
  <2>4. Disjoint(DRGroups_)'
    <3>1. Disjoint(DRGroups_')
      BY <2>1, <2>2, TakenFromGroups
    <3>2. QED
      BY <3>1 DEF Disjoint
  <2>5. Owned(t)' = Owned(t) \cup chosen
    <3>1. associatedDRs_[t] \subseteq measurements[t]
      BY <2>1 DEF PhaseInv
    <3>2. QED
      BY <2>1, <3>1 DEF Owned
  <2>6. \A s \in TrackId \ {t} : Owned(s)' = Owned(s)
    BY <2>1 DEF Owned
  <2>7. OwnershipInv'
    <3>1. chosen \subseteq InGroups /\ chosen \subseteq delivered
      BY <2>2, <2>3 DEF OwnershipInv
    <3>2. \A r, s \in TrackId : r # s => (Owned(r) \cap Owned(s) = {})'
      BY <2>5, <2>6, <3>1 DEF OwnershipInv
    <3>3. \A s \in TrackId : (Owned(s) \subseteq delivered)'
      BY <2>1, <2>5, <2>6, <3>1 DEF OwnershipInv
    <3>4. \A s \in TrackId : (Owned(s) \cap (DRs_ \cup InGroups) = {})'
      <4>1. ASSUME NEW s \in TrackId PROVE Owned(s)' \cap (DRs_' \cup InGroups') = {}
        <5>1. /\ Owned(s) \cap (DRs_ \cup InGroups) = {} /\ DRs_ \cap InGroups = {}
              /\ DRs_' = DRs_ /\ InGroups' = InGroups \ chosen
          BY <2>1, <2>3 DEF OwnershipInv
        <5>2. Owned(s)' = Owned(s) \/ Owned(s)' = Owned(s) \cup chosen
          BY <2>5, <2>6
        <5>3. QED
          BY <3>1, <5>1, <5>2
      <4>2. QED
        BY <4>1
    <3>5. (DRs_ \cap InGroups = {})' /\ (DRs_ \cup InGroups \subseteq delivered)'
      BY <2>1, <2>3 DEF OwnershipInv
    <3>6. (\A s \in TrackId \ created : Owned(s) = {})' /\ (\A s \in created : Owned(s) # {})'
      BY <2>1, <2>5, <2>6 DEF OwnershipInv
    <3>7. (tracks_ \subseteq created)' /\ (unvisited \subseteq tracks_)'
      BY <2>1 DEF OwnershipInv
    <3>8. QED
      BY <2>1, <2>4, <3>2, <3>3, <3>4, <3>5, <3>6, <3>7 DEF OwnershipInv
  <2>8. PhaseInv'
    <3>1. (fusing = NoReports)' /\ \A s \in TrackId : (initialized[s] \subseteq measurements[s])'
      BY <2>1 DEF PhaseInv, NoReports
    <3>2. (\A s \in (TrackId \ tracks_) \cup unvisited : associatedDRs_[s] \subseteq measurements[s])'
      BY <2>1 DEF PhaseInv
    <3>3. (\A d \in delivered : d \in DRs_ \cup InGroups \/ \E s \in TrackId : d \in Owned(s))'
      <4>1. ASSUME NEW d \in delivered, d \notin DRs_, d \notin InGroups \ chosen
            PROVE  \E s \in TrackId : d \in Owned(s)'
        <5>1. CASE d \in chosen
          BY <2>5, <5>1
        <5>2. CASE d \notin chosen
          <6>1. PICK s \in TrackId : d \in Owned(s)
            BY <4>1, <5>2 DEF PhaseInv
          <6>2. Owned(s) \subseteq Owned(s)'
            BY <2>5, <2>6
          <6>3. QED
            BY <6>1, <6>2
        <5>3. QED
          BY <5>1, <5>2
      <4>2. delivered' = delivered /\ DRs_' = DRs_ /\ InGroups' = InGroups \ chosen
        BY <2>1, <2>3
      <4>3. QED
        BY <4>1, <4>2
    <3>4. QED
      BY <2>1, <3>1, <3>2, <3>3 DEF PhaseInv, Drained
  <2>9. QED
    BY <2>7, <2>8
<1>6. CASE Associated
  <2>1. OwnershipInv'
    BY <1>6 DEF Associated, FinishCompute, BeginInitializeTracks, NoReports, OwnershipInv, PhaseInv, Owned, InGroups, Drained, Disjoint
  <2>2. PhaseInv'
    BY <1>6 DEF Associated, FinishCompute, BeginInitializeTracks, NoReports, OwnershipInv, PhaseInv, Owned, InGroups, Drained, Disjoint
  <2>3. QED
    BY <2>1, <2>2
<1>7. ASSUME NEW group \in unclaimed, NEW DRs \in (SUBSET group) \ {{}}, Initialize(group, DRs)
      PROVE  OwnershipInv' /\ PhaseInv'
  <2>1. PICK t \in TrackId \ created :
           /\ created' = created \cup {t}
           /\ tracks_' = tracks_ \cup {t}
           /\ initialized' = [initialized EXCEPT ![t] = DRs]
    BY <1>7, NewTrackIsFresh DEF Initialize, InitializeTrack
  <2>2. /\ pc = "initialize" /\ pc' = "initialize"
        /\ UNCHANGED <<measurements, associatorVars, managerVars>>
        /\ unclaimed' = ((unclaimed \ {group}) \cup {group \ DRs}) \ {{}}
    BY <1>7 DEF Initialize, InitializeTrack, Create
  <2>3. Disjoint(unclaimed) /\ DRs \subseteq UNION unclaimed /\ DRs # {}
    BY <2>2 DEF OwnershipInv
  <2>4. InGroups = UNION unclaimed /\ InGroups' = (UNION unclaimed) \ DRs
    <3>1. UNION unclaimed' = (UNION unclaimed) \ DRs
      BY <2>2, <2>3, TakenFromGroups
    <3>2. QED
      BY <2>2, <3>1 DEF InGroups
  <2>5. Disjoint(unclaimed)'
    <3>1. Disjoint(unclaimed')
      BY <2>2, <2>3, TakenFromGroups
    <3>2. QED
      BY <3>1 DEF Disjoint
  <2>6. Owned(t) = {} /\ Owned(t)' = DRs
    BY <2>1, <2>2 DEF Owned, OwnershipInv
  <2>7. \A s \in TrackId \ {t} : Owned(s)' = Owned(s)
    BY <2>1, <2>2 DEF Owned
  <2>8. OwnershipInv'
    <3>1. DRs \subseteq InGroups /\ DRs \subseteq delivered
      BY <2>3, <2>4 DEF OwnershipInv
    <3>2. \A r, s \in TrackId : r # s => (Owned(r) \cap Owned(s) = {})'
      BY <2>6, <2>7, <3>1 DEF OwnershipInv
    <3>3. \A s \in TrackId : (Owned(s) \subseteq delivered)'
      BY <2>2, <2>6, <2>7, <3>1 DEF OwnershipInv
    <3>4. \A s \in TrackId : (Owned(s) \cap (DRs_ \cup InGroups) = {})'
      <4>1. ASSUME NEW s \in TrackId PROVE Owned(s)' \cap (DRs_' \cup InGroups') = {}
        <5>1. /\ Owned(s) \cap (DRs_ \cup InGroups) = {} /\ DRs_ \cap InGroups = {}
              /\ DRs_' = DRs_ /\ InGroups' = InGroups \ DRs
          BY <2>2, <2>4 DEF OwnershipInv
        <5>2. Owned(s)' = Owned(s) \/ Owned(s)' = DRs
          BY <2>6, <2>7
        <5>3. QED
          BY <3>1, <5>1, <5>2
      <4>2. QED
        BY <4>1
    <3>5. (DRs_ \cap InGroups = {})' /\ (DRs_ \cup InGroups \subseteq delivered)'
      BY <2>2, <2>4 DEF OwnershipInv
    <3>6. (\A s \in TrackId \ created : Owned(s) = {})' /\ (\A s \in created : Owned(s) # {})'
      BY <2>1, <2>2, <2>3, <2>6, <2>7 DEF OwnershipInv
    <3>7. (tracks_ \subseteq created)'
      BY <2>1 DEF OwnershipInv
    <3>8. QED
      BY <2>2, <2>5, <3>2, <3>3, <3>4, <3>5, <3>6, <3>7 DEF OwnershipInv
  <2>9. PhaseInv'
    <3>1. (fusing = associatedDRs_)'
      BY <2>2 DEF PhaseInv
    <3>2. (\A d \in delivered : d \in DRs_ \cup InGroups \/ \E s \in TrackId : d \in Owned(s))'
      <4>1. ASSUME NEW d \in delivered, d \notin DRs_, d \notin InGroups \ DRs
            PROVE  \E s \in TrackId : d \in Owned(s)'
        <5>1. CASE d \in DRs
          BY <2>6, <5>1
        <5>2. CASE d \notin DRs
          <6>1. PICK s \in TrackId : d \in Owned(s)
            BY <4>1, <5>2 DEF PhaseInv
          <6>2. Owned(s)' = Owned(s)
            BY <2>6, <2>7, <6>1
          <6>3. QED
            BY <6>1, <6>2
        <5>3. QED
          BY <5>1, <5>2
      <4>2. delivered' = delivered /\ DRs_' = DRs_ /\ InGroups' = InGroups \ DRs
        BY <2>2, <2>4
      <4>3. QED
        BY <4>1, <4>2
    <3>3. QED
      BY <2>2, <3>1, <3>2 DEF PhaseInv, Drained
  <2>10. QED
    BY <2>8, <2>9
<1>8. CASE BeginFusion
  BY <1>8 DEF BeginFusion, OwnershipInv, PhaseInv, Owned, InGroups, Drained
<1>9. ASSUME NEW t \in TrackId, NEW d \in fusing[t], Fuse(t, d)
      PROVE  OwnershipInv' /\ PhaseInv'
  <2>1. OwnershipInv'
    BY <1>9 DEF Fuse, ApplyMeasurement, OwnershipInv, PhaseInv, Owned, InGroups, Drained
  <2>2. PhaseInv'
    BY <1>9 DEF Fuse, ApplyMeasurement, OwnershipInv, PhaseInv, Owned, InGroups, Drained
  <2>3. QED
    BY <2>1, <2>2
<1>10. CASE FusedAssociated
  BY <1>10 DEF FusedAssociated, NoReports, OwnershipInv, PhaseInv, Owned, InGroups, Drained
<1>11. CASE FusedInitialized
  BY <1>11 DEF FusedInitialized, NoReports, OwnershipInv, PhaseInv, Owned, InGroups, Drained
<1>12. CASE Expire
  BY <1>12 DEF Expire, RemoveExpiredTracks, OwnershipInv, PhaseInv, Owned, InGroups, Drained
<1>13. CASE Publish
  BY <1>13 DEF Publish, OwnershipInv, PhaseInv, Owned, InGroups, Drained
<1>14. CASE Store
  BY <1>14 DEF Store, OwnershipInv, PhaseInv, Owned, InGroups, Drained
<1>15. CASE DatabaseFails
  BY <1>15 DEF DatabaseFails, OwnershipInv, PhaseInv, Owned, InGroups, Drained
<1>16. CASE UNCHANGED vars
  BY <1>16 DEF vars, OwnershipInv, PhaseInv, Owned, InGroups, Drained, Disjoint
<1>17. QED
  BY <1>1, <1>2, <1>3, <1>4, <1>5, <1>6, <1>7, <1>8, <1>9, <1>10, <1>11, <1>12, <1>13,
     <1>14, <1>15, <1>16
     DEF Next, Compute, AssociateSome, InitializeSome, FuseSome

-----------------------------------------------------------------------------
(* What a track owns decides its refresh time.                             *)

(* Only association and initialization change what tracks own.             *)
LEMMA OwnedKept ==
  ASSUME Placement,
         \/ ComputeState \/ GetNextAlignedGroup \/ NoMoreGroups
         \/ \E DRs \in SUBSET (DR \ delivered) : GetDRs(DRs)
         \/ Associated \/ BeginFusion \/ FuseSome \/ FusedAssociated \/ FusedInitialized
         \/ Expire \/ Publish \/ Store \/ DatabaseFails \/ UNCHANGED vars
  PROVE  created' = created /\ \A t \in TrackId : Owned(t)' = Owned(t)
<1> USE DEF Placement, TypeOK, TrackTypeOK, TrackManagerTypeOK, DataAssociatorTypeOK,
        trackVars, trackManagerVars, associatorVars, managerVars
<1>1. CASE ComputeState
  BY <1>1 DEF ComputeState, Owned
<1>2. CASE \E DRs \in SUBSET (DR \ delivered) : GetDRs(DRs)
  BY <1>2 DEF GetDRs, Owned
<1>3. CASE GetNextAlignedGroup \/ NoMoreGroups
  BY <1>3 DEF GetNextAlignedGroup, NoMoreGroups, SetInput, Owned
<1>4. CASE Associated
  <2>1. \A t \in TrackId : fusing[t] = {} /\ initialized[t] \subseteq measurements[t]
    BY <1>4 DEF Associated, PhaseInv, NoReports
  <2>2. \A t \in TrackId : fusing'[t] = associatedDRs_[t] /\ initialized'[t] = {}
    BY <1>4 DEF Associated, BeginInitializeTracks, NoReports
  <2>3. UNCHANGED <<measurements, associatedDRs_, created>>
    BY <1>4 DEF Associated, FinishCompute
  <2>4. QED
    BY <2>1, <2>2, <2>3 DEF Owned
<1>5. CASE BeginFusion
  BY <1>5 DEF BeginFusion, Owned
<1>6. ASSUME NEW t \in TrackId, NEW d \in fusing[t], Fuse(t, d)
      PROVE  created' = created /\ \A s \in TrackId : Owned(s)' = Owned(s)
  <2>1. /\ measurements' = [measurements EXCEPT ![t] = @ \cup {d}]
        /\ fusing' = [fusing EXCEPT ![t] = @ \ {d}]
        /\ UNCHANGED <<associatedDRs_, initialized, created>>
    BY <1>6 DEF Fuse, ApplyMeasurement
  <2>2. QED
    BY <2>1 DEF Owned
<1>7. CASE FusedAssociated
  <2>1. \A s \in TrackId : fusing[s] = {} /\ fusing'[s] = initialized[s]
    BY <1>7 DEF FusedAssociated, NoReports
  <2>2. UNCHANGED <<measurements, associatedDRs_, initialized, created>>
    BY <1>7 DEF FusedAssociated
  <2>3. QED
    BY <2>1, <2>2 DEF Owned
<1>8. CASE FusedInitialized
  BY <1>8 DEF FusedInitialized, Owned
<1>9. CASE Expire \/ Publish \/ Store \/ DatabaseFails
  BY <1>9 DEF Expire, Publish, Store, DatabaseFails, Owned
<1>10. CASE UNCHANGED vars
  BY <1>10 DEF vars, Owned
<1>11. QED
  BY <1>1, <1>2, <1>3, <1>4, <1>5, <1>6, <1>7, <1>8, <1>9, <1>10 DEF FuseSome

LEMMA RefreshInit == Init => RefreshInv
BY DEF Init, TrackInit, TrackManagerInit, RefreshInv, ElapsedNeverPositive

LEMMA RefreshStep == Placement /\ RefreshInv /\ [Next]_vars => RefreshInv'
<1> SUFFICES ASSUME Placement, RefreshInv, [Next]_vars PROVE RefreshInv'
  OBVIOUS
<1> USE DRAssumption
    DEF TypeOK, TrackTypeOK, TrackManagerTypeOK, DataAssociatorTypeOK,
        trackVars, trackManagerVars, associatorVars, managerVars
<1>0. /\ TypeOK /\ OwnershipInv /\ PhaseInv
      /\ \A t \in TrackId : Owned(t) \subseteq DR
      /\ \A d \in DR : SensorTime[d] \in Int
  BY DEF Placement, Owned
<1>1. CASE UNCHANGED <<refreshTime_, velocityDt_, created>> /\ \A t \in TrackId : Owned(t)' = Owned(t)
  BY <1>0, <1>1 DEF RefreshInv, ElapsedNeverPositive, IsHighest
<1>2. ASSUME NEW t \in unvisited, NEW group \in DRGroups_, NEW chosen \in SUBSET group,
             Associate(t, group, chosen)
      PROVE  RefreshInv'
  <2>1. /\ t \in created /\ t \in TrackId
        /\ Owned(t)' = Owned(t) \cup chosen
        /\ \A s \in TrackId \ {t} : Owned(s)' = Owned(s)
        /\ created' = created /\ velocityDt_' = velocityDt_
        /\ refreshTime_' = [refreshTime_ EXCEPT ![t] = Refreshed(t, HighestSensorTime(chosen))]
    <3>1. /\ pc = "associate" /\ t \in tracks_
          /\ UNCHANGED <<measurements, velocityDt_, trackManagerVars, managerVars>>
          /\ associatedDRs_' = [associatedDRs_ EXCEPT ![t] = chosen]
          /\ refreshTime_' = [refreshTime_ EXCEPT ![t] = Refreshed(t, HighestSensorTime(chosen))]
      BY <1>0, <1>2 DEF Associate, AssociateTrack, Refresh, OwnershipInv
    <3>2. associatedDRs_[t] \subseteq measurements[t]
      BY <1>0, <3>1 DEF PhaseInv
    <3>3. t \in created /\ t \in TrackId
      BY <1>0, <3>1 DEF OwnershipInv
    <3>4. Owned(t)' = Owned(t) \cup chosen /\ \A s \in TrackId \ {t} : Owned(s)' = Owned(s)
      BY <1>0, <3>1, <3>2 DEF Owned
    <3>5. QED
      BY <3>1, <3>3, <3>4
  <2> DEFINE h == HighestSensorTime(chosen)
  <2>2. chosen \subseteq DR
    BY <1>0
  <2>3. /\ h \in Int
        /\ \A d \in chosen : SensorTime[d] <= h
        /\ h = Epoch \/ \E d \in chosen : SensorTime[d] = h
    BY <2>2, HighestProperties DEF Time
  <2>4. refreshTime_[t] \in Int /\ refreshTime_[t] >= Epoch
    BY <1>0, <2>1 DEF Time, Epoch
  <2>5. IsHighest(refreshTime_[t], Owned(t))
    BY <2>1 DEF RefreshInv
  <2> HIDE DEF h
  <2>6. IsHighest(Refreshed(t, h), Owned(t) \cup chosen)
    <3>1. \A d \in Owned(t) \cup chosen : SensorTime[d] \in Int
      BY <1>0, <2>1, <2>2
    <3>2. CASE h <= refreshTime_[t]
      <4>1. Refreshed(t, h) = refreshTime_[t]
        BY <3>2 DEF Refreshed
      <4>2. QED
        BY <2>3, <2>4, <2>5, <3>1, <3>2, <4>1 DEF IsHighest
    <3>3. CASE h > refreshTime_[t]
      <4>1. Refreshed(t, h) = h /\ h # Epoch
        BY <2>3, <2>4, <3>3 DEF Refreshed, Epoch
      <4>2. QED
        BY <2>3, <2>4, <2>5, <3>1, <3>3, <4>1 DEF IsHighest
    <3>4. QED
      BY <2>3, <2>4, <3>2, <3>3
  <2>7. \A s \in created : IsHighest(refreshTime_'[s], Owned(s)')
    BY <1>0, <2>1, <2>6 DEF RefreshInv, h
  <2>8. QED
    BY <2>1, <2>7 DEF RefreshInv, ElapsedNeverPositive, IsHighest
<1>3. ASSUME NEW group \in unclaimed, NEW DRs \in (SUBSET group) \ {{}}, Initialize(group, DRs)
      PROVE  RefreshInv'
  <2>1. PICK t \in TrackId \ created :
           /\ created' = created \cup {t}
           /\ initialized' = [initialized EXCEPT ![t] = DRs]
           /\ refreshTime_' = [refreshTime_ EXCEPT ![t] = HighestSensorTime(DRs)]
    BY <1>0, <1>3, NewTrackIsFresh DEF Initialize, InitializeTrack, Create
  <2>2. UNCHANGED <<velocityDt_, measurements, associatedDRs_, fusing>>
    BY <1>3 DEF Initialize, InitializeTrack, Create
  <2>3. Owned(t)' = DRs /\ \A s \in TrackId \ {t} : Owned(s)' = Owned(s)
    BY <1>0, <2>1, <2>2 DEF Owned, OwnershipInv
  <2>4. IsHighest(HighestSensorTime(DRs), DRs)
    BY <1>0, HighestProperties DEF IsHighest
  <2>5. \A s \in created' : IsHighest(refreshTime_'[s], Owned(s)')
    BY <1>0, <2>1, <2>3, <2>4 DEF RefreshInv
  <2>6. QED
    BY <2>2, <2>5 DEF RefreshInv, ElapsedNeverPositive, IsHighest
<1>4. ASSUME NEW t \in TrackId, NEW d \in fusing[t], Fuse(t, d) PROVE RefreshInv'
  <2>1. t \in created /\ d \in Owned(t)
    BY <1>0 DEF OwnershipInv, Owned
  <2>2. /\ SensorTime[d] \in Int /\ refreshTime_[t] \in Int
        /\ SensorTime[d] <= refreshTime_[t]
    BY <1>0, <2>1 DEF RefreshInv, IsHighest, Time
  <2>3. refreshTime_' = refreshTime_
    BY <1>0, <1>4, <2>2 DEF Fuse, ApplyMeasurement, Refreshed
  <2>4. ElapsedNeverPositive'
    <3>1. velocityDt_' = [velocityDt_ EXCEPT
                            ![t] = IF TimePassed(t, d) # 0 THEN TimePassed(t, d) ELSE @]
      BY <1>4 DEF Fuse, ApplyMeasurement
    <3>2. TimePassed(t, d) <= 0
      BY <2>2 DEF TimePassed
    <3>3. QED
      BY <1>0, <3>1, <3>2 DEF RefreshInv, ElapsedNeverPositive
  <2>5. created' = created /\ \A s \in TrackId : Owned(s)' = Owned(s)
    BY <1>4, OwnedKept DEF FuseSome
  <2>6. QED
    BY <1>0, <2>3, <2>4, <2>5 DEF RefreshInv, IsHighest
<1>5. CASE UNCHANGED vars
  BY <1>1, <1>5, OwnedKept DEF vars
<1>6. ASSUME ComputeState \/ (\E DRs \in SUBSET (DR \ delivered) : GetDRs(DRs))
             \/ GetNextAlignedGroup \/ NoMoreGroups \/ Associated \/ BeginFusion
             \/ FusedAssociated \/ FusedInitialized \/ Expire \/ Publish \/ Store \/ DatabaseFails
      PROVE  RefreshInv'
  <2>1. UNCHANGED <<refreshTime_, velocityDt_>>
    BY <1>6 DEF ComputeState, GetDRs, GetNextAlignedGroup, NoMoreGroups, Associated, BeginFusion,
                FusedAssociated, FusedInitialized, Expire, Publish, Store, DatabaseFails
  <2>2. QED
    BY <1>1, <1>6, <2>1, OwnedKept
<1>7. QED
  BY <1>2, <1>3, <1>4, <1>5, <1>6 DEF Next, Compute, AssociateSome, InitializeSome, FuseSome

-----------------------------------------------------------------------------
(* Expiry.                                                                 *)

(* In batch mode the latest refresh time among live tracks stands for the  *)
(* current time: it is the newest report ever delivered.                   *)
LEMMA LatestIsLatest ==
  ASSUME TypeOK, tracks_ # {}
  PROVE  \E u \in tracks_ : /\ refreshTime_[u] = LatestTrackRefreshTime
                            /\ \A t \in tracks_ : refreshTime_[t] <= refreshTime_[u]
<1> DEFINE S == {refreshTime_[t] : t \in tracks_}
<1> USE DEF TypeOK, TrackTypeOK, TrackManagerTypeOK
<1>1. S \in SUBSET Time /\ S # {}
  OBVIOUS
<1>2. \E h \in S : \A x \in S : x <= h
  BY <1>1, LatestExists
<1>3. \E h \in S : \A t \in tracks_ : refreshTime_[t] <= h
  BY <1>2
<1>4. /\ LatestTrackRefreshTime \in S
      /\ \A t \in tracks_ : refreshTime_[t] <= LatestTrackRefreshTime
  BY <1>3 DEF LatestTrackRefreshTime
<1>5. QED
  BY <1>4

(* Once the database is drained, every report belongs to a track that was  *)
(* created, and is not newer than the track's refresh time.                *)
LEMMA DrainedReports ==
  ASSUME TypeOK, OwnershipInv, PhaseInv, RefreshInv, Drained
  PROVE  /\ \A d \in delivered : \E t \in created :
              SensorTime[d] <= refreshTime_[t] /\ d \in measurements[t]
         /\ \A t \in created : \E d \in delivered : SensorTime[d] = refreshTime_[t]
         /\ \A t \in TrackId : Owned(t) = measurements[t]
<1> USE DEF TypeOK, TrackTypeOK, TrackManagerTypeOK, DataAssociatorTypeOK
<1>1. pc \notin {"associate", "initialize", "fuseAssociated", "fuseInitialized"}
  BY DEF Drained
<1>2. \A t \in TrackId : Owned(t) = measurements[t]
  BY <1>1 DEF Owned, PhaseInv, NoReports
<1>3. ASSUME NEW d \in delivered
      PROVE  \E t \in created : SensorTime[d] <= refreshTime_[t] /\ d \in measurements[t]
  <2>1. PICK t \in TrackId : d \in Owned(t)
    BY <1>1, <1>3 DEF PhaseInv, InGroups
  <2>2. t \in created
    BY <2>1 DEF OwnershipInv
  <2>3. QED
    BY <1>2, <2>1, <2>2 DEF RefreshInv, IsHighest
<1>4. ASSUME NEW t \in created PROVE \E d \in delivered : SensorTime[d] = refreshTime_[t]
  BY DEF RefreshInv, IsHighest, OwnershipInv
<1>5. QED
  BY <1>2, <1>3, <1>4

LEMMA ExpiryInit == Init => ExpiryInv
BY DEF Init, TrackManagerInit, ExpiryInv

(* No step but an association, an initialization and a fusion writes a     *)
(* track's times, and those leave removed tracks alone.                    *)
LEMMA RemovedStay ==
  ASSUME Placement, RefreshInv, ExpiryInv, [Next]_vars, pc # "expire"
  PROVE  /\ created \subseteq created' /\ tracks_ \subseteq tracks_'
         /\ created' \ tracks_' = created \ tracks_
         /\ \A t \in created \ tracks_ : refreshTime_'[t] = refreshTime_[t]
         /\ \A t \in created : refreshTime_'[t] >= refreshTime_[t]
         /\ mode' = mode /\ (pc # "idle" => now' = now)
<1> DEFINE Goal == /\ created \subseteq created' /\ tracks_ \subseteq tracks_'
                   /\ created' \ tracks_' = created \ tracks_
                   /\ \A t \in created \ tracks_ : refreshTime_'[t] = refreshTime_[t]
                   /\ \A t \in created : refreshTime_'[t] >= refreshTime_[t]
                   /\ mode' = mode /\ (pc # "idle" => now' = now)
<1> USE DRAssumption
    DEF TypeOK, TrackTypeOK, TrackManagerTypeOK, DataAssociatorTypeOK,
        trackVars, trackManagerVars, associatorVars, managerVars, Time
<1>0. TypeOK /\ OwnershipInv /\ PhaseInv /\ \A t \in TrackId : refreshTime_[t] \in Int
  BY DEF Placement
<1>1. CASE UNCHANGED <<created, tracks_, refreshTime_, mode, now>>
  BY <1>0, <1>1
<1>2. ASSUME NEW t \in unvisited, NEW group \in DRGroups_, NEW chosen \in SUBSET group,
             Associate(t, group, chosen)
      PROVE  Goal
  <2>1. /\ t \in tracks_ /\ UNCHANGED <<created, tracks_, mode, now>>
        /\ refreshTime_' = [refreshTime_ EXCEPT ![t] = Refreshed(t, HighestSensorTime(chosen))]
    BY <1>0, <1>2 DEF Associate, AssociateTrack, Refresh, OwnershipInv
  <2>2. HighestSensorTime(chosen) \in Int
    BY <1>0, HighestProperties
  <2>3. Refreshed(t, HighestSensorTime(chosen)) >= refreshTime_[t]
    BY <1>0, <2>1, <2>2 DEF Refreshed
  <2>4. QED
    BY <1>0, <2>1, <2>3
<1>3. ASSUME NEW group \in unclaimed, NEW DRs \in (SUBSET group) \ {{}}, Initialize(group, DRs)
      PROVE  Goal
  <2>1. PICK t \in TrackId \ created :
           /\ created' = created \cup {t}
           /\ tracks_' = tracks_ \cup {t}
           /\ refreshTime_' = [refreshTime_ EXCEPT ![t] = HighestSensorTime(DRs)]
    BY <1>0, <1>3, NewTrackIsFresh DEF Initialize, InitializeTrack, Create
  <2>2. UNCHANGED <<mode, now>>
    BY <1>3 DEF Initialize
  <2>3. QED
    BY <1>0, <2>1, <2>2
<1>4. ASSUME NEW t \in TrackId, NEW d \in fusing[t], Fuse(t, d) PROVE Goal
  <2>1. t \in created /\ d \in Owned(t) /\ d \in DR
    BY <1>0 DEF OwnershipInv, Owned
  <2>2. SensorTime[d] <= refreshTime_[t]
    BY <2>1 DEF RefreshInv, IsHighest
  <2>3. refreshTime_' = refreshTime_
    BY <1>0, <1>4, <2>2 DEF Fuse, ApplyMeasurement, Refreshed
  <2>4. QED
    BY <1>1, <1>4, <2>3 DEF Fuse
<1>5. CASE ComputeState
  BY <1>0, <1>5 DEF ComputeState
<1>6. CASE \/ \E DRs \in SUBSET (DR \ delivered) : GetDRs(DRs)
           \/ GetNextAlignedGroup \/ NoMoreGroups \/ Associated \/ BeginFusion
           \/ FusedAssociated \/ FusedInitialized \/ Publish \/ Store \/ DatabaseFails
  BY <1>1, <1>6 DEF GetDRs, GetNextAlignedGroup, NoMoreGroups, Associated, BeginFusion,
                    FusedAssociated, FusedInitialized, Publish, Store, DatabaseFails
<1>7. CASE UNCHANGED vars
  BY <1>1, <1>7 DEF vars
<1>8. QED
  BY <1>2, <1>3, <1>4, <1>5, <1>6, <1>7
     DEF Next, Compute, AssociateSome, InitializeSome, FuseSome, Expire

(* Expiry itself: what it removes is out of date and what it leaves is not.*)
LEMMA ExpireStep ==
  ASSUME Placement, RefreshInv, ExpiryInv, Expire
  PROVE  /\ \A t \in created' \ tracks_' : Outlived(t)'
         /\ \A t \in tracks_' : Reference' - refreshTime_'[t] <= TTL
<1> DEFINE C == CurrentTime(now)
<1> USE DRAssumption, TTLAssumption
    DEF TypeOK, TrackTypeOK, TrackManagerTypeOK, DataAssociatorTypeOK, Time
<1>1. /\ TypeOK /\ OwnershipInv /\ PhaseInv /\ Drained /\ tracks_ \subseteq created
      /\ \A t \in TrackId : refreshTime_[t] \in Int
      /\ now \in Int
  BY DEF Placement, Expire, Drained, OwnershipInv
<1>2. /\ tracks_' = {t \in tracks_ : C - refreshTime_[t] <= TTL}
      /\ UNCHANGED <<created, refreshTime_, mode, now, delivered>>
  BY DEF Expire, RemoveExpiredTracks, IsTrackValid, trackVars
<1>3. CASE mode = "online"
  <2>1. C = now
    BY <1>3 DEF CurrentTime, ExpiryInv, Expire
  <2>2. \A t \in created \ tracks_' : now - refreshTime_[t] > TTL
    BY <1>1, <1>2, <1>3, <2>1 DEF ExpiryInv, Outlived
  <2>3. QED
    BY <1>1, <1>2, <1>3, <2>1, <2>2 DEF Outlived, Reference
<1>4. CASE mode # "online" /\ tracks_ = {}
  BY <1>1, <1>2, <1>4 DEF ExpiryInv, Outlived
<1>5. CASE mode # "online" /\ tracks_ # {}
  <2>1. PICK u \in tracks_ : /\ refreshTime_[u] = LatestTrackRefreshTime
                             /\ \A t \in tracks_ : refreshTime_[t] <= refreshTime_[u]
    BY <1>1, <1>5, LatestIsLatest
  <2>2. C = refreshTime_[u]
    BY <1>1, <1>5, <2>1 DEF CurrentTime, ExpiryInv, Modes
  <2>3. u \in tracks_'
    BY <1>1, <1>2, <2>2
  <2>4. \A t \in created \ tracks_' : refreshTime_[u] - refreshTime_[t] > TTL
    <3>1. ASSUME NEW t \in created \ tracks_ PROVE refreshTime_[u] - refreshTime_[t] > TTL
      <4>1. PICK w \in tracks_ : refreshTime_[w] - refreshTime_[t] > TTL
        BY <1>5 DEF ExpiryInv, Outlived
      <4>2. refreshTime_[w] <= refreshTime_[u]
        BY <2>1
      <4>3. QED
        BY <1>1, <4>1, <4>2
    <3>2. QED
      BY <1>1, <1>2, <2>2, <3>1
  <2>5. HighestSensorTime(delivered) <= refreshTime_[u]
    <3>1. PICK d \in delivered : SensorTime[d] = HighestSensorTime(delivered)
      BY <1>1, <2>1, DrainedReports, HighestProperties
    <3>2. PICK t \in created : SensorTime[d] <= refreshTime_[t]
      BY <1>1, DrainedReports
    <3>3. refreshTime_[t] <= refreshTime_[u]
      BY <1>1, <1>2, <2>1, <2>4, <3>2
    <3>4. QED
      BY <1>1, <3>1, <3>2, <3>3
  <2>6. HighestSensorTime(delivered) \in Int
    BY <1>1, HighestProperties
  <2>7. \A t \in tracks_' : HighestSensorTime(delivered) - refreshTime_[t] <= TTL
    BY <1>1, <1>2, <2>1, <2>2, <2>5, <2>6
  <2>8. Reference' = HighestSensorTime(delivered)
    BY <1>2, <1>5 DEF Reference, HighestSensorTime
  <2>9. \A t \in created' \ tracks_' : Outlived(t)'
    BY <1>2, <1>5, <2>3, <2>4 DEF Outlived
  <2>10. QED
    BY <1>2, <2>7, <2>8, <2>9
<1>6. QED
  BY <1>3, <1>4, <1>5

LEMMA ExpiryStep == Placement /\ RefreshInv /\ ExpiryInv /\ [Next]_vars => ExpiryInv'
<1> SUFFICES ASSUME Placement, RefreshInv, ExpiryInv, [Next]_vars PROVE ExpiryInv'
  OBVIOUS
<1> USE DRAssumption
    DEF TypeOK, TrackTypeOK, TrackManagerTypeOK, DataAssociatorTypeOK,
        trackVars, trackManagerVars, associatorVars, managerVars
<1>0. /\ TypeOK /\ OwnershipInv /\ now \in Int
      /\ \A t \in TrackId : refreshTime_[t] \in Int
  BY DEF Placement, Time
<1>1. \A t \in created' \ tracks_' : Outlived(t)'
  <2>1. CASE pc = "expire"
    <3>1. CASE Expire
      BY <3>1, ExpireStep
    <3>2. CASE UNCHANGED vars
      BY <3>2 DEF vars, ExpiryInv, Outlived
    <3>3. QED
      BY <2>1, <3>1, <3>2
         DEF Next, Compute, ComputeState, GetDRs, GetNextAlignedGroup, NoMoreGroups, AssociateSome,
             Associate, Associated, InitializeSome, Initialize, BeginFusion, FuseSome, Fuse,
             FusedAssociated, FusedInitialized, Publish, Store, DatabaseFails
  <2>2. CASE pc # "expire"
    <3>1. /\ created \subseteq created' /\ tracks_ \subseteq tracks_'
          /\ created' \ tracks_' = created \ tracks_
          /\ \A t \in created \ tracks_ : refreshTime_'[t] = refreshTime_[t]
          /\ \A t \in created : refreshTime_'[t] >= refreshTime_[t]
          /\ mode' = mode /\ (pc # "idle" => now' = now)
      BY <2>2, RemovedStay
    <3>2. now' \in Int /\ \A t \in TrackId : refreshTime_'[t] \in Int
      BY <1>0, TypeStep DEF Time
    <3>3. mode = "online" => now' >= now
      BY <1>0, <3>1 DEF Next, Compute, ComputeState, Time, vars, GetDRs, GetNextAlignedGroup,
             NoMoreGroups, AssociateSome,
             Associate, Associated, InitializeSome, Initialize, BeginFusion, FuseSome, Fuse,
             FusedAssociated, FusedInitialized, Expire, Publish, Store, DatabaseFails
    <3>4. ASSUME NEW t \in created \ tracks_ PROVE Outlived(t)'
      <4>1. CASE mode = "online"
        BY <1>0, <3>1, <3>2, <3>3, <4>1, TTLAssumption DEF ExpiryInv, Outlived
      <4>2. CASE mode # "online"
        <5>1. PICK u \in tracks_ : refreshTime_[u] - refreshTime_[t] > TTL
          BY <4>2 DEF ExpiryInv, Outlived
        <5>2. u \in created /\ u \in tracks_' /\ u \in TrackId /\ t \in TrackId
          BY <1>0, <3>1 DEF OwnershipInv
        <5>3. refreshTime_'[u] - refreshTime_'[t] > TTL
          BY <1>0, <3>1, <3>2, <5>1, <5>2, TTLAssumption
        <5>4. QED
          BY <3>1, <4>2, <5>2, <5>3 DEF Outlived
      <4>3. QED
        BY <4>1, <4>2
    <3>5. QED
      BY <3>1, <3>4
  <2>3. QED
    BY <2>1, <2>2
<1>2. CASE Expire
  <2>1. \A t \in tracks_' : Reference' - refreshTime_'[t] <= TTL
    BY <1>2, ExpireStep
  <2>2. pc' = "publish" /\ UNCHANGED <<mode, now>> /\ pc = "expire"
    BY <1>2 DEF Expire
  <2>3. QED
    BY <1>1, <2>1, <2>2 DEF ExpiryInv
<1>3. CASE ComputeState
  BY <1>0, <1>1, <1>3 DEF ComputeState, ExpiryInv, Time, Epoch
<1>4. CASE Publish
  BY <1>1, <1>4 DEF Publish, ExpiryInv, Reference, HighestSensorTime
<1>5. CASE Store
  BY <1>1, <1>5 DEF Store, ExpiryInv, Reference, HighestSensorTime
<1>6. CASE UNCHANGED vars
  BY <1>1, <1>6 DEF vars, ExpiryInv, Reference, HighestSensorTime
<1>7. CASE \/ \E DRs \in SUBSET (DR \ delivered) : GetDRs(DRs)
           \/ GetNextAlignedGroup \/ NoMoreGroups \/ AssociateSome \/ Associated
           \/ InitializeSome \/ BeginFusion \/ FuseSome
           \/ FusedAssociated \/ FusedInitialized \/ DatabaseFails
  <2>1. /\ pc' \notin {"idle", "publish", "store"}
        /\ pc \notin {"idle", "terminated"} /\ UNCHANGED <<mode, now>>
    BY <1>7 DEF GetDRs, GetNextAlignedGroup, NoMoreGroups, AssociateSome,
             Associate, Associated, InitializeSome, Initialize, BeginFusion, FuseSome, Fuse,
             FusedAssociated, FusedInitialized, DatabaseFails
  <2>2. QED
    BY <1>1, <2>1 DEF ExpiryInv
<1>8. QED
  BY <1>2, <1>3, <1>4, <1>5, <1>6, <1>7 DEF Next, Compute

-----------------------------------------------------------------------------
(* The invariant, and what it implies.                                     *)

LEMMA Inductive == Spec => []IInv
<1>1. Init => IInv
  BY TypeInit, PlacementInit, RefreshInit, ExpiryInit DEF IInv
<1>2. IInv /\ [Next]_vars => IInv'
  BY TypeStep, PlacementStep, RefreshStep, ExpiryStep DEF IInv, Placement
<1>3. QED
  BY <1>1, <1>2, PTL DEF Spec

(* No report is ever part of two tracks, whatever the association and the  *)
(* initialization choose and in whatever order tracks are visited.         *)
THEOREM ReportsHaveOneTrack == Spec => []OneTrackPerReport
<1>1. IInv => OneTrackPerReport
  BY DEF IInv, OwnershipInv, Owned, OneTrackPerReport
<1>2. QED
  BY <1>1, Inductive, PTL

(* No delivered report is lost between getDRs and the tracks' filters.     *)
THEOREM ReportsAreNotLost == Spec => []NoReportLost
<1>1. IInv => NoReportLost
  <2> SUFFICES ASSUME IInv, Drained PROVE \A d \in delivered : \E t \in TrackId : d \in measurements[t]
    BY DEF NoReportLost
  <2>1. \A d \in delivered : \E t \in created : d \in measurements[t]
    BY DrainedReports DEF IInv
  <2>2. created \subseteq TrackId
    BY DEF IInv, TypeOK, TrackManagerTypeOK
  <2>3. QED
    BY <2>1, <2>2
<1>2. QED
  BY <1>1, Inductive, PTL

LEMMA RefreshIsHighest ==
  ASSUME IInv, Drained, NEW t \in created
  PROVE  refreshTime_[t] = HighestSensorTime(measurements[t])
<1>1. t \in TrackId /\ measurements[t] \subseteq DR /\ refreshTime_[t] \in Time
  BY DEF IInv, TypeOK, TrackTypeOK, TrackManagerTypeOK
<1>2. Owned(t) = measurements[t]
  BY <1>1, DrainedReports DEF IInv
<1>3. IsHighest(refreshTime_[t], measurements[t])
  BY <1>2 DEF IInv, RefreshInv
<1>4. QED
  BY <1>1, <1>3, HighestUnique

(* Between packets a track's refresh time is that of its newest            *)
(* measurement, although three places write it.                            *)
THEOREM RefreshCorrect == Spec => []RefreshIsNewestMeasurement
<1>1. IInv => RefreshIsNewestMeasurement
  BY RefreshIsHighest DEF RefreshIsNewestMeasurement
<1>2. QED
  BY <1>1, Inductive, PTL

(* The velocity estimate never sees a positive elapsed time.               *)
THEOREM ElapsedIsNeverPositive == Spec => []ElapsedNeverPositive
<1>1. IInv => ElapsedNeverPositive
  BY DEF IInv, RefreshInv
<1>2. QED
  BY <1>1, Inductive, PTL

(* When computeState has returned, the snapshots are exactly the           *)
(* tracks within TTL of the current time (online) or of the newest report  *)
(* (batch), each with the time of its newest measurement.                  *)
THEOREM SnapshotIsExact == Spec => []SnapshotExact
<1>1. IInv => SnapshotExact
  <2> SUFFICES ASSUME IInv, pc = "idle" PROVE SnapshotExact
    BY DEF SnapshotExact
  <2> DEFINE H(u) == HighestSensorTime(measurements[u])
  <2>1. Drained
    BY DEF Drained
  <2>2. \A t \in created : refreshTime_[t] = H(t)
    BY <2>1, RefreshIsHighest
  <2>3. /\ tracks_ \subseteq created /\ created \subseteq TrackId /\ delivered \subseteq DR
        /\ \A t \in TrackId : refreshTime_[t] \in Int
        /\ now \in Int
    BY DRAssumption DEF IInv, OwnershipInv, TypeOK, TrackTypeOK, TrackManagerTypeOK, Time
  <2>4. Reference \in Int
    BY <2>3, HighestProperties, DRAssumption DEF Reference, Time
  <2>5. \A t \in created \ tracks_ : Reference - refreshTime_[t] > TTL
    <3>1. CASE mode = "online"
      BY <3>1 DEF IInv, ExpiryInv, Outlived, Reference
    <3>2. CASE mode # "online"
      <4>1. ASSUME NEW t \in created \ tracks_ PROVE Reference - refreshTime_[t] > TTL
        <5>1. PICK u \in tracks_ : refreshTime_[u] - refreshTime_[t] > TTL
          BY <3>2 DEF IInv, ExpiryInv, Outlived
        <5>2. PICK d \in delivered : SensorTime[d] = refreshTime_[u]
          BY <2>1, <2>3, DrainedReports DEF IInv
        <5>3. SensorTime[d] <= Reference
          BY <2>3, <3>2, HighestProperties DEF Reference
        <5>4. QED
          BY <2>3, <2>4, <5>1, <5>2, <5>3, TTLAssumption
      <4>2. QED
        BY <4>1
    <3>3. QED
      BY <3>1, <3>2
  <2>6. \A t \in tracks_ : Reference - refreshTime_[t] <= TTL
    BY DEF IInv, ExpiryInv
  <2>7. tracks_ = {u \in created : Reference - H(u) <= TTL}
    <3>1. \A t \in created \ tracks_ : ~ (Reference - H(t) <= TTL)
      BY <2>2, <2>3, <2>4, <2>5, TTLAssumption
    <3>2. \A t \in tracks_ : Reference - H(t) <= TTL
      BY <2>2, <2>3, <2>6
    <3> HIDE DEF H
    <3>3. QED
      BY <2>3, <3>1, <3>2
  <2>8. snapshot_ = {<<t, refreshTime_[t]>> : t \in tracks_}
    BY DEF IInv, ExpiryInv
  <2>9. snapshot_ = {<<t, H(t)>> : t \in tracks_}
    <3> HIDE DEF H
    <3>1. QED
      BY <2>2, <2>3, <2>8
  <2>10. stored = snapshot_
    BY DEF IInv, ExpiryInv
  <2>11. QED
    BY <2>7, <2>9, <2>10 DEF SnapshotExact, UpToDate
<1>2. QED
  BY <1>1, Inductive, PTL

=============================================================================
