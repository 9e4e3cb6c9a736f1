----------------------------- MODULE DataManager -----------------------------
(***************************************************************************)
(* Model::DataManager::computeState (src/src/Model/datamanager.cpp) and    *)
(* the components it drives: report manager, alignment, association,       *)
(* initialization, fusion, expiry, and the two places the result goes (the *)
(* snapshot buffer shared with the view, and the database).                *)
(*                                                                         *)
(* The controller thread runs computeState alone, so a step is one call of *)
(* a component, or one iteration of a loop whose order matters.  What the  *)
(* steps leave open is the environment: what the database delivers to each *)
(* getDRs call, how reports rate against tracks, how far the clock went.   *)
(*                                                                         *)
(* An element of DR stands for one DELIVERY by ReportManager::getDRs.  A   *)
(* row that getDRs hands over twice (module ReportManager) is two elements *)
(* with the same sensor time.                                              *)
(***************************************************************************)
EXTENDS DataAssociator

CONSTANTS
  Dt           (* width of an aligned group                                *)

ASSUME DtAssumption == Dt \in Nat

VARIABLES
  mode,        (* the working mode main() was configured with              *)
  pc,          (* where in computeState the controller thread is           *)
  now,         (* the current time given to the last computeState          *)
  delivered,   (* ghost: the reports getDRs has returned so far            *)
  DRs_,        (* AlignmentProcessor's collection                          *)
  fusing,      (* what fuseDRs still has to apply                          *)
  snapshot_,   (* the buffered snapshot: <<track, refresh time>> pairs     *)
  stored       (* the last snapshot committed to track_snapshots           *)

managerVars == <<mode, pc, now, delivered, DRs_, fusing, snapshot_, stored>>
vars == <<trackVars, trackManagerVars, associatorVars, managerVars>>

Modes == {"online", "batch"}
Steps == {"idle", "getDRs", "align", "associate", "initialize", "fuseAssociated",
          "fuseInitialized", "expire", "publish", "store", "terminated"}

TypeOK ==
  /\ TrackTypeOK /\ TrackManagerTypeOK /\ DataAssociatorTypeOK
  /\ mode \in Modes /\ pc \in Steps /\ now \in Time
  /\ delivered \subseteq DR /\ DRs_ \subseteq DR
  /\ fusing \in [TrackId -> SUBSET DR]
  /\ snapshot_ \subseteq TrackId \X Time
  /\ stored \subseteq TrackId \X Time

Init ==
  /\ TrackInit /\ TrackManagerInit /\ DataAssociatorInit
  /\ mode \in Modes /\ pc = "idle" /\ now = Epoch
  /\ delivered = {} /\ DRs_ = {} /\ fusing = NoReports
  /\ snapshot_ = {} /\ stored = {}

-----------------------------------------------------------------------------
(* A timer tick reaches the dispatcher: in online mode computeState gets   *)
(* the clock (assumed not to be set back), in batch mode no time.          *)
ComputeState ==
  /\ pc = "idle"
  /\ IF mode = "online" THEN now' \in (now .. MaxTime) \ {Epoch} ELSE now' = Epoch
  /\ pc' = "getDRs"
  /\ UNCHANGED <<trackVars, trackManagerVars, associatorVars,
                 mode, delivered, DRs_, fusing, snapshot_, stored>>

(* compute() asks for the next packet; an empty one ends the drain.        *)
GetDRs(DRs) ==
  /\ pc = "getDRs"
  /\ delivered' = delivered \cup DRs
  /\ DRs_' = DRs
  /\ pc' = IF DRs = {} THEN "expire" ELSE "align"
  /\ UNCHANGED <<trackVars, trackManagerVars, associatorVars,
                 mode, now, fusing, snapshot_, stored>>

(* CandidateSelector puts all of a group's reports into one group.         *)
MeasurementGroups(DRs) == {DRs}

GetNextAlignedGroup ==
  /\ pc = "align" /\ DRs_ # {}
  /\ DRs_' = DRs_ \ AlignedGroup(DRs_, Dt)
  /\ SetInput(MeasurementGroups(AlignedGroup(DRs_, Dt)))
  /\ unvisited' = tracks_
  /\ pc' = "associate"
  /\ UNCHANGED <<trackVars, trackManagerVars,
                 mode, now, delivered, fusing, snapshot_, stored>>

(* Mutant: the next packet is never asked for, the reports are run again.  *)
NoMoreGroupsAgain ==
  /\ pc = "align" /\ DRs_ = {}
  /\ DRs_' = delivered
  /\ UNCHANGED <<trackVars, trackManagerVars, associatorVars,
                 mode, pc, now, delivered, fusing, snapshot_, stored>>

NoMoreGroups ==
  /\ pc = "align" /\ DRs_ = {}
  /\ pc' = "getDRs"
  /\ UNCHANGED <<trackVars, trackManagerVars, associatorVars,
                 mode, now, delivered, DRs_, fusing, snapshot_, stored>>

Associate(t, group, chosen) ==
  /\ pc = "associate"
  /\ AssociateTrack(t, group, chosen)
  /\ UNCHANGED <<trackManagerVars, managerVars>>

(* getDRsForTracks returns the whole map by value, getNotAssociated what   *)
(* is left of the groups, and initializeTracks starts on the latter.       *)
Associated ==
  /\ pc = "associate"
  /\ FinishCompute
  /\ fusing' = associatedDRs_
  /\ BeginInitializeTracks(DRGroups_)
  /\ pc' = "initialize"
  /\ UNCHANGED <<trackVars, tracks_, created,
                 mode, now, delivered, DRs_, snapshot_, stored>>

Initialize(group, DRs) ==
  /\ pc = "initialize"
  /\ InitializeTrack(group, DRs)
  /\ UNCHANGED <<associatorVars, managerVars>>

BeginFusion ==
  /\ pc = "initialize" /\ unclaimed = {}
  /\ pc' = "fuseAssociated"
  /\ UNCHANGED <<trackVars, trackManagerVars, associatorVars,
                 mode, now, delivered, DRs_, fusing, snapshot_, stored>>

(* One iteration of fuseDRs: a track's reports in the order of their set.  *)
Fuse(t, d) ==
  /\ pc \in {"fuseAssociated", "fuseInitialized"}
  /\ d = First(fusing[t])
  /\ ApplyMeasurement(t, d)
  /\ fusing' = [fusing EXCEPT ![t] = @ \ {d}]
  /\ UNCHANGED <<trackManagerVars, associatorVars,
                 mode, pc, now, delivered, DRs_, snapshot_, stored>>

(* Mutant: the reports of the new tracks are not fused.                    *)
FusedAssociatedOnly ==
  /\ pc = "fuseAssociated" /\ fusing = NoReports
  /\ pc' = "fuseInitialized"
  /\ UNCHANGED <<trackVars, trackManagerVars, associatorVars,
                 mode, now, delivered, DRs_, fusing, snapshot_, stored>>

FusedAssociated ==
  /\ pc = "fuseAssociated" /\ fusing = NoReports
  /\ fusing' = initialized
  /\ pc' = "fuseInitialized"
  /\ UNCHANGED <<trackVars, trackManagerVars, associatorVars,
                 mode, now, delivered, DRs_, snapshot_, stored>>

FusedInitialized ==
  /\ pc = "fuseInitialized" /\ fusing = NoReports
  /\ pc' = "align"
  /\ UNCHANGED <<trackVars, trackManagerVars, associatorVars,
                 mode, now, delivered, DRs_, fusing, snapshot_, stored>>

(* Only now, with the database drained, do tracks expire.                  *)
Expire ==
  /\ pc = "expire"
  /\ RemoveExpiredTracks(now)
  /\ pc' = "publish"
  /\ UNCHANGED <<trackVars, created, unclaimed, initialized, associatorVars,
                 mode, now, delivered, DRs_, fusing, snapshot_, stored>>

(* The clones of the live tracks, put into the buffer.                     *)
Publish ==
  /\ pc = "publish"
  /\ snapshot_' = {<<t, refreshTime_[t]>> : t \in tracks_}
  /\ pc' = "store"
  /\ UNCHANGED <<trackVars, trackManagerVars, associatorVars,
                 mode, now, delivered, DRs_, fusing, stored>>

Store ==
  /\ pc = "store"
  /\ stored' = snapshot_
  /\ pc' = "idle"
  /\ UNCHANGED <<trackVars, trackManagerVars, associatorVars,
                 mode, now, delivered, DRs_, fusing, snapshot_>>

(* The database fails while reports are fetched or the snapshot is stored:    *)
(* the exception leaves computeState and the controller thread, and the    *)
(* process ends.                                                           *)
DatabaseFails ==
  /\ pc \in {"getDRs", "store"}
  /\ pc' = "terminated"
  /\ UNCHANGED <<trackVars, trackManagerVars, associatorVars,
                 mode, now, delivered, DRs_, fusing, snapshot_, stored>>

-----------------------------------------------------------------------------
AssociateSome ==
  \E t \in unvisited : \E group \in DRGroups_ :
    \E chosen \in SUBSET group : Associate(t, group, chosen)

InitializeSome ==
  \E group \in unclaimed : \E DRs \in (SUBSET group) \ {{}} : Initialize(group, DRs)

FuseSome == \E t \in TrackId : \E d \in fusing[t] : Fuse(t, d)

(* The steps of a computeState that is under way.                          *)
Compute ==
  \/ \E DRs \in SUBSET (DR \ delivered) : GetDRs(DRs)
  \/ GetNextAlignedGroup \/ NoMoreGroups
  \/ AssociateSome \/ Associated
  \/ InitializeSome \/ BeginFusion
  \/ FuseSome \/ FusedAssociated \/ FusedInitialized
  \/ Expire \/ Publish \/ Store \/ DatabaseFails

Next == ComputeState \/ Compute

Spec == Init /\ [][Next]_vars

(* The controller thread keeps running; only finitely many reports exist.  *)
FairSpec == Spec /\ WF_vars(Compute)

-----------------------------------------------------------------------------
(* The steps between two packets: no aligned group is half processed.      *)
Drained == pc \in {"idle", "getDRs", "expire", "publish", "store", "terminated"}

(* No report is ever part of two tracks, live or expired: association,     *)
(* initialization and the re-fusion of stale associations never hand one   *)
(* report to two filters (dataassociator.h: "one chosen DR cannot be       *)
(* associated for other Track").                                           *)
OneTrackPerReport ==
  \A s, t \in TrackId : s # t => measurements[s] \cap measurements[t] = {}

(* Every report getDRs delivered ends up in some track's filter before the *)
(* next packet is requested: neither the sweep, the association, nor the   *)
(* initialization of leftovers drops one.                                  *)
NoReportLost ==
  Drained => \A d \in delivered : \E t \in TrackId : d \in measurements[t]

(* A track's refresh time, which decides its expiry, is the sensor time of *)
(* its newest measurement, although three different places write it.       *)
RefreshIsNewestMeasurement ==
  Drained => \A t \in created : refreshTime_[t] = HighestSensorTime(measurements[t])

(* "Now" as expiry sees it: the clock, or the newest report ever.          *)
Reference == IF mode = "online" THEN now ELSE HighestSensorTime(delivered)

(* The tracks ever created whose newest measurement is within TTL, each    *)
(* with that measurement's time.                                           *)
UpToDate ==
  {<<t, HighestSensorTime(measurements[t])>> :
     t \in {u \in created : Reference - HighestSensorTime(measurements[u]) <= TTL}}

(* When computeState has returned, the buffered snapshot and the stored    *)
(* one hold exactly the tracks that are up to date (datamanager.h: "Tracks *)
(* older than currentTime-TTL will be removed").                           *)
SnapshotExact == pc = "idle" => snapshot_ = UpToDate /\ stored = UpToDate

(* The elapsed time handed to the velocity estimate is never positive:     *)
(* compute() has already refreshed the track with the newest associated    *)
(* report when fuseDRs applies the reports.                                *)
ElapsedNeverPositive == \A t \in TrackId : velocityDt_[t] <= 0

(* computeState returns, or the process ends on a database failure.        *)
ComputeStateReturns == (pc = "getDRs") ~> (pc \in {"idle", "terminated"})

-----------------------------------------------------------------------------
(* What the repository says and the code does not do.                      *)

(* datamanager.cpp:252 says the map getDRsForTracks returned holds "DRs    *)
(* which matched existing Tracks".                                         *)
AssociatedTracksExist ==
  pc = "fuseAssociated" => \A t \in TrackId : fusing[t] # {} => t \in tracks_

(* track.h:93 says a measurement is applied with "how much time passed     *)
(* from last measurement"; here for a report associated with a track that  *)
(* existed before the report's group.                                      *)
NewerMeasurement(t, d) ==
  /\ pc = "fuseAssociated"
  /\ measurements[t] # {}
  /\ SensorTime[d] > HighestSensorTime(measurements[t])
  /\ d \in measurements'[t] \ measurements[t]

ElapsedIsSinceLastMeasurement ==
  [][\A t \in TrackId : \A d \in DR :
       NewerMeasurement(t, d) =>
         velocityDt_'[t] = SensorTime[d] - HighestSensorTime(measurements[t])]_vars

=============================================================================
