-------------------------- MODULE AlignmentProcessor --------------------------
(***************************************************************************)
(* AlignmentProcessor (src/src/Model/alignmentprocessor.{h,cpp}): cuts one *)
(* collection of DRs into groups taken "at the same time".                 *)
(*                                                                         *)
(* The sweep of getNextAlignedGroup is modelled iteration by iteration:    *)
(* DRs_ is the member collection, aligned the local set being filled (the  *)
(* code's result), and lastTime the local that, despite its name, stays at *)
(* the time of the FIRST report of the group.                              *)
(*                                                                         *)
(* The function has no return statement after its loop: when the sweep     *)
(* exhausts DRs_ it runs off its end.  The build (g++ -O0) constructs      *)
(* result in the caller's return slot, so the caller receives result, and  *)
(* AlignmentTest4 of src/test/Model/AlignmentProcessor.cpp relies on it.   *)
(*                                                                         *)
(* The header disagrees with itself about a report exactly dt_ after the   *)
(* first: differences are "lower than dt" in lines 29 and 38, and "not    *)
(* higher than dt_" in line 49.  The code, and the tests, do the latter.   *)
(***************************************************************************)
EXTENDS DetectionReport, Sequences

CONSTANTS
  Dt,             (* dt_, the width of a group                             *)
  MaxCollections, (* bound: how often setDRsCollection is called           *)
  MaxGroups       (* bound: how many groups are asked for per collection   *)

ASSUME BoundsAssumption == Dt \in Nat /\ MaxCollections \in Nat /\ MaxGroups \in Nat

VARIABLES
  stage,     (* "ready": between calls; "sweep": inside getNextAlignedGroup *)
  DRs_,      (* the reports not handed out yet                             *)
  aligned,   (* the group under construction                               *)
  lastTime,  (* the time the sweep compares with                           *)
  collection,(* ghost: what the last setDRsCollection was given            *)
  groups,    (* ghost: the groups returned since then, in order            *)
  calls      (* ghost: setDRsCollection calls made                         *)

alignmentVars == <<stage, DRs_, aligned, lastTime, collection, groups, calls>>

-----------------------------------------------------------------------------
AlignmentInit ==
  /\ stage = "ready"
  /\ DRs_ = {} /\ aligned = {} /\ lastTime = Epoch
  /\ collection = {} /\ groups = <<>> /\ calls = 0

SetDRsCollection(DRs) ==
  /\ stage = "ready"
  /\ calls < MaxCollections
  /\ calls' = calls + 1
  /\ DRs_' = DRs
  /\ collection' = DRs
  /\ groups' = <<>>
  /\ UNCHANGED <<stage, aligned, lastTime>>

(* Mutant: the group starts without the report it is measured from.        *)
TakeFirstLost ==
  /\ lastTime' = SensorTime[First(DRs_)]
  /\ aligned' = {}
  /\ DRs_' = DRs_ \ {First(DRs_)}

TakeFirst ==
  /\ lastTime' = SensorTime[First(DRs_)]
  /\ aligned' = {First(DRs_)}
  /\ DRs_' = DRs_ \ {First(DRs_)}

(* Entry: an empty collection gives an empty group, otherwise the first    *)
(* report opens the group.                                                 *)
CallGetNextAlignedGroup ==
  /\ stage = "ready"
  /\ Len(groups) < MaxGroups
  /\ IF DRs_ = {}
     THEN /\ groups' = Append(groups, {})
          /\ UNCHANGED <<stage, DRs_, aligned, lastTime>>
     ELSE /\ TakeFirst
          /\ stage' = "sweep"
          /\ UNCHANGED groups
  /\ UNCHANGED <<collection, calls>>

(* Mutant: a report exactly dt later is left out.                          *)
InGroupStrict(d) == SensorTime[d] - lastTime < Dt

InGroup(d) == SensorTime[d] - lastTime <= Dt

(* One iteration that moves the next report into the group.                *)
SweepDRs ==
  /\ stage = "sweep"
  /\ DRs_ # {}
  /\ InGroup(First(DRs_))
  /\ aligned' = aligned \cup {First(DRs_)}
  /\ DRs_' = DRs_ \ {First(DRs_)}
  /\ UNCHANGED <<stage, lastTime, collection, groups, calls>>

(* Leaving: the next report is out of bounds, or the sweep ran off the end.*)
ReturnGroup ==
  /\ stage = "sweep"
  /\ DRs_ # {} => ~ InGroup(First(DRs_))
  /\ groups' = Append(groups, aligned)
  /\ stage' = "ready"
  /\ aligned' = {} /\ lastTime' = Epoch
  /\ UNCHANGED <<DRs_, collection, calls>>

AlignmentNext ==
  \/ \E DRs \in SUBSET DR : SetDRsCollection(DRs)
  \/ CallGetNextAlignedGroup
  \/ SweepDRs
  \/ ReturnGroup

AlignmentSpec == AlignmentInit /\ [][AlignmentNext]_alignmentVars

-----------------------------------------------------------------------------
AlignmentTypeOK ==
  /\ stage \in {"ready", "sweep"}
  /\ DRs_ \subseteq DR /\ aligned \subseteq DR /\ collection \subseteq DR
  /\ lastTime \in Time
  /\ groups \in Seq(SUBSET DR) /\ Len(groups) <= MaxGroups
  /\ calls \in 0 .. MaxCollections

HandedOut == UNION {groups[i] : i \in DOMAIN groups}

(* At every moment, inside a call too, the types hold and each report of   *)
(* the collection is in exactly one place: still held, in the group being  *)
(* built, or in one of the groups returned.                                *)
NothingLostOrRepeated ==
  /\ AlignmentTypeOK
  /\ DRs_ \cup aligned \cup HandedOut = collection
  /\ DRs_ \cap aligned = {} /\ (DRs_ \cup aligned) \cap HandedOut = {}
  /\ \A i, j \in DOMAIN groups : i # j => groups[i] \cap groups[j] = {}

HandedOutBefore(i) == UNION {groups[j] : j \in 1 .. i - 1}

(* The sweep, which only ever looks at the head of the ordered set, returns*)
(* ALL the remaining reports within dt of the earliest one, and only them: *)
(* the group that module DataManager takes in one step.  A report exactly  *)
(* dt later is one of them (alignmentprocessor.cpp:22, and line 49 of the  *)
(* header: "collection of DRs with time interval not higher than dt_");    *)
(* by lines 37-38, "each pair of DRs in result group, has to has time      *)
(* difference lower than dt_", it would not be.                            *)
GroupsAreAligned ==
  \A i \in DOMAIN groups :
    groups[i] = AlignedGroup(collection \ HandedOutBefore(i), Dt)

=============================================================================
