---------------------------- MODULE DataAssociator ----------------------------
(***************************************************************************)
(* DataAssociator (src/src/Model/dataassociator.{h,cpp}): gives each live  *)
(* track the reports that rate high enough against it.                     *)
(*                                                                         *)
(* A rating is a number computed from features and distances; which        *)
(* reports of which group pass the threshold for a track is chosen         *)
(* arbitrarily.  Tracks are visited in the order of their addresses, which *)
(* the allocator chooses.                                                  *)
(***************************************************************************)
EXTENDS TrackManager

VARIABLES
  DRGroups_,       (* the groups, shrinking as reports are claimed         *)
  computed_,       (* whether compute() ran on this input                  *)
  associatedDRs_,  (* track -> its reports; never cleared                  *)
  unvisited        (* the tracks compute()'s loop has still to visit       *)

associatorVars == <<DRGroups_, computed_, associatedDRs_, unvisited>>

DataAssociatorTypeOK ==
  /\ DRGroups_ \in SUBSET SUBSET DR
  /\ computed_ \in BOOLEAN
  /\ associatedDRs_ \in [TrackId -> SUBSET DR]
  /\ unvisited \subseteq TrackId

DataAssociatorInit ==
  /\ DRGroups_ = {} /\ computed_ = FALSE
  /\ associatedDRs_ = NoReports /\ unvisited = {}

SetInput(DRsGroups) ==
  /\ DRGroups_' = DRsGroups
  /\ computed_' = FALSE
  /\ UNCHANGED associatedDRs_

(* Mutant: the chosen reports stay in the group.                           *)
KeepChosen(group, chosen) == UNCHANGED DRGroups_

(* getListForTrack overwrites the chosen group with what is left of it.    *)
RemoveChosen(group, chosen) ==
  DRGroups_' = (DRGroups_ \ {group}) \cup {group \ chosen}

(* One iteration of compute(): the best rated group gives the track its    *)
(* matching reports (perhaps none), and the track is refreshed already     *)
(* here, with the highest sensor time among them.                          *)
AssociateTrack(t, group, chosen) ==
  /\ ~ computed_
  /\ unvisited' = unvisited \ {t}
  /\ RemoveChosen(group, chosen)
  /\ associatedDRs_' = [associatedDRs_ EXCEPT ![t] = chosen]
  /\ Refresh(t, HighestSensorTime(chosen))
  /\ UNCHANGED computed_

FinishCompute ==
  /\ unvisited = {}
  /\ computed_' = TRUE
  /\ UNCHANGED <<DRGroups_, associatedDRs_, unvisited>>

=============================================================================
