----------------------------- MODULE TrackManager -----------------------------
(***************************************************************************)
(* TrackManager (src/src/Model/trackmanager.{h,cpp}): owns the set of live *)
(* tracks, creates tracks from reports nobody claimed, removes expired     *)
(* ones.  Which reports it puts into one new track is chooseFromRated's    *)
(* decision, modelled in TrackInitialization; that module shows the        *)
(* decision is a partition, and here any partition may be chosen.          *)
(***************************************************************************)
EXTENDS Track

VARIABLES
  tracks_,      (* the live tracks                                         *)
  created,      (* ghost: uuids drawn so far                               *)
  unclaimed,    (* reports initializeTracks still has to place             *)
  initialized   (* its result: new track -> the reports it was made from   *)

trackManagerVars == <<tracks_, created, unclaimed, initialized>>

NoReports == [t \in TrackId |-> {}]

TrackManagerTypeOK ==
  /\ tracks_ \subseteq TrackId
  /\ created \subseteq TrackId
  /\ unclaimed \in SUBSET SUBSET DR
  /\ initialized \in [TrackId -> SUBSET DR]

TrackManagerInit ==
  /\ tracks_ = {} /\ created = {} /\ unclaimed = {} /\ initialized = NoReports

(* Entry of initializeTracks: it copies the groups, and skips empty ones.  *)
BeginInitializeTracks(DRsGroups) ==
  /\ unclaimed' = DRsGroups \ {{}}
  /\ initialized' = NoReports

(* One iteration: one set of reports out of one group becomes a new track. *)
(* boost's random uuid never repeats one drawn before.                     *)
InitializeTrack(group, DRs) ==
  LET t == CHOOSE id \in TrackId \ created : TRUE IN
  /\ created # TrackId
  /\ Create(t, DRs)
  /\ created' = created \cup {t}
  /\ tracks_' = tracks_ \cup {t}
  /\ initialized' = [initialized EXCEPT ![t] = DRs]
  /\ unclaimed' = ((unclaimed \ {group}) \cup {group \ DRs}) \ {{}}

LatestTrackRefreshTime ==
  IF tracks_ = {} THEN Epoch
  ELSE CHOOSE h \in {refreshTime_[t] : t \in tracks_} :
         \A t \in tracks_ : refreshTime_[t] <= h

(* The overload without a current time takes the latest refresh for it.    *)
CurrentTime(currentTime) ==
  IF currentTime # Epoch THEN currentTime ELSE LatestTrackRefreshTime

RemoveExpiredTracks(currentTime) ==
  tracks_' = {t \in tracks_ : IsTrackValid(t, CurrentTime(currentTime))}

=============================================================================
