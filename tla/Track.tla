-------------------------------- MODULE Track --------------------------------
(***************************************************************************)
(* The state of every Track object (src/src/Model/track.{h,cpp}), indexed  *)
(* by its uuid.  Coordinates, the estimation filter's numbers and the      *)
(* predictions are abstracted; what remains of a velocity is the elapsed   *)
(* time it was computed over, which is what decides whether it is one.     *)
(***************************************************************************)
EXTENDS DetectionReport

CONSTANTS
  TrackId,     (* the uuids the random generator may draw                  *)
  TTL          (* how long a track lives without a measurement             *)

ASSUME TTLAssumption == TTL \in Nat

VARIABLES
  refreshTime_,  (* refreshTime_[t]; the epoch before t is created         *)
  velocityDt_,   (* timePassed of t's last velocity update, 0 before any   *)
  measurements   (* ghost: the reports applied to t's filter               *)

trackVars == <<refreshTime_, velocityDt_, measurements>>

TrackTypeOK ==
  /\ refreshTime_ \in [TrackId -> Time]
  /\ velocityDt_ \in [TrackId -> Int]
  /\ measurements \in [TrackId -> SUBSET DR]

TrackInit ==
  /\ refreshTime_ = [t \in TrackId |-> Epoch]
  /\ velocityDt_ = [t \in TrackId |-> 0]
  /\ measurements = [t \in TrackId |-> {}]

(* Mutants: the guard of refresh dropped; the instant of expiry stored.    *)
RefreshedUnguarded(t, time) == time
RefreshedToDeadline(t, time) == IF time <= refreshTime_[t] THEN refreshTime_[t] ELSE time + TTL

(* Track::refresh never moves a track back in time.                        *)
Refreshed(t, time) ==
  IF time <= refreshTime_[t] THEN refreshTime_[t] ELSE time

(* TrackManager::initializeTrack: the constructor sets the refresh time,   *)
(* velocity 0 and an initialized filter; no measurement is applied yet.    *)
Create(t, DRs) ==
  /\ refreshTime_' = [refreshTime_ EXCEPT ![t] = HighestSensorTime(DRs)]
  /\ UNCHANGED <<velocityDt_, measurements>>

(* Mutant: association leaves the refresh to the fusion.                   *)
RefreshForgotten(t, time) == UNCHANGED trackVars

Refresh(t, time) ==
  /\ refreshTime_' = [refreshTime_ EXCEPT ![t] = Refreshed(t, time)]
  /\ UNCHANGED <<velocityDt_, measurements>>

TimePassed(t, d) == SensorTime[d] - refreshTime_[t]

ApplyMeasurement(t, d) ==
  /\ refreshTime_' = [refreshTime_ EXCEPT ![t] = Refreshed(t, SensorTime[d])]
  /\ velocityDt_' = [velocityDt_ EXCEPT
                       ![t] = IF TimePassed(t, d) # 0 THEN TimePassed(t, d) ELSE @]
  /\ measurements' = [measurements EXCEPT ![t] = @ \cup {d}]

(* Mutant: a track that reached its TTL exactly is dropped.                *)
IsTrackValidStrict(t, currentTime) == currentTime - refreshTime_[t] < TTL

IsTrackValid(t, currentTime) == currentTime - refreshTime_[t] <= TTL

=============================================================================
