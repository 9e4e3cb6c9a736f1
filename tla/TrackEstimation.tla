---------------------------- MODULE TrackEstimation ----------------------------
(***************************************************************************)
(* Where the tracks are and where they are expected: Track's position,     *)
(* velocity and prediction on one axis, and the filter each track clones   *)
(* from the one DataManager keeps (src/src/Model/track.cpp,                *)
(* trackmanager.cpp, datamanager.cpp).  Which report is applied to which   *)
(* track is module DataManager's; here any may be, at any time.            *)
(***************************************************************************)
EXTENDS KalmanFilter, FiniteSets

CONSTANTS
  TrackId,       (* the tracks there may be                                *)
  NoTrack,
  Place,         (* the positions reports may have                         *)
  TimePassed,    (* what Track!ApplyMeasurement takes for the elapsed time *)
  MaxGroup,      (* bound: reports a track is initialized from             *)
  MaxReports     (* bound: reports applied to a track                      *)

ASSUME PlaceAssumption ==
  Place \subseteq Int /\ TimePassed \subseteq Int /\ MaxGroup \in Nat /\ MaxReports \in Nat

VARIABLES
  filters,     (* the filters there are, by who cloned them                *)
  tracks,      (* each track, with the filter it points to                 *)
  places,      (* ghost: the places of each track's reports                *)
  applied      (* ghost: how many reports were applied to each track       *)

vars == <<filters, tracks, places, applied>>

filter_ == "filter_"    (* DataManager's                                   *)

ASSUME FilterAssumption == filter_ \notin TrackId

Init ==
  /\ filters = [o \in {filter_} \cup TrackId |-> Prototype]
  /\ tracks = [t \in TrackId |-> NoTrack]
  /\ places = [t \in TrackId |-> {}] /\ applied = [t \in TrackId |-> 0]

Groups == UNION {[1 .. n -> Place] : n \in 1 .. MaxGroup}

Mean(group) == Over(SumOf([i \in DOMAIN group |-> Number(group[i], 1)]), Number(Len(group), 1))

(* storePredictions                                                        *)
StorePredictions(track, f) ==
  [track EXCEPT !.predictedLon = f.predictedState[1][1],
                !.lonPredictionVar = f.predictedCovarianceError[1][1]]

(* Mutant: the track is given the filter itself.                           *)
CloneNothing(t) == filter_

Clone(t) == t

CoordsToStateVector(lon, lonVel) == <<lon, lonVel>>

(* initializeFilter: positions are taken to be certain, and so is rest.    *)
InitializeFilter(f, lon) ==
  Initialize(f, CoordsToStateVector(lon, Zero), CoordsToStateVector(Zero, Zero))

(* Track's constructor, at rest                                            *)
NewTrack(filter, f, lon) ==
  StorePredictions([estimationFilter_ |-> filter, lon |-> lon, lonVel |-> Zero,
                    predictedLon |-> Zero, lonPredictionVar |-> Zero], f)

(* TrackManager::initializeTrack: a track with a filter of its own, at the *)
(* mean of the group.                                                      *)
InitializeTrack(t) ==
  /\ tracks[t] = NoTrack
  /\ \E group \in Groups :
       LET lon == Mean(group)
           f == InitializeFilter(filters[filter_], lon)
       IN  /\ filters' = [filters EXCEPT ![Clone(t)] = f]
           /\ tracks' = [tracks EXCEPT ![t] = NewTrack(Clone(t), f, lon)]
           /\ places' = [places EXCEPT ![t] = {group[i] : i \in DOMAIN group}]
  /\ UNCHANGED applied

FilterOf(t) == filters[tracks[t].estimationFilter_]

(* assert(initialized), assert(inverted)                                   *)
MayCorrect(f) == f.initialized /\ IsInvertible(Bottom(f))

(* applyMeasurement: correct, take the position and its change per time    *)
(* from the result, and predict.                                           *)
ApplyMeasurement(t) ==
  /\ tracks[t] # NoTrack /\ applied[t] < MaxReports
  /\ MayCorrect(FilterOf(t))
  /\ \E longitude \in Place, timePassed \in TimePassed :
       LET track == tracks[t]
           vec == CoordsToStateVector(Number(longitude, 1), track.lonVel)
           corrected == Correct(FilterOf(t), vec)
           newLon == corrected.correctedState[1][1]
           newVel == IF timePassed = 0 THEN track.lonVel
                     ELSE Over(Minus(newLon, track.lon), [num |-> timePassed, den |-> 1])
           predicted == Predict(corrected)
       IN  /\ filters' = [filters EXCEPT ![track.estimationFilter_] = predicted]
           /\ tracks' = [tracks EXCEPT ![t] =
                StorePredictions([track EXCEPT !.lon = newLon, !.lonVel = newVel], predicted)]
           /\ places' = [places EXCEPT ![t] = @ \cup {longitude}]
  /\ applied' = [applied EXCEPT ![t] = @ + 1]

(* removeExpiredTracks: the track goes, and its filter with it (or stays   *)
(* with the associator, module DataManager, where it meets no other track).*)
RemoveTrack(t) ==
  /\ tracks[t] # NoTrack
  /\ filters' = [filters EXCEPT ![t] = Prototype]
  /\ tracks' = [tracks EXCEPT ![t] = NoTrack]
  /\ places' = [places EXCEPT ![t] = {}] /\ applied' = [applied EXCEPT ![t] = 0]

Next ==
  \E t \in TrackId :
    InitializeTrack(t) \/ ApplyMeasurement(t) \/ RemoveTrack(t)

Spec == Init /\ [][Next]_vars

-----------------------------------------------------------------------------
IsNumber(x) == x.num \in Int /\ x.den \in Nat \ {0}

TypeOK ==
  \A t \in TrackId :
    /\ applied[t] \in 0 .. MaxReports /\ places[t] \subseteq Place
    /\ tracks[t] # NoTrack =>
         /\ tracks[t].estimationFilter_ \in DOMAIN filters
         /\ \A x \in {"lon", "lonVel", "predictedLon", "lonPredictionVar"} :
              IsNumber(tracks[t][x])

Live == {t \in TrackId : tracks[t] # NoTrack}

(* Tracks do not influence each other through the filter they are cloned   *)
(* from, nor the past a new one: a track whose reports all came from one   *)
(* place is exactly there, at rest, and expected exactly there.            *)
TracksStayApart ==
  \A t \in Live, p \in Place :
    places[t] = {p} => /\ tracks[t].lon = Number(p, 1)
                       /\ tracks[t].predictedLon = Number(p, 1)
                       /\ tracks[t].lonVel = Zero
                       /\ FilterOf(t).predictedState[2][1] = Zero

(* A measurement pulls what is expected towards itself, and never past     *)
(* itself: after a correction the expected measurement lies strictly       *)
(* between what was expected before and the measurement.                   *)
CorrectionApproaches ==
  \A t \in Live, p \in Place :
    LET f == FilterOf(t)
        z == Number(p, 1)
        before == Product(measurementModel, f.predictedState)[1][1]
        after == Product(measurementModel, Correct(f, <<z>>).correctedState)[1][1]
    IN  \/ before = z /\ after = z
        \/ Less(before, after) /\ Less(after, z)
        \/ Less(z, after) /\ Less(after, before)

(* The covariance of a correction for any gain.                            *)
Joseph(f) ==
  LET I_KH == Difference(Identity(2), Product(Gain(f), measurementModel)) IN
  Sum(Product(Product(I_KH, f.predictedCovarianceError), Transposed(I_KH)),
      Product(Product(Gain(f), measurementNoise), Transposed(Gain(f))))

(* The types hold, a measurement never meets a filter that fails its       *)
(* assertions, which would end the process, and uncertainty stays one:     *)
(* the covariance is symmetric and positive definite, and the short form   *)
(* in which correct computes it agrees with the form that holds for every  *)
(* gain, which it does for the best gain only.                             *)
CovarianceIsOptimal ==
  /\ TypeOK
  /\ \A t \in Live :
       LET f == FilterOf(t)
           P == f.predictedCovarianceError
           corrected == Correct(f, <<Zero>>).correctedCovarianceError
       IN  /\ MayCorrect(f)
           /\ P[1][2] = P[2][1]
           /\ Less(Zero, P[1][1])
           /\ Less(Zero, Minus(Times(P[1][1], P[2][2]), Times(P[1][2], P[2][1])))
           /\ corrected = Joseph(f)
           /\ Less(corrected[1][1], P[1][1])

=============================================================================
