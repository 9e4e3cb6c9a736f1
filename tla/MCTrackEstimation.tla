--------------------------- MODULE MCTrackEstimation ---------------------------
(***************************************************************************)
(* Two tracks, three places, up to two reports to start from and two to    *)
(* follow.  The properties look at the correction after those as well: with*)
(* the third the gains are close to their limit, and a fourth would exceed *)
(* TLC's integers.                                                         *)
(* The elapsed time is never positive (DataManager's ElapsedNeverPositive).*)
(***************************************************************************)
EXTENDS TrackEstimation

MCTimePassed == {0, -1}

TracksAreAlike == Permutations(TrackId)

===============================================================================
