--------------------------- MODULE ResultComparator ---------------------------
(***************************************************************************)
(* How well a report matches a track: OrComparator, OrListComparator       *)
(* (src/src/Model/resultcomparator.cpp) and DataAssociator's use of them.  *)
(* NaN is what dividing 0 by 0 gives.  The distance of a report from a     *)
(* track is a natural number of some unit.  The program gives OrComparator *)
(* no grade rates and compares no features: what a feature adds to the     *)
(* grade is 0, and that there is one halves it.                            *)
(***************************************************************************)
EXTENDS Fractions

CONSTANT NaN    (* the result of 0.0 / 0.0                                 *)

ASSUME NaNAssumption == NaN \notin Fraction

(* Comparisons with NaN are false.                                         *)
AtLeast(x, y) == x # NaN /\ y # NaN /\ AtMost(y, x)

Greater(x, y) == x # NaN /\ y # NaN /\ Less(y, x)

(* x / y for an x that is not larger than y, the only divisions made.      *)
Divide(x, y) == IF y = Zero THEN NaN ELSE Over(x, y)

(* Mutant: the rate is not limited.                                        *)
PositionUnlimited(distance, maximumPositionRate) ==
  IF distance = 0 THEN maximumPositionRate ELSE Number(1, distance)

(* One over the distance, limited by the maximum; one over 0 is infinite.  *)
PositionResult(distance, maximumPositionRate) ==
  IF distance = 0 \/ Greater(Number(1, distance), maximumPositionRate)
  THEN maximumPositionRate
  ELSE Number(1, distance)

(* OrComparator for a report at a distance from a track.                   *)
DRRate(distance, features, maximumPositionRate) ==
  LET positionNormalized ==
        Divide(PositionResult(distance, maximumPositionRate), maximumPositionRate)
  IN  IF features /\ positionNormalized # NaN
      THEN Times(positionNormalized, Number(1, 2)) ELSE positionNormalized

(* DataAssociator takes the reports of a group that reach the threshold ...*)
Matches(distance, features, maximumPositionRate, threshold) ==
  AtLeast(DRRate(distance, features, maximumPositionRate), threshold)

(* ... and the group when its rate, the mean of theirs or 0 without any,   *)
(* exceeds the -1 it starts from.                                          *)
OverallRate(rates) ==
  IF rates = <<>> THEN Zero ELSE Over(SumOf(rates), Number(Len(rates), 1))

IsChosen(rates) == Greater(OverallRate(rates), Number(-1, 1))

=============================================================================
