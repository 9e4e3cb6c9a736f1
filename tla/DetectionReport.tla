--------------------------- MODULE DetectionReport ---------------------------
(***************************************************************************)
(* Detection reports (DRs) as the tracker sees them: src/src/Model/        *)
(* detectionreport.{h,cpp}.  A DR is named by its dr_id, a number, and     *)
(* carries the second at which its sensor took it.  Position, sensor and   *)
(* features only enter ratings, which the modules that rate DRs choose.    *)
(*                                                                         *)
(* Time 0 is time_types::ptime_t(), the epoch: the value the code gives to *)
(* "no time yet" and, as the argument of computeState, to "batch mode".    *)
(***************************************************************************)
EXTENDS Integers

CONSTANTS
  DR,          (* the detection reports, by dr_id                          *)
  SensorTime,  (* SensorTime[d]: when the sensor took d                    *)
  MaxTime      (* the last time a sensor or the clock can show             *)

Time == 0 .. MaxTime
Epoch == 0

ASSUME DRAssumption ==
  /\ DR \subseteq Nat
  /\ MaxTime \in Nat
  /\ SensorTime \in [DR -> 1 .. MaxTime]

(* std::less<DetectionReport>: by sensor time, then by dr_id.              *)
Less(l, r) ==
  \/ SensorTime[l] < SensorTime[r]
  \/ SensorTime[l] = SensorTime[r] /\ l < r

(* The first element of a std::set<DetectionReport>.                       *)
First(DRs) == CHOOSE d \in DRs : \A e \in DRs \ {d} : Less(d, e)

(* The highest sensor time of a collection; the epoch when it is empty.    *)
HighestSensorTime(DRs) ==
  IF DRs = {} THEN Epoch
  ELSE CHOOSE h \in {SensorTime[d] : d \in DRs} :
         \A d \in DRs : SensorTime[d] <= h

(* What a call of AlignmentProcessor::getNextAlignedGroup takes out of a   *)
(* collection: all reports at most dt later than the earliest one.  Module *)
(* AlignmentProcessor shows that its sweep computes this set.              *)
AlignedGroup(DRs, dt) ==
  {d \in DRs : SensorTime[d] - SensorTime[First(DRs)] <= dt}

=============================================================================
