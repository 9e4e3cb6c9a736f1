------------------------- MODULE TrackInitialization -------------------------
(***************************************************************************)
(* How TrackManager::initializeTracks splits one group of unclaimed        *)
(* reports into the sets that become tracks: getRatedPairs, then           *)
(* chooseFromRated with its helpers (src/src/Model/trackmanager.cpp).      *)
(*                                                                         *)
(* A rating, computed from positions, is any symmetric number.  Pairs are  *)
(* <<first, second, rate>> tuples in a std::set ordered by tuple_less:     *)
(* lowest rate first.                                                      *)
(*                                                                         *)
(* removeDRsFromTupleCollection goes on with its inner loop after erasing  *)
(* a tuple.  When the erased tuple was the last one, the loop reads the    *)
(* tuple "at" end(): whatever follows the set's header in memory.  Here    *)
(* that read has both its outcomes: the garbage matches no report and the  *)
(* loop goes on, or it matches and erase(end()) brings the process down.   *)
(***************************************************************************)
EXTENDS DetectionReport

CONSTANTS
  Threshold,   (* initializationDRThreshold_                               *)
  MaxRate      (* bound: ratings range over 0 .. MaxRate                   *)

ASSUME RateAssumption == MaxRate \in Nat /\ Threshold \in 0 .. MaxRate

VARIABLES
  pc,          (* "rate", "choose", "sweep", "remove", "done", "crashed"   *)
  DRs,         (* the group                                                *)
  rating,      (* ghost: compare's value for each pair                     *)
  tuples,      (* the pairs that remain                                    *)
  notAssigned, (* the reports in no pair                                   *)
  tuplesOriginally, (* the reports in some pair                            *)
  used,        (* the reports put into a set                               *)
  currentSet, firstSet, secondSet,  (* locals of the loop                  *)
  it, rest, erased, (* the removal: its iterator, the reports the inner    *)
                    (* loop has still to compare with, its flag            *)
  result       (* the sets that become tracks                              *)

vars == <<pc, DRs, rating, tuples, notAssigned, tuplesOriginally, used,
          currentSet, firstSet, secondSet, it, rest, erased, result>>

-----------------------------------------------------------------------------
Pairs(S) == {p \in S \X S : Less(p[1], p[2])}

Tuples(S) == {<<p[1], p[2], r>> : p \in Pairs(S), r \in 0 .. MaxRate}

GoodEnough(l, r) == rating[<<l, r>>] >= Threshold

(* struct tuple_less                                                       *)
TupleLess(l, r) ==
  \/ l[3] < r[3]
  \/ l[3] = r[3] /\ Less(l[1], r[1])
  \/ l[3] = r[3] /\ l[1] = r[1] /\ Less(l[2], r[2])

Begin(T) == CHOOSE t \in T : \A u \in T \ {t} : TupleLess(t, u)

End == <<>>

(* The iterator after t in T, T being the set before or after t is erased. *)
After(T, t) ==
  LET later == {u \in T : TupleLess(t, u)} IN
  IF later = {} THEN End ELSE Begin(later)

Members(T) == {t[1] : t \in T} \cup {t[2] : t \in T}

(* getSetOfPairedDRs over the whole collection.                            *)
GetSetOfPairedDRs(d) ==
  {t[2] : t \in {u \in tuples : u[1] = d}} \cup
  {t[1] : t \in {u \in tuples : u[2] = d}}

Init ==
  /\ pc = "rate"
  /\ DRs \in (SUBSET DR) \ {{}}
  /\ rating \in [Pairs(DRs) -> 0 .. MaxRate]
  /\ tuples = {} /\ notAssigned = {} /\ tuplesOriginally = {} /\ used = {}
  /\ currentSet = {} /\ firstSet = {} /\ secondSet = {}
  /\ it = End /\ rest = {} /\ erased = FALSE
  /\ result = {}

GetRatedPairs ==
  /\ pc = "rate"
  /\ tuples' = {<<p[1], p[2], rating[p]>> : p \in {q \in Pairs(DRs) : GoodEnough(q[1], q[2])}}
  /\ tuplesOriginally' = Members(tuples')
  /\ notAssigned' = DRs \ Members(tuples')
  /\ pc' = "choose"
  /\ UNCHANGED <<DRs, rating, used, currentSet, firstSet, secondSet, it, rest, erased, result>>

(* The first remaining pair seeds the next set.                            *)
ChooseSeeds ==
  /\ pc = "choose" /\ tuples # {}
  /\ LET t == Begin(tuples) IN
     /\ currentSet' = {t[1], t[2]}
     /\ used' = used \cup {t[1], t[2]}
     /\ firstSet' = GetSetOfPairedDRs(t[1])
     /\ secondSet' = GetSetOfPairedDRs(t[2])
  /\ pc' = "sweep"
  /\ UNCHANGED <<DRs, rating, tuples, notAssigned, tuplesOriginally, it, rest, erased, result>>

(* Mutant: a report paired with the first seed is enough.                  *)
PairedWithFirst(d) == d \in firstSet

PairedWithBoth(d) == d \in secondSet

(* One iteration: the next report paired with the first seed joins the set *)
(* when it is paired with the second one too.                              *)
Sweep ==
  /\ pc = "sweep" /\ firstSet # {} /\ secondSet # {}
  /\ LET d == First(firstSet) IN
     /\ firstSet' = firstSet \ {d}
     /\ IF PairedWithBoth(d)
        THEN /\ currentSet' = currentSet \cup {d}
             /\ used' = used \cup {d}
             /\ secondSet' = secondSet \ {d}
        ELSE UNCHANGED <<currentSet, used, secondSet>>
  /\ UNCHANGED <<pc, DRs, rating, tuples, notAssigned, tuplesOriginally, it, rest, erased, result>>

EndSweep ==
  /\ pc = "sweep" /\ (firstSet = {} \/ secondSet = {})
  /\ it' = Begin(tuples) /\ rest' = currentSet /\ erased' = FALSE
  /\ pc' = "remove"
  /\ UNCHANGED <<DRs, rating, tuples, notAssigned, tuplesOriginally, used,
                 currentSet, firstSet, secondSet, result>>

-----------------------------------------------------------------------------
(* removeDRsFromTupleCollection                                            *)

(* Mutant: only the pairs a report is the first of are erased.             *)
TouchesFirst(t, d) == t[1] = d

Touches(t, d) == t[1] = d \/ t[2] = d

(* One iteration of the inner loop, at a tuple.                            *)
CompareTuple ==
  /\ pc = "remove" /\ it # End /\ rest # {}
  /\ rest' = rest \ {First(rest)}
  /\ IF Touches(it, First(rest))
     THEN /\ tuples' = tuples \ {it}
          /\ it' = After(tuples, it)
          /\ erased' = TRUE
     ELSE UNCHANGED <<tuples, it, erased>>
  /\ UNCHANGED <<pc, DRs, rating, notAssigned, tuplesOriginally, used,
                 currentSet, firstSet, secondSet, result>>

(* The same past the end, after the last tuple was erased.                 *)
CompareEnd ==
  /\ pc = "remove" /\ it = End /\ rest # {}
  /\ \/ rest' = rest \ {First(rest)} /\ UNCHANGED pc
     \/ pc' = "crashed" /\ UNCHANGED rest
  /\ UNCHANGED <<DRs, rating, tuples, notAssigned, tuplesOriginally, used,
                 currentSet, firstSet, secondSet, it, erased, result>>

(* Mutant: the iterator is not advanced.                                   *)
NextTupleStuck ==
  /\ pc = "remove" /\ it # End /\ rest = {}
  /\ rest' = currentSet
  /\ erased' = FALSE
  /\ UNCHANGED <<pc, DRs, rating, tuples, notAssigned, tuplesOriginally, used,
                 currentSet, firstSet, secondSet, it, result>>

(* The inner loop is over; the tuple after an erased one is looked at anew.*)
NextTuple ==
  /\ pc = "remove" /\ it # End /\ rest = {}
  /\ it' = IF erased THEN it ELSE After(tuples, it)
  /\ rest' = IF it' = End THEN {} ELSE currentSet
  /\ erased' = FALSE
  /\ UNCHANGED <<pc, DRs, rating, tuples, notAssigned, tuplesOriginally, used,
                 currentSet, firstSet, secondSet, result>>

EndRemove ==
  /\ pc = "remove" /\ it = End /\ rest = {}
  /\ result' = result \cup {currentSet}
  /\ pc' = "choose"
  /\ UNCHANGED <<DRs, rating, tuples, notAssigned, tuplesOriginally, used,
                 currentSet, firstSet, secondSet, it, rest, erased>>

-----------------------------------------------------------------------------
(* No pair is left: every report not used gets a set of its own.           *)
ChooseSingles ==
  /\ pc = "choose" /\ tuples = {}
  /\ notAssigned' = notAssigned \cup (tuplesOriginally \ used)
  /\ result' = result \cup {{d} : d \in notAssigned'}
  /\ pc' = "done"
  /\ UNCHANGED <<DRs, rating, tuples, tuplesOriginally, used,
                 currentSet, firstSet, secondSet, it, rest, erased>>

Next ==
  \/ GetRatedPairs \/ ChooseSeeds \/ Sweep \/ EndSweep
  \/ CompareTuple \/ CompareEnd \/ NextTuple \/ EndRemove
  \/ ChooseSingles

Spec == Init /\ [][Next]_vars

(* The function runs in the controller thread until it returns.            *)
FairSpec == Spec /\ WF_vars(Next)

-----------------------------------------------------------------------------
TypeOK ==
  /\ pc \in {"rate", "choose", "sweep", "remove", "done", "crashed"}
  /\ DRs \subseteq DR /\ rating \in [Pairs(DRs) -> 0 .. MaxRate]
  /\ tuples \subseteq Tuples(DRs) /\ it \in Tuples(DRs) \cup {End}
  /\ notAssigned \subseteq DRs /\ tuplesOriginally \subseteq DRs /\ used \subseteq DRs
  /\ currentSet \subseteq DRs /\ firstSet \subseteq DRs /\ secondSet \subseteq DRs
  /\ rest \subseteq currentSet /\ erased \in BOOLEAN
  /\ result \subseteq SUBSET DRs

(* The result is a partition of the group: every report becomes part of    *)
(* exactly one new track, and no track is made of nothing (initializeTrack *)
(* would divide by zero).  This is what module TrackManager relies on.  The*)
(* types hold at every moment.                                             *)
ResultIsPartition ==
  /\ TypeOK
  /\ pc = "done" =>
       /\ UNION result = DRs
       /\ \A s, t \in result : s # t => s \cap t = {}
       /\ {} \notin result

SameTrack(l, r) == IF Less(l, r) THEN GoodEnough(l, r) ELSE GoodEnough(r, l)

(* The threshold decides who stays together.  A set of several reports has *)
(* two seeds which rate well enough with each other and with every further *)
(* member, and two reports that rate well enough never both end up alone:  *)
(* the pair they form is dropped only when one of them joins a larger set. *)
ThresholdDecides ==
  /\ \A s \in result : \A d, e \in s : d # e =>
       \E a, b \in s :
         /\ a # b /\ SameTrack(a, b)
         /\ \A m \in s \ {a, b} : SameTrack(a, m) /\ SameTrack(b, m)
  /\ pc = "done" =>
       \A d, e \in DRs : {d} \in result /\ {e} \in result /\ d # e => ~ SameTrack(d, e)

(* The two nested loops and the sweep terminate.                           *)
Terminates == <>(pc \in {"done", "crashed"})

=============================================================================
