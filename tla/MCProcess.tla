------------------------------- MODULE MCProcess -------------------------------
(***************************************************************************)
(* Two numbers of snapshots, two tracks, a town of two streets that meet.  *)
(* What a process may find: every option written, in five ways; everything *)
(* written but one option; a mode nobody knows; a file or a table missing. *)
(***************************************************************************)
EXTENDS Process

CONSTANTS n1, n2, n3, t1, t2

MCStreet == {<<n1, n2>>, <<n2, n3>>}

(* The settings.ini of the repository                                      *)
Repository ==
  [o \in Option |-> CASE o = WorkMode -> Word("batch")
                      [] o = VarianceFactor -> Number(500, 1)
                      [] OTHER -> Default(o)]

(* Times and counts that are fractions, rates that are not above 1         *)
Halves ==
  [Repository EXCEPT ![WorkMode] = Word("online"), ![PacketSize] = Number(1, 2),
                     ![TimeDelta] = Number(3, 2), ![TTL] = Number(5, 2),
                     ![Threshold] = Number(1, 1), ![MaximumPositionRate] = Number(1, 2)]

(* A maximum rate that makes every quotient undefined                      *)
Zeros ==
  [Repository EXCEPT ![MaximumPositionRate] = Number(0, 1), ![Threshold] = Number(0, 1)]

(* Rates below 0                                                           *)
Negatives ==
  [Repository EXCEPT ![MaximumPositionRate] = Number(-3, 2), ![Threshold] = Number(-1, 2)]

(* Values that cannot be read as numbers                                   *)
Words == [o \in Option |-> IF o = WorkMode THEN Word("batch") ELSE Word("many")]

Complete(options) ==
  [settingsIni |-> TRUE, options |-> options, optionsXml |-> TRUE, sensors |-> TRUE]

Without(o) == [p \in Option \ {o} |-> Repository[p]]

MCSite ==
  {Complete(options) : options \in {Repository, Halves, Zeros, Negatives, Words}}
  \cup {Complete(Without(o)) : o \in Option}
  \cup {Complete([Repository EXCEPT ![WorkMode] = Word("offline")]),
        [Complete(Repository) EXCEPT !.settingsIni = FALSE],
        [Complete(Repository) EXCEPT !.optionsXml = FALSE],
        [Complete(Repository) EXCEPT !.sensors = FALSE]}

===============================================================================
