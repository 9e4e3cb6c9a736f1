-------------------------- MODULE Application_proofs --------------------------
(***************************************************************************)
(* Theorems about Application, for any number of ticks, tracks and Quits.  *)
(***************************************************************************)
EXTENDS Application, FiniteSetTheorems, TLAPS

-----------------------------------------------------------------------------
(* Counting in a queue                                                     *)

LEMMA CountIsNatural ==
  ASSUME NEW T, NEW s \in Seq(T), NEW S
  PROVE  /\ IsFiniteSet({i \in DOMAIN s : s[i] \in S})
         /\ Count(s, S) \in Nat
<1>1. DOMAIN s = 1 .. Len(s) /\ Len(s) \in Nat
  OBVIOUS
<1>2. IsFiniteSet(1 .. Len(s))
  BY <1>1, FS_Interval
<1>3. {i \in DOMAIN s : s[i] \in S} \subseteq 1 .. Len(s)
  BY <1>1
<1>4. IsFiniteSet({i \in DOMAIN s : s[i] \in S})
  BY <1>2, <1>3, FS_Subset
<1>5. QED
  BY <1>4, FS_CardinalityType DEF Count

LEMMA CountEmpty ==
  ASSUME NEW S
  PROVE  Count(<<>>, S) = 0
<1>1. {i \in DOMAIN <<>> : <<>>[i] \in S} = {}
  OBVIOUS
<1>2. QED
  BY <1>1, FS_EmptySet DEF Count

LEMMA CountAppend ==
  ASSUME NEW T, NEW s \in Seq(T), NEW S, NEW x \in T
  PROVE  Count(Append(s, x), S) = Count(s, S) + (IF x \in S THEN 1 ELSE 0)
<1> DEFINE P == {i \in DOMAIN s : s[i] \in S}
           t == Append(s, x)
           Q == {i \in DOMAIN t : t[i] \in S}
           n == Len(s) + 1
<1>1. /\ DOMAIN s = 1 .. Len(s) /\ Len(s) \in Nat
      /\ DOMAIN t = 1 .. n
      /\ \A i \in 1 .. Len(s) : t[i] = s[i]
      /\ t[n] = x
  OBVIOUS
<1>2. IsFiniteSet(P) /\ Cardinality(P) \in Nat
  BY CountIsNatural, FS_CardinalityType
<1>3. n \notin P
  BY <1>1
<1>counts. Count(t, S) = Cardinality(Q) /\ Count(s, S) = Cardinality(P)
  BY DEF Count
<1> HIDE DEF t
<1>4. CASE x \in S
  <2>1. Q = P \cup {n}
    BY <1>1, <1>4
  <2>2. Cardinality(Q) = Cardinality(P) + 1
    BY <1>2, <1>3, <2>1, FS_AddElement
  <2>3. QED
    BY <1>counts, <1>4, <2>2 DEF t
<1>5. CASE x \notin S
  <2>1. Q = P
    BY <1>1, <1>5
  <2>2. Cardinality(Q) = Cardinality(P)
    BY <2>1
  <2> HIDE DEF P, Q
  <2>3. QED
    BY <1>2, <1>counts, <1>5, <2>2 DEF t
<1>6. QED
  BY <1>4, <1>5

LEMMA CountTail ==
  ASSUME NEW T, NEW s \in Seq(T), s # <<>>, NEW S
  PROVE  Count(s, S) = Count(Tail(s), S) + (IF Head(s) \in S THEN 1 ELSE 0)
<1> DEFINE P == {i \in DOMAIN s : s[i] \in S}
           t == Tail(s)
           Q == {i \in DOMAIN t : t[i] \in S}
           f == [i \in Q |-> i + 1]
<1>1. /\ DOMAIN s = 1 .. Len(s) /\ Len(s) \in Nat /\ Len(s) > 0
      /\ DOMAIN t = 1 .. Len(s) - 1
      /\ \A i \in 1 .. Len(s) - 1 : t[i] = s[i + 1]
      /\ Head(s) = s[1]
  OBVIOUS
<1>2. t \in Seq(T)
  OBVIOUS
<1>3. IsFiniteSet(Q) /\ Cardinality(Q) \in Nat /\ IsFiniteSet(P)
  <2>1. IsFiniteSet(Q)
    BY <1>2, CountIsNatural
  <2>2. QED
    BY <2>1, CountIsNatural, FS_CardinalityType
<1>counts. Count(t, S) = Cardinality(Q) /\ Count(s, S) = Cardinality(P)
  BY DEF Count
<1> HIDE DEF t
<1>4. f \in Bijection(Q, P \ {1})
  <2>1. \A i \in Q : i \in Nat /\ i + 1 \in P \ {1}
    BY <1>1
  <2>2. f \in [Q -> P \ {1}]
    BY <2>1
  <2>3. \A i, j \in Q : f[i] = f[j] => i = j
    BY <2>1
  <2>4. ASSUME NEW k \in P \ {1} PROVE \E i \in Q : f[i] = k
    <3>1. k - 1 \in Q /\ (k - 1) + 1 = k
      BY <1>1
    <3>2. f[k - 1] = k
      BY <3>1
    <3>3. QED
      BY <3>1, <3>2
  <2>5. QED
    BY <2>2, <2>3, <2>4 DEF Bijection, Injection, Surjection, IsInjective
<1>5. IsFiniteSet(P \ {1}) /\ Cardinality(P \ {1}) = Cardinality(Q)
  BY <1>3, <1>4, FS_Bijection DEF ExistsBijection
<1>6. CASE Head(s) \in S
  <2>1. 1 \in P
    BY <1>1, <1>6
  <2>2. P = (P \ {1}) \cup {1} /\ 1 \notin P \ {1}
    BY <2>1
  <2>3. Cardinality(P) = Cardinality(Q) + 1
    BY <1>5, <2>2, FS_AddElement
  <2>4. QED
    BY <1>counts, <1>6, <2>3 DEF t
<1>7. CASE Head(s) \notin S
  <2>1. P \ {1} = P
    BY <1>1, <1>7
  <2>2. Cardinality(P) = Cardinality(Q)
    BY <1>5, <2>1
  <2> HIDE DEF P, Q
  <2>3. QED
    BY <1>3, <1>counts, <1>7, <2>2 DEF t
<1>8. QED
  BY <1>6, <1>7

-----------------------------------------------------------------------------
(* The inductive invariant                                                 *)

Message == {"TimerTick", "MapSnapshotRequested", "QuitRequested"}

SignalType == {"clearScene", "addStreets", "close", "threadQuit", "applicationQuit"}

Event == {Track(n, t) : n \in 1 .. MaxTicks, t \in TrackId} \cup {Signal(s) : s \in SignalType}

Places == Message \cup {"pop", "showState", "left", "eventLoop", "quitting", "finished"}

(* Every snapshot is for a tick that came.                                 *)
TicksInv ==
  /\ Count(queue_, {"TimerTick"}) + (IF pc = "TimerTick" THEN 1 ELSE 0) + snapshotNo <= ticks
  /\ pc = "showState" => snapshotNo > 0

TypeInv ==
  /\ queue_ \in Seq(Message) /\ result \in [Consumer -> Value \cup {NoValue}]
  /\ pc \in Places
  /\ working_ \in BOOLEAN /\ staticMap_ \in BOOLEAN
  /\ shown \subseteq TrackId /\ snapshotNo \in Nat
  /\ events \in Seq(Event)
  /\ scene \subseteq (1 .. MaxTicks) \X TrackId /\ streets \in Nat
  /\ window \in BOOLEAN /\ process \in {"running", "exited", "aborted"}
  /\ ticks \in 0 .. MaxTicks /\ quits \in 0 .. MaxQuits

(* What feeds the loop of requests and answers                             *)
FeedingEvents == {Signal("clearScene"), Signal("addStreets")}

Feeding ==
  Count(queue_, {"TimerTick", "MapSnapshotRequested"})
  + (IF pc \in {"TimerTick", "MapSnapshotRequested"} THEN 1 ELSE 0)
  + Count(events, FeedingEvents)

FeedbackInv == Feeding <= ticks + 1

(* The way out: close, then threadQuit, then applicationQuit.              *)
IsAt(i, type) == i \in DOMAIN events /\ events[i].type = type

QuitInv ==
  /\ \A i : IsAt(i, "threadQuit") =>
       /\ pc = "eventLoop"
       /\ \A j : IsAt(j, "threadQuit") => j = i
       /\ ~ window \/ (\E j : j < i /\ IsAt(j, "close"))
  /\ \A i : IsAt(i, "applicationQuit") => pc = "finished"
  /\ pc = "left" => ~ window \/ (\E j : IsAt(j, "close"))
  /\ pc \in {"quitting", "finished"} => ~ window
  /\ process = "exited" => pc = "finished"

(* Tracks of two snapshots have a clearing of the scene between them, and  *)
(* what was emitted since the last one is of the snapshot being shown.     *)
ClearedBetween(i, k) == \E j : i < j /\ j < k /\ IsAt(j, "clearScene")

SceneInv ==
  /\ \A x, y \in scene : x[1] = y[1]
  /\ \A i : IsAt(i, "addTrack") =>
       /\ \A x \in scene : x[1] = events[i].snapshot \/ ClearedBetween(0, i)
       /\ \A k : IsAt(k, "addTrack") /\ i < k =>
            events[i].snapshot = events[k].snapshot \/ ClearedBetween(i, k)
       /\ events[i].snapshot = snapshotNo \/ ClearedBetween(i, Len(events) + 1)
  /\ \A x \in scene : x[1] = snapshotNo \/ ClearedBetween(0, Len(events) + 1)

IInv == TypeInv /\ TicksInv /\ FeedbackInv /\ QuitInv /\ SceneInv

-----------------------------------------------------------------------------
(* The queue of events before and after a step                             *)

LEMMA EventsAreAt ==
  ASSUME TypeInv
  PROVE  /\ Len(events) \in Nat /\ DOMAIN events = 1 .. Len(events)
         /\ \A i, type : IsAt(i, type) => i \in 1 .. Len(events)
BY DEF TypeInv, IsAt

LEMMA SignalsAreEvents ==
  /\ \A type \in SignalType : Signal(type) \in Event /\ Signal(type).type = type
  /\ \A n \in 1 .. MaxTicks, t \in TrackId :
       /\ Track(n, t) \in Event
       /\ Track(n, t).type = "addTrack" /\ Track(n, t).snapshot = n /\ Track(n, t).track = t
<1>1. ASSUME NEW type \in SignalType PROVE Signal(type) \in Event /\ Signal(type).type = type
  BY DEF Event, Signal
<1>2. ASSUME NEW n \in 1 .. MaxTicks, NEW t \in TrackId
      PROVE  /\ Track(n, t) \in Event
             /\ Track(n, t).type = "addTrack" /\ Track(n, t).snapshot = n /\ Track(n, t).track = t
  <2>1. Track(n, t) \in Event
    BY DEF Event
  <2>2. QED
    BY <2>1 DEF Track
<1>3. QED
  BY <1>1, <1>2

LEMMA Emitted ==
  ASSUME TypeInv, NEW e \in Event, Emit(e)
  PROVE  /\ events' \in Seq(Event) /\ Len(events') = Len(events) + 1
         /\ events'[Len(events) + 1] = e
         /\ \A i \in 1 .. Len(events) : events'[i] = events[i]
         /\ \A i, type : IsAt(i, type)' <=> IsAt(i, type) \/ (i = Len(events) + 1 /\ e.type = type)
<1>1. events \in Seq(Event)
  BY DEF TypeInv
<1>2. events' = Append(events, e)
  BY DEF Emit
<1>3. /\ Len(events) \in Nat /\ DOMAIN events = 1 .. Len(events)
      /\ DOMAIN events' = 1 .. Len(events) + 1
      /\ events' \in Seq(Event) /\ Len(events') = Len(events) + 1
      /\ events'[Len(events) + 1] = e
      /\ \A i \in 1 .. Len(events) : events'[i] = events[i]
  BY <1>1, <1>2
<1>4. ASSUME NEW i, NEW type
      PROVE  IsAt(i, type)' <=> IsAt(i, type) \/ (i = Len(events) + 1 /\ e.type = type)
  BY <1>3 DEF IsAt
<1>5. QED
  BY <1>3, <1>4

LEMMA Delivered ==
  ASSUME TypeInv, NEW type, Deliver(type)
  PROVE  /\ events' \in Seq(Event) /\ Len(events) = Len(events') + 1
         /\ Head(events) = events[1] /\ Head(events) \in Event /\ IsAt(1, type)
         /\ \A i \in 1 .. Len(events') : events'[i] = events[i + 1]
         /\ \A i, t : IsAt(i, t)' <=> i \in Nat \ {0} /\ IsAt(i + 1, t)
<1>1. events \in Seq(Event) /\ events # <<>> /\ events' = Tail(events) /\ Head(events).type = type
  BY DEF TypeInv, Deliver
<1>2. /\ Len(events) \in Nat \ {0} /\ DOMAIN events = 1 .. Len(events)
      /\ Len(events') = Len(events) - 1
      /\ DOMAIN events' = 1 .. Len(events) - 1
      /\ events' \in Seq(Event)
      /\ Head(events) = events[1] /\ Head(events) \in Event
      /\ \A i \in 1 .. Len(events) - 1 : events'[i] = events[i + 1]
  BY <1>1
<1>3. IsAt(1, type)
  BY <1>1, <1>2 DEF IsAt
<1>4. ASSUME NEW i, NEW t
      PROVE  IsAt(i, t)' <=> i \in Nat \ {0} /\ IsAt(i + 1, t)
  BY <1>2 DEF IsAt
<1>5. QED
  BY <1>2, <1>3, <1>4

-----------------------------------------------------------------------------
(* The scene                                                               *)

LEMMA SceneEmit ==
  ASSUME TypeInv, SceneInv, NEW e \in Event, Emit(e), UNCHANGED scene,
         \/ e.type = "clearScene"
         \/ UNCHANGED snapshotNo /\ (e.type = "addTrack" => e.snapshot = snapshotNo)
  PROVE  SceneInv'
<1>length. PICK n \in Nat : n = Len(events)
  BY EventsAreAt
<1>1. n \in Nat /\ \A i, type : IsAt(i, type) => i \in 1 .. n
  BY <1>length, EventsAreAt
<1>2. /\ events'[n + 1] = e /\ Len(events') = n + 1
      /\ \A i \in 1 .. n : events'[i] = events[i]
      /\ \A i, type : IsAt(i, type)' <=> IsAt(i, type) \/ (i = n + 1 /\ e.type = type)
  BY <1>length, Emitted
<1>3. \A i, k : ClearedBetween(i, k) => ClearedBetween(i, k)'
  BY <1>2 DEF ClearedBetween
<1>4. ASSUME NEW i \in 0 .. n, ClearedBetween(i, n + 1) \/ e.type = "clearScene"
      PROVE  ClearedBetween(i, n + 2)'
  <2>1. CASE ClearedBetween(i, n + 1)
    <3>1. PICK j : i < j /\ j < n + 1 /\ IsAt(j, "clearScene")
      BY <2>1 DEF ClearedBetween
    <3>2. j \in 1 .. n
      BY <1>1, <3>1
    <3>3. j < n + 2 /\ IsAt(j, "clearScene")'
      BY <1>1, <1>2, <3>1, <3>2
    <3>4. QED
      BY <3>1, <3>3 DEF ClearedBetween
  <2>2. CASE e.type = "clearScene"
    <3>1. i < n + 1 /\ n + 1 < n + 2 /\ IsAt(n + 1, "clearScene")'
      BY <1>1, <1>2, <2>2
    <3>2. QED
      BY <3>1 DEF ClearedBetween
  <2>3. QED
    BY <1>4, <2>1, <2>2
<1>5. Len(events)' + 1 = n + 2 /\ Len(events) + 1 = n + 1
  BY <1>length, <1>2
<1>6. \A x, y \in scene' : x[1] = y[1]
  BY DEF SceneInv
<1>7. ASSUME NEW x \in scene' PROVE x[1] = snapshotNo' \/ ClearedBetween(0, Len(events) + 1)'
  <2>1. x[1] = snapshotNo \/ ClearedBetween(0, n + 1)
    BY <1>5 DEF SceneInv
  <2>2. CASE e.type = "clearScene" \/ ClearedBetween(0, n + 1)
    BY <1>1, <1>4, <1>5, <2>2
  <2>3. CASE e.type # "clearScene" /\ x[1] = snapshotNo
    BY <2>3
  <2>4. QED
    BY <2>1, <2>2, <2>3
<1>8. ASSUME NEW i, IsAt(i, "addTrack")'
      PROVE  /\ \A x \in scene' : x[1] = events'[i].snapshot \/ ClearedBetween(0, i)'
             /\ events'[i].snapshot = snapshotNo' \/ ClearedBetween(i, Len(events) + 1)'
  <2>1. CASE IsAt(i, "addTrack")
    <3>1. i \in 1 .. n /\ events'[i] = events[i]
      BY <1>1, <1>2, <2>1
    <3>2. \A x \in scene' : x[1] = events'[i].snapshot \/ ClearedBetween(0, i)'
      BY <1>3, <2>1, <3>1 DEF SceneInv
    <3>3. events[i].snapshot = snapshotNo \/ ClearedBetween(i, n + 1)
      BY <1>5, <2>1 DEF SceneInv
    <3>4. i \in 0 .. n
      BY <1>1, <3>1
    <3>5. CASE e.type = "clearScene" \/ ClearedBetween(i, n + 1)
      BY <1>4, <1>5, <3>2, <3>4, <3>5
    <3>6. CASE e.type # "clearScene" /\ events[i].snapshot = snapshotNo
      BY <3>1, <3>2, <3>6
    <3>7. QED
      BY <3>3, <3>5, <3>6
  <2>2. CASE i = n + 1 /\ e.type = "addTrack"
    <3>1. UNCHANGED snapshotNo /\ events'[i].snapshot = snapshotNo
      BY <1>2, <2>2
    <3>2. \A x \in scene' : x[1] = snapshotNo \/ ClearedBetween(0, i)'
      BY <1>3, <1>5, <2>2 DEF SceneInv
    <3>3. QED
      BY <3>1, <3>2
  <2>3. QED
    BY <1>2, <1>8, <2>1, <2>2
<1>9. ASSUME NEW i, IsAt(i, "addTrack")', NEW k, IsAt(k, "addTrack")', i < k
      PROVE  events'[i].snapshot = events'[k].snapshot \/ ClearedBetween(i, k)'
  <2>1. i \in 1 .. n
    BY <1>1, <1>2, <1>9
  <2>2. IsAt(i, "addTrack") /\ events'[i] = events[i]
    BY <1>1, <1>2, <1>9, <2>1
  <2>3. CASE IsAt(k, "addTrack")
    <3>1. k \in 1 .. n /\ events'[k] = events[k]
      BY <1>1, <1>2, <2>3
    <3>2. QED
      BY <1>3, <1>9, <2>2, <2>3, <3>1 DEF SceneInv
  <2>4. CASE k = n + 1 /\ e.type = "addTrack"
    <3>1. events'[k].snapshot = snapshotNo
      BY <1>2, <2>4
    <3>2. events[i].snapshot = snapshotNo \/ ClearedBetween(i, n + 1)
      BY <1>5, <2>2 DEF SceneInv
    <3>3. QED
      BY <1>3, <2>2, <2>4, <3>1, <3>2
  <2>5. QED
    BY <1>2, <1>9, <2>3, <2>4
<1>10. QED
  BY <1>6, <1>7, <1>8, <1>9 DEF SceneInv

LEMMA SceneDeliver ==
  ASSUME TypeInv, SceneInv, NEW type, Deliver(type), UNCHANGED snapshotNo,
         type = "clearScene" => scene' = {},
         type = "addTrack" =>
           scene' = scene \cup {<<Head(events).snapshot, Head(events).track>>},
         type \notin {"clearScene", "addTrack"} => scene' = scene
  PROVE  SceneInv'
<1>length. PICK n \in Nat : n = Len(events')
  <2>1. events' \in Seq(Event)
    BY Delivered
  <2>2. Len(events') \in Nat
    BY <2>1
  <2>3. QED
    BY <2>2
<1>1. \A i, t : IsAt(i, t) => i \in 1 .. n + 1
  BY <1>length, Delivered, EventsAreAt
<1>2. /\ Len(events) = n + 1 /\ Head(events) = events[1] /\ IsAt(1, type) /\ events[1].type = type
      /\ \A i \in 1 .. n : events'[i] = events[i + 1]
      /\ \A i, t : IsAt(i, t)' <=> i \in Nat \ {0} /\ IsAt(i + 1, t)
  <2>1. Head(events) = events[1] /\ Head(events).type = type
    BY Delivered DEF Deliver
  <2>2. QED
    BY <1>length, <2>1, Delivered
<1>3. ASSUME NEW i, NEW t, IsAt(i, t)'
      PROVE  i \in 1 .. n /\ IsAt(i + 1, t) /\ events'[i] = events[i + 1]
  BY <1>1, <1>2, <1>3
<1>4. ASSUME NEW i \in Nat, NEW k \in Nat, ClearedBetween(i + 1, k + 1)
      PROVE  ClearedBetween(i, k)'
  <2>1. PICK j : i + 1 < j /\ j < k + 1 /\ IsAt(j, "clearScene")
    BY <1>4 DEF ClearedBetween
  <2>2. j \in 1 .. n + 1
    BY <1>1, <2>1
  <2>3. j - 1 \in Nat \ {0} /\ (j - 1) + 1 = j /\ i < j - 1 /\ j - 1 < k
    BY <2>1, <2>2
  <2>4. IsAt(j - 1, "clearScene")'
    BY <1>2, <2>1, <2>3
  <2>5. QED
    BY <2>3, <2>4 DEF ClearedBetween
<1>5. ASSUME NEW k \in Nat, ClearedBetween(0, k + 1), type # "clearScene"
      PROVE  ClearedBetween(0, k)'
  <2>1. PICK j : 0 < j /\ j < k + 1 /\ IsAt(j, "clearScene")
    BY <1>5 DEF ClearedBetween
  <2>2. j \in 1 .. n + 1 /\ j # 1
    BY <1>1, <1>2, <1>5, <2>1 DEF IsAt
  <2>3. ClearedBetween(0 + 1, k + 1)
    BY <2>1, <2>2 DEF ClearedBetween
  <2>4. QED
    BY <1>4, <2>3
<1>6. Len(events)' + 1 = n + 1 /\ Len(events) + 1 = (n + 1) + 1
  BY <1>length, <1>2
<1>7. ASSUME NEW i, IsAt(i, "addTrack")'
      PROVE  /\ \A k : IsAt(k, "addTrack")' /\ i < k =>
                  events'[i].snapshot = events'[k].snapshot \/ ClearedBetween(i, k)'
             /\ events'[i].snapshot = snapshotNo' \/ ClearedBetween(i, Len(events) + 1)'
  <2>1. i \in 1 .. n /\ IsAt(i + 1, "addTrack") /\ events'[i] = events[i + 1]
    BY <1>3, <1>7
  <2>2. ASSUME NEW k, IsAt(k, "addTrack")', i < k
        PROVE  events'[i].snapshot = events'[k].snapshot \/ ClearedBetween(i, k)'
    <3>1. k \in 1 .. n /\ IsAt(k + 1, "addTrack") /\ events'[k] = events[k + 1]
      BY <1>3, <2>2
    <3>2. i + 1 < k + 1
      BY <2>1, <2>2, <3>1
    <3>3. events[i + 1].snapshot = events[k + 1].snapshot \/ ClearedBetween(i + 1, k + 1)
      BY <2>1, <3>1, <3>2 DEF SceneInv
    <3>4. i \in Nat /\ k \in Nat
      BY <2>1, <3>1
    <3>5. QED
      BY <1>4, <2>1, <3>1, <3>3, <3>4
  <2>3. events[i + 1].snapshot = snapshotNo \/ ClearedBetween(i + 1, (n + 1) + 1)
    BY <1>6, <2>1 DEF SceneInv
  <2>4. i \in Nat /\ n + 1 \in Nat
    BY <2>1
  <2>5. events'[i].snapshot = snapshotNo' \/ ClearedBetween(i, n + 1)'
    BY <1>4, <2>1, <2>3, <2>4
  <2>6. QED
    BY <1>6, <2>2, <2>5
<1>8. ASSUME NEW x \in scene
      PROVE  /\ type = "addTrack" => x[1] = events[1].snapshot
             /\ type # "clearScene" => x[1] = snapshotNo \/ ClearedBetween(0, n + 1)'
  <2>1. ~ ClearedBetween(0, 1)
    BY <1>1 DEF ClearedBetween
  <2>2. type = "addTrack" => x[1] = events[1].snapshot
    BY <1>2, <2>1 DEF SceneInv
  <2>3. x[1] = snapshotNo \/ ClearedBetween(0, (n + 1) + 1)
    BY <1>6 DEF SceneInv
  <2>4. n + 1 \in Nat
    OBVIOUS
  <2>5. QED
    BY <1>5, <2>2, <2>3, <2>4
<1>9. ASSUME NEW i, IsAt(i, "addTrack")', NEW x \in scene, type # "clearScene"
      PROVE  x[1] = events'[i].snapshot \/ ClearedBetween(0, i)'
  <2>1. i \in 1 .. n /\ IsAt(i + 1, "addTrack") /\ events'[i] = events[i + 1]
    BY <1>3, <1>9
  <2>2. x[1] = events[i + 1].snapshot \/ ClearedBetween(0, i + 1)
    BY <2>1 DEF SceneInv
  <2>3. i \in Nat
    BY <2>1
  <2>4. QED
    BY <1>5, <1>9, <2>1, <2>2, <2>3
<1>10. CASE type = "clearScene"
  BY <1>7, <1>10 DEF SceneInv
<1>11. CASE type = "addTrack"
  <2> DEFINE new == <<events[1].snapshot, events[1].track>>
  <2>1. scene' = scene \cup {new} /\ new[1] = events[1].snapshot
    BY <1>2, <1>11
  <2>2. events[1].snapshot = snapshotNo \/ ClearedBetween(0, n + 1)'
    <3>1. events[1].snapshot = snapshotNo \/ ClearedBetween(0 + 1, (n + 1) + 1)
      BY <1>2, <1>6, <1>11 DEF SceneInv
    <3>2. n + 1 \in Nat /\ 0 \in Nat
      OBVIOUS
    <3>3. QED
      BY <1>4, <3>1, <3>2
  <2>3. ASSUME NEW i, IsAt(i, "addTrack")'
        PROVE  events[1].snapshot = events'[i].snapshot \/ ClearedBetween(0, i)'
    <3>1. i \in 1 .. n /\ IsAt(i + 1, "addTrack") /\ events'[i] = events[i + 1] /\ 1 < i + 1
      BY <1>3, <2>3
    <3>2. events[1].snapshot = events[i + 1].snapshot \/ ClearedBetween(0 + 1, i + 1)
      BY <1>2, <1>11, <3>1 DEF SceneInv
    <3>3. i \in Nat /\ 0 \in Nat
      BY <3>1
    <3>4. QED
      BY <1>4, <3>1, <3>2, <3>3
  <2> HIDE DEF new
  <2>4. \A x, y \in scene' : x[1] = y[1]
    BY <1>8, <1>11, <2>1
  <2>5. \A i : IsAt(i, "addTrack")' =>
          \A x \in scene' : x[1] = events'[i].snapshot \/ ClearedBetween(0, i)'
    BY <1>9, <1>11, <2>1, <2>3
  <2>6. \A x \in scene' : x[1] = snapshotNo' \/ ClearedBetween(0, Len(events) + 1)'
    BY <1>6, <1>8, <1>11, <2>1, <2>2
  <2>7. QED
    BY <1>7, <2>4, <2>5, <2>6 DEF SceneInv
<1>12. CASE type \notin {"clearScene", "addTrack"}
  <2>1. \A x, y \in scene' : x[1] = y[1]
    BY <1>12 DEF SceneInv
  <2>2. \A i : IsAt(i, "addTrack")' =>
          \A x \in scene' : x[1] = events'[i].snapshot \/ ClearedBetween(0, i)'
    BY <1>9, <1>12
  <2>3. \A x \in scene' : x[1] = snapshotNo' \/ ClearedBetween(0, Len(events) + 1)'
    BY <1>6, <1>8, <1>12
  <2>4. QED
    BY <1>7, <2>1, <2>2, <2>3 DEF SceneInv
<1>13. QED
  BY <1>10, <1>11, <1>12

-----------------------------------------------------------------------------
(* The way out                                                             *)

(* A signal that has nothing to do with it is emitted.                     *)
LEMMA QuitEmitOther ==
  ASSUME TypeInv, QuitInv, NEW e \in Event, Emit(e),
         e.type \notin {"close", "threadQuit", "applicationQuit"},
         UNCHANGED <<window, process>>,
         pc \notin {"left", "eventLoop", "quitting", "finished"},
         pc' \notin {"left", "eventLoop", "quitting", "finished"}
  PROVE  QuitInv'
<1>1. \A i, type : IsAt(i, type)' <=> IsAt(i, type) \/ (i = Len(events) + 1 /\ e.type = type)
  BY Emitted
<1>2. QED
  BY <1>1 DEF QuitInv

LEMMA QuitElsewhere ==
  ASSUME TypeInv, QuitInv, UNCHANGED events, window' \in {window, FALSE},
         process' \in {process, "aborted"},
         \/ pc' = pc
         \/ /\ pc \notin {"left", "eventLoop", "quitting", "finished"}
            /\ pc' \notin {"left", "eventLoop", "quitting", "finished"}
  PROVE  QuitInv'
<1>1. \A i, type : IsAt(i, type)' <=> IsAt(i, type)
  BY DEF IsAt
<1>2. ~ window => ~ window'
  OBVIOUS
<1>3. /\ pc = "eventLoop" => pc' = "eventLoop"
      /\ pc = "finished" => pc' = "finished"
      /\ pc' \in {"left", "quitting", "finished"} => pc = pc'
      /\ process' = "exited" => process = "exited"
  OBVIOUS
<1>4. \A i : IsAt(i, "threadQuit")' =>
        /\ pc' = "eventLoop"
        /\ \A j : IsAt(j, "threadQuit")' => j = i
        /\ ~ window' \/ (\E j : j < i /\ IsAt(j, "close")')
  BY <1>1, <1>2, <1>3 DEF QuitInv
<1>5. \A i : IsAt(i, "applicationQuit")' => pc' = "finished"
  BY <1>1, <1>3 DEF QuitInv
<1>6. pc' = "left" => ~ window' \/ (\E j : IsAt(j, "close")')
  BY <1>1, <1>2, <1>3 DEF QuitInv
<1>7. /\ pc' \in {"quitting", "finished"} => ~ window'
      /\ process' = "exited" => pc' = "finished"
  BY <1>2, <1>3 DEF QuitInv
<1>8. QED
  BY <1>4, <1>5, <1>6, <1>7 DEF QuitInv

LEMMA QuitLeave ==
  ASSUME TypeInv, QuitInv, LeaveMainLoop \/ EmitQuit \/ ThreadFinishes
  PROVE  QuitInv'
<1>1. \A i, type : IsAt(i, type) => i < Len(events) + 1
  BY EventsAreAt
<1>2. UNCHANGED <<window, process>> /\ process = "running"
  BY DEF LeaveMainLoop, EmitQuit, ThreadFinishes, Running, guiVars
<1>3. CASE LeaveMainLoop
  <2>1. Emit(Signal("close")) /\ pc = "pop" /\ pc' = "left"
    BY <1>3 DEF LeaveMainLoop
  <2>2. \A i, type : IsAt(i, type)' <=> IsAt(i, type) \/ (i = Len(events) + 1 /\ type = "close")
    BY <2>1, Emitted, SignalsAreEvents DEF SignalType
  <2>3. QED
    BY <1>2, <2>1, <2>2 DEF QuitInv
<1>4. CASE EmitQuit
  <2>1. Emit(Signal("threadQuit")) /\ pc = "left" /\ pc' = "eventLoop"
    BY <1>4 DEF EmitQuit
  <2>2. \A i, type : IsAt(i, type)' <=> IsAt(i, type) \/ (i = Len(events) + 1 /\ type = "threadQuit")
    BY <2>1, Emitted, SignalsAreEvents DEF SignalType
  <2>3. QED
    BY <1>1, <1>2, <2>1, <2>2 DEF QuitInv
<1>5. CASE ThreadFinishes
  <2>1. Emit(Signal("applicationQuit")) /\ pc = "quitting" /\ pc' = "finished"
    BY <1>5 DEF ThreadFinishes
  <2>2. \A i, type : IsAt(i, type)' <=>
          IsAt(i, type) \/ (i = Len(events) + 1 /\ type = "applicationQuit")
    BY <2>1, Emitted, SignalsAreEvents DEF SignalType
  <2>3. QED
    BY <1>2, <2>1, <2>2 DEF QuitInv
<1>6. QED
  BY <1>3, <1>4, <1>5

LEMMA QuitDeliver ==
  ASSUME TypeInv, QuitInv, NEW type, Deliver(type),
         IF type = "close" THEN window' = FALSE ELSE UNCHANGED window,
         IF type = "threadQuit" THEN pc' = "quitting" ELSE UNCHANGED pc,
         IF type = "applicationQuit" THEN process' = "exited" ELSE UNCHANGED process
  PROVE  QuitInv'
<1>1. /\ \A i, t : IsAt(i, t)' <=> i \in Nat \ {0} /\ IsAt(i + 1, t)
      /\ IsAt(1, type) /\ \A t : IsAt(1, t) => t = type
      /\ \A i, t : IsAt(i, t) => i \in Nat \ {0}
      /\ process = "running"
  BY Delivered, EventsAreAt DEF IsAt, Deliver, Running
<1>2. \A j, t : IsAt(j, t) /\ t # type => j - 1 \in Nat \ {0} /\ IsAt(j - 1, t)'
  <2>1. SUFFICES ASSUME NEW j, NEW t, IsAt(j, t), t # type
                 PROVE  j - 1 \in Nat \ {0} /\ IsAt(j - 1, t)'
    OBVIOUS
  <2>2. j \in Nat \ {0} /\ j # 1
    BY <1>1, <2>1
  <2>3. j - 1 \in Nat \ {0} /\ (j - 1) + 1 = j
    BY <2>2
  <2>4. QED
    BY <1>1, <2>1, <2>3
<1>3. CASE type = "threadQuit"
  <2>1. ~ window /\ \A j : IsAt(j, "threadQuit") => j = 1
    BY <1>1, <1>3 DEF QuitInv
  <2>2. \A i : ~ IsAt(i, "threadQuit")'
    BY <1>1, <2>1
  <2>3. \A i : ~ IsAt(i, "applicationQuit")
    BY <1>1, <1>3 DEF QuitInv
  <2>4. QED
    BY <1>1, <1>3, <2>1, <2>2, <2>3 DEF QuitInv
<1>4. CASE type # "threadQuit"
  <2>1. ASSUME NEW i, IsAt(i, "threadQuit")'
        PROVE  /\ pc' = "eventLoop"
               /\ \A j : IsAt(j, "threadQuit")' => j = i
               /\ ~ window' \/ (\E j : j < i /\ IsAt(j, "close")')
    <3>1. i \in Nat \ {0} /\ IsAt(i + 1, "threadQuit")
      BY <1>1, <2>1
    <3>2. pc' = "eventLoop"
      BY <1>4, <3>1 DEF QuitInv
    <3>3. ASSUME NEW j, IsAt(j, "threadQuit")' PROVE j = i
      <4>1. j \in Nat \ {0} /\ IsAt(j + 1, "threadQuit")
        BY <1>1, <3>3
      <4>2. j + 1 = i + 1
        BY <3>1, <4>1 DEF QuitInv
      <4>3. QED
        BY <3>1, <4>1, <4>2
    <3>4. CASE type = "close" \/ ~ window
      BY <3>2, <3>3, <3>4
    <3>5. CASE type # "close" /\ window
      <4>1. PICK j : j < i + 1 /\ IsAt(j, "close")
        BY <3>1, <3>5 DEF QuitInv
      <4>2. j - 1 \in Nat \ {0} /\ IsAt(j - 1, "close")'
        BY <1>2, <3>5, <4>1
      <4>3. j - 1 < i
        BY <1>1, <3>1, <4>1
      <4>4. QED
        BY <3>2, <3>3, <4>2, <4>3
    <3>6. QED
      BY <3>4, <3>5
  <2>2. ASSUME NEW i, IsAt(i, "applicationQuit")' PROVE pc' = "finished"
    BY <1>1, <1>4, <2>2 DEF QuitInv
  <2>3. pc' = "left" => ~ window' \/ (\E j : IsAt(j, "close")')
    BY <1>1, <1>2, <1>4 DEF QuitInv
  <2>4. pc' \in {"quitting", "finished"} => ~ window'
    BY <1>4 DEF QuitInv
  <2>5. process' = "exited" => pc' = "finished"
    BY <1>1, <1>4 DEF QuitInv
  <2>6. QED
    BY <2>1, <2>2, <2>3, <2>4, <2>5 DEF QuitInv
<1>5. QED
  BY <1>3, <1>4

-----------------------------------------------------------------------------
(* The counts                                                              *)

LEMMA CountsAreNatural ==
  ASSUME TypeInv
  PROVE  /\ \A S : Count(queue_, S) \in Nat
         /\ Count(events, FeedingEvents) \in Nat
BY CountIsNatural DEF TypeInv

LEMMA QueuePush ==
  ASSUME TypeInv, NEW m \in Message, Push(m)
  PROVE  /\ queue_' \in Seq(Message) /\ UNCHANGED result
         /\ \A S : Count(queue_, S)' = Count(queue_, S) + (IF m \in S THEN 1 ELSE 0)
<1>1. queue_ \in Seq(Message) /\ queue_' = Append(queue_, m)
  BY DEF TypeInv, Push
<1>2. \A S : Count(Append(queue_, m), S) = Count(queue_, S) + (IF m \in S THEN 1 ELSE 0)
  BY <1>1, CountAppend
<1>3. QED
  BY <1>1, <1>2 DEF Push

LEMMA QueuePop ==
  ASSUME TypeInv, Pop(Controller)
  PROVE  /\ queue_' \in Seq(Message) /\ result' \in [Consumer -> Value \cup {NoValue}]
         /\ msg' \in Message
         /\ \A S : Count(queue_, S) = Count(queue_, S)' + (IF msg' \in S THEN 1 ELSE 0)
<1>1. queue_ \in Seq(Message) /\ queue_ # <<>> /\ queue_' = Tail(queue_)
  BY DEF TypeInv, Pop
<1>2. Controller \in Consumer
  BY MessageAssumption DEF Controller
<1>3. Head(queue_) \in Message /\ queue_' \in Seq(Message)
  BY <1>1
<1>4. result' = [result EXCEPT ![Controller] = Head(queue_)]
  BY DEF Pop
<1>5. Head(queue_) \in Value
  BY <1>3, MessageAssumption DEF Message
<1>6. msg' = Head(queue_)
  BY <1>2, <1>4 DEF TypeInv, msg
<1>7. \A S : Count(queue_, S) = Count(Tail(queue_), S) + (IF Head(queue_) \in S THEN 1 ELSE 0)
  BY <1>1, CountTail
<1>8. result' \in [Consumer -> Value \cup {NoValue}]
  BY <1>2, <1>4, <1>5 DEF TypeInv
<1>9. QED
  BY <1>1, <1>3, <1>6, <1>7, <1>8

LEMMA EventsEmit ==
  ASSUME TypeInv, NEW e \in Event, Emit(e)
  PROVE  Count(events, FeedingEvents)' =
           Count(events, FeedingEvents) + (IF e \in FeedingEvents THEN 1 ELSE 0)
<1>1. events \in Seq(Event) /\ events' = Append(events, e)
  BY DEF TypeInv, Emit
<1>2. \A S : Count(Append(events, e), S) = Count(events, S) + (IF e \in S THEN 1 ELSE 0)
  BY <1>1, CountAppend
<1>3. QED
  BY <1>1, <1>2 DEF FeedingEvents, Signal

LEMMA EventsDeliver ==
  ASSUME TypeInv, NEW type, Deliver(type)
  PROVE  Count(events, FeedingEvents) = Count(events, FeedingEvents)' +
           (IF type \in {"clearScene", "addStreets"} THEN 1 ELSE 0)
<1>1. events \in Seq(Event) /\ events # <<>> /\ events' = Tail(events)
  BY DEF TypeInv, Deliver
<1>2. \A S : Count(events, S) = Count(Tail(events), S) + (IF Head(events) \in S THEN 1 ELSE 0)
  BY <1>1, CountTail
<1>3. Head(events) \in Event /\ Head(events).type = type
  BY <1>1 DEF Deliver
<1>4. Head(events) \in FeedingEvents <=> type \in {"clearScene", "addStreets"}
  BY <1>3 DEF Event, FeedingEvents, Signal, Track, SignalType
<1>5. QED
  BY <1>1, <1>2, <1>4 DEF FeedingEvents, Signal

LEMMA Feeds ==
  /\ Signal("clearScene") \in FeedingEvents /\ Signal("addStreets") \in FeedingEvents
  /\ \A type : type \notin {"clearScene", "addStreets"} => Signal(type) \notin FeedingEvents
  /\ \A n, t : Track(n, t) \notin FeedingEvents
BY DEF FeedingEvents, Signal, Track

-----------------------------------------------------------------------------
(* The steps                                                               *)

LEMMA SceneKept ==
  ASSUME SceneInv, UNCHANGED <<events, scene, snapshotNo>>
  PROVE  SceneInv'
BY DEF SceneInv, ClearedBetween, IsAt

LEMMA ProducersKeep ==
  ASSUME IInv, TimerTick \/ ChooseQuit \/ CloseWindow
  PROVE  IInv'
<1> USE DEF IInv
<1>1. UNCHANGED <<events, scene, snapshotNo, pc, process>> /\ window' \in {window, FALSE}
  BY DEF TimerTick, ChooseQuit, CloseWindow, controllerVars, guiVars
<1>2. SceneInv' /\ QuitInv'
  BY <1>1, SceneKept, QuitElsewhere
<1>3. CASE TimerTick
  <2>1. Push("TimerTick") /\ "TimerTick" \in Message /\ ticks' = ticks + 1 /\ ticks < MaxTicks
    BY <1>3 DEF TimerTick, Message
  <2>2. /\ queue_' \in Seq(Message) /\ UNCHANGED result
        /\ \A S : Count(queue_, S)' = Count(queue_, S) + (IF "TimerTick" \in S THEN 1 ELSE 0)
    BY <2>1, QueuePush
  <2>3. UNCHANGED <<controllerVars, events, guiVars, process, quits>>
    BY <1>3 DEF TimerTick
  <2>4. TypeInv'
    BY <2>1, <2>2, <2>3, BoundsAssumption DEF TypeInv, controllerVars, guiVars
  <2>5. ticks \in Nat /\ snapshotNo \in Nat
    BY BoundsAssumption DEF TypeInv
  <2>6. TicksInv'
    BY <2>1, <2>2, <2>3, <2>5, CountsAreNatural DEF TicksInv, controllerVars
  <2>7. UNCHANGED Count(events, FeedingEvents)
    BY <2>3 DEF FeedingEvents, Signal
  <2>8. FeedbackInv'
    BY <2>1, <2>2, <2>3, <2>5, <2>7, CountsAreNatural DEF FeedbackInv, Feeding, controllerVars
  <2>9. QED
    BY <1>2, <2>4, <2>6, <2>8
<1>4. CASE ChooseQuit
  <2>1. Push("QuitRequested") /\ "QuitRequested" \in Message /\ quits' = quits + 1 /\ quits < MaxQuits
    BY <1>4 DEF ChooseQuit, Message
  <2>2. /\ queue_' \in Seq(Message) /\ UNCHANGED result
        /\ \A S : Count(queue_, S)' = Count(queue_, S) + (IF "QuitRequested" \in S THEN 1 ELSE 0)
    BY <2>1, QueuePush
  <2>3. UNCHANGED <<controllerVars, events, guiVars, process, ticks>>
    BY <1>4 DEF ChooseQuit
  <2>4. TypeInv'
    BY <2>1, <2>2, <2>3, BoundsAssumption DEF TypeInv, controllerVars, guiVars
  <2>5. TicksInv'
    BY <2>2, <2>3, CountsAreNatural DEF TicksInv, controllerVars
  <2>6. UNCHANGED Count(events, FeedingEvents)
    BY <2>3 DEF FeedingEvents, Signal
  <2>7. FeedbackInv'
    BY <2>2, <2>3, <2>6, CountsAreNatural DEF FeedbackInv, Feeding, controllerVars
  <2>8. QED
    BY <1>2, <2>4, <2>5, <2>7
<1>5. CASE CloseWindow
  <2>1. /\ UNCHANGED <<mqVars, controllerVars, events, scene, streets, process, ticks, quits>>
        /\ window' = FALSE
    BY <1>5 DEF CloseWindow
  <2>2. TypeInv'
    BY <2>1 DEF TypeInv, mqVars, controllerVars
  <2>3. TicksInv' /\ FeedbackInv'
    BY <2>1 DEF TicksInv, FeedbackInv, Feeding, FeedingEvents, Signal, Count, mqVars, controllerVars
  <2>4. QED
    BY <1>2, <2>2, <2>3
<1>6. QED
  BY <1>3, <1>4, <1>5

(* A step of the controller that leaves both queues alone                  *)
LEMMA ControllerKeeps ==
  ASSUME IInv, VisitQuitRequested \/ VisitThrows \/ Shown
  PROVE  IInv'
<1> USE DEF IInv
<1>1. /\ UNCHANGED <<mqVars, events, guiVars, snapshotNo, shown, staticMap_, ticks, quits>>
      /\ working_' \in {working_, FALSE} /\ process' \in {process, "aborted"}
      /\ \/ pc' = pc
         \/ pc \in {"QuitRequested", "showState"} /\ pc' = "pop"
  BY DEF VisitQuitRequested, VisitThrows, Shown, controllerVars
<1>2. SceneInv' /\ QuitInv'
  BY <1>1, SceneKept, QuitElsewhere DEF guiVars
<1>3. TypeInv'
  BY <1>1 DEF TypeInv, mqVars, guiVars, Places
<1>4. TicksInv' /\ FeedbackInv'
  BY <1>1 DEF TicksInv, FeedbackInv, Feeding, FeedingEvents, Signal, Count, mqVars
<1>5. QED
  BY <1>2, <1>3, <1>4

LEMMA PopKeeps ==
  ASSUME IInv, PopMessage
  PROVE  IInv'
<1> USE DEF IInv
<1>1. /\ Pop(Controller) /\ pc = "pop" /\ pc' = msg'
      /\ UNCHANGED <<working_, shown, staticMap_, snapshotNo, events, guiVars, process, ticks, quits>>
  BY DEF PopMessage
<1>2. /\ queue_' \in Seq(Message) /\ result' \in [Consumer -> Value \cup {NoValue}]
      /\ msg' \in Message
      /\ \A S : Count(queue_, S) = Count(queue_, S)' + (IF msg' \in S THEN 1 ELSE 0)
  BY <1>1, QueuePop
<1>3. pc' \in Message
  BY <1>1, <1>2
<1>4. \A S : Count(queue_, S) = Count(queue_, S)' + (IF pc' \in S THEN 1 ELSE 0)
  BY <1>1, <1>2
<1>5. SceneInv' /\ QuitInv'
  BY <1>1, <1>3, SceneKept, QuitElsewhere DEF guiVars, Message
<1>6. TypeInv'
  BY <1>1, <1>2, <1>3 DEF TypeInv, guiVars, Places
<1>7. /\ \A S : Count(queue_, S)' \in Nat
      /\ ticks \in Nat /\ snapshotNo \in Nat
  <2>1. \A S : Count(queue_', S) \in Nat
    BY <1>2, CountIsNatural
  <2>2. QED
    BY <2>1, BoundsAssumption DEF TypeInv
<1>8. TicksInv'
  BY <1>1, <1>3, <1>4, <1>7 DEF TicksInv, Message
<1>9. UNCHANGED Count(events, FeedingEvents)
  BY <1>1 DEF FeedingEvents, Signal
<1>10. FeedbackInv'
  BY <1>1, <1>3, <1>4, <1>7, <1>9, CountsAreNatural DEF FeedbackInv, Feeding, Message
<1>11. QED
  BY <1>5, <1>6, <1>8, <1>10

(* A step that emits an event to the GUI                                   *)
LEMMA EmitKeepsTypes ==
  ASSUME TypeInv, NEW e \in Event, Emit(e), UNCHANGED <<mqVars, guiVars, process, ticks, quits>>,
         pc' \in Places, UNCHANGED working_, staticMap_' \in BOOLEAN, shown' \subseteq TrackId,
         snapshotNo' \in Nat
  PROVE  TypeInv'
<1>1. events' \in Seq(Event)
  BY Emitted
<1>2. QED
  BY <1>1 DEF TypeInv, mqVars, guiVars

LEMMA MapKeeps ==
  ASSUME IInv, VisitMapSnapshotRequested
  PROVE  IInv'
<1> USE DEF IInv
<1> DEFINE e == Signal("addStreets")
<1>1. /\ pc = "MapSnapshotRequested" /\ pc' = "pop" /\ Emit(e) /\ staticMap_' = TRUE
      /\ UNCHANGED <<mqVars, working_, shown, snapshotNo, guiVars, process, ticks, quits>>
  BY DEF VisitMapSnapshotRequested
<1>2. e \in Event /\ e.type = "addStreets" /\ e \in FeedingEvents
  BY SignalsAreEvents, Feeds DEF SignalType
<1> HIDE DEF e
<1>3. TypeInv'
  BY <1>1, <1>2, EmitKeepsTypes DEF TypeInv, Places
<1>4. SceneInv' /\ QuitInv'
  BY <1>1, <1>2, SceneEmit, QuitEmitOther DEF guiVars
<1>5. TicksInv'
  BY <1>1, CountsAreNatural DEF TicksInv, mqVars
<1>6. Count(events, FeedingEvents)' = Count(events, FeedingEvents) + 1
  BY <1>1, <1>2, EventsEmit
<1>7. FeedbackInv'
  BY <1>1, <1>6, CountsAreNatural DEF FeedbackInv, Feeding, mqVars
<1>8. QED
  BY <1>3, <1>4, <1>5, <1>7

LEMMA TickKeeps ==
  ASSUME IInv, VisitTimerTick
  PROVE  IInv'
<1> USE DEF IInv
<1> DEFINE e == Signal("clearScene")
<1>1. /\ pc = "TimerTick" /\ pc' = "showState" /\ Emit(e)
      /\ snapshotNo' = snapshotNo + 1 /\ shown' \in SUBSET TrackId
      /\ UNCHANGED <<mqVars, working_, staticMap_, guiVars, process, ticks, quits>>
  BY DEF VisitTimerTick
<1>2. e \in Event /\ e.type = "clearScene" /\ e \in FeedingEvents
  BY SignalsAreEvents, Feeds DEF SignalType
<1> HIDE DEF e
<1>3. snapshotNo \in Nat /\ ticks \in Nat /\ staticMap_ \in BOOLEAN
  BY BoundsAssumption DEF TypeInv
<1>4. TypeInv'
  BY <1>1, <1>2, <1>3, EmitKeepsTypes DEF Places
<1>5. SceneInv' /\ QuitInv'
  BY <1>1, <1>2, SceneEmit, QuitEmitOther DEF guiVars
<1>6. TicksInv'
  BY <1>1, <1>3, CountsAreNatural DEF TicksInv, mqVars
<1>7. Count(events, FeedingEvents)' = Count(events, FeedingEvents) + 1
  BY <1>1, <1>2, EventsEmit
<1>8. FeedbackInv'
  BY <1>1, <1>7, CountsAreNatural DEF FeedbackInv, Feeding, mqVars
<1>9. QED
  BY <1>4, <1>5, <1>6, <1>8

LEMMA ShowKeeps ==
  ASSUME IInv, NEW t \in TrackId, ShowTrack(t)
  PROVE  IInv'
<1> USE DEF IInv
<1> DEFINE e == Track(snapshotNo, t)
<1>1. /\ pc = "showState" /\ pc' = pc /\ Emit(e) /\ shown' = shown \ {t}
      /\ UNCHANGED <<mqVars, working_, staticMap_, snapshotNo, guiVars, process, ticks, quits>>
  BY DEF ShowTrack
<1>2. snapshotNo \in 1 .. MaxTicks
  BY <1>1, CountsAreNatural, BoundsAssumption DEF TypeInv, TicksInv
<1>3. e \in Event /\ e.type = "addTrack" /\ e.snapshot = snapshotNo /\ e \notin FeedingEvents
  BY <1>2, SignalsAreEvents, Feeds
<1> HIDE DEF e
<1>4. TypeInv'
  BY <1>1, <1>3, EmitKeepsTypes DEF TypeInv
<1>5. SceneInv' /\ QuitInv'
  BY <1>1, <1>3, SceneEmit, QuitEmitOther DEF guiVars
<1>6. TicksInv'
  BY <1>1 DEF TicksInv, mqVars, Count
<1>7. Count(events, FeedingEvents)' = Count(events, FeedingEvents)
  BY <1>1, <1>3, EventsEmit, CountsAreNatural
<1>8. FeedbackInv'
  BY <1>1, <1>7, CountsAreNatural DEF FeedbackInv, Feeding, mqVars
<1>9. QED
  BY <1>4, <1>5, <1>6, <1>8

LEMMA LeaveKeeps ==
  ASSUME IInv, LeaveMainLoop \/ EmitQuit \/ ThreadFinishes
  PROVE  IInv'
<1> USE DEF IInv
<1>1. PICK type \in {"close", "threadQuit", "applicationQuit"} : Emit(Signal(type))
  BY DEF LeaveMainLoop, EmitQuit, ThreadFinishes
<1>2. /\ pc \in {"pop", "left", "quitting"} /\ pc' \in {"left", "eventLoop", "finished"}
      /\ UNCHANGED <<mqVars, working_, shown, staticMap_, snapshotNo, guiVars, process, ticks, quits>>
  BY DEF LeaveMainLoop, EmitQuit, ThreadFinishes
<1>3. PICK e \in Event : e = Signal(type) /\ e.type = type /\ e \notin FeedingEvents
  BY SignalsAreEvents, Feeds DEF SignalType
<1>4. Emit(e) /\ e.type \notin {"clearScene", "addTrack"}
  BY <1>1, <1>3
<1>5. TypeInv'
  BY <1>2, <1>4, EmitKeepsTypes DEF TypeInv, Places
<1>6. QuitInv'
  BY QuitLeave
<1>7. SceneInv'
  BY <1>2, <1>4, SceneEmit DEF guiVars
<1>8. TicksInv'
  BY <1>2 DEF TicksInv, mqVars, Count
<1>9. Count(events, FeedingEvents)' = Count(events, FeedingEvents)
  BY <1>3, <1>4, EventsEmit, CountsAreNatural
<1>10. FeedbackInv'
  BY <1>2, <1>9, CountsAreNatural DEF FeedbackInv, Feeding, mqVars
<1>11. QED
  BY <1>5, <1>6, <1>7, <1>8, <1>10

(* A signal is delivered                                                   *)
LEMMA ClearKeeps ==
  ASSUME IInv, PerformClearScene
  PROVE  IInv'
<1> USE DEF IInv
<1>1. /\ Deliver("clearScene") /\ scene' = {} /\ streets' = 0 /\ Push("MapSnapshotRequested")
      /\ UNCHANGED <<controllerVars, window, process, ticks, quits>>
  BY DEF PerformClearScene
<1>2. "MapSnapshotRequested" \in Message
  BY DEF Message
<1>3. /\ queue_' \in Seq(Message) /\ UNCHANGED result
      /\ \A S : Count(queue_, S)' = Count(queue_, S) + (IF "MapSnapshotRequested" \in S THEN 1 ELSE 0)
  BY <1>1, <1>2, QueuePush
<1>4. events' \in Seq(Event)
  BY <1>1, Delivered
<1>5. TypeInv'
  BY <1>1, <1>3, <1>4 DEF TypeInv, controllerVars
<1>6. QuitInv' /\ SceneInv'
  BY <1>1, QuitDeliver, SceneDeliver DEF controllerVars
<1>7. TicksInv'
  BY <1>1, <1>3, CountsAreNatural DEF TicksInv, controllerVars
<1>8. Count(events, FeedingEvents) = Count(events, FeedingEvents)' + 1
  BY <1>1, EventsDeliver
<1>9. Count(events', FeedingEvents) \in Nat
  BY <1>4, CountIsNatural
<1>10. Count(events, FeedingEvents)' \in Nat
  BY <1>9 DEF FeedingEvents, Signal
<1>11. FeedbackInv'
  BY <1>1, <1>3, <1>8, <1>10, CountsAreNatural DEF FeedbackInv, Feeding, controllerVars
<1>12. QED
  BY <1>5, <1>6, <1>7, <1>11

LEMMA DeliverKeeps ==
  ASSUME IInv, NEW type, Deliver(type), UNCHANGED <<mqVars, working_, shown, staticMap_, snapshotNo, ticks, quits>>,
         scene' \subseteq (1 .. MaxTicks) \X TrackId, streets' \in Nat, window' \in {window, FALSE},
         pc' \in {pc, "quitting"}, process' \in {process, "exited"},
         QuitInv', SceneInv'
  PROVE  IInv'
<1> USE DEF IInv
<1>1. events' \in Seq(Event)
  BY Delivered
<1>2. TypeInv'
  BY <1>1 DEF TypeInv, mqVars, Places
<1>3. TicksInv'
  BY CountsAreNatural, BoundsAssumption DEF TypeInv, TicksInv, mqVars
<1>4. Count(events', FeedingEvents) \in Nat
  BY <1>1, CountIsNatural
<1>5. Count(events, FeedingEvents)' \in Nat
  BY <1>4 DEF FeedingEvents, Signal
<1>6. Count(events, FeedingEvents)' <= Count(events, FeedingEvents)
  BY <1>5, EventsDeliver, CountsAreNatural
<1>7. FeedbackInv'
  BY <1>5, <1>6, CountsAreNatural, BoundsAssumption DEF TypeInv, FeedbackInv, Feeding, mqVars
<1>8. QED
  BY <1>2, <1>3, <1>7

LEMMA EventLoopKeeps ==
  ASSUME IInv, EventLoop
  PROVE  IInv'
<1> USE DEF IInv
<1>1. CASE PerformClearScene
  BY <1>1, ClearKeeps
<1>2. CASE PerformAddTrack
  <2>1. /\ Deliver("addTrack")
        /\ scene' = scene \cup {<<Head(events).snapshot, Head(events).track>>}
        /\ UNCHANGED <<mqVars, controllerVars, streets, window, process, ticks, quits>>
    BY <1>2 DEF PerformAddTrack
  <2>2. Head(events) \in Event /\ Head(events).type = "addTrack"
    BY <2>1, Delivered DEF Deliver
  <2>3. PICK n \in 1 .. MaxTicks, t \in TrackId : Head(events) = Track(n, t)
    BY <2>2 DEF Event, Signal, SignalType
  <2>4. scene' = scene \cup {<<n, t>>}
    BY <2>1, <2>3, SignalsAreEvents
  <2>5. scene' \subseteq (1 .. MaxTicks) \X TrackId
    BY <2>4 DEF TypeInv
  <2>6. QuitInv' /\ SceneInv'
    BY <2>1, QuitDeliver, SceneDeliver DEF controllerVars
  <2>7. QED
    BY <2>1, <2>5, <2>6, DeliverKeeps DEF TypeInv, controllerVars
<1>3. CASE PerformAddStreets
  <2>1. /\ Deliver("addStreets") /\ streets' = streets + 1
        /\ UNCHANGED <<mqVars, controllerVars, scene, window, process, ticks, quits>>
    BY <1>3 DEF PerformAddStreets
  <2>2. QuitInv' /\ SceneInv'
    BY <2>1, QuitDeliver, SceneDeliver DEF controllerVars
  <2>3. QED
    BY <2>1, <2>2, DeliverKeeps DEF TypeInv, controllerVars
<1>4. CASE PerformClose
  <2>1. /\ Deliver("close") /\ window' = FALSE
        /\ UNCHANGED <<mqVars, controllerVars, scene, streets, process, ticks, quits>>
    BY <1>4 DEF PerformClose
  <2>2. QuitInv' /\ SceneInv'
    BY <2>1, QuitDeliver, SceneDeliver DEF controllerVars
  <2>3. QED
    BY <2>1, <2>2, DeliverKeeps DEF TypeInv, controllerVars
<1>5. CASE PerformThreadQuit
  <2>1. /\ Deliver("threadQuit") /\ pc' = "quitting"
        /\ UNCHANGED <<mqVars, working_, shown, staticMap_, snapshotNo, guiVars, process, ticks, quits>>
    BY <1>5 DEF PerformThreadQuit
  <2>2. QuitInv' /\ SceneInv'
    BY <2>1, QuitDeliver, SceneDeliver DEF guiVars
  <2>3. QED
    BY <2>1, <2>2, DeliverKeeps DEF TypeInv, guiVars
<1>6. CASE PerformApplicationQuit
  <2>1. /\ Deliver("applicationQuit") /\ process' = "exited"
        /\ UNCHANGED <<mqVars, controllerVars, guiVars, ticks, quits>>
    BY <1>6 DEF PerformApplicationQuit
  <2>2. QuitInv' /\ SceneInv'
    BY <2>1, QuitDeliver, SceneDeliver DEF guiVars, controllerVars
  <2>3. QED
    BY <2>1, <2>2, DeliverKeeps DEF TypeInv, guiVars, controllerVars
<1>7. QED
  BY <1>1, <1>2, <1>3, <1>4, <1>5, <1>6 DEF EventLoop

-----------------------------------------------------------------------------
LEMMA InvInit == Init => IInv
<1> SUFFICES ASSUME Init PROVE IInv
  OBVIOUS
<1> USE BoundsAssumption DEF Init
<1>1. queue_ \in Seq(Message) /\ events \in Seq(Event)
  BY DEF Message
<1>2. TypeInv
  <2>1. result \in [Consumer -> Value \cup {NoValue}]
    OBVIOUS
  <2>2. pc \in Places
    BY DEF Places
  <2>3. /\ shown \subseteq TrackId /\ scene \subseteq (1 .. MaxTicks) \X TrackId
        /\ snapshotNo \in Nat /\ streets \in Nat /\ ticks \in 0 .. MaxTicks /\ quits \in 0 .. MaxQuits
    OBVIOUS
  <2>4. QED
    BY <1>1, <2>1, <2>2, <2>3 DEF TypeInv
<1>3. \A S : Count(queue_, S) = IF "MapSnapshotRequested" \in S THEN 1 ELSE 0
  <2>1. \A S : Count(Append(<<>>, "MapSnapshotRequested"), S) =
                 Count(<<>>, S) + (IF "MapSnapshotRequested" \in S THEN 1 ELSE 0)
    <3>1. <<>> \in Seq(Message) /\ "MapSnapshotRequested" \in Message
      BY DEF Message
    <3>2. \A S : \A s \in Seq(Message) :
            Count(Append(s, "MapSnapshotRequested"), S) =
              Count(s, S) + (IF "MapSnapshotRequested" \in S THEN 1 ELSE 0)
      BY <3>1, CountAppend
    <3>3. QED
      BY <3>1, <3>2
  <2>2. Append(<<>>, "MapSnapshotRequested") = queue_
    OBVIOUS
  <2>3. QED
    BY <2>1, <2>2, CountEmpty
<1>4. Count(events, FeedingEvents) = 0
  BY CountEmpty
<1>5. TicksInv /\ FeedbackInv
  BY <1>3, <1>4 DEF TicksInv, FeedbackInv, Feeding
<1>6. \A i, type : ~ IsAt(i, type)
  BY DEF IsAt
<1>7. QuitInv /\ SceneInv
  BY <1>6 DEF QuitInv, SceneInv
<1>8. QED
  BY <1>2, <1>5, <1>7 DEF IInv

LEMMA InvStep == IInv /\ [Next]_vars => IInv'
<1> SUFFICES ASSUME IInv, [Next]_vars PROVE IInv'
  OBVIOUS
<1>1. CASE TimerTick \/ ChooseQuit \/ CloseWindow
  BY <1>1, ProducersKeep
<1>2. CASE ControllerThread
  BY <1>2, ControllerKeeps, PopKeeps, MapKeeps, TickKeeps, ShowKeeps, LeaveKeeps DEF ControllerThread
<1>3. CASE EventLoop
  BY <1>3, EventLoopKeeps
<1>4. CASE UNCHANGED vars
  <2> USE <1>4 DEF IInv, vars, mqVars, controllerVars, guiVars
  <2>1. TypeInv'
    BY DEF TypeInv
  <2>2. TicksInv' /\ FeedbackInv'
    BY DEF TicksInv, FeedbackInv, Feeding, FeedingEvents, Signal, Count
  <2>3. QuitInv' /\ SceneInv'
    BY QuitElsewhere, SceneKept
  <2>4. QED
    BY <2>1, <2>2, <2>3
<1>5. QED
  BY <1>1, <1>2, <1>3, <1>4 DEF Next

LEMMA Invariant == Spec => []IInv
BY InvInit, InvStep, PTL DEF Spec

(* Every variable holds what it is for; no more snapshots than ticks.      *)
THEOREM TypeCorrect == Spec => []TypeOK
<1>1. IInv => TypeOK
  <2> SUFFICES ASSUME IInv PROVE TypeOK
    OBVIOUS
  <2> USE DEF IInv
  <2>1. queue_ \in Seq(Value) /\ pc \in Value \cup Places
    BY MessageAssumption DEF TypeInv, Message
  <2>2. msg \in Value \cup {NoValue}
    BY MessageAssumption DEF TypeInv, msg, Controller
  <2>3. snapshotNo \in 0 .. MaxTicks
    BY CountsAreNatural, BoundsAssumption DEF TypeInv, TicksInv
  <2>4. \A i \in DOMAIN events : events[i] \in Event
    BY DEF TypeInv
  <2>5. QED
    BY <2>1, <2>2, <2>3, <2>4, MessageAssumption DEF TypeOK, TypeInv, Event, SignalType, Places, Message
<1>2. QED
  BY <1>1, Invariant, PTL

(* The tracks of two snapshots are never drawn together.                   *)
THEOREM OneSnapshotIsDrawn == Spec => []SceneIsOneSnapshot
<1>1. IInv => SceneIsOneSnapshot
  BY DEF IInv, SceneInv, SceneIsOneSnapshot
<1>2. QED
  BY <1>1, Invariant, PTL

(* app.exec() returns after the controller thread has finished only.       *)
THEOREM ControllerEndsFirst == Spec => []GuiOutlivesController
<1>1. IInv => GuiOutlivesController
  BY DEF IInv, QuitInv, GuiOutlivesController
<1>2. QED
  BY <1>1, Invariant, PTL

(* Requests for the map and answers do not multiply.                       *)
THEOREM FeedbackDoesNotGrow == Spec => []FeedbackIsBounded
<1>1. IInv => FeedbackIsBounded
  <2> SUFFICES ASSUME IInv PROVE FeedbackIsBounded
    OBVIOUS
  <2> USE DEF IInv
  <2> DEFINE asked == {"MapSnapshotRequested"}
             both == {"TimerTick", "MapSnapshotRequested"}
  <2>1. Count(queue_, asked) <= Count(queue_, both)
    <3>1. IsFiniteSet({i \in DOMAIN queue_ : queue_[i] \in both})
      BY CountIsNatural DEF TypeInv
    <3>2. {i \in DOMAIN queue_ : queue_[i] \in asked} \subseteq {i \in DOMAIN queue_ : queue_[i] \in both}
      OBVIOUS
    <3>3. QED
      BY <3>1, <3>2, FS_Subset DEF Count
  <2>2. Feeding <= ticks + 1
    BY DEF FeedbackInv
  <2>3. ticks \in Nat
    BY BoundsAssumption DEF TypeInv
  <2>4. QED
    BY <2>1, <2>2, <2>3, CountsAreNatural DEF FeedbackIsBounded, Feeding, FeedingEvents
<1>2. QED
  BY <1>1, Invariant, PTL

=============================================================================
