---------------------------- MODULE Common_proofs -----------------------------
(***************************************************************************)
(* Theorems about the two classes of src/src/Common that threads share:    *)
(* BlockingQueue, for any number of producers and consumers and any number *)
(* of calls, and TimersManager (module Timers), for any set of timers and  *)
(* any size of the pool.                                                   *)
(***************************************************************************)
EXTENDS BlockingQueue, Timers, FiniteSetTheorems, TLAPS

-----------------------------------------------------------------------------
(* BlockingQueue                                                           *)

(* Where threads may be, and what they know there: the blocked consumers   *)
(* are those that wait, and the queue a consumer has looked at under the   *)
(* mutex is still not empty when it takes.                                 *)
PlaceInv ==
  /\ \A p \in Producer : pc[p] \in {"idle", "push", "unlock", "notify"}
  /\ \A c \in Consumer : pc[c] \in {"idle", "check", "waiting", "woken", "take", "leave"}
  /\ condVar_ = {c \in Consumer : pc[c] = "waiting"}
  /\ \A p \in Producer : pc[p] = "push" => pushes[p] # 0
  /\ \A c \in Consumer : pc[c] = "take" => queue_ # <<>>

IInv == TypeOK /\ MutualExclusion /\ PlaceInv

-----------------------------------------------------------------------------
LEMMA InvInit == Init => IInv
<1> SUFFICES ASSUME Init PROVE IInv
  OBVIOUS
<1> USE ThreadAssumption DEF Init
<1>1. TypeOK
  BY DEF TypeOK
<1>2. MutualExclusion
  BY DEF MutualExclusion, Locked
<1>3. PlaceInv
  BY DEF PlaceInv
<1>4. QED
  BY <1>1, <1>2, <1>3 DEF IInv

(* push                                                                    *)
LEMMA ProduceKeeps ==
  ASSUME IInv, NEW p \in Producer, Produce(p)
  PROVE  IInv'
<1> USE ThreadAssumption DEF IInv, Goto
<1>1. CASE CallPush(p)
  <2>1. TypeOK'
    BY <1>1 DEF CallPush, TypeOK
  <2>2. MutualExclusion'
    BY <1>1 DEF CallPush, TypeOK, MutualExclusion, Locked
  <2>3. PlaceInv'
    BY <1>1 DEF CallPush, TypeOK, PlaceInv
  <2>4. QED
    BY <2>1, <2>2, <2>3
<1>2. CASE PushValue(p)
  <2>1. <<p, pushes[p]>> \in Value
    BY <1>2 DEF PushValue, TypeOK, PlaceInv, Value
  <2>2. queue_' \in Seq(Value) /\ queue_' # <<>>
    BY <1>2, <2>1 DEF PushValue, TypeOK
  <2>3. TypeOK'
    BY <1>2, <2>2 DEF PushValue, TypeOK
  <2>4. MutualExclusion'
    BY <1>2 DEF PushValue, TypeOK, MutualExclusion, Locked
  <2>5. PlaceInv'
    BY <1>2, <2>2 DEF PushValue, TypeOK, PlaceInv
  <2>6. QED
    BY <2>3, <2>4, <2>5
<1>3. CASE Unlock(p)
  <2>1. TypeOK'
    BY <1>3 DEF Unlock, TypeOK
  <2>2. MutualExclusion'
    BY <1>3 DEF Unlock, TypeOK, MutualExclusion, Locked
  <2>3. PlaceInv'
    BY <1>3 DEF Unlock, TypeOK, PlaceInv
  <2>4. QED
    BY <2>1, <2>2, <2>3
<1>4. CASE NotifyOne(p)
  <2>1. CASE condVar_ = {}
    <3>1. TypeOK'
      BY <1>4, <2>1 DEF NotifyOne, TypeOK
    <3>2. MutualExclusion'
      BY <1>4, <2>1 DEF NotifyOne, TypeOK, MutualExclusion, Locked
    <3>3. PlaceInv'
      BY <1>4, <2>1 DEF NotifyOne, TypeOK, PlaceInv
    <3>4. QED
      BY <3>1, <3>2, <3>3
  <2>2. CASE condVar_ # {}
    <3>1. PICK c \in condVar_ :
            /\ pc[p] = "notify"
            /\ pc' = [pc EXCEPT ![p] = "idle", ![c] = "woken"]
            /\ condVar_' = condVar_ \ {c}
      BY <1>4, <2>2 DEF NotifyOne
    <3>2. c \in Consumer /\ c # p /\ pc[c] = "waiting"
      BY <3>1 DEF PlaceInv
    <3>3. UNCHANGED <<mutex_, queue_, result, pushes>>
      BY <1>4 DEF NotifyOne
    <3>4. TypeOK'
      BY <3>1, <3>2, <3>3 DEF TypeOK
    <3>5. MutualExclusion'
      BY <3>1, <3>2, <3>3 DEF TypeOK, MutualExclusion, Locked
    <3>6. PlaceInv'
      BY <3>1, <3>2, <3>3 DEF TypeOK, PlaceInv
    <3>7. QED
      BY <3>4, <3>5, <3>6
  <2>3. QED
    BY <2>1, <2>2
<1>5. QED
  BY <1>1, <1>2, <1>3, <1>4 DEF Produce

(* pop                                                                     *)
LEMMA ConsumeKeeps ==
  ASSUME IInv, NEW c \in Consumer, Consume(c) \/ SpuriousWakeup(c)
  PROVE  IInv'
<1> USE ThreadAssumption DEF IInv, Goto
<1>1. CASE CallPop(c)
  <2>1. TypeOK'
    BY <1>1 DEF CallPop, TypeOK
  <2>2. MutualExclusion'
    BY <1>1 DEF CallPop, TypeOK, MutualExclusion, Locked
  <2>3. PlaceInv'
    BY <1>1 DEF CallPop, TypeOK, PlaceInv
  <2>4. QED
    BY <2>1, <2>2, <2>3
<1>2. CASE Block(c)
  <2>1. TypeOK'
    BY <1>2 DEF Block, TypeOK
  <2>2. MutualExclusion'
    BY <1>2 DEF Block, TypeOK, MutualExclusion, Locked
  <2>3. PlaceInv'
    BY <1>2 DEF Block, TypeOK, PlaceInv
  <2>4. QED
    BY <2>1, <2>2, <2>3
<1>3. CASE SpuriousWakeup(c)
  <2>1. TypeOK'
    BY <1>3 DEF SpuriousWakeup, TypeOK
  <2>2. MutualExclusion'
    BY <1>3 DEF SpuriousWakeup, TypeOK, MutualExclusion, Locked
  <2>3. PlaceInv'
    BY <1>3 DEF SpuriousWakeup, TypeOK, PlaceInv
  <2>4. QED
    BY <2>1, <2>2, <2>3
<1>4. CASE Relock(c)
  <2>1. TypeOK'
    BY <1>4 DEF Relock, TypeOK
  <2>2. MutualExclusion'
    BY <1>4 DEF Relock, TypeOK, MutualExclusion, Locked
  <2>3. PlaceInv'
    BY <1>4 DEF Relock, TypeOK, PlaceInv
  <2>4. QED
    BY <2>1, <2>2, <2>3
<1>5. CASE Checked(c)
  <2>1. TypeOK'
    BY <1>5 DEF Checked, TypeOK
  <2>2. MutualExclusion'
    BY <1>5 DEF Checked, TypeOK, MutualExclusion, Locked
  <2>3. PlaceInv'
    BY <1>5 DEF Checked, TypeOK, PlaceInv
  <2>4. QED
    BY <2>1, <2>2, <2>3
<1>6. CASE Take(c)
  <2>1. queue_ \in Seq(Value) /\ queue_ # <<>>
    BY <1>6 DEF Take, TypeOK, PlaceInv
  <2>2. Head(queue_) \in Value /\ Tail(queue_) \in Seq(Value)
    BY <2>1
  <2>3. TypeOK'
    BY <1>6, <2>2 DEF Take, TypeOK
  <2>4. MutualExclusion'
    BY <1>6 DEF Take, TypeOK, MutualExclusion, Locked
  (* Nobody else is at "take", which needs the mutex.                      *)
  <2>5. \A d \in Consumer \ {c} : pc[d] # "take"
    BY <1>6 DEF Take, TypeOK, MutualExclusion, Locked
  <2>6. PlaceInv'
    BY <1>6, <2>5 DEF Take, TypeOK, PlaceInv
  <2>7. QED
    BY <2>3, <2>4, <2>6
<1>7. CASE Leave(c)
  <2>1. TypeOK'
    BY <1>7 DEF Leave, TypeOK
  <2>2. MutualExclusion'
    BY <1>7 DEF Leave, TypeOK, MutualExclusion, Locked
  <2>3. PlaceInv'
    BY <1>7 DEF Leave, TypeOK, PlaceInv
  <2>4. QED
    BY <2>1, <2>2, <2>3
<1>8. QED
  BY <1>1, <1>2, <1>3, <1>4, <1>5, <1>6, <1>7 DEF Consume

LEMMA Inductive == Spec => []IInv
<1>1. Init => IInv
  BY InvInit
<1>2. IInv /\ [Next]_vars => IInv'
  <2>1. IInv /\ UNCHANGED vars => IInv'
    BY DEF vars, IInv, TypeOK, MutualExclusion, PlaceInv
  <2>2. QED
    BY <2>1, ProduceKeeps, ConsumeKeeps DEF Next
<1>3. QED
  BY <1>1, <1>2, PTL DEF Spec

(* Every variable has its type: in particular a pop never takes from an    *)
(* empty queue, and what it returns was pushed.                            *)
THEOREM TypeCorrect == Spec => []TypeOK
<1>1. IInv => TypeOK
  BY DEF IInv
<1>2. QED
  BY <1>1, Inductive, PTL

(* The critical sections of push and pop exclude one another.              *)
THEOREM MutexExcludes == Spec => []MutualExclusion
<1>1. IInv => MutualExclusion
  BY DEF IInv
<1>2. QED
  BY <1>1, Inductive, PTL

-----------------------------------------------------------------------------
(* No wakeup is lost: the threads on their way to a consumer's taking a    *)
(* value, and their number.                                                *)
Pushing == {p \in Producer : pc[p] \in {"unlock", "notify"}}

Popping == {c \in Consumer : pc[c] \in {"woken", "check", "take"}}

OnTheWay == Cardinality(Pushing) + Cardinality(Popping)

(* One thread enters or leaves a finite set of them.                       *)
LEMMA SetsAreFinite ==
  /\ IsFiniteSet(Pushing) /\ Cardinality(Pushing) \in Nat
  /\ IsFiniteSet(Popping) /\ Cardinality(Popping) \in Nat
<1>1. Pushing \in SUBSET Producer /\ Popping \in SUBSET Consumer
  BY DEF Pushing, Popping
<1>2. QED
  BY <1>1, ThreadAssumption, FS_Subset, FS_CardinalityType

LEMMA SetGrows ==
  ASSUME NEW S, NEW T, NEW x, IsFiniteSet(S), x \notin S, T = S \cup {x}
  PROVE  Cardinality(T) = Cardinality(S) + 1
BY FS_AddElement

LEMMA SetShrinks ==
  ASSUME NEW S, NEW T, NEW x, IsFiniteSet(S), x \in S, T = S \ {x}
  PROVE  Cardinality(T) = Cardinality(S) - 1
BY FS_RemoveElement

NoLostWakeupInv == condVar_ # {} => Len(queue_) <= OnTheWay

LEMMA WakeupsProduce ==
  ASSUME IInv, NoLostWakeupInv, NEW p \in Producer, Produce(p)
  PROVE  NoLostWakeupInv'
<1> USE DEF IInv, Goto
<1>1. p \notin Consumer
  BY ThreadAssumption
<1>2. Len(queue_) \in Nat
  BY DEF TypeOK
<1>3. CASE CallPush(p)
  <2>1. Pushing' = Pushing /\ Popping' = Popping
    BY <1>1, <1>3 DEF CallPush, TypeOK, Pushing, Popping
  <2>2. UNCHANGED <<condVar_, queue_>>
    BY <1>3 DEF CallPush
  <2>3. QED
    BY <2>1, <2>2 DEF NoLostWakeupInv, OnTheWay
(* One more value, one more thread that will notify.                       *)
<1>4. CASE PushValue(p)
  <2>1. Pushing' = Pushing \cup {p} /\ p \notin Pushing /\ Popping' = Popping
    BY <1>1, <1>4 DEF PushValue, TypeOK, Pushing, Popping
  <2>2. Cardinality(Pushing') = Cardinality(Pushing) + 1
    BY <2>1, SetsAreFinite, SetGrows
  <2>3. UNCHANGED condVar_ /\ Len(queue_') = Len(queue_) + 1
    BY <1>4 DEF PushValue, TypeOK
  <2>4. QED
    BY <2>1, <2>2, <2>3, <1>2, SetsAreFinite DEF NoLostWakeupInv, OnTheWay
<1>5. CASE Unlock(p)
  <2>1. Pushing' = Pushing /\ Popping' = Popping
    BY <1>1, <1>5 DEF Unlock, TypeOK, Pushing, Popping
  <2>2. UNCHANGED <<condVar_, queue_>>
    BY <1>5 DEF Unlock
  <2>3. QED
    BY <2>1, <2>2 DEF NoLostWakeupInv, OnTheWay
(* A consumer takes the place of the thread that woke it.                  *)
<1>6. CASE NotifyOne(p)
  <2>1. CASE condVar_ = {}
    BY <1>6, <2>1 DEF NotifyOne, NoLostWakeupInv
  <2>2. CASE condVar_ # {}
    <3>1. PICK c \in condVar_ :
            /\ pc[p] = "notify"
            /\ pc' = [pc EXCEPT ![p] = "idle", ![c] = "woken"]
            /\ condVar_' = condVar_ \ {c}
      BY <1>6, <2>2 DEF NotifyOne
    <3>2. c \in Consumer /\ c \notin Producer /\ c # p /\ pc[c] = "waiting"
      BY <3>1, <1>1, ThreadAssumption DEF PlaceInv
    <3>3. Pushing' = Pushing \ {p} /\ p \in Pushing
      BY <3>1, <3>2 DEF TypeOK, Pushing
    <3>4. Popping' = Popping \cup {c} /\ c \notin Popping
      BY <1>1, <3>1, <3>2 DEF TypeOK, Popping
    <3>5. /\ Cardinality(Pushing') = Cardinality(Pushing) - 1
          /\ Cardinality(Popping') = Cardinality(Popping) + 1
      BY <3>3, <3>4, SetsAreFinite, SetGrows, SetShrinks
    <3>6. UNCHANGED queue_
      BY <1>6 DEF NotifyOne
    <3>7. QED
      BY <3>5, <3>6, <2>2, <1>2, SetsAreFinite DEF NoLostWakeupInv, OnTheWay
  <2>3. QED
    BY <2>1, <2>2
<1>7. QED
  BY <1>3, <1>4, <1>5, <1>6 DEF Produce

LEMMA WakeupsConsume ==
  ASSUME IInv, NoLostWakeupInv, NEW c \in Consumer, Consume(c) \/ SpuriousWakeup(c)
  PROVE  NoLostWakeupInv'
<1> USE DEF IInv, Goto
<1>1. c \notin Producer
  BY ThreadAssumption
<1>2. Len(queue_) \in Nat
  BY DEF TypeOK
<1>3. Pushing' = Pushing
  BY <1>1 DEF Consume, CallPop, Block, SpuriousWakeup, Relock, Checked, Take, Leave,
              TypeOK, Pushing
<1>4. CASE CallPop(c) \/ SpuriousWakeup(c)
  <2>1. Popping' = Popping \cup {c} /\ c \notin Popping
    BY <1>4 DEF CallPop, SpuriousWakeup, TypeOK, Popping
  <2>2. Cardinality(Popping') = Cardinality(Popping) + 1
    BY <2>1, SetsAreFinite, SetGrows
  <2>3. UNCHANGED queue_ /\ (condVar_' # {} => condVar_ # {})
    BY <1>4 DEF CallPop, SpuriousWakeup
  <2>4. QED
    BY <1>2, <1>3, <2>2, <2>3, SetsAreFinite DEF NoLostWakeupInv, OnTheWay
(* Whoever blocks saw the empty queue, under the mutex.                    *)
<1>5. CASE Block(c)
  <2>1. Len(queue_') = 0
    BY <1>5 DEF Block
  <2>2. OnTheWay' \in Nat
    <3>1. /\ Popping' \in SUBSET Consumer
      BY DEF Popping
    <3>2. Cardinality(Popping') \in Nat
      BY <3>1, ThreadAssumption, FS_Subset, FS_CardinalityType
    <3>3. QED
      BY <1>3, <3>2, SetsAreFinite DEF OnTheWay
  <2>3. QED
    BY <2>1, <2>2 DEF NoLostWakeupInv
<1>6. CASE Relock(c) \/ Checked(c)
  <2>1. Popping' = Popping /\ UNCHANGED <<condVar_, queue_>>
    BY <1>6 DEF Relock, Checked, TypeOK, Popping
  <2>2. QED
    BY <1>3, <2>1 DEF NoLostWakeupInv, OnTheWay
(* One value and one consumer less.                                        *)
<1>7. CASE Take(c)
  <2>1. Popping' = Popping \ {c} /\ c \in Popping
    BY <1>7 DEF Take, TypeOK, Popping
  <2>2. Cardinality(Popping') = Cardinality(Popping) - 1
    BY <2>1, SetsAreFinite, SetShrinks
  <2>3. UNCHANGED condVar_ /\ Len(queue_') = Len(queue_) - 1
    BY <1>7 DEF Take, TypeOK, PlaceInv
  <2>4. QED
    BY <1>2, <1>3, <2>2, <2>3, SetsAreFinite DEF NoLostWakeupInv, OnTheWay
<1>8. CASE Leave(c)
  <2>1. Popping' = Popping /\ UNCHANGED <<condVar_, queue_>>
    BY <1>8 DEF Leave, TypeOK, Popping
  <2>2. QED
    BY <1>3, <2>1 DEF NoLostWakeupInv, OnTheWay
<1>9. QED
  BY <1>4, <1>5, <1>6, <1>7, <1>8 DEF Consume

(* Notifying after the mutex was released loses no wakeup, however many    *)
(* threads there are: while consumers are blocked, each value in the queue *)
(* has a thread of its own on the way to having it taken.                  *)
THEOREM WakeupsAreNotLost == Spec => []NoLostWakeup
<1>1. Init => NoLostWakeupInv
  BY DEF Init, NoLostWakeupInv
<1>2. IInv /\ NoLostWakeupInv /\ [Next]_vars => NoLostWakeupInv'
  <2>1. NoLostWakeupInv /\ UNCHANGED vars => NoLostWakeupInv'
    BY DEF vars, NoLostWakeupInv, OnTheWay, Pushing, Popping
  <2>2. QED
    BY <2>1, WakeupsProduce, WakeupsConsume DEF Next
<1>3. NoLostWakeupInv => NoLostWakeup
  BY DEF NoLostWakeupInv, NoLostWakeup, OnTheWay, Pushing, Popping
<1>4. QED
  BY <1>1, <1>2, <1>3, Inductive, PTL DEF Spec

-----------------------------------------------------------------------------
(* What the abstract queue sees of a producer's step: an atomic push when  *)
(* the value is appended, nothing before or after.                         *)
LEMMA ProducersPush ==
  ASSUME IInv, NEW p \in Producer, Produce(p)
  PROVE  [MQ!MQNext]_(MQ!mqVars)
<1>1. CASE PushValue(p)
  <2>1. <<p, pushes[p]>> \in Value
    BY <1>1 DEF IInv, PushValue, Goto, TypeOK, PlaceInv, Value
  <2>2. MQ!Push(<<p, pushes[p]>>)
    BY <1>1 DEF PushValue, MQ!Push
  <2>3. QED
    BY <2>1, <2>2 DEF MQ!MQNext
<1>2. CASE ~ PushValue(p)
  BY <1>2 DEF Produce, CallPush, Unlock, NotifyOne, MQ!mqVars
<1>3. QED
  BY <1>1, <1>2

(* And of a consumer's: an atomic pop when it takes the value it has       *)
(* checked for.                                                            *)
LEMMA ConsumersPop ==
  ASSUME IInv, NEW c \in Consumer, Consume(c) \/ SpuriousWakeup(c)
  PROVE  [MQ!MQNext]_(MQ!mqVars)
<1>1. CASE Take(c)
  <2>1. MQ!Pop(c)
    BY <1>1 DEF IInv, PlaceInv, Take, Goto, MQ!Pop
  <2>2. QED
    BY <2>1 DEF MQ!MQNext
<1>2. CASE ~ Take(c)
  BY <1>2 DEF Consume, CallPop, Block, SpuriousWakeup, Relock, Checked, Leave, MQ!mqVars
<1>3. QED
  BY <1>1, <1>2

(* BlockingQueue implements the safety part of MessageQueue: appending to  *)
(* queue_ is the atomic push, taking from it the atomic pop, and all the   *)
(* locking, waiting and waking up around them changes nothing its users    *)
(* see.                                                                    *)
THEOREM ImplementsSafety == Spec => MQ!MQSafety
<1>1. Init => MQ!MQInit
  BY DEF Init, MQ!MQInit
<1>2. UNCHANGED vars => UNCHANGED MQ!mqVars
  BY DEF vars, MQ!mqVars
<1>3. IInv /\ [Next]_vars => [MQ!MQNext]_(MQ!mqVars)
  BY <1>2, ProducersPush, ConsumersPop DEF Next
<1>4. QED
  BY <1>1, <1>3, Inductive, PTL DEF Spec, MQ!MQSafety

-----------------------------------------------------------------------------
(* Timers                                                                  *)

(* A timer is in one place at a time: waiting, in one entry of the         *)
(* io_service's queue, or in the hands of one worker.                      *)
OnePlaceInv ==
  /\ \A w \in Timer : handling[w] # NoTimer <=> at[w] = "handler"
  /\ \A v, w \in Timer : v # w /\ handling[v] # NoTimer => handling[v] # handling[w]
  /\ \A w \in Timer : handling[w] \notin waiting
  /\ \A i \in DOMAIN handlers : handlers[i][1] \notin waiting
  /\ \A i, j \in DOMAIN handlers : i # j => handlers[i][1] # handlers[j][1]
  /\ \A i \in DOMAIN handlers : \A w \in Timer : handlers[i][1] # handling[w]

(* Once stopTimers has stopped the io_service it stays stopped, also for   *)
(* the workers of timers started later.                                    *)
StopInv ==
  /\ IsFiniteSet(workers_)
  /\ \A w \in Timer \ workers_ : at[w] = "none"
  /\ client \in {"joining", "stopped"} => stopped
  /\ client = "stopped" => \A w \in Timer : at[w] # "handler"

TimersIInv == TimersTypeOK /\ OnePlaceInv /\ StopInv

-----------------------------------------------------------------------------
LEMMA TimersInvInit == TimersInit => TimersIInv
<1> SUFFICES ASSUME TimersInit PROVE TimersIInv
  OBVIOUS
<1> USE PoolAssumption DEF TimersInit
<1>1. IsFiniteSet(workers_) /\ Cardinality(workers_) <= ThreadPoolSize
  BY FS_EmptySet
<1>2. TimersTypeOK
  <2>1. handlers \in Seq(started \X BOOLEAN)
    OBVIOUS
  <2>2. /\ working_ \in [Timer -> BOOLEAN]
        /\ at \in [Timer -> {"none", "loop", "run", "handler", "done"}]
        /\ handling \in [Timer -> started \cup {NoTimer}]
    OBVIOUS
  <2>3. QED
    BY <1>1, <2>1, <2>2 DEF TimersTypeOK
<1>3. OnePlaceInv /\ StopInv
  BY <1>1 DEF OnePlaceInv, StopInv
<1>4. QED
  BY <1>2, <1>3 DEF TimersIInv

(* Queues of handlers                                                      *)
LEMMA HandlerQueue ==
  ASSUME NEW S, NEW hs \in Seq(S \X BOOLEAN)
  PROVE  /\ Len(hs) \in Nat /\ DOMAIN hs = 1 .. Len(hs)
         /\ \A i \in DOMAIN hs : hs[i][1] \in S /\ hs[i][2] \in BOOLEAN
         /\ \A T : S \subseteq T => hs \in Seq(T \X BOOLEAN)
OBVIOUS

LEMMA AppendHandler ==
  ASSUME NEW S, NEW hs \in Seq(S \X BOOLEAN), NEW t \in S, NEW b \in BOOLEAN
  PROVE  /\ Append(hs, <<t, b>>) \in Seq(S \X BOOLEAN)
         /\ DOMAIN Append(hs, <<t, b>>) = DOMAIN hs \cup {Len(hs) + 1}
         /\ Len(hs) + 1 \notin DOMAIN hs
         /\ Append(hs, <<t, b>>)[Len(hs) + 1][1] = t
         /\ \A i \in DOMAIN hs : Append(hs, <<t, b>>)[i] = hs[i]
OBVIOUS

LEMMA TailOfHandlers ==
  ASSUME NEW S, NEW hs \in Seq(S \X BOOLEAN), hs # <<>>
  PROVE  /\ Tail(hs) \in Seq(S \X BOOLEAN)
         /\ 1 \in DOMAIN hs /\ Head(hs) = hs[1]
         /\ \A i \in DOMAIN Tail(hs) :
              /\ i + 1 \in DOMAIN hs /\ i + 1 # 1 /\ Tail(hs)[i] = hs[i + 1]
              /\ \A j \in DOMAIN Tail(hs) : i # j => i + 1 # j + 1
OBVIOUS

-----------------------------------------------------------------------------
(* The client thread.                                                      *)
LEMMA StartTimerKeeps ==
  ASSUME TimersIInv, NEW t \in Timer, StartTimer(t)
  PROVE  TimersIInv'
<1> USE PoolAssumption DEF TimersIInv
<1>1. /\ t \notin started /\ started' = started \cup {t} /\ waiting' = waiting \cup {t}
      /\ UNCHANGED <<client, toStop, handlers, stopped, handling>>
  BY DEF StartTimer
<1>2. /\ workers_' \subseteq workers_ \cup {t} /\ workers_ \subseteq workers_'
      /\ IsFiniteSet(workers_') /\ Cardinality(workers_') <= ThreadPoolSize
  <2>1. CASE Cardinality(workers_) < ThreadPoolSize
    <3>1. workers_' = workers_ \cup {t}
      BY <2>1 DEF StartTimer
    <3>2. /\ IsFiniteSet(workers_') /\ Cardinality(workers_) \in Nat
          /\ Cardinality(workers_') \in {Cardinality(workers_), Cardinality(workers_) + 1}
      BY <3>1, FS_AddElement, FS_CardinalityType DEF StopInv
    <3>3. QED
      BY <2>1, <3>1, <3>2
  <2>2. CASE ~ (Cardinality(workers_) < ThreadPoolSize)
    BY <2>2 DEF StartTimer, StopInv, TimersTypeOK
  <2>3. QED
    BY <2>1, <2>2
<1>3. /\ working_' \in [Timer -> BOOLEAN]
      /\ at' \in [Timer -> {"none", "loop", "run", "handler", "done"}]
      /\ \A w \in Timer : at'[w] = "handler" <=> at[w] = "handler"
      /\ \A w \in Timer \ workers_' : at'[w] = "none"
  <2>1. CASE Cardinality(workers_) < ThreadPoolSize
    <3>1. /\ working_' = [working_ EXCEPT ![t] = TRUE] /\ at' = [at EXCEPT ![t] = "loop"]
          /\ workers_' = workers_ \cup {t}
      BY <2>1 DEF StartTimer
    <3>2. at[t] = "none"
      BY <1>1 DEF TimersTypeOK, StopInv
    <3>3. QED
      BY <3>1, <3>2 DEF TimersTypeOK, StopInv
  <2>2. CASE ~ (Cardinality(workers_) < ThreadPoolSize)
    BY <2>2 DEF StartTimer, TimersTypeOK, StopInv
  <2>3. QED
    BY <2>1, <2>2
<1>4. handlers' \in Seq(started' \X BOOLEAN)
  <2>1. handlers \in Seq(started \X BOOLEAN) /\ started \subseteq started'
    BY <1>1 DEF TimersTypeOK
  <2>2. QED
    BY <1>1, <2>1, HandlerQueue
<1>5. TimersTypeOK'
  BY <1>1, <1>2, <1>3, <1>4 DEF TimersTypeOK
(* Nothing of a timer that was not started is anywhere.                    *)
<1>6. /\ \A w \in Timer : handling[w] # t
      /\ \A i \in DOMAIN handlers : handlers[i][1] # t
  <2>1. \A w \in Timer : handling[w] # t
    BY <1>1 DEF TimersTypeOK
  <2>2. \A i \in DOMAIN handlers : handlers[i][1] \in started
    BY HandlerQueue DEF TimersTypeOK
  <2>3. QED
    BY <1>1, <2>1, <2>2
<1>7. OnePlaceInv'
  BY <1>1, <1>3, <1>6 DEF OnePlaceInv
<1>8. StopInv'
  BY <1>1, <1>2, <1>3 DEF StopInv
<1>9. QED
  BY <1>5, <1>7, <1>8

LEMMA StopKeeps ==
  ASSUME TimersIInv, CallStopTimers \/ StopService \/ JoinAll
  PROVE  TimersIInv'
<1> USE DEF TimersIInv
<1>1. UNCHANGED <<started, waiting, handlers, workers_, working_, at, handling>>
  BY DEF CallStopTimers, StopService, JoinAll, serviceVars, workerVars
<1>2. TimersTypeOK'
  BY <1>1 DEF CallStopTimers, StopService, JoinAll, serviceVars, workerVars, TimersTypeOK
<1>3. OnePlaceInv'
  BY <1>1 DEF OnePlaceInv
<1>4. CASE CallStopTimers \/ StopService
  BY <1>1, <1>2, <1>3, <1>4 DEF CallStopTimers, StopService, serviceVars, StopInv
<1>5. CASE JoinAll
  <2>1. \A w \in Timer : at[w] # "handler"
    BY <1>5 DEF JoinAll, StopInv
  <2>2. QED
    BY <1>1, <1>2, <1>3, <1>5, <2>1 DEF JoinAll, serviceVars, StopInv
<1>6. QED
  BY <1>4, <1>5

(* A timer goes from waiting into the queue: it expires or is cancelled.   *)
LEMMA QueueKeeps ==
  ASSUME TimersIInv, NEW t \in waiting, NEW b \in BOOLEAN,
         waiting' = waiting \ {t}, handlers' = Append(handlers, <<t, b>>),
         UNCHANGED <<started, at, handling>>
  PROVE  waiting' \subseteq started' /\ handlers' \in Seq(started' \X BOOLEAN) /\ OnePlaceInv'
<1> USE DEF TimersIInv
<1>1. t \in started /\ handlers \in Seq(started \X BOOLEAN) /\ waiting' \subseteq started
  BY DEF TimersTypeOK
<1>2. PICK n : n = Len(handlers) + 1
  OBVIOUS
<1>3. /\ handlers' \in Seq(started \X BOOLEAN)
      /\ DOMAIN handlers' = DOMAIN handlers \cup {n} /\ n \notin DOMAIN handlers
      /\ handlers'[n][1] = t
      /\ \A i \in DOMAIN handlers : handlers'[i] = handlers[i]
  BY <1>1, <1>2, AppendHandler
<1>4. OnePlaceInv'
  BY <1>3 DEF OnePlaceInv
<1>5. QED
  BY <1>1, <1>3, <1>4

LEMMA StopWorkerKeeps ==
  ASSUME TimersIInv, NEW w \in Timer, StopWorker(w)
  PROVE  TimersIInv'
<1> USE DEF TimersIInv
<1>1. /\ client = "stopping" /\ toStop' \subseteq toStop
      /\ working_' = [working_ EXCEPT ![w] = FALSE]
      /\ UNCHANGED <<client, started, stopped, workers_, at, handling>>
  BY DEF StopWorker
<1>2. waiting' \subseteq started' /\ handlers' \in Seq(started' \X BOOLEAN) /\ OnePlaceInv'
  <2>1. CASE w \in waiting
    BY <1>1, <2>1, QueueKeeps DEF StopWorker, Cancel
  <2>2. CASE w \notin waiting
    <3>1. UNCHANGED <<waiting, handlers>>
      BY <2>2 DEF StopWorker, Cancel
    <3>2. QED
      BY <1>1, <3>1 DEF TimersTypeOK, OnePlaceInv
  <2>3. QED
    BY <2>1, <2>2
<1>3. TimersTypeOK'
  BY <1>1, <1>2 DEF TimersTypeOK
<1>4. StopInv'
  BY <1>1 DEF StopInv
<1>5. QED
  BY <1>2, <1>3, <1>4

-----------------------------------------------------------------------------
(* The io_service and the worker threads.                                  *)
LEMMA ExpiresKeeps ==
  ASSUME TimersIInv, NEW t \in Timer, Expires(t)
  PROVE  TimersIInv'
<1> USE DEF TimersIInv, Expires, clientVars, workerVars
<1>1. waiting' \subseteq started' /\ handlers' \in Seq(started' \X BOOLEAN) /\ OnePlaceInv'
  BY QueueKeeps
<1>2. TimersTypeOK'
  BY <1>1 DEF TimersTypeOK
<1>3. StopInv'
  BY DEF StopInv
<1>4. QED
  BY <1>1, <1>2, <1>3

(* The places of a worker that has nothing to do with handlers.            *)
LEMMA LoopKeeps ==
  ASSUME TimersIInv, NEW w \in Timer, CheckWorking(w) \/ RunReturns(w)
  PROVE  TimersIInv'
<1> USE DEF TimersIInv
<1>1. PICK to \in {"run", "done", "loop"} :
        /\ at[w] \in {"loop", "run"} /\ at' = [at EXCEPT ![w] = to]
  BY DEF CheckWorking, RunReturns, GoesOn
<1>2. /\ UNCHANGED <<clientVars, waiting, handlers, workers_, working_, handling>>
      /\ stopped' \in BOOLEAN /\ (stopped => stopped')
  BY DEF CheckWorking, RunReturns, serviceVars, TimersTypeOK
<1>3. TimersTypeOK'
  BY <1>1, <1>2 DEF TimersTypeOK, clientVars
<1>4. OnePlaceInv'
  BY <1>1, <1>2 DEF OnePlaceInv, TimersTypeOK
<1>5. StopInv'
  BY <1>1, <1>2 DEF StopInv, TimersTypeOK, clientVars
<1>6. QED
  BY <1>3, <1>4, <1>5

(* The first handler of the queue goes to a worker, or is dropped.         *)
LEMMA RunHandlerKeeps ==
  ASSUME TimersIInv, NEW w \in Timer, RunHandler(w)
  PROVE  TimersIInv'
<1> USE DEF TimersIInv
<1>1. /\ at[w] = "run" /\ ~ stopped /\ handlers # <<>> /\ handlers' = Tail(handlers)
      /\ UNCHANGED <<client, toStop, started, waiting, stopped, workers_, working_>>
  BY DEF RunHandler, GoesOn, clientVars
<1>2. PICK t : t = Head(handlers)[1]
  OBVIOUS
<1>3. handlers \in Seq(started \X BOOLEAN)
  BY DEF TimersTypeOK
<1>4. /\ handlers' \in Seq(started \X BOOLEAN)
      /\ 1 \in DOMAIN handlers /\ t = handlers[1][1] /\ t \in started
      /\ \A i \in DOMAIN handlers' :
           /\ i + 1 \in DOMAIN handlers /\ i + 1 # 1 /\ handlers'[i] = handlers[i + 1]
           /\ \A j \in DOMAIN handlers' : i # j => i + 1 # j + 1
  BY <1>1, <1>2, <1>3, HandlerQueue, TailOfHandlers
<1>5. \/ UNCHANGED <<at, handling>>
      \/ at' = [at EXCEPT ![w] = "handler"] /\ handling' = [handling EXCEPT ![w] = t]
  BY <1>1, <1>2 DEF RunHandler, GoesOn
<1>6. TimersTypeOK'
  BY <1>1, <1>4, <1>5 DEF TimersTypeOK
<1>7. t # NoTimer /\ handling[w] = NoTimer
  BY <1>1, <1>4, PoolAssumption DEF TimersTypeOK, OnePlaceInv
<1>8. \A i \in DOMAIN handlers' :
        /\ handlers'[i][1] # t /\ handlers'[i][1] \notin waiting
        /\ \A j \in DOMAIN handlers' : i # j => handlers'[i][1] # handlers'[j][1]
        /\ \A v \in Timer : handlers'[i][1] # handling[v]
  <2>1. ASSUME NEW i \in DOMAIN handlers'
        PROVE  /\ handlers'[i][1] # t /\ handlers'[i][1] \notin waiting
               /\ \A j \in DOMAIN handlers' : i # j => handlers'[i][1] # handlers'[j][1]
               /\ \A v \in Timer : handlers'[i][1] # handling[v]
    BY <1>4 DEF OnePlaceInv
  <2>2. QED
    BY <2>1
<1>9. t \notin waiting /\ \A v \in Timer : handling[v] # t
  BY <1>4 DEF OnePlaceInv
<1>10. OnePlaceInv'
  <2>1. CASE UNCHANGED <<at, handling>>
    BY <1>1, <1>8, <2>1 DEF OnePlaceInv
  <2>2. CASE at' = [at EXCEPT ![w] = "handler"] /\ handling' = [handling EXCEPT ![w] = t]
    BY <1>1, <1>7, <1>8, <1>9, <2>2 DEF OnePlaceInv, TimersTypeOK
  <2>3. QED
    BY <1>5, <2>1, <2>2
<1>11. StopInv'
  BY <1>1, <1>5 DEF StopInv, TimersTypeOK
<1>12. QED
  BY <1>6, <1>10, <1>11

(* The timer a worker had in its hands waits again.                        *)
LEMMA HandlerReturnsKeeps ==
  ASSUME TimersIInv, NEW w \in Timer, HandlerReturns(w)
  PROVE  TimersIInv'
<1> USE DEF TimersIInv
<1>1. /\ at[w] = "handler" /\ at' = [at EXCEPT ![w] = "run"]
      /\ waiting' = waiting \cup {handling[w]}
      /\ handling' = [handling EXCEPT ![w] = NoTimer]
      /\ UNCHANGED <<client, toStop, started, handlers, stopped, workers_, working_>>
  BY DEF HandlerReturns, GoesOn, clientVars
<1>2. handling[w] \in started /\ handling[w] # NoTimer /\ NoTimer \notin started
  BY <1>1, PoolAssumption DEF TimersTypeOK, OnePlaceInv
<1>3. TimersTypeOK'
  BY <1>1, <1>2 DEF TimersTypeOK
<1>4. OnePlaceInv'
  <2>1. NoTimer \notin waiting'
    BY <1>1, <1>2 DEF TimersTypeOK
  <2>2. \A v \in Timer \ {w} : handling[v] # handling[w]
    BY <1>2 DEF OnePlaceInv
  <2>3. \A i \in DOMAIN handlers : handlers[i][1] # NoTimer
    BY <1>2, HandlerQueue DEF TimersTypeOK
  <2>4. QED
    BY <1>1, <2>1, <2>2, <2>3 DEF OnePlaceInv, TimersTypeOK
<1>5. StopInv'
  BY <1>1 DEF StopInv, TimersTypeOK
<1>6. QED
  BY <1>3, <1>4, <1>5

LEMMA TimersInvariant == TimersSpec => []TimersIInv
<1>1. TimersInit => TimersIInv
  BY TimersInvInit
<1>2. TimersIInv /\ [TimersNext]_timersVars => TimersIInv'
  <2>1. TimersIInv /\ UNCHANGED timersVars => TimersIInv'
    BY DEF timersVars, clientVars, serviceVars, workerVars, TimersIInv, TimersTypeOK, OnePlaceInv, StopInv
  <2>2. QED
    BY <2>1, StartTimerKeeps, StopKeeps, StopWorkerKeeps, ExpiresKeeps, LoopKeeps,
       RunHandlerKeeps, HandlerReturnsKeeps DEF TimersNext, StopTimers, Work
<1>3. QED
  BY <1>1, <1>2, PTL DEF TimersSpec

-----------------------------------------------------------------------------
(* Every variable has its type; the pool never outgrows its size.          *)
THEOREM TimersTypeCorrect == TimersSpec => []TimersTypeOK
<1>1. TimersIInv => TimersTypeOK
  BY DEF TimersIInv
<1>2. QED
  BY <1>1, TimersInvariant, PTL

(* A timer's callable is never called by two workers at once.              *)
THEOREM NoOverlap == TimersSpec => []CallbacksDoNotOverlap
<1>1. TimersIInv => CallbacksDoNotOverlap
  BY DEF TimersIInv, TimersTypeOK, OnePlaceInv, CallbacksDoNotOverlap
<1>2. QED
  BY <1>1, TimersInvariant, PTL

(* When stopTimers has returned, no callable is being called, and none     *)
(* will be, not even of a timer started afterwards.                        *)
THEOREM StopIsFinal == TimersSpec => []NoCallbackAfterStop
<1>1. TimersIInv => NoCallbackAfterStop
  BY DEF TimersIInv, TimersTypeOK, OnePlaceInv, StopInv, NoCallbackAfterStop
<1>2. QED
  BY <1>1, TimersInvariant, PTL

=============================================================================
