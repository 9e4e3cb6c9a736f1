---------------------------- MODULE BlockingQueue ----------------------------
(***************************************************************************)
(* Common::BlockingQueue with the NoTimeoutWait policy                     *)
(* (src/src/Common/blockingqueue.hpp), lock and condition variable         *)
(* included.  push() releases the mutex before it notifies; pop() waits in *)
(* condition_variable::wait with a predicate, a loop that gives the mutex  *)
(* up while it waits and looks again after every wakeup, spurious ones     *)
(* included.                                                               *)
(***************************************************************************)
EXTENDS Naturals, Sequences, FiniteSets

CONSTANTS
  Producer,    (* the threads that push: the timer's and the GUI's         *)
  Consumer,    (* the threads that pop: the controller's                   *)
  NoThread,    (* nobody holds the mutex                                   *)
  NoValue,
  MaxPushes    (* bound: how often each producer pushes                    *)

ASSUME ThreadAssumption ==
  /\ NoThread \notin Producer \cup Consumer
  /\ Producer \cap Consumer = {}
  /\ IsFiniteSet(Producer) /\ IsFiniteSet(Consumer)
  /\ MaxPushes \in Nat

Value == Producer \X (1 .. MaxPushes)

VARIABLES
  pc,          (* where each thread is in push or pop                      *)
  mutex_,      (* the thread that holds it                                 *)
  condVar_,    (* the threads blocked on the condition variable            *)
  queue_,      (* the std::queue                                           *)
  result,      (* pop's reference parameter, per consumer                  *)
  pushes       (* ghost: calls of push each producer has begun             *)

vars == <<pc, mutex_, condVar_, queue_, result, pushes>>

Init ==
  /\ pc = [t \in Producer \cup Consumer |-> "idle"]
  /\ mutex_ = NoThread /\ condVar_ = {} /\ queue_ = <<>>
  /\ result = [c \in Consumer |-> NoValue]
  /\ pushes = [p \in Producer |-> 0]

Goto(t, from, to) == pc[t] = from /\ pc' = [pc EXCEPT ![t] = to]

-----------------------------------------------------------------------------
(* push(value)                                                             *)

CallPush(p) ==
  /\ Goto(p, "idle", "push")
  /\ mutex_ = NoThread /\ mutex_' = p
  /\ pushes[p] < MaxPushes
  /\ pushes' = [pushes EXCEPT ![p] = @ + 1]
  /\ UNCHANGED <<condVar_, queue_, result>>

PushValue(p) ==
  /\ Goto(p, "push", "unlock")
  /\ queue_' = Append(queue_, <<p, pushes[p]>>)
  /\ UNCHANGED <<mutex_, condVar_, result, pushes>>

Unlock(p) ==
  /\ Goto(p, "unlock", "notify")
  /\ mutex_' = NoThread
  /\ UNCHANGED <<condVar_, queue_, result, pushes>>

(* Mutant: the wakeup is forgotten.                                        *)
NotifyNobody(p) ==
  /\ Goto(p, "notify", "idle")
  /\ UNCHANGED <<mutex_, condVar_, queue_, result, pushes>>

(* notify_one: one of the blocked threads stops being blocked.             *)
NotifyOne(p) ==
  /\ IF condVar_ = {}
     THEN Goto(p, "notify", "idle") /\ UNCHANGED condVar_
     ELSE \E c \in condVar_ :
            /\ pc[p] = "notify"
            /\ pc' = [pc EXCEPT ![p] = "idle", ![c] = "woken"]
            /\ condVar_' = condVar_ \ {c}
  /\ UNCHANGED <<mutex_, queue_, result, pushes>>

-----------------------------------------------------------------------------
(* pop(result)                                                             *)

CallPop(c) ==
  /\ Goto(c, "idle", "check")
  /\ mutex_ = NoThread /\ mutex_' = c
  /\ UNCHANGED <<condVar_, queue_, result, pushes>>

(* The predicate is false: block and release the mutex, in one step.       *)
Block(c) ==
  /\ Goto(c, "check", "waiting")
  /\ queue_ = <<>>
  /\ mutex_' = NoThread
  /\ condVar_' = condVar_ \cup {c}
  /\ UNCHANGED <<queue_, result, pushes>>

SpuriousWakeup(c) ==
  /\ Goto(c, "waiting", "woken")
  /\ condVar_' = condVar_ \ {c}
  /\ UNCHANGED <<mutex_, queue_, result, pushes>>

(* Mutant: the predicate is looked at without the mutex.                   *)
RelockUnlocked(c) ==
  /\ Goto(c, "woken", "check")
  /\ UNCHANGED <<mutex_, condVar_, queue_, result, pushes>>

Relock(c) ==
  /\ Goto(c, "woken", "check")
  /\ mutex_ = NoThread /\ mutex_' = c
  /\ UNCHANGED <<condVar_, queue_, result, pushes>>

(* The predicate is true.                                                  *)
Checked(c) ==
  /\ Goto(c, "check", "take")
  /\ queue_ # <<>>
  /\ UNCHANGED <<mutex_, condVar_, queue_, result, pushes>>

(* Mutant: the value is read but not removed.                              *)
TakeFrontOnly(c) ==
  /\ Goto(c, "take", "leave")
  /\ result' = [result EXCEPT ![c] = Head(queue_)]
  /\ UNCHANGED <<mutex_, condVar_, queue_, pushes>>

(* Mutant: pop() before front(), the result is what was moved from.        *)
TakeMovedFrom(c) ==
  /\ Goto(c, "take", "leave")
  /\ queue_' = Tail(queue_)
  /\ result' = [result EXCEPT ![c] = NoValue]
  /\ UNCHANGED <<mutex_, condVar_, pushes>>

(* front() and pop() of the std::queue.                                    *)
Take(c) ==
  /\ Goto(c, "take", "leave")
  /\ result' = [result EXCEPT ![c] = Head(queue_)]
  /\ queue_' = Tail(queue_)
  /\ UNCHANGED <<mutex_, condVar_, pushes>>

(* The unique_lock is destroyed.                                           *)
Leave(c) ==
  /\ Goto(c, "leave", "idle")
  /\ mutex_' = NoThread
  /\ UNCHANGED <<condVar_, queue_, result, pushes>>

-----------------------------------------------------------------------------
Produce(p) == CallPush(p) \/ PushValue(p) \/ Unlock(p) \/ NotifyOne(p)

Consume(c) == CallPop(c) \/ Block(c) \/ Relock(c) \/ Checked(c) \/ Take(c) \/ Leave(c)

Next ==
  \/ \E p \in Producer : Produce(p)
  \/ \E c \in Consumer : Consume(c) \/ SpuriousWakeup(c)

Spec == Init /\ [][Next]_vars

(* A thread inside push finishes it, and a consumer keeps calling pop      *)
(* (MainController::operator()); the mutex may be handed to any contender, *)
(* but not withheld from one forever.                                      *)
FairSpec ==
  /\ Spec
  /\ \A p \in Producer : WF_vars(PushValue(p) \/ Unlock(p) \/ NotifyOne(p))
  /\ \A c \in Consumer : SF_vars(CallPop(c) \/ Relock(c))
                         /\ WF_vars(Block(c) \/ Checked(c) \/ Take(c) \/ Leave(c))

-----------------------------------------------------------------------------
Locked == {"push", "unlock", "check", "take", "leave"}

TypeOK ==
  /\ pc \in [Producer \cup Consumer ->
               {"idle", "push", "unlock", "notify", "check", "waiting", "woken", "take", "leave"}]
  /\ mutex_ \in Producer \cup Consumer \cup {NoThread}
  /\ condVar_ \subseteq Consumer
  /\ queue_ \in Seq(Value)
  /\ result \in [Consumer -> Value \cup {NoValue}]
  /\ pushes \in [Producer -> 0 .. MaxPushes]
  /\ \A c \in Consumer : pc[c] = "leave" => result[c] \in Value

(* At most one thread is inside push's or pop's critical section, across   *)
(* waiting and waking up.                                                  *)
MutualExclusion ==
  \A t \in Producer \cup Consumer : pc[t] \in Locked => mutex_ = t

(* Notifying after the mutex was released loses no wakeup: whenever there  *)
(* are values and consumers are blocked, enough others are on their way,   *)
(* consumers to take a value or producers to notify.                       *)
NoLostWakeup ==
  condVar_ # {} =>
    Len(queue_) <= Cardinality({p \in Producer : pc[p] \in {"unlock", "notify"}})
                   + Cardinality({c \in Consumer : pc[c] \in {"woken", "check", "take"}})

MQ == INSTANCE MessageQueue
        WITH Value <- Value, Consumer <- Consumer, NoValue <- NoValue,
             queue_ <- queue_, result <- result

(* The promise of module MessageQueue: push and pop look atomic, although  *)
(* another consumer may take the value between a notification and the      *)
(* wakeup; order is kept, and a value in the queue is eventually popped.   *)
ImplementsMessageQueue == MQ!MQSpec

=============================================================================
