----------------------------- MODULE MessageQueue -----------------------------
(***************************************************************************)
(* What Common::BlockingQueue promises its users: a first-in first-out     *)
(* queue, one step to push and one to pop, from which a value is           *)
(* eventually taken as long as there is one and somebody wants it.         *)
(***************************************************************************)
EXTENDS Sequences

CONSTANTS
  Value,      (* what is pushed                                            *)
  Consumer,   (* the threads that call pop                                 *)
  NoValue     (* what a consumer's result holds before its first pop       *)

VARIABLES
  queue_,     (* the queue                                                 *)
  result      (* result[c]: the value c popped last                        *)

mqVars == <<queue_, result>>

MQInit == queue_ = <<>> /\ result = [c \in Consumer |-> NoValue]

Push(v) ==
  /\ queue_' = Append(queue_, v)
  /\ UNCHANGED result

Pop(c) ==
  /\ queue_ # <<>>
  /\ result' = [result EXCEPT ![c] = Head(queue_)]
  /\ queue_' = Tail(queue_)

MQNext == (\E v \in Value : Push(v)) \/ (\E c \in Consumer : Pop(c))

MQSafety == MQInit /\ [][MQNext]_mqVars

MQSpec == MQSafety /\ WF_mqVars(\E c \in Consumer : Pop(c))

=============================================================================
