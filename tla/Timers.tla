-------------------------------- MODULE Timers --------------------------------
(***************************************************************************)
(* Common::TimersManager, its Workers and EventTimers                      *)
(* (src/src/Common/timersmanager.cpp, eventtimer.cpp) over one             *)
(* boost::asio::io_service.  One client thread calls startTimer and        *)
(* stopTimers; each worker thread runs the io_service in a loop.  Timers   *)
(* are repetitive and have a positive interval, the only kind the code     *)
(* creates.  The program itself starts one timer and never stops it; this  *)
(* module takes the class at its interface.                                *)
(*                                                                         *)
(* A worker is named by the timer it was created with.  stopTimers cancels *)
(* a deadline_timer that a worker may be setting up at that moment; the    *)
(* two unsynchronized calls are taken in either order.                     *)
(***************************************************************************)
EXTENDS FiniteSets, Sequences, Naturals

CONSTANTS
  Timer,           (* the EventTimers there can be                         *)
  NoTimer,         (* a worker is in no handler                            *)
  ThreadPoolSize   (* threadPoolSize_                                      *)

ASSUME PoolAssumption == NoTimer \notin Timer /\ ThreadPoolSize \in Nat \ {0}

VARIABLES
  client,      (* where the client thread is                               *)
  toStop,      (* the workers stopTimers has still to tell                 *)
  waiting,     (* the timers whose async_wait is pending                   *)
  handlers,    (* the io_service's queue: <<timer, whether it expired>>    *)
  stopped,     (* the io_service's flag                                    *)
  started,     (* ghost: the timers startTimer was called for              *)
  workers_,    (* the workers, one thread each                             *)
  working_,    (* their indicators                                         *)
  at,          (* where each worker thread is                              *)
  handling     (* the timer whose handler it is in                         *)

clientVars == <<client, toStop, started>>
serviceVars == <<waiting, handlers, stopped>>
workerVars == <<workers_, working_, at, handling>>
timersVars == <<clientVars, serviceVars, workerVars>>

TimersInit ==
  /\ client = "ready" /\ toStop = {} /\ started = {}
  /\ waiting = {} /\ handlers = <<>> /\ stopped = FALSE
  /\ workers_ = {} /\ working_ = [w \in Timer |-> FALSE]
  /\ at = [w \in Timer |-> "none"] /\ handling = [w \in Timer |-> NoTimer]

GoesOn(w, from, to) == at[w] = from /\ at' = [at EXCEPT ![w] = to]

-----------------------------------------------------------------------------
(* The client thread.                                                      *)

(* Mutant: the pool's size is ignored.                                     *)
StartTimerUnpooled(t) ==
  /\ client \in {"ready", "stopped"} /\ t \notin started
  /\ started' = started \cup {t}
  /\ waiting' = waiting \cup {t}
  /\ workers_' = workers_ \cup {t}
  /\ working_' = [working_ EXCEPT ![t] = TRUE]
  /\ at' = [at EXCEPT ![t] = "loop"]
  /\ UNCHANGED <<client, toStop, handlers, stopped, handling>>

(* The timer is set up; a worker is created while the pool is not full,    *)
(* whether or not stopTimers was called before.                            *)
StartTimer(t) ==
  /\ client \in {"ready", "stopped"} /\ t \notin started
  /\ started' = started \cup {t}
  /\ waiting' = waiting \cup {t}
  /\ IF Cardinality(workers_) < ThreadPoolSize
     THEN /\ workers_' = workers_ \cup {t}
          /\ working_' = [working_ EXCEPT ![t] = TRUE]
          /\ at' = [at EXCEPT ![t] = "loop"]
     ELSE UNCHANGED <<workers_, working_, at>>
  /\ UNCHANGED <<client, toStop, handlers, stopped, handling>>

CallStopTimers ==
  /\ client = "ready"
  /\ client' = "stopping" /\ toStop' = workers_
  /\ UNCHANGED <<started, serviceVars, workerVars>>

(* deadline_timer::cancel: a pending wait ends with an error, a handler    *)
(* that is queued already stays as it is.                                  *)
Cancel(t) ==
  /\ waiting' = waiting \ {t}
  /\ handlers' = IF t \in waiting THEN Append(handlers, <<t, FALSE>>) ELSE handlers

(* One iteration over workers_.                                            *)
StopWorker(w) ==
  /\ client = "stopping" /\ w \in toStop
  /\ toStop' = toStop \ {w}
  /\ working_' = [working_ EXCEPT ![w] = FALSE]
  /\ Cancel(w)
  /\ UNCHANGED <<client, started, stopped, workers_, at, handling>>

(* Mutant: the timers are cancelled, the io_service is not stopped.        *)
StopNothing ==
  /\ client = "stopping" /\ toStop = {}
  /\ client' = "joining"
  /\ UNCHANGED <<toStop, started, serviceVars, workerVars>>

StopService ==
  /\ client = "stopping" /\ toStop = {}
  /\ stopped' = TRUE
  /\ client' = "joining"
  /\ UNCHANGED <<toStop, started, waiting, handlers, workerVars>>

(* Mutant: the threads are not waited for.                                 *)
JoinNobody ==
  /\ client = "joining"
  /\ client' = "stopped"
  /\ UNCHANGED <<toStop, started, serviceVars, workerVars>>

JoinAll ==
  /\ client = "joining" /\ \A w \in workers_ : at[w] = "done"
  /\ client' = "stopped"
  /\ UNCHANGED <<toStop, started, serviceVars, workerVars>>

-----------------------------------------------------------------------------
(* The io_service.                                                         *)

(* Time passes; the expiry is noticed by a thread inside run().            *)
Expires(t) ==
  /\ t \in waiting /\ ~ stopped /\ \E w \in workers_ : at[w] = "run"
  /\ waiting' = waiting \ {t}
  /\ handlers' = Append(handlers, <<t, TRUE>>)
  /\ UNCHANGED <<clientVars, stopped, workerVars>>

-----------------------------------------------------------------------------
(* A worker thread.                                                        *)

(* The loop's condition.                                                   *)
CheckWorking(w) ==
  /\ IF working_[w] THEN GoesOn(w, "loop", "run") ELSE GoesOn(w, "loop", "done")
  /\ UNCHANGED <<clientVars, serviceVars, workers_, working_, handling>>

(* Mutant: the next wait is set up before the callable is called.          *)
RunHandlerRearmed(w) ==
  /\ GoesOn(w, "run", "handler")
  /\ ~ stopped /\ handlers # <<>>
  /\ handling' = [handling EXCEPT ![w] = Head(handlers)[1]]
  /\ waiting' = waiting \cup {Head(handlers)[1]}
  /\ handlers' = Tail(handlers)
  /\ UNCHANGED <<clientVars, stopped, workers_, working_>>

(* run() takes the next handler: that of a timer that expired calls the    *)
(* callable, that of a cancelled one returns at once.                      *)
RunHandler(w) ==
  /\ IF handlers # <<>> /\ Head(handlers)[2]
     THEN /\ GoesOn(w, "run", "handler")
          /\ handling' = [handling EXCEPT ![w] = Head(handlers)[1]]
     ELSE at[w] = "run" /\ UNCHANGED <<at, handling>>
  /\ ~ stopped /\ handlers # <<>>
  /\ handlers' = Tail(handlers)
  /\ UNCHANGED <<clientVars, waiting, stopped, workers_, working_>>

(* Mutant: the timer fires once.                                           *)
HandlerReturnsOnce(w) ==
  /\ GoesOn(w, "handler", "run")
  /\ handling' = [handling EXCEPT ![w] = NoTimer]
  /\ UNCHANGED <<clientVars, serviceVars, workers_, working_>>

(* The callable returned; the timer is set up again.                       *)
HandlerReturns(w) ==
  /\ GoesOn(w, "handler", "run")
  /\ waiting' = waiting \cup {handling[w]}
  /\ handling' = [handling EXCEPT ![w] = NoTimer]
  /\ UNCHANGED <<clientVars, handlers, stopped, workers_, working_>>

OutOfWork ==
  waiting = {} /\ handlers = <<>> /\ \A w \in Timer : handling[w] = NoTimer

(* run() returns because the io_service was stopped, or because there is   *)
(* nothing to wait for, which stops it, too.                               *)
RunReturns(w) ==
  /\ stopped \/ OutOfWork
  /\ GoesOn(w, "run", "loop")
  /\ stopped' = TRUE
  /\ UNCHANGED <<clientVars, waiting, handlers, workers_, working_, handling>>

-----------------------------------------------------------------------------
StopTimers == (\E w \in Timer : StopWorker(w)) \/ StopService \/ JoinAll

Work(w) == CheckWorking(w) \/ RunHandler(w) \/ HandlerReturns(w) \/ RunReturns(w)

TimersNext ==
  \/ \E t \in Timer : StartTimer(t) \/ Expires(t)
  \/ CallStopTimers \/ StopTimers
  \/ \E w \in Timer : Work(w)

TimersSpec == TimersInit /\ [][TimersNext]_timersVars

(* Time passes, threads run and callables return.  An expiry is noticed    *)
(* only while a thread is inside run(), which the threads leave and enter: *)
(* it waits for such a moment, hence strong fairness.  Nothing obliges the *)
(* client to call anything, but a call it made goes on.                    *)
TimersFairSpec ==
  /\ TimersSpec
  /\ WF_timersVars(StopTimers)
  /\ \A t \in Timer : SF_timersVars(Expires(t)) /\ WF_timersVars(Work(t))

-----------------------------------------------------------------------------
TimersTypeOK ==
  /\ client \in {"ready", "stopping", "joining", "stopped"}
  /\ toStop \subseteq workers_ /\ workers_ \subseteq started /\ started \subseteq Timer
  /\ waiting \subseteq started /\ handlers \in Seq(started \X BOOLEAN)
  /\ stopped \in BOOLEAN
  /\ Cardinality(workers_) <= ThreadPoolSize
  /\ working_ \in [Timer -> BOOLEAN]
  /\ at \in [Timer -> {"none", "loop", "run", "handler", "done"}]
  /\ handling \in [Timer -> started \cup {NoTimer}]

(* However many workers there are, a timer's callable is never called by   *)
(* two of them at once: its next wait begins when the call is over.        *)
CallbacksDoNotOverlap ==
  \A v, w \in workers_ : v # w /\ handling[v] # NoTimer => handling[v] # handling[w]

(* timersmanager.h:37, "This won't fire any trigger": when stopTimers has  *)
(* returned, no callable is being called, and none will be, not even of a  *)
(* timer started afterwards.                                               *)
NoCallbackAfterStop == client = "stopped" => \A w \in workers_ : handling[w] = NoTimer

(* stopTimers returns, though it cancels only the timers of workers and a  *)
(* handler under way sets its timer up again.                              *)
StopTimersReturns == (client = "stopping") ~> (client = "stopped")

(* A timer that is waiting fires, as long as stopTimers is not called: the *)
(* io_service never runs out of work in between, and no timer waits behind *)
(* others for ever.                                                        *)
TimersFire ==
  \A t \in Timer :
    (t \in waiting /\ client = "ready")
      ~> ((\E w \in workers_ : handling[w] = t) \/ client # "ready")

=============================================================================
