----------------------------- MODULE Application -----------------------------
(***************************************************************************)
(* The running program (src/src/main.cpp) after its construction: the      *)
(* timer thread, the controller thread and the GUI thread.                 *)
(*                                                                         *)
(*   timer  -- TimerTick ------------> blockingQueue_ --> controller       *)
(*   GUI    -- MapSnapshotRequested -> blockingQueue_ --> controller       *)
(*   GUI    -- QuitRequested --------> blockingQueue_ --> controller       *)
(*   controller -- queued signals --> events ----------> GUI               *)
(*                                                                         *)
(* blockingQueue_ is used through MessageQueue, which module BlockingQueue *)
(* implements.  A queued Qt signal is an element of events; the GUI thread *)
(* takes them in order.  Each redrawing of the scene asks the controller   *)
(* for the map again, so the two queues feed each other.                   *)
(***************************************************************************)
EXTENDS MessageQueue, Naturals, FiniteSets

CONSTANTS
  TrackId,     (* the tracks a snapshot may hold                           *)
  MaxTicks,    (* bound: how often the timer fires                         *)
  MaxQuits     (* bound: how often the user chooses Quit                   *)

ASSUME BoundsAssumption == MaxTicks \in Nat /\ MaxQuits \in Nat

(* The messages that are sent, and a thread to read them.                  *)
ASSUME MessageAssumption ==
  {"TimerTick", "MapSnapshotRequested", "QuitRequested"} \subseteq Value /\ Consumer # {}

VARIABLES
  pc,          (* where the controller thread is                           *)
  working_,    (* MainController's flag                                    *)
  shown,       (* the tracks showState has still to hand to the renderer   *)
  staticMap_,  (* DataManager's: whether the map has been read             *)
  snapshotNo,  (* ghost: computeState calls that returned                  *)
  events,      (* the GUI thread's queue of posted signals                 *)
  scene,       (* the tracks drawn, each with its snapshot's number        *)
  streets,     (* how often the streets of the map are drawn               *)
  window,      (* whether the main window is open                          *)
  process,     (* "running", "exited" (app.exec returned), "aborted"       *)
  ticks, quits (* ghost: ticks fired, Quits chosen                         *)

controllerVars == <<pc, working_, shown, staticMap_, snapshotNo>>
guiVars == <<scene, streets, window>>
vars == <<mqVars, controllerVars, events, guiVars, process, ticks, quits>>

Controller == CHOOSE c \in Consumer : TRUE
msg == result[Controller]

Track(n, t) == [type |-> "addTrack", snapshot |-> n, track |-> t]
Signal(type) == [type |-> type]

(* The renderer's constructor already asked for the map.                   *)
Init ==
  /\ queue_ = <<"MapSnapshotRequested">>
  /\ result = [c \in Consumer |-> NoValue]
  /\ pc = "pop" /\ working_ = TRUE /\ shown = {}
  /\ staticMap_ = FALSE /\ snapshotNo = 0
  /\ events = <<>> /\ scene = {} /\ streets = 0 /\ window = TRUE
  /\ process = "running" /\ ticks = 0 /\ quits = 0

Running == process = "running"

Emit(e) == events' = Append(events, e)

-----------------------------------------------------------------------------
(* The timer thread: RefreshEventProducer.                                 *)
TimerTick ==
  /\ Running /\ ticks < MaxTicks
  /\ ticks' = ticks + 1
  /\ Push("TimerTick")
  /\ UNCHANGED <<controllerVars, events, guiVars, process, quits>>

-----------------------------------------------------------------------------
(* The controller thread: MainController::operator() and MessageDispatcher.*)

PopMessage ==
  /\ Running /\ pc = "pop" /\ working_
  /\ Pop(Controller)
  /\ pc' = msg'
  /\ UNCHANGED <<working_, shown, staticMap_, snapshotNo, events, guiVars, process, ticks, quits>>

VisitQuitRequested ==
  /\ Running /\ pc = "QuitRequested"
  /\ working_' = FALSE
  /\ pc' = "pop"
  /\ UNCHANGED <<mqVars, shown, staticMap_, snapshotNo, events, guiVars, process, ticks, quits>>

(* Mutant: the scene is cleared before the streets are drawn.              *)
VisitMapSnapshotRequestedClears ==
  /\ Running /\ pc = "MapSnapshotRequested"
  /\ staticMap_' = TRUE
  /\ events' = events \o <<Signal("clearScene"), Signal("addStreets")>>
  /\ pc' = "pop"
  /\ UNCHANGED <<mqVars, working_, shown, snapshotNo, guiVars, process, ticks, quits>>

(* getMap reads the map once and keeps it.  worldStateChange: one signal   *)
(* stands for those of all streets.                                        *)
VisitMapSnapshotRequested ==
  /\ Running /\ pc = "MapSnapshotRequested"
  /\ staticMap_' = TRUE
  /\ Emit(Signal("addStreets"))
  /\ pc' = "pop"
  /\ UNCHANGED <<mqVars, working_, shown, snapshotNo, guiVars, process, ticks, quits>>

(* Mutant: the scene is not cleared.                                       *)
VisitTimerTickNoClear ==
  /\ Running /\ pc = "TimerTick"
  /\ snapshotNo' = snapshotNo + 1
  /\ shown' \in SUBSET TrackId
  /\ pc' = "showState"
  /\ UNCHANGED <<mqVars, working_, staticMap_, events, guiVars, process, ticks, quits>>

(* computeState returns a snapshot, and showState begins to show it.       *)
VisitTimerTick ==
  /\ Running /\ pc = "TimerTick"
  /\ snapshotNo' = snapshotNo + 1
  /\ shown' \in SUBSET TrackId
  /\ Emit(Signal("clearScene"))
  /\ pc' = "showState"
  /\ UNCHANGED <<mqVars, working_, staticMap_, guiVars, process, ticks, quits>>

(* A handler throws, because computeState or the first reading of the map  *)
(* fails, or the factor a track is drawn with is missing: nothing catches  *)
(* it in the controller thread.  Module Process has when that is.          *)
VisitThrows ==
  /\ Running
  /\ \/ pc = "TimerTick"
     \/ pc = "MapSnapshotRequested" /\ ~ staticMap_
     \/ pc = "showState" /\ shown # {}
  /\ process' = "aborted"
  /\ UNCHANGED <<mqVars, controllerVars, events, guiVars, ticks, quits>>

ShowTrack(t) ==
  /\ Running /\ pc = "showState" /\ t \in shown
  /\ Emit(Track(snapshotNo, t))
  /\ shown' = shown \ {t}
  /\ UNCHANGED <<mqVars, pc, working_, staticMap_, snapshotNo, guiVars, process, ticks, quits>>

Shown ==
  /\ Running /\ pc = "showState" /\ shown = {}
  /\ pc' = "pop"
  /\ UNCHANGED <<mqVars, working_, shown, staticMap_, snapshotNo, events, guiVars, process, ticks, quits>>

(* The main loop is left: the window is told to close ...                  *)
LeaveMainLoop ==
  /\ Running /\ pc = "pop" /\ ~ working_
  /\ Emit(Signal("close"))
  /\ pc' = "left"
  /\ UNCHANGED <<mqVars, working_, shown, staticMap_, snapshotNo, guiVars, process, ticks, quits>>

(* Mutants: the signal has another name; the wrapper does not emit it.     *)
EmitOtherSignal ==
  /\ Running /\ pc = "left"
  /\ Emit(Signal("quit"))
  /\ pc' = "eventLoop"
  /\ UNCHANGED <<mqVars, working_, shown, staticMap_, snapshotNo, guiVars, process, ticks, quits>>

EmitNothing ==
  /\ Running /\ pc = "left"
  /\ pc' = "eventLoop"
  /\ UNCHANGED <<mqVars, working_, shown, staticMap_, snapshotNo, events, guiVars, process, ticks, quits>>

(* ... and QtControllerWrapper emits quit to its thread.                   *)
EmitQuit ==
  /\ Running /\ pc = "left"
  /\ Emit(Signal("threadQuit"))
  /\ pc' = "eventLoop"
  /\ UNCHANGED <<mqVars, working_, shown, staticMap_, snapshotNo, guiVars, process, ticks, quits>>

(* The thread's own event loop was told to quit: finished() is emitted.    *)
ThreadFinishes ==
  /\ Running /\ pc = "quitting"
  /\ Emit(Signal("applicationQuit"))
  /\ pc' = "finished"
  /\ UNCHANGED <<mqVars, working_, shown, staticMap_, snapshotNo, guiVars, process, ticks, quits>>

-----------------------------------------------------------------------------
(* The GUI thread.                                                         *)

(* The Quit action of the menu.                                            *)
ChooseQuit ==
  /\ Running /\ window /\ quits < MaxQuits
  /\ quits' = quits + 1
  /\ Push("QuitRequested")
  /\ UNCHANGED <<controllerVars, events, guiVars, process, ticks>>

(* The user closes the window; WA_QuitOnClose is off, nothing else happens.*)
CloseWindow ==
  /\ Running /\ window
  /\ window' = FALSE
  /\ UNCHANGED <<mqVars, controllerVars, events, scene, streets, process, ticks, quits>>

Deliver(type) == Running /\ events # <<>> /\ Head(events).type = type /\ events' = Tail(events)

(* Mutant: the scene is cleared and its background not asked for.          *)
PerformClearSceneOnly ==
  /\ Deliver("clearScene")
  /\ scene' = {} /\ streets' = 0
  /\ UNCHANGED <<mqVars, controllerVars, window, process, ticks, quits>>

PerformClearScene ==
  /\ Deliver("clearScene")
  /\ scene' = {} /\ streets' = 0
  /\ Push("MapSnapshotRequested")
  /\ UNCHANGED <<controllerVars, window, process, ticks, quits>>

PerformAddTrack ==
  /\ Deliver("addTrack")
  /\ scene' = scene \cup {<<Head(events).snapshot, Head(events).track>>}
  /\ UNCHANGED <<mqVars, controllerVars, streets, window, process, ticks, quits>>

PerformAddStreets ==
  /\ Deliver("addStreets")
  /\ streets' = streets + 1
  /\ UNCHANGED <<mqVars, controllerVars, scene, window, process, ticks, quits>>

(* Mutant: WA_QuitOnClose is left on.                                      *)
PerformCloseAndQuit ==
  /\ Deliver("close")
  /\ window' = FALSE /\ process' = "exited"
  /\ UNCHANGED <<mqVars, controllerVars, scene, streets, ticks, quits>>

PerformClose ==
  /\ Deliver("close")
  /\ window' = FALSE
  /\ UNCHANGED <<mqVars, controllerVars, scene, streets, process, ticks, quits>>

(* QThread::quit                                                           *)
PerformThreadQuit ==
  /\ Deliver("threadQuit")
  /\ pc' = "quitting"
  /\ UNCHANGED <<mqVars, working_, shown, staticMap_, snapshotNo, guiVars, process, ticks, quits>>

(* QApplication::quit: app.exec() returns and main with it.                *)
PerformApplicationQuit ==
  /\ Deliver("applicationQuit")
  /\ process' = "exited"
  /\ UNCHANGED <<mqVars, controllerVars, guiVars, ticks, quits>>

-----------------------------------------------------------------------------
ControllerThread ==
  \/ PopMessage \/ VisitQuitRequested \/ VisitMapSnapshotRequested
  \/ VisitTimerTick \/ VisitThrows
  \/ (\E t \in TrackId : ShowTrack(t)) \/ Shown
  \/ LeaveMainLoop \/ EmitQuit \/ ThreadFinishes

EventLoop ==
  \/ PerformClearScene \/ PerformAddTrack \/ PerformAddStreets
  \/ PerformClose \/ PerformThreadQuit \/ PerformApplicationQuit

Next == TimerTick \/ ControllerThread \/ EventLoop \/ ChooseQuit \/ CloseWindow

Spec == Init /\ [][Next]_vars

(* Both threads keep running.  Nothing obliges the timer to fire or the    *)
(* user to act.                                                            *)
FairSpec == Spec /\ WF_vars(ControllerThread) /\ WF_vars(EventLoop)

-----------------------------------------------------------------------------
Count(seq, S) == Cardinality({i \in DOMAIN seq : seq[i] \in S})

TypeOK ==
  /\ queue_ \in Seq(Value) /\ msg \in Value \cup {NoValue}
  /\ pc \in Value \cup {"pop", "showState", "left", "eventLoop", "quitting", "finished"}
  /\ working_ \in BOOLEAN /\ staticMap_ \in BOOLEAN
  /\ shown \subseteq TrackId /\ snapshotNo \in 0 .. MaxTicks
  /\ \A i \in DOMAIN events :
       \/ events[i] \in {Track(n, t) : n \in 1 .. MaxTicks, t \in TrackId}
       \/ events[i] \in {Signal(s) : s \in {"clearScene", "addStreets", "close",
                                            "threadQuit", "applicationQuit"}}
  /\ scene \subseteq (1 .. MaxTicks) \X TrackId /\ streets \in Nat
  /\ window \in BOOLEAN /\ process \in {"running", "exited", "aborted"}
  /\ ticks \in 0 .. MaxTicks /\ quits \in 0 .. MaxQuits

(* The scene never mixes the tracks of two snapshots, though the GUI draws *)
(* one snapshot while the controller is already emitting the next.         *)
SceneIsOneSnapshot == \A x, y \in scene : x[1] = y[1]

(* The event loop, and with it the view, is there until the controller     *)
(* thread has left its main loop and finished.                             *)
GuiOutlivesController == process = "exited" => pc = "finished" /\ ~ window

(* Clearing the scene makes the GUI ask for the map, answering makes the   *)
(* GUI draw: this feedback between the two queues does not multiply.  Each *)
(* tick brings at most one more request, signal or answer under way.       *)
FeedbackIsBounded ==
  Count(queue_, {"MapSnapshotRequested"})
  + (IF pc = "MapSnapshotRequested" THEN 1 ELSE 0)
  + Count(events, {Signal("clearScene"), Signal("addStreets")})
  <= ticks + 1

QuitPending == \E i \in DOMAIN queue_ : queue_[i] = "QuitRequested"

(* A chosen Quit ends the process, whatever is queued before it.           *)
QuitEndsProcess == QuitPending ~> ~ Running

(* A scene without its background gets it back, unless the program ends.   *)
BackgroundReturns == streets = 0 ~> (streets > 0 \/ ~ working_ \/ ~ Running)

=============================================================================
