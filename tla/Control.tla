------------------------------ MODULE Control -------------------------------
(***************************************************************************)
(* The builtin controller: fairmq/plugins/control/Control.cxx with the     *)
(* StateQueue it waits on, the device control role of PluginServices, and  *)
(* the end of DeviceRunner::Run, composed with the device it controls.     *)
(*                                                                         *)
(* Four threads: the worker (main) runs the device and then destroys the   *)
(* plugin; the controller thread runs the startup sequence and what follows*)
(* it in the configured mode; the signal thread shuts the device down after*)
(* SIGINT or SIGTERM; the rate logger belongs to the device.               *)
(***************************************************************************)
EXTENDS Device, Sequences, Naturals

CONSTANTS
  Modes,     \* values of the "control" property that are considered
  MaxKeys    \* bound on the transition keys pressed in interactive mode

\* The two controllers of the device.
Controller == "controller"
Signal == "signal"

ASSUME ControlAssumption ==
  /\ Controllers = {Controller, Signal}
  /\ Modes \subseteq {"static", "gui", "interactive"}
  /\ MaxKeys \in Nat

VARIABLES
  mode,                      \* the "control" property
  fStateQueue,               \* Control::fStateQueue
  fDeviceShutdownRequested,
  fDeviceHasShutdown,
  fPluginShutdownRequested,
  signalled,                 \* gSignalCount > 0
  fDeviceController,         \* PluginServices::fDeviceController
  fDeviceControllerMutex,    \* its mutex, held across Device::ChangeState
  at,                        \* where the controller and signal threads are
  step,                      \* position in RunStartupSequence
  nextState,                 \* local of RunShutdownSequence, per thread
  keys,                      \* transition keys pressed so far
  main                       \* the main thread after RunStateMachine

queueVars == <<fStateQueue, fDeviceShutdownRequested>>
roleVars == <<fDeviceController, fDeviceControllerMutex>>
flagVars == <<mode, fDeviceHasShutdown, fPluginShutdownRequested, signalled>>
controlVars ==
  <<queueVars, roleVars, flagVars, at, step, nextState, keys, main>>

allVars == <<vars, controlVars>>

\* RunStartupSequence: requests and waits, each wait followed by a return if
\* the shutdown was requested.
StartupSequence ==
  << <<"change", "InitDevice">>,   <<"wait", "InitializingDevice">>,
     <<"change", "CompleteInit">>, <<"wait", "Initialized">>,
     <<"change", "Bind">>,         <<"wait", "Binding">>, <<"wait", "Bound">>,
     <<"change", "Connect">>,      <<"wait", "Connecting">>,
     <<"wait", "DeviceReady">>,
     <<"change", "InitTask">>,     <<"wait", "InitializingTask">>,
     <<"wait", "Ready">>,
     <<"change", "Run">>,          <<"wait", "Running">> >>

InShutdown == {"shutdownRead", "shutdownClear", "shutdownLoop",
               "shutdownChange", "shutdownWait", "shutdownDone"}

ThreadAt ==
  {"startup", "startupChange", "staticWait", "guiWait",
   "repl", "replChange", "replInit", "replInitWait", "replComplete",
   "replCheck", "poll", "notify", "join", "take", "release", "ended"}
  \cup InShutdown

ControlTypeOK ==
  /\ TypeOK
  /\ mode \in Modes
  /\ fStateQueue \in Seq(State)
  /\ {fDeviceShutdownRequested, fDeviceHasShutdown, fPluginShutdownRequested,
      signalled} \subseteq BOOLEAN
  /\ fDeviceController \in {"none", "control"}
  /\ fDeviceControllerMutex \in Threads \cup {None}
  /\ at \in [Controllers -> ThreadAt]
  /\ step \in 1 .. Len(StartupSequence) + 1
  /\ nextState \in [Controllers -> State]
  /\ keys \in 0 .. MaxKeys
  /\ main \in {"running", "destroy", "joinController", "joinSignal", "gone"}

\* Control::Control: control is taken and the threads are started before the
\* device runs its state machine.
ControlInit ==
  /\ Init
  /\ mode \in Modes
  /\ fStateQueue = <<>>
  /\ fDeviceShutdownRequested = FALSE
  /\ fDeviceHasShutdown = FALSE
  /\ fPluginShutdownRequested = FALSE
  /\ signalled = FALSE
  /\ fDeviceController = "control"
  /\ fDeviceControllerMutex = None
  /\ at = [th \in Controllers |->
             IF th = Controller THEN "startup" ELSE "poll"]
  /\ step = 1
  /\ nextState = [th \in Controllers |-> "Ok"]
  /\ keys = 0
  /\ main = "running"

Move(th, to) == at' = [at EXCEPT ![th] = to]

-----------------------------------------------------------------------------
(* StateQueue and the state-change callback that feeds it *)

\* Mutant: Error does not request the shutdown.
PushStateOnly(state) ==
  /\ fStateQueue' = Append(fStateQueue, state)
  /\ fPluginShutdownRequested' = (fPluginShutdownRequested \/ state = "Error")
  /\ UNCHANGED <<fDeviceShutdownRequested, roleVars, mode, fDeviceHasShutdown,
                 signalled, at, step, nextState, keys, main>>

\* The callback Control subscribes.  Error also ends the signal thread's wait
\* and requests the shutdown, inside the same Push.
PushState(state) ==
  /\ fStateQueue' = Append(fStateQueue, state)
  /\ fDeviceShutdownRequested' = (fDeviceShutdownRequested \/ state = "Error")
  /\ fPluginShutdownRequested' = (fPluginShutdownRequested \/ state = "Error")
  /\ UNCHANGED <<roleVars, mode, fDeviceHasShutdown, signalled, at, step,
                 nextState, keys, main>>

\* PopFrontUnsafe throws DeviceErrorState without popping.
ErrorAtFront == fStateQueue # <<>> /\ Head(fStateQueue) = "Error"

\* WaitForNext returns s.
PopNext(s) ==
  /\ fStateQueue # <<>>
  /\ s = Head(fStateQueue)
  /\ s # "Error"
  /\ fStateQueue' = Tail(fStateQueue)
  /\ UNCHANGED fDeviceShutdownRequested

\* WaitForNextOrCustom and WaitForCustom return without a state.
PopNothing ==
  /\ fStateQueue = <<>>
  /\ fDeviceShutdownRequested
  /\ UNCHANGED queueVars

\* DeviceErrorState leaves a wait of thread th: every handler of it releases
\* the control role.
WaitThrows(th, places) ==
  /\ at[th] \in places
  /\ ErrorAtFront
  /\ Move(th, "release")
  /\ UNCHANGED <<vars, queueVars, roleVars, flagVars, step, nextState, keys,
                 main>>

-----------------------------------------------------------------------------
(* PluginServices *)

\* ChangeDeviceState: the role is taken implicitly when nobody has it, and
\* the mutex stays locked while Device::ChangeState runs.
ChangeDeviceState(th, t) ==
  /\ fDeviceControllerMutex = None
  /\ fDeviceControllerMutex' = th
  /\ fDeviceController' = "control"
  /\ Request(th, t)

ChangeDeviceStateReturned(th) ==
  /\ Returned(th)
  /\ fDeviceControllerMutex' = None
  /\ UNCHANGED fDeviceController

\* Plugin::ReleaseDeviceControl
ReleaseDeviceControl(th) ==
  /\ at[th] = "release"
  /\ fDeviceControllerMutex = None
  /\ fDeviceController' = "none"
  /\ Move(th, "ended")
  /\ UNCHANGED <<vars, queueVars, fDeviceControllerMutex, flagVars, step,
                 nextState, keys, main>>

-----------------------------------------------------------------------------
(* The controller thread *)

\* Where StaticMode, GUIMode and InteractiveMode go after the startup
\* sequence, finished or left early.
AfterStartup ==
  CASE mode = "static" -> "staticWait"
    [] mode = "gui" -> "guiWait"
    [] mode = "interactive" ->
         IF fDeviceShutdownRequested THEN "ended" ELSE "repl"

StartupChange ==
  /\ at[Controller] = "startup"
  /\ step <= Len(StartupSequence)
  /\ StartupSequence[step][1] = "change"
  /\ ChangeDeviceState(Controller, StartupSequence[step][2])
  /\ Move(Controller, "startupChange")
  /\ UNCHANGED <<queueVars, flagVars, step, nextState, keys, main>>

StartupChanged ==
  /\ at[Controller] = "startupChange"
  /\ ChangeDeviceStateReturned(Controller)
  /\ step' = step + 1
  /\ Move(Controller, "startup")
  /\ UNCHANGED <<queueVars, flagVars, nextState, keys, main>>

\* Mutant: the first state taken from the queue is good enough.
StartupWaitAny ==
  /\ at[Controller] = "startup"
  /\ step <= Len(StartupSequence)
  /\ StartupSequence[step][1] = "wait"
  /\ \/ \E s \in State : PopNext(s) /\ step' = step + 1
     \/ PopNothing /\ UNCHANGED step
  /\ Move(Controller, IF fDeviceShutdownRequested THEN AfterStartup
                                                  ELSE "startup")
  /\ UNCHANGED <<vars, roleVars, flagVars, nextState, keys, main>>

\* One iteration of WaitForStateOrCustom.
StartupWait ==
  /\ at[Controller] = "startup"
  /\ step <= Len(StartupSequence)
  /\ StartupSequence[step][1] = "wait"
  /\ \/ \E s \in State : PopNext(s) /\ step' = IF s = StartupSequence[step][2]
                                              THEN step + 1 ELSE step
     \/ PopNothing /\ UNCHANGED step
  /\ Move(Controller, IF fDeviceShutdownRequested THEN AfterStartup
                                                  ELSE "startup")
  /\ UNCHANGED <<vars, roleVars, flagVars, nextState, keys, main>>

StartupDone ==
  /\ at[Controller] = "startup"
  /\ step > Len(StartupSequence)
  /\ Move(Controller, AfterStartup)
  /\ UNCHANGED <<vars, queueVars, roleVars, flagVars, step, nextState, keys,
                 main>>

\* Mutant: control is released for the signal thread to take it.
StaticWaitReleases ==
  /\ at[Controller] = "staticWait"
  /\ (\E s \in State : PopNext(s)) \/ PopNothing
  /\ Move(Controller, IF fDeviceShutdownRequested THEN "release"
                                                  ELSE "shutdownRead")
  /\ UNCHANGED <<vars, roleVars, flagVars, step, nextState, keys, main>>

\* StaticMode: WaitForNextOrCustom, then the shutdown sequence unless the
\* signal thread will run it.
StaticWait ==
  /\ at[Controller] = "staticWait"
  /\ (\E s \in State : PopNext(s)) \/ PopNothing
  /\ Move(Controller, IF fDeviceShutdownRequested THEN "ended"
                                                  ELSE "shutdownRead")
  /\ UNCHANGED <<vars, roleVars, flagVars, step, nextState, keys, main>>

\* GUIMode: WaitForCustom also pops a state if there is one.
GUIWait ==
  /\ at[Controller] = "guiWait"
  /\ fDeviceShutdownRequested
  /\ (\E s \in State : PopNext(s)) \/ PopNothing
  /\ Move(Controller, "ended")
  /\ UNCHANGED <<vars, roleVars, flagVars, step, nextState, keys, main>>

-----------------------------------------------------------------------------
(* RunREPL *)

KeyTransition == {"Bind", "Connect", "InitTask", "Run", "Stop", "ResetTask",
                  "ResetDevice"}

\* A key that requests a transition; [i] requests InitDevice and goes on.
ReplKey ==
  /\ at[Controller] = "repl"
  /\ ~fDeviceShutdownRequested
  /\ keys < MaxKeys
  /\ keys' = keys + 1
  /\ \/ \E t \in KeyTransition : /\ ChangeDeviceState(Controller, t)
                                 /\ Move(Controller, "replChange")
     \/ /\ ChangeDeviceState(Controller, "InitDevice")
        /\ Move(Controller, "replInit")
  /\ UNCHANGED <<queueVars, flagVars, step, nextState, main>>

ReplChanged ==
  /\ \/ at[Controller] = "replChange" /\ Move(Controller, "replCheck")
     \/ /\ at[Controller] = "replInit"
        /\ Move(Controller, IF call[Controller].result THEN "replInitWait"
                                                       ELSE "replCheck")
  /\ ChangeDeviceStateReturned(Controller)
  /\ UNCHANGED <<queueVars, flagVars, step, nextState, keys, main>>

\* WaitForState(InitializingDevice), then CompleteInit.
ReplInitWait ==
  /\ at[Controller] = "replInitWait"
  /\ \E s \in State :
       /\ PopNext(s)
       /\ Move(Controller, IF s = "InitializingDevice" THEN "replComplete"
                                                       ELSE "replInitWait")
  /\ UNCHANGED <<vars, roleVars, flagVars, step, nextState, keys, main>>

ReplComplete ==
  /\ at[Controller] = "replComplete"
  /\ ChangeDeviceState(Controller, "CompleteInit")
  /\ Move(Controller, "replChange")
  /\ UNCHANGED <<queueVars, flagVars, step, nextState, keys, main>>

\* [q] leads to the shutdown sequence.
ReplQuit ==
  /\ at[Controller] = "repl"
  /\ ~fDeviceShutdownRequested
  /\ Move(Controller, IF fState = "Error" THEN "release" ELSE "shutdownRead")
  /\ UNCHANGED <<vars, queueVars, roleVars, flagVars, step, nextState, keys,
                 main>>

\* The end of an iteration, after a key or after poll timed out.  When input
\* is available the requested shutdown is looked at first.
ReplCheck ==
  /\ at[Controller] \in {"repl", "replCheck"}
  /\ \/ fState = "Error" /\ Move(Controller, "release")
     \/ /\ fDeviceShutdownRequested
        /\ fState # "Error" \/ at[Controller] = "repl"
        /\ Move(Controller, "ended")
     \/ /\ at[Controller] = "replCheck"
        /\ fState # "Error" /\ ~fDeviceShutdownRequested
        /\ Move(Controller, "repl")
  /\ UNCHANGED <<vars, queueVars, roleVars, flagVars, step, nextState, keys,
                 main>>

-----------------------------------------------------------------------------
(* RunShutdownSequence, run by either thread *)

\* GetCurrentDeviceState ...
ShutdownRead(th) ==
  /\ at[th] = "shutdownRead"
  /\ nextState' = [nextState EXCEPT ![th] = fState]
  /\ Move(th, "shutdownClear")
  /\ UNCHANGED <<vars, queueVars, roleVars, flagVars, step, keys, main>>

\* ... and only then Clear.
ShutdownClear(th) ==
  /\ at[th] = "shutdownClear"
  /\ fStateQueue' = IF nextState[th] = "Error" THEN fStateQueue ELSE <<>>
  /\ Move(th, "shutdownLoop")
  /\ UNCHANGED <<vars, fDeviceShutdownRequested, roleVars, flagVars, step,
                 nextState, keys, main>>

\* Mutant: DeviceReady is missing in the switch.
ShutdownTransitionGap ==
  [s \in {"Idle", "InitializingDevice", "Initialized", "Bound", "Ready",
          "Running"} |->
     CASE s = "Idle" -> "End"
       [] s = "InitializingDevice" -> "CompleteInit"
       [] s = "Ready" -> "ResetTask"
       [] s = "Running" -> "Stop"
       [] OTHER -> "ResetDevice"]

\* The transition requested in a state, in the order of the switch.
ShutdownTransition ==
  [s \in {"Idle", "InitializingDevice", "Initialized", "Bound", "DeviceReady",
          "Ready", "Running"} |->
     CASE s = "Idle" -> "End"
       [] s = "InitializingDevice" -> "CompleteInit"
       [] s = "Ready" -> "ResetTask"
       [] s = "Running" -> "Stop"
       [] OTHER -> "ResetDevice"]

ShutdownChange(th) ==
  /\ at[th] = "shutdownLoop"
  /\ nextState[th] \in DOMAIN ShutdownTransition
  /\ ChangeDeviceState(th, ShutdownTransition[nextState[th]])
  /\ Move(th, "shutdownChange")
  /\ UNCHANGED <<queueVars, flagVars, step, nextState, keys, main>>

ShutdownChanged(th) ==
  /\ at[th] = "shutdownChange"
  /\ ChangeDeviceStateReturned(th)
  /\ Move(th, "shutdownWait")
  /\ UNCHANGED <<queueVars, flagVars, step, nextState, keys, main>>

ShutdownSkip(th) ==
  /\ at[th] = "shutdownLoop"
  /\ nextState[th] \notin DOMAIN ShutdownTransition
  /\ Move(th, IF nextState[th] \in {"Exiting", "Error"} THEN "shutdownDone"
                                                        ELSE "shutdownWait")
  /\ UNCHANGED <<vars, queueVars, roleVars, flagVars, step, nextState, keys,
                 main>>

\* WaitForNext
ShutdownWait(th) ==
  /\ at[th] = "shutdownWait"
  /\ \E s \in State : PopNext(s) /\ nextState' = [nextState EXCEPT ![th] = s]
  /\ Move(th, "shutdownLoop")
  /\ UNCHANGED <<vars, roleVars, flagVars, step, keys, main>>

ShutdownDone(th) ==
  /\ at[th] = "shutdownDone"
  /\ fDeviceHasShutdown' = TRUE
  /\ Move(th, "release")
  /\ UNCHANGED <<vars, queueVars, roleVars, mode, fPluginShutdownRequested,
                 signalled, step, nextState, keys, main>>

-----------------------------------------------------------------------------
(* SignalHandler *)

\* SIGINT or SIGTERM arrives while the plugin exists.
SignalArrives ==
  /\ ~signalled
  /\ main # "gone"
  /\ signalled' = TRUE
  /\ UNCHANGED <<vars, queueVars, roleVars, mode, fDeviceHasShutdown,
                 fPluginShutdownRequested, at, step, nextState, keys, main>>

SignalPoll ==
  /\ at[Signal] = "poll"
  /\ signalled \/ fPluginShutdownRequested
  /\ Move(Signal, IF fPluginShutdownRequested THEN "ended" ELSE "notify")
  /\ UNCHANGED <<vars, queueVars, roleVars, flagVars, step, nextState, keys,
                 main>>

\* fStateQueue.Notify
SignalNotify ==
  /\ at[Signal] = "notify"
  /\ fDeviceShutdownRequested' = TRUE
  /\ Move(Signal, "join")
  /\ UNCHANGED <<vars, fStateQueue, roleVars, flagVars, step, nextState, keys,
                 main>>

\* Mutant: the controller thread is not joined.
SignalJoinNobody ==
  /\ at[Signal] = "join"
  /\ Move(Signal, IF fDeviceHasShutdown THEN "ended" ELSE "take")
  /\ UNCHANGED <<vars, queueVars, roleVars, flagVars, step, nextState, keys,
                 main>>

\* fControllerThread.join()
SignalJoin ==
  /\ at[Signal] = "join"
  /\ at[Controller] = "ended"
  /\ Move(Signal, IF fDeviceHasShutdown THEN "ended" ELSE "take")
  /\ UNCHANGED <<vars, queueVars, roleVars, flagVars, step, nextState, keys,
                 main>>

\* StealDeviceControl
SignalTake ==
  /\ at[Signal] = "take"
  /\ fDeviceControllerMutex = None
  /\ fDeviceController' = "control"
  /\ Move(Signal, "shutdownRead")
  /\ UNCHANGED <<vars, queueVars, fDeviceControllerMutex, flagVars, step,
                 nextState, keys, main>>

-----------------------------------------------------------------------------
(* The main thread *)

\* DeviceRunner::Run: after a regular end WaitForReleaseDeviceControl, after
\* an exception straight to the destructors.
RunnerEnds ==
  /\ main = "running"
  /\ \/ pc = "exited" /\ fDeviceController = "none" /\ fDeviceControllerMutex = None
     \/ pc = "failed"
  /\ main' = "destroy"
  /\ UNCHANGED <<vars, queueVars, roleVars, flagVars, at, step, nextState, keys>>

\* Control::~Control
Destroy ==
  /\ \/ main = "destroy" /\ main' = "joinController"
     \/ main = "joinController" /\ at[Controller] = "ended" /\ main' = "joinSignal"
     \/ main = "joinSignal" /\ at[Signal] = "ended" /\ main' = "gone"
  /\ fPluginShutdownRequested' = TRUE
  /\ UNCHANGED <<vars, queueVars, roleVars, mode, fDeviceHasShutdown, signalled,
                 at, step, nextState, keys>>

-----------------------------------------------------------------------------

\* The device's own steps; the three that call the state-change callbacks
\* also push into the queue.
DeviceStep ==
  \/ Start /\ PushState("Idle")
  \/ NotifyState /\ PushState(fState)
  \/ UnwindNotify /\ PushState("Error")
  \/ /\ \/ AwaitState \/ PrepareState \/ HandleState \/ InitWait \/ InitWrapper
        \/ AutoWrapper \/ ExitDevice \/ CheckPending \/ Changed
        \/ PreRun \/ PreRunInterrupted \/ RunLoop \/ InputInterrupted
        \/ PostRun \/ Join \/ RunUnwound \/ JoinUnwound \/ Unwind \/ Failed
        \/ ChangeState(Worker) \/ RateLoggerEnds
     /\ UNCHANGED controlVars

UserStep == EnvironmentStep /\ UNCHANGED controlVars

RunEndsStep == RunEnds /\ UNCHANGED controlVars

ControllerThread ==
  \/ ChangeState(Controller) /\ UNCHANGED controlVars
  \/ StartupChange \/ StartupChanged \/ StartupWait \/ StartupDone
  \/ StaticWait \/ GUIWait
  \/ ReplChanged \/ ReplInitWait \/ ReplComplete \/ ReplCheck
  \/ ShutdownRead(Controller) \/ ShutdownClear(Controller)
  \/ ShutdownChange(Controller) \/ ShutdownChanged(Controller)
  \/ ShutdownSkip(Controller) \/ ShutdownWait(Controller)
  \/ ShutdownDone(Controller)
  \/ WaitThrows(Controller, {"staticWait", "replInitWait", "shutdownWait"})
  \/ WaitThrows(Controller, IF fDeviceShutdownRequested THEN {"guiWait"} ELSE {})
  \/ /\ step <= Len(StartupSequence)
     /\ StartupSequence[step][1] = "wait"
     /\ WaitThrows(Controller, {"startup"})
  \/ ReleaseDeviceControl(Controller)

Keyboard == ReplKey \/ ReplQuit

SignalThread ==
  \/ ChangeState(Signal) /\ UNCHANGED controlVars
  \/ SignalPoll \/ SignalNotify \/ SignalJoin \/ SignalTake
  \/ ShutdownRead(Signal) \/ ShutdownClear(Signal)
  \/ ShutdownChange(Signal) \/ ShutdownChanged(Signal)
  \/ ShutdownSkip(Signal) \/ ShutdownWait(Signal) \/ ShutdownDone(Signal)
  \/ WaitThrows(Signal, {"shutdownWait"})
  \/ ReleaseDeviceControl(Signal)

MainThread == RunnerEnds \/ Destroy

ControlNext ==
  \/ DeviceStep \/ UserStep \/ ControllerThread \/ Keyboard \/ SignalArrives
  \/ SignalThread \/ MainThread

ControlSpec == ControlInit /\ [][ControlNext]_allVars

\* Every thread keeps running.  User code returns; a run loop that may end by
\* itself does end.  Keys and signals may never come.
ControlFairness ==
  /\ WF_allVars(DeviceStep)
  /\ WF_allVars(RunEndsStep)
  /\ WF_allVars(ControllerThread)
  /\ WF_allVars(SignalThread)
  /\ WF_allVars(MainThread)

ControlFairSpec == ControlSpec /\ ControlFairness

-----------------------------------------------------------------------------
(* Properties *)

\* The controller follows the device in lockstep: while nobody asked for a
\* shutdown, the state it is about to take from the queue is the one that
\* RunStartupSequence waits for (the initial Idle aside), and the one StaticMode
\* takes afterwards "is DeviceState::Ready".
ControllerInLockstep ==
  fStateQueue # <<>> /\ ~fDeviceShutdownRequested =>
    /\ at[Controller] = "startup" /\ step <= Len(StartupSequence) =>
         \/ Head(fStateQueue) = StartupSequence[step][2]
         \/ Head(fStateQueue) = "Idle" /\ step <= 2
    /\ at[Controller] = "staticWait" => Head(fStateQueue) = "Ready"

\* The two threads never run the shutdown sequence at the same time.
OneShutdownSequence == ~ \A th \in Controllers : at[th] \in InShutdown

\* Control is never given up while the device can still be controlled, so
\* WaitForReleaseDeviceControl returns only after the device has ended.
RoleHeldWhileAlive == fDeviceController = "none" => fState \in {"Exiting", "Error"}

\* In static mode a device whose run loop ends takes the whole process to its
\* end, whatever user code throws, as long as no signal interferes.
StaticModeEnds ==
  (mode = "static" /\ kind.runEnds) ~> (signalled \/ main = "gone")

\* After a failure in static or gui mode the plugin can be destroyed: the
\* controller thread notices the Error state and ends.
FailureEndsThreads ==
  (pc = "failed" /\ mode # "interactive") ~> (signalled \/ main = "gone")

\* "Take over control and attempt graceful shutdown": after a signal the
\* process ends.
SignalEndsProcess == signalled ~> main = "gone"
=============================================================================
