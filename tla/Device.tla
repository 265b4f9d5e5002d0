------------------------------- MODULE Device -------------------------------
(***************************************************************************)
(* fairmq/Device.cxx on top of the state machine: the handlers that the    *)
(* worker thread runs in every state, the interruption of the transports,  *)
(* the rate logger thread of RunWrapper, and the threads that request      *)
(* transitions through Device::ChangeState.                                *)
(*                                                                         *)
(* User code (Init, Bind, InitTask, Run, ...) is a step that may return or *)
(* throw.  RUNNING is kept in detail, because its handler ends for several *)
(* reasons: a state was requested, a receive was interrupted, or the user's*)
(* loop is simply over.                                                    *)
(***************************************************************************)
EXTENDS StateMachine

CONSTANTS
  Requests,     \* the transitions controllers ask for
  DeviceKinds   \* the user's device classes considered

\* What the model needs to know of a device class: does it use OnData
\* callbacks (fDataCallbacks) instead of ConditionalRun/Run, may its run loop
\* end by itself, does PreRun() contain a blocking Receive, may it throw?
Kind == [dataCallbacks : BOOLEAN, runEnds : BOOLEAN,
         preRunReceives : BOOLEAN, throws : BOOLEAN]

\* Auto is left to the handlers, which is what it is for.
ASSUME DeviceAssumption ==
  /\ Requests \subseteq Transition \ {"Auto"}
  /\ DeviceKinds \subseteq Kind

VARIABLES
  kind,        \* the class of this device, never changed
  pc,          \* where the worker thread is
  transports,  \* fTransports: none, flowing (resumed) or interrupted
  rateLogger,  \* does the rate logger thread exist?
  faulty       \* history: user code threw or ErrorFound was requested

deviceVars == <<kind, pc, transports, rateLogger, faulty>>
vars == <<smVars, deviceVars>>

\* The worker's positions, in the order of the code.
InProcessWork == {"start", "await", "prep", "notify", "handle"}
InHandler == {"initWait", "init", "work", "check", "change", "exit"}
InRun == {"preRun", "preRunReceive", "runLoop", "input", "postRun", "join"}
Unwinding == {"runUnwind", "joinUnwind", "unwind", "unwindNotify",
              "unwindChange"}
Ended == {"exited", "failed", "terminated"}
PC == InProcessWork \cup InHandler \cup InRun \cup Unwinding \cup Ended

TypeOK ==
  /\ SMTypeOK
  /\ kind \in DeviceKinds
  /\ pc \in PC
  /\ transports \in {"none", "flowing", "interrupted"}
  /\ rateLogger \in BOOLEAN
  /\ faulty \in BOOLEAN

Init ==
  /\ SMInit
  /\ kind \in DeviceKinds
  /\ pc = "start"
  /\ transports = "none"
  /\ rateLogger = FALSE
  /\ faulty = FALSE

Goto(l) == pc' = l

-----------------------------------------------------------------------------
(* Requesting transitions *)

\* A controller calls ChangeState.
Request(th, t) ==
  /\ call[th].at = "idle"
  /\ call' = Calling(th, t)
  /\ faulty' = (faulty \/ t = "ErrorFound")
  /\ UNCHANGED <<active, okRegion, fState, fNewState, fNewStatePending,
                 fLastTransitionResult, fStateMtx, kind, pc, transports,
                 rateLogger>>

\* The new-transition callback "device" runs inside the accepted event.
InterruptTransports ==
  transports' = IF transports = "none" THEN "none" ELSE "interrupted"

\* Mutant: nobody resumes the transports.
ResumeNothing == UNCHANGED transports

ResumeTransports ==
  transports' = IF transports = "none" THEN "none" ELSE "flowing"

ChangeState(th) ==
  \/ /\ ChangeStateRefused(th)
     /\ UNCHANGED deviceVars
  \/ /\ AcceptEvent(th)
     /\ InterruptTransports
     /\ UNCHANGED <<kind, pc, rateLogger, faulty>>
  \/ /\ AnnouncePending(th)
     /\ UNCHANGED deviceVars

\* A controller reads the result.
Returned(th) ==
  /\ call[th].at = "returned"
  /\ call' = Called(th)
  /\ UNCHANGED <<active, okRegion, fState, fNewState, fNewStatePending,
                 fLastTransitionResult, fStateMtx, deviceVars>>

-----------------------------------------------------------------------------
(* The worker thread in ProcessWork *)

\* StateMachine::ProcessWork announces Idle to the subscribers.
Start ==
  /\ pc = "start"
  /\ Goto("await")
  /\ UNCHANGED <<smVars, kind, transports, rateLogger, faulty>>

AwaitState ==
  /\ pc = "await"
  /\ TakePendingState
  /\ Goto("prep")
  /\ UNCHANGED <<kind, transports, rateLogger, faulty>>

\* CallStatePrep
PrepareState ==
  /\ pc = "prep"
  /\ ResumeTransports
  /\ Goto("notify")
  /\ UNCHANGED <<smVars, kind, rateLogger, faulty>>

\* CallStateChangeCallbacks
NotifyState ==
  /\ pc = "notify"
  /\ Goto("handle")
  /\ UNCHANGED <<smVars, kind, transports, rateLogger, faulty>>

\* CallStateHandler: the switch of the HandleStates callback.  Running starts
\* the rate logger when some channel asks for it.  After Error the loop has
\* stopped and ErrorStateException is thrown.
HandleState ==
  /\ pc = "handle"
  /\ \/ fState \in AutoState /\ Goto("work") /\ UNCHANGED rateLogger
     \/ fState = "InitializingDevice" /\ Goto("initWait") /\ UNCHANGED rateLogger
     \/ fState = "Running" /\ Goto("preRun") /\ rateLogger' \in BOOLEAN
     \/ fState = "Exiting" /\ Goto("exit") /\ UNCHANGED rateLogger
     \/ fState = "Error" /\ Goto("unwind") /\ UNCHANGED rateLogger
     \/ /\ fState \in {"Idle", "Initialized", "Bound", "DeviceReady", "Ready"}
        /\ Goto("await")
        /\ UNCHANGED rateLogger
  /\ UNCHANGED <<smVars, kind, transports, faulty>>

-----------------------------------------------------------------------------
(* The handlers other than RunWrapper *)

\* InitWrapper may throw before or after it has added the transports,
\* ResetWrapper only after it has dropped them.
TransportsAfterThrow ==
  CASE pc = "init" -> {transports, "flowing"}
    [] pc = "work" /\ fState = "ResettingDevice" -> {"none"}
    [] OTHER -> {transports}

\* User code or channel setup throws: out of RunWrapper through its cod,
\* which requests ErrorFound, out of the others straight to ProcessWork.
ThrowFrom(places) ==
  /\ kind.throws
  /\ pc \in places
  /\ faulty' = TRUE
  /\ IF fState = "Running"
       THEN Goto("runUnwind") /\ call' = Calling(Worker, "ErrorFound")
       ELSE Goto("unwind") /\ UNCHANGED call
  /\ transports' \in TransportsAfterThrow
  /\ UNCHANGED <<active, okRegion, fState, fNewState, fNewStatePending,
                 fLastTransitionResult, fStateMtx, kind, rateLogger>>

\* InitWrapper: WaitForPendingState ...
InitWait ==
  /\ pc = "initWait"
  /\ StatePending
  /\ Goto("init")
  /\ UNCHANGED <<smVars, kind, transports, rateLogger, faulty>>

\* ... then Init(), channels and transports.
InitWrapper ==
  /\ pc = "init"
  /\ transports' = "flowing"
  /\ Goto("await")
  /\ UNCHANGED <<smVars, kind, rateLogger, faulty>>

\* Mutant: ResetWrapper keeps the transports.
AutoWrapperKeeps ==
  /\ pc = "work"
  /\ Goto("check")
  /\ UNCHANGED <<smVars, kind, transports, rateLogger, faulty>>

\* BindWrapper, ConnectWrapper, InitTaskWrapper, ResetTaskWrapper and
\* ResetWrapper up to the check of NewStatePending.  ResetWrapper drops the
\* transports.
AutoWrapper ==
  /\ pc = "work"
  /\ transports' = IF fState = "ResettingDevice" THEN "none" ELSE transports
  /\ Goto("check")
  /\ UNCHANGED <<smVars, kind, rateLogger, faulty>>

\* Exit() in state Exiting, after which ProcessWork returns.
ExitDevice ==
  /\ pc = "exit"
  /\ Goto("exited")
  /\ UNCHANGED <<smVars, kind, transports, rateLogger, faulty>>

AfterCheck == IF fState = "Running" THEN "postRun" ELSE "await"

\* Mutants: RunWrapper does not request Stop; a transition is requested even
\* if a state is pending already.
CheckWithoutStop ==
  /\ pc = "check"
  /\ IF fNewStatePending \/ fState = "Running"
       THEN Goto(AfterCheck) /\ UNCHANGED call
       ELSE Goto("change") /\ call' = Calling(Worker, "Auto")
  /\ UNCHANGED <<active, okRegion, fState, fNewState, fNewStatePending,
                 fLastTransitionResult, fStateMtx, kind, transports,
                 rateLogger, faulty>>

CheckAlways ==
  /\ pc = "check"
  /\ Goto("change")
  /\ call' = Calling(Worker, IF fState = "Running" THEN "Stop" ELSE "Auto")
  /\ UNCHANGED <<active, okRegion, fState, fNewState, fNewStatePending,
                 fLastTransitionResult, fStateMtx, kind, transports,
                 rateLogger, faulty>>

\* if (!NewStatePending()) ...
CheckPending ==
  /\ pc = "check"
  /\ IF fNewStatePending
       THEN Goto(AfterCheck) /\ UNCHANGED call
       ELSE /\ Goto("change")
            /\ call' = Calling(Worker,
                               IF fState = "Running" THEN "Stop" ELSE "Auto")
  /\ UNCHANGED <<active, okRegion, fState, fNewState, fNewStatePending,
                 fLastTransitionResult, fStateMtx, kind, transports,
                 rateLogger, faulty>>

\* ... ChangeStateOrThrow(Auto or Stop)
Changed ==
  /\ pc = "change"
  /\ call[Worker].at = "returned"
  /\ IF call[Worker].result
       THEN Goto(AfterCheck) /\ call' = Called(Worker)
       ELSE IF fState = "Running"
              THEN Goto("runUnwind") /\ call' = Calling(Worker, "ErrorFound")
              ELSE Goto("unwind") /\ call' = Called(Worker)
  /\ UNCHANGED <<active, okRegion, fState, fNewState, fNewStatePending,
                 fLastTransitionResult, fStateMtx, kind, transports,
                 rateLogger, faulty>>

-----------------------------------------------------------------------------
(* RunWrapper *)

InRunWrapper(from, to) ==
  /\ pc = from
  /\ Goto(to)
  /\ UNCHANGED <<smVars, kind, transports, rateLogger, faulty>>

\* PreRun(), with or without a receive that blocks until it is interrupted
\* or a message arrives.
PreRun ==
  \/ ~kind.preRunReceives /\ InRunWrapper("preRun", "runLoop")
  \/ kind.preRunReceives /\ InRunWrapper("preRun", "preRunReceive")

PreRunInterrupted ==
  transports = "interrupted" /\ InRunWrapper("preRunReceive", "runLoop")

PreRunMessage == InRunWrapper("preRunReceive", "runLoop")

\* Mutant: the loop does not look at NewStatePending.
RunLoopUnaware == kind.dataCallbacks /\ InRunWrapper("runLoop", "input")

\* The head of HandleSingleChannelInput's loop and of the ConditionalRun loop.
RunLoop ==
  \/ fNewStatePending /\ InRunWrapper("runLoop", "check")
  \/ ~fNewStatePending /\ kind.dataCallbacks /\ InRunWrapper("runLoop", "input")

\* HandleMsgInput: Receive was interrupted, so the callback loop ends.
InputInterrupted ==
  transports = "interrupted" /\ InRunWrapper("input", "check")

InputMessage == InRunWrapper("input", "runLoop")

\* A data callback or ConditionalRun() returned false, or Run() returned.
RunEnds ==
  /\ kind.runEnds
  /\ \/ ~kind.dataCallbacks /\ InRunWrapper("runLoop", "check")
     \/ InRunWrapper("input", "check")

\* PostRun() returned, cod is disabled, joinRateLogger runs.
PostRun == InRunWrapper("postRun", "join")

Join == ~rateLogger /\ InRunWrapper("join", "await")

\* LogSocketRates leaves its loop once it sees a pending state.
RateLoggerEnds ==
  /\ rateLogger
  /\ fNewStatePending
  /\ rateLogger' = FALSE
  /\ UNCHANGED <<smVars, kind, pc, transports, faulty>>

\* cod of RunWrapper: ChangeStateOrThrow(ErrorFound) from a destructor.  If
\* that throws, the exception leaves a destructor and the process terminates.
RunUnwound ==
  /\ pc = "runUnwind"
  /\ call[Worker].at = "returned"
  /\ call' = Called(Worker)
  /\ Goto(IF call[Worker].result THEN "joinUnwind" ELSE "terminated")
  /\ UNCHANGED <<active, okRegion, fState, fNewState, fNewStatePending,
                 fLastTransitionResult, fStateMtx, kind, transports,
                 rateLogger, faulty>>

JoinUnwound == ~rateLogger /\ InRunWrapper("joinUnwind", "unwind")

-----------------------------------------------------------------------------
(* The exception leaves Machine_::ProcessWork *)

Unwind ==
  /\ pc = "unwind"
  /\ EnterErrorState
  /\ Goto("unwindNotify")
  /\ UNCHANGED <<kind, transports, rateLogger, faulty>>

UnwindNotify ==
  /\ pc = "unwindNotify"
  /\ RequestErrorFound
  /\ Goto("unwindChange")
  /\ UNCHANGED <<kind, transports, rateLogger, faulty>>

Failed ==
  /\ pc = "unwindChange"
  /\ call[Worker].at = "returned"
  /\ call' = Called(Worker)
  /\ Goto("failed")
  /\ UNCHANGED <<active, okRegion, fState, fNewState, fNewStatePending,
                 fLastTransitionResult, fStateMtx, kind, transports,
                 rateLogger, faulty>>

-----------------------------------------------------------------------------

Throw == ThrowFrom({"init", "work", "exit", "preRun", "runLoop", "input",
                    "postRun"})

\* What the worker and the rate logger do without anyone's help.
WorkerStep ==
  \/ Start \/ AwaitState \/ PrepareState \/ NotifyState \/ HandleState
  \/ InitWait \/ InitWrapper \/ AutoWrapper \/ ExitDevice
  \/ CheckPending \/ Changed
  \/ PreRun \/ PreRunInterrupted \/ RunLoop \/ InputInterrupted
  \/ PostRun \/ Join \/ RunUnwound \/ JoinUnwound
  \/ Unwind \/ UnwindNotify \/ Failed
  \/ ChangeState(Worker)

\* What user code and the data decide.
EnvironmentStep == PreRunMessage \/ InputMessage \/ RunEnds \/ Throw

ControllerStep(th) ==
  \/ \E t \in Requests : Request(th, t)
  \/ ChangeState(th)
  \/ Returned(th)

Next ==
  \/ WorkerStep
  \/ RateLoggerEnds
  \/ EnvironmentStep
  \/ \E th \in Controllers : ControllerStep(th)

Spec == Init /\ [][Next]_vars

\* Threads keep running: the worker, the rate logger, and a controller that
\* is inside ChangeState (which never blocks there for ever).  Nothing makes
\* a controller request anything, a message arrive or user code throw.
Fairness ==
  /\ WF_vars(WorkerStep)
  /\ WF_vars(RateLoggerEnds)
  /\ \A th \in Controllers : WF_vars(ChangeState(th))

FairSpec == Spec /\ Fairness

-----------------------------------------------------------------------------
(* Properties *)

\* fState, the state that GetCurrentState() and the callbacks report, only
\* moves along the transition table or to Error, and Error is final, although
\* the msm state runs ahead of it and ErrorFound overrides a pending state.
L == INSTANCE Lifecycle WITH state <- fState
FollowsLifecycle == L!Spec

\* cod in RunWrapper calls ChangeStateOrThrow(ErrorFound) from a destructor:
\* whatever was requested meanwhile, that call never throws.
DestructorNeverThrows == pc # "terminated"

\* RunWrapper joins the rate logger only when a state is pending, which is
\* what makes LogSocketRates leave its loop, also when an exception unwinds.
RateLoggerReleased == pc \in {"join", "joinUnwind"} => fNewStatePending

\* Interrupted transports always belong to a transition that is being or has
\* been announced and that the worker has not prepared the next state for
\* yet: no handler starts with transfers that a past transition interrupted.
NoStaleInterrupt ==
  transports = "interrupted" =>
    \/ fNewStatePending
    \/ pc = "prep"
    \/ \E th \in Threads : call[th].at = "event"

\* A device that is back in Idle, and so one that exits, has been reset: no
\* transport survives ResetWrapper.
ExitsWithoutTransports == fState \in {"Idle", "Exiting"} => transports = "none"

\* A device whose run loop only ends on request reaches Error only if user
\* code threw or somebody asked for ErrorFound: racing requests never make
\* one of the wrappers' own ChangeStateOrThrow calls fail.
ErrorHasCause ==
  fState = "Error" /\ ~kind.dataCallbacks /\ ~kind.runEnds => faulty

\* The same for every device: "if Run() exited and the state is still RUNNING,
\* transition to READY".
RunExitIsGraceful == fState = "Error" => faulty

\* An accepted transition is eventually carried out, unless the device fails,
\* for devices whose run loop polls NewStatePending instead of receiving.
AcceptedIsCarriedOut ==
  \A s \in DeviceState :
    /\ fNewStatePending /\ fNewState = s
    /\ ~kind.preRunReceives /\ ~kind.dataCallbacks
    ~> fState \in {s, "Error"}

\* A blocking Receive() waits "forever (or until interrupt (e.g. via state
\* change))": once a state change is pending it does not stay blocked.
ReceiveIsInterrupted ==
  (pc = "preRunReceive" /\ fNewStatePending) ~> pc # "preRunReceive"
=============================================================================
