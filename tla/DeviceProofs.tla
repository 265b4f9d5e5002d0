---------------------------- MODULE DeviceProofs ----------------------------
(***************************************************************************)
(* Proofs about Device, for every number of controllers and every device   *)
(* class: the inductive invariant behind its safety properties.            *)
(***************************************************************************)
EXTENDS Device, TLAPS

\* An accepted event whose pending state has not been announced yet.
InEvent(th) == call[th].at = "event"

\* The mutex is held by an event in flight or by the worker that announces
\* the Error state, and by nobody else.
MutexInv ==
  /\ \A th \in Threads : InEvent(th) => fStateMtx = th
  /\ \A th \in Threads :
       fStateMtx = th => InEvent(th) \/ (th = Worker /\ pc = "unwindNotify")
  /\ pc = "unwindNotify" => fStateMtx = Worker

\* Which calls can be in flight.
CallInv ==
  /\ call[Worker].at # "idle" <=> pc \in {"change", "runUnwind", "unwindChange"}
  /\ pc = "change" =>
       call[Worker].transition = IF fState = "Running" THEN "Stop" ELSE "Auto"
  /\ pc \in {"runUnwind", "unwindChange"} =>
       call[Worker].transition = "ErrorFound"
  /\ \A th \in Controllers :
       call[th].at # "idle" => call[th].transition \in Requests

\* Where the worker can be in a given state.
PlaceInv ==
  /\ pc = "start" => fState = "Idle"
  /\ pc \in {"initWait", "init"} => fState = "InitializingDevice"
  /\ pc = "work" => fState \in AutoState
  /\ pc \in {"check", "change"} => fState \in AutoState \cup {"Running"}
  /\ pc \in InRun \cup {"runUnwind", "joinUnwind"} => fState = "Running"
  /\ pc \in {"exit", "exited"} => fState = "Exiting"
  /\ fState = "Error" =>
       pc \in {"prep", "notify", "handle", "unwind", "unwindNotify",
               "unwindChange", "failed"}
  /\ pc \in {"unwindNotify", "unwindChange", "failed"} => fState = "Error"

\* How the msm state, the pending state and the observed state relate.
AgreeInv ==
  /\ okRegion /\ (fNewStatePending \/ \E th \in Threads : InEvent(th)) =>
       /\ fNewState = active
       /\ \/ \E row \in TransitionTable : row[1] = fState /\ row[3] = active
          \/ fState = "Error"
  /\ okRegion /\ ~fNewStatePending /\ (\A th \in Threads : ~InEvent(th)) =>
       fState = active \/ fState = "Error"
  /\ ~okRegion => fNewState = "Error" /\ fLastTransitionResult
  /\ ~okRegion /\ (\A th \in Threads : ~InEvent(th)) =>
       fNewStatePending \/ fState = "Error"
  /\ (\E th \in Threads : InEvent(th)) => fLastTransitionResult

\* What the worker may rely on when its own request has returned.
ReturnInv ==
  /\ pc \in {"postRun", "join", "joinUnwind"} => fNewStatePending
  /\ pc = "change" /\ call[Worker].at = "returned" /\ call[Worker].result =>
       fNewStatePending
  /\ pc = "runUnwind" /\ call[Worker].at = "returned" =>
       fNewStatePending /\ call[Worker].result

\* The transports along the way to Idle.
ResetInv ==
  /\ ExitsWithoutTransports
  /\ fState = "ResettingDevice" /\ pc \in {"check", "change", "await"} =>
       transports = "none"

\* Devices whose run loop only ends on request, before anything went wrong.
Quiet == ~kind.dataCallbacks /\ ~kind.runEnds /\ ~faulty

\* The worker has not requested the Auto transition of this state yet.
BeforeAuto ==
  \/ pc \in {"prep", "notify", "handle", "work", "check"}
  \/ pc = "change" /\ call[Worker].at = "lock"

QuietInv ==
  /\ \A th \in Controllers :
       call[th].at # "idle" /\ call[th].transition = "ErrorFound" => faulty
  /\ pc = "input" => kind.dataCallbacks
  /\ Quiet =>
       /\ okRegion
       /\ fState # "Error"
       /\ pc \notin Unwinding \cup {"failed", "terminated"}
       /\ pc = "check" /\ fState = "Running" => fNewStatePending
       /\ pc = "change" => fState \in AutoState
       /\ pc = "change" /\ call[Worker].at = "returned" => call[Worker].result
       /\ fState \in AutoState /\ BeforeAuto =>
            ~fNewStatePending /\ \A th \in Threads : ~InEvent(th)

IInv ==
  /\ TypeOK /\ MutexInv /\ CallInv /\ PlaceInv /\ AgreeInv /\ ReturnInv
  /\ NoStaleInterrupt /\ ResetInv /\ QuietInv /\ DestructorNeverThrows

-----------------------------------------------------------------------------
(* Facts about the table and about calls *)

\* What the proofs use of the transition table: the handlers of the states
\* with an Auto row wait for nothing else, and Idle and Exiting are entered
\* from one state each.
LEMMA TableFacts ==
  /\ \A row \in TransitionTable :
       /\ row[1] \in DeviceState
       /\ row[2] \in Transition \ {"ErrorFound"}
       /\ row[3] \in DeviceState
       /\ row[1] \in AutoState => row[2] = "Auto"
       /\ row[3] = "Idle" => row[1] = "ResettingDevice"
       /\ row[3] = "Exiting" => row[1] = "Idle"
  /\ \A s \in AutoState :
       \E row \in TransitionTable : row[1] = s /\ row[2] = "Auto"
BY DEF TransitionTable, DeviceState, Transition, AutoState

\* Every way a ChangeState call is updated keeps it a call.
LEMMA CallTypes ==
  ASSUME call \in [Threads -> CallType], NEW th \in Threads
  PROVE  /\ Called(th) \in [Threads -> CallType]
         /\ \A t \in Transition : Calling(th, t) \in [Threads -> CallType]
         /\ \A r \in BOOLEAN : Return(th, r) \in [Threads -> CallType]
         /\ [call EXCEPT ![th].at = "event"] \in [Threads -> CallType]
<1>1. NoCall \in CallType
  BY DEF NoCall, CallType, Transition
<1>2. call[th] \in CallType
  OBVIOUS
<1>3. \A t \in Transition :
        [at |-> "lock", transition |-> t, result |-> FALSE] \in CallType
  BY DEF CallType
<1>4. \A r \in BOOLEAN :
        [call[th] EXCEPT !.at = "returned", !.result = r] \in CallType
  BY <1>2 DEF CallType
<1>5. [call[th] EXCEPT !.at = "event"] \in CallType
  BY <1>2 DEF CallType
<1> QED
  BY <1>1, <1>3, <1>4, <1>5 DEF Called, Calling, Return

-----------------------------------------------------------------------------
(* The invariant holds initially and under stuttering *)

\* The device is constructed in Idle, without transports, call or error.
LEMMA InitInv == Init => IInv
<1> SUFFICES ASSUME Init PROVE IInv
  OBVIOUS
<1>1. TypeOK
  BY ThreadsAssumption, DeviceAssumption
  DEF Init, SMInit, NoCall, CallType, TypeOK, SMTypeOK, State, DeviceState,
      Transition, Threads, PC, InProcessWork
<1>2. \A th \in Threads : call[th].at = "idle"
  BY DEF Init, SMInit, NoCall
<1>3. MutexInv /\ CallInv /\ PlaceInv
  BY <1>2, ThreadsAssumption
  DEF Init, SMInit, MutexInv, CallInv, PlaceInv, InEvent, Threads, InRun
<1>4. AgreeInv /\ ReturnInv /\ NoStaleInterrupt /\ ResetInv
  BY <1>2
  DEF Init, SMInit, AgreeInv, ReturnInv, NoStaleInterrupt, ResetInv,
      ExitsWithoutTransports, InEvent
<1>5. QuietInv /\ DestructorNeverThrows
  BY <1>2
  DEF Init, SMInit, QuietInv, Quiet, DestructorNeverThrows, InEvent,
      Unwinding, AutoState, Threads
<1> QED
  BY <1>1, <1>3, <1>4, <1>5 DEF IInv

-----------------------------------------------------------------------------
(* The steps of the worker thread *)

\* A step that moves the worker from one place to the next, and at most the
\* transports or the rate logger with it, keeps the invariant.
LEMMA MovesKeepInv ==
  ASSUME IInv,
         \/ Start \/ PrepareState \/ NotifyState \/ HandleState
         \/ InitWait \/ InitWrapper \/ AutoWrapper \/ ExitDevice
         \/ PreRun \/ PreRunInterrupted \/ PreRunMessage
         \/ RunLoop \/ InputInterrupted \/ InputMessage \/ RunEnds
         \/ PostRun \/ Join \/ JoinUnwound \/ RateLoggerEnds
  PROVE  IInv'
<1>1. CASE RateLoggerEnds
  <2>1. UNCHANGED <<smVars, kind, pc, transports, faulty>> /\ rateLogger' = FALSE
    BY <1>1 DEF RateLoggerEnds
  <2> USE <2>1 DEF smVars, IInv, InEvent
  <2>2. TypeOK'
    BY DEF TypeOK, SMTypeOK
  <2>3. MutexInv' /\ CallInv' /\ PlaceInv'
    BY DEF MutexInv, CallInv, PlaceInv
  <2>4. AgreeInv' /\ ReturnInv'
    BY DEF AgreeInv, ReturnInv
  <2>5. NoStaleInterrupt' /\ ResetInv' /\ DestructorNeverThrows'
    BY DEF NoStaleInterrupt, ResetInv, ExitsWithoutTransports,
           DestructorNeverThrows
  <2>6. QuietInv'
    BY DEF QuietInv, Quiet, BeforeAuto
  <2> QED
    BY <2>2, <2>3, <2>4, <2>5, <2>6
<1> USE ThreadsAssumption, DeviceAssumption
<1> USE DEF IInv, TypeOK, SMTypeOK, MutexInv, CallInv, PlaceInv, AgreeInv,
            ReturnInv, NoStaleInterrupt, ResetInv, ExitsWithoutTransports,
            QuietInv, Quiet, BeforeAuto, DestructorNeverThrows, InEvent,
            AutoState, Threads, PC, InProcessWork, InHandler, InRun,
            Unwinding, Ended, Goto, smVars
<1>2. CASE Start
  BY <1>2 DEF Start
<1>3. CASE PrepareState
  BY <1>3 DEF PrepareState, ResumeTransports
<1>4. CASE NotifyState
  BY <1>4 DEF NotifyState
<1>5. CASE HandleState
  BY <1>5 DEF HandleState
<1>6. CASE InitWait
  BY <1>6 DEF InitWait
<1>7. CASE InitWrapper
  BY <1>7 DEF InitWrapper
<1>8. CASE AutoWrapper
  BY <1>8 DEF AutoWrapper
<1>9. CASE ExitDevice
  BY <1>9 DEF ExitDevice
<1>10. CASE PreRun
  BY <1>10 DEF PreRun, InRunWrapper
<1>11. CASE PreRunInterrupted
  BY <1>11 DEF PreRunInterrupted, InRunWrapper
<1>12. CASE PreRunMessage
  BY <1>12 DEF PreRunMessage, InRunWrapper
<1>13. CASE RunLoop
  BY <1>13 DEF RunLoop, InRunWrapper
<1>14. CASE InputInterrupted
  BY <1>14 DEF InputInterrupted, InRunWrapper
<1>15. CASE InputMessage
  BY <1>15 DEF InputMessage, InRunWrapper
<1>16. CASE RunEnds
  BY <1>16 DEF RunEnds, InRunWrapper
<1>17. CASE PostRun
  BY <1>17 DEF PostRun, InRunWrapper
<1>18. CASE Join
  BY <1>18 DEF Join, InRunWrapper
<1>19. CASE JoinUnwound
  BY <1>19 DEF JoinUnwound, InRunWrapper
<1> QED
  BY <1>1, <1>2, <1>3, <1>4, <1>5, <1>6, <1>7, <1>8, <1>9, <1>10, <1>11,
     <1>12, <1>13, <1>14, <1>15, <1>16, <1>17, <1>18, <1>19

\* The steps of the worker that touch its own ChangeState call or fState.
LEMMA WorkerCallsKeepInv ==
  ASSUME IInv,
         \/ AwaitState \/ CheckPending \/ Changed \/ RunUnwound
         \/ Unwind \/ UnwindNotify \/ Failed \/ Throw
  PROVE  IInv'
<1>w. Worker \in Threads
  BY DEF Threads
<1>c. /\ Called(Worker) \in [Threads -> CallType]
      /\ \A t \in Transition : Calling(Worker, t) \in [Threads -> CallType]
  BY <1>w, CallTypes DEF IInv, TypeOK, SMTypeOK
<1> USE ThreadsAssumption, DeviceAssumption
<1> USE DEF IInv, MutexInv, CallInv, PlaceInv, AgreeInv,
            ReturnInv, NoStaleInterrupt, ResetInv, ExitsWithoutTransports,
            QuietInv, Quiet, BeforeAuto, DestructorNeverThrows, InEvent,
            AutoState, Threads, InRun, Unwinding, Goto
<1>0. /\ fState \in State /\ call \in [Threads -> CallType]
      /\ fNewState \in State /\ pc \in PC
  BY DEF TypeOK, SMTypeOK
<1>1. CASE AwaitState
  <2>1. TypeOK'
    BY <1>1
    DEF AwaitState, TakePendingState, TypeOK, SMTypeOK, PC, InProcessWork
  <2>2. fState' \in {"Idle", "Exiting"} => transports = "none"
    <3>1. CASE ~okRegion
      BY <1>1, <3>1 DEF AwaitState, TakePendingState
    <3>2. CASE okRegion /\ fState = "Error"
      BY <1>1, <3>2 DEF AwaitState, TakePendingState
    <3>3. CASE okRegion /\ fState # "Error"
      <4>1. PICK row \in TransitionTable :
              row[1] = fState /\ row[3] = fState'
        BY <1>1, <3>3 DEF AwaitState, TakePendingState, StatePending
      <4> QED
        BY <1>1, <4>1, TableFacts DEF AwaitState
    <3> QED
      BY <1>0, <3>1, <3>2, <3>3 DEF TypeOK, SMTypeOK
  <2>3. MutexInv' /\ CallInv' /\ PlaceInv'
    BY <1>1 DEF AwaitState, TakePendingState, StatePending
  <2>4. AgreeInv' /\ ReturnInv'
    BY <1>1 DEF AwaitState, TakePendingState, StatePending
  <2>5. NoStaleInterrupt' /\ ResetInv'
    BY <1>1, <2>2 DEF AwaitState, TakePendingState
  <2>6. QuietInv' /\ DestructorNeverThrows'
    BY <1>1, TableFacts
    DEF AwaitState, TakePendingState, StatePending, TypeOK, SMTypeOK,
        DeviceState
  <2> QED
    BY <2>1, <2>3, <2>4, <2>5, <2>6
<1>2. CASE CheckPending
  <2>1. TypeOK'
    <3>1. (IF fState = "Running" THEN "Stop" ELSE "Auto") \in Transition
      BY DEF Transition
    <3>2. call' \in [Threads -> CallType]
      BY <1>c, <1>0, <1>2, <3>1 DEF CheckPending
    <3> QED
      BY <1>2, <3>2
      DEF CheckPending, AfterCheck, TypeOK, SMTypeOK, PC, InProcessWork,
          InHandler
  <2> QED
    BY <1>0, <1>2, <2>1 DEF CheckPending, AfterCheck, Calling
<1>3. CASE Changed
  <2>1. TypeOK'
    <3>1. call' \in [Threads -> CallType]
      BY <1>c, <1>3 DEF Changed, Transition
    <3> QED
      BY <1>3, <3>1
      DEF Changed, AfterCheck, TypeOK, SMTypeOK, PC, InProcessWork
  <2> QED
    BY <1>0, <1>3, <2>1 DEF Changed, AfterCheck, Calling, Called, NoCall
<1>4. CASE RunUnwound
  <2>1. TypeOK'
    BY <1>c, <1>4 DEF RunUnwound, TypeOK, SMTypeOK, PC
  <2> QED
    BY <1>0, <1>4, <2>1 DEF RunUnwound, Called, NoCall
<1>5. CASE Unwind
  <2>1. TypeOK'
    BY <1>5 DEF Unwind, EnterErrorState, TypeOK, SMTypeOK, State, PC
  <2> QED
    BY <1>0, <1>5, <2>1 DEF Unwind, EnterErrorState
<1>6. CASE UnwindNotify
  <2>1. TypeOK'
    BY <1>c, <1>6
    DEF UnwindNotify, RequestErrorFound, TypeOK, SMTypeOK, Transition, PC
  <2> QED
    BY <1>0, <1>6, <2>1 DEF UnwindNotify, RequestErrorFound, Calling
<1>7. CASE Failed
  <2>1. TypeOK'
    BY <1>c, <1>7 DEF Failed, TypeOK, SMTypeOK, PC, Ended
  <2> QED
    BY <1>0, <1>7, <2>1 DEF Failed, Called, NoCall
<1>8. CASE Throw
  <2>1. TypeOK'
    <3>1. call' \in [Threads -> CallType]
      BY <1>0, <1>c, <1>8 DEF Throw, ThrowFrom, Transition
    <3> QED
      BY <1>8, <3>1
      DEF Throw, ThrowFrom, TransportsAfterThrow, TypeOK, SMTypeOK, PC
  <2>2. MutexInv' /\ CallInv' /\ PlaceInv' /\ AgreeInv' /\ ReturnInv'
    BY <1>0, <1>8 DEF Throw, ThrowFrom, Calling
  <2>3. NoStaleInterrupt' /\ ResetInv' /\ DestructorNeverThrows'
    BY <1>0, <1>8 DEF Throw, ThrowFrom, TransportsAfterThrow, Calling
  <2>4. QuietInv'
    BY <1>0, <1>8 DEF Throw, ThrowFrom, Calling
  <2> QED
    BY <2>1, <2>2, <2>3, <2>4
<1> QED
  BY <1>1, <1>2, <1>3, <1>4, <1>5, <1>6, <1>7, <1>8

-----------------------------------------------------------------------------
(* ChangeState, called by any thread *)

\* A request that is refused or blocked changes nothing but the caller's
\* result.  The worker's Auto request in a Quiet device is not among them, and
\* neither is its ErrorFound request, whose result is what matters here.
LEMMA RefusalKeepsInv ==
  ASSUME NEW th \in Threads, IInv, ChangeStateRefused(th),
         UNCHANGED deviceVars
  PROVE  IInv'
<1>1. call' \in [Threads -> CallType]
  BY CallTypes
  DEF ChangeStateRefused, RefuseOngoing, EventBlocked, NoTransition, IInv,
      TypeOK, SMTypeOK
<1>2. TypeOK'
  BY <1>1
  DEF ChangeStateRefused, RefuseOngoing, EventBlocked, NoTransition,
      deviceVars, IInv, TypeOK, SMTypeOK
<1> USE ThreadsAssumption, DeviceAssumption, TableFacts
<1> USE DEF IInv, TypeOK, SMTypeOK, MutexInv, CallInv, PlaceInv, AgreeInv,
            ReturnInv, NoStaleInterrupt, ResetInv, ExitsWithoutTransports,
            QuietInv, Quiet, BeforeAuto, DestructorNeverThrows, InEvent,
            AutoState, Threads, InRun, Unwinding, CallType, deviceVars,
            AtLock, MayProcess, Return
<1>3. CASE RefuseOngoing(th)
  <2>1. MutexInv' /\ CallInv' /\ PlaceInv' /\ AgreeInv'
    BY <1>3 DEF RefuseOngoing
  <2>2. ReturnInv' /\ NoStaleInterrupt' /\ ResetInv'
    BY <1>3 DEF RefuseOngoing
  <2>3. QuietInv' /\ DestructorNeverThrows'
    BY <1>3 DEF RefuseOngoing
  <2> QED
    BY <1>2, <2>1, <2>2, <2>3
<1>4. CASE EventBlocked(th)
  <2>1. MutexInv' /\ CallInv' /\ PlaceInv' /\ AgreeInv'
    BY <1>4 DEF EventBlocked
  <2>2. ReturnInv' /\ NoStaleInterrupt' /\ ResetInv'
    BY <1>4 DEF EventBlocked
  <2>3. QuietInv' /\ DestructorNeverThrows'
    BY <1>4 DEF EventBlocked
  <2> QED
    BY <1>2, <2>1, <2>2, <2>3
<1>5. CASE NoTransition(th)
  <2>1. MutexInv' /\ CallInv' /\ PlaceInv' /\ AgreeInv'
    BY <1>5 DEF NoTransition
  <2>2. ReturnInv' /\ NoStaleInterrupt' /\ ResetInv'
    BY <1>5 DEF NoTransition
  <2>3. QuietInv' /\ DestructorNeverThrows'
    BY <1>5 DEF NoTransition
  <2> QED
    BY <1>2, <2>1, <2>2, <2>3
<1> QED
  BY <1>3, <1>4, <1>5 DEF ChangeStateRefused

\* An accepted event: the msm moves ahead of fState by exactly one row, and
\* in a Quiet device only the worker itself ends a state with an Auto row.
LEMMA AcceptKeepsInv ==
  ASSUME NEW th \in Threads, IInv, AcceptEvent(th), InterruptTransports,
         UNCHANGED <<kind, pc, rateLogger, faulty>>
  PROVE  IInv'
<1>1. /\ call' = [call EXCEPT ![th].at = "event"]
      /\ call[th].at = "lock" /\ fStateMtx = None
      /\ fNewStatePending => call[th].transition = "ErrorFound"
  BY DEF AcceptEvent, AtLock, MayProcess
<1>2. /\ \A x \in Threads :
           /\ call'[x].transition = call[x].transition
           /\ x # th => call'[x] = call[x]
      /\ call'[th].at = "event"
  BY <1>1 DEF IInv, TypeOK, SMTypeOK, CallType
<1>3. /\ InEvent(th)' /\ \E x \in Threads : InEvent(x)'
      /\ \A x \in Threads : ~InEvent(x)
  BY <1>1, <1>2, ThreadsAssumption DEF InEvent, IInv, MutexInv
<1>4. /\ fState' = fState /\ pc' = pc /\ faulty' = faulty /\ kind' = kind
      /\ fNewStatePending' = fNewStatePending /\ fStateMtx' = th
  BY DEF AcceptEvent
<1>5. TypeOK'
  <2>1. call' \in [Threads -> CallType]
    BY <1>1, CallTypes DEF IInv, TypeOK, SMTypeOK
  <2>2. active' \in DeviceState /\ fNewState' \in State
    BY TableFacts DEF AcceptEvent, IInv, TypeOK, SMTypeOK, State
  <2>3. okRegion' \in BOOLEAN /\ fLastTransitionResult' \in BOOLEAN
    BY DEF AcceptEvent, IInv, TypeOK, SMTypeOK
  <2>4. transports' \in {"none", "flowing", "interrupted"}
    BY DEF InterruptTransports
  <2> QED
    BY <1>4, <2>1, <2>2, <2>3, <2>4 DEF IInv, TypeOK, SMTypeOK
<1>6. MutexInv' /\ CallInv' /\ PlaceInv'
  BY <1>1, <1>2, <1>4, ThreadsAssumption
  DEF IInv, MutexInv, CallInv, PlaceInv, Threads, InEvent
<1>7. AgreeInv'
  <2>1. CASE /\ call[th].transition = "ErrorFound"
             /\ ~okRegion' /\ fNewState' = "Error"
    BY <1>3, <2>1 DEF AcceptEvent, AgreeInv
  <2>2. CASE \E row \in TransitionTable :
               /\ row[1] = active /\ row[2] = call[th].transition
               /\ active' = row[3] /\ fNewState' = row[3]
               /\ UNCHANGED okRegion
    <3>1. ~fNewStatePending
      BY <1>1, <2>2, TableFacts
    <3>2. fState = active \/ fState = "Error"
      BY <1>3, <3>1 DEF IInv, AgreeInv, AcceptEvent
    <3>3. okRegion /\ okRegion' /\ fLastTransitionResult'
      BY <2>2 DEF AcceptEvent
    <3> QED
      BY <1>3, <1>4, <2>2, <3>2, <3>3 DEF AgreeInv
  <2> QED
    BY <2>1, <2>2 DEF AcceptEvent
<1>8. ReturnInv'
  BY <1>2, <1>4 DEF IInv, ReturnInv, Threads
<1>9. NoStaleInterrupt' /\ ResetInv' /\ DestructorNeverThrows'
  BY <1>3, <1>4
  DEF IInv, InterruptTransports, NoStaleInterrupt, ResetInv,
      ExitsWithoutTransports, DestructorNeverThrows, InEvent
<1>10. QuietInv'
  <2>1. Quiet => call[th].transition # "ErrorFound"
    BY <1>1 DEF IInv, QuietInv, CallInv, Quiet, Threads, Unwinding
  <2>2. ASSUME Quiet, fState \in AutoState, BeforeAuto
        PROVE  ~BeforeAuto'
    <3>1. active = fState
      BY <2>2 DEF IInv, QuietInv, AgreeInv, AutoState, Quiet
    <3>2. PICK row \in TransitionTable :
            row[1] = active /\ row[2] = call[th].transition
      BY <2>1, <2>2 DEF AcceptEvent
    <3>3. call[th].transition = "Auto"
      BY <2>2, <3>1, <3>2, TableFacts
    <3>4. th = Worker
      BY <1>1, <3>3, DeviceAssumption DEF IInv, CallInv, Threads
    <3>5. pc = "change"
      BY <1>1, <3>3, <3>4 DEF IInv, CallInv
    <3> QED
      BY <1>2, <1>4, <3>4, <3>5 DEF BeforeAuto, Threads
  <2>3. Quiet' = Quiet
    BY <1>4 DEF Quiet
  <2>4. BeforeAuto' => BeforeAuto
    BY <1>1, <1>2, <1>4 DEF BeforeAuto, Threads, IInv, CallInv
  <2>5. Quiet => okRegion'
    BY <2>1 DEF AcceptEvent
  <2> QED
    BY <1>1, <1>2, <1>4, <2>1, <2>2, <2>3, <2>4, <2>5, ThreadsAssumption
    DEF IInv, QuietInv, InEvent, Threads
<1> QED
  BY <1>5, <1>6, <1>7, <1>8, <1>9, <1>10 DEF IInv

\* The announcement of the pending state releases the mutex.
LEMMA AnnounceKeepsInv ==
  ASSUME NEW th \in Threads, IInv, AnnouncePending(th), UNCHANGED deviceVars
  PROVE  IInv'
<1>1. TypeOK'
  BY CallTypes DEF AnnouncePending, deviceVars, IInv, TypeOK, SMTypeOK
<1> USE ThreadsAssumption, DeviceAssumption
<1> USE DEF IInv, TypeOK, SMTypeOK, MutexInv, CallInv, PlaceInv, AgreeInv,
            ReturnInv, NoStaleInterrupt, ResetInv, ExitsWithoutTransports,
            QuietInv, Quiet, BeforeAuto, DestructorNeverThrows, InEvent,
            Threads, InRun, Unwinding, CallType, deviceVars, Return
<1>2. MutexInv' /\ CallInv' /\ PlaceInv'
  BY DEF AnnouncePending
<1>3. AgreeInv' /\ ReturnInv'
  BY DEF AnnouncePending
<1>4. NoStaleInterrupt' /\ ResetInv' /\ DestructorNeverThrows'
  BY DEF AnnouncePending
<1>5. QuietInv'
  BY DEF AnnouncePending
<1> QED
  BY <1>1, <1>2, <1>3, <1>4, <1>5

\* ChangeState as a whole.
LEMMA ChangeStateKeepsInv ==
  ASSUME NEW th \in Threads, IInv, ChangeState(th)
  PROVE  IInv'
BY RefusalKeepsInv, AcceptKeepsInv, AnnounceKeepsInv DEF ChangeState

\* A controller that enters ChangeState, or reads its result.
LEMMA ControllerKeepsInv ==
  ASSUME NEW th \in Controllers, IInv,
         (\E t \in Requests : Request(th, t)) \/ Returned(th)
  PROVE  IInv'
<1>1. th \in Threads /\ th # Worker
  BY ThreadsAssumption DEF Threads
<1> USE ThreadsAssumption, DeviceAssumption
<1>2. ASSUME NEW t \in Requests, Request(th, t) PROVE IInv'
  <2>1. t \in Transition /\ t # "Auto"
    OBVIOUS
  <2>2. TypeOK'
    BY <1>1, <1>2, <2>1, CallTypes DEF Request, IInv, TypeOK, SMTypeOK
  <2> USE DEF Request, Calling
  <2>3. MutexInv' /\ CallInv' /\ PlaceInv' /\ AgreeInv' /\ ReturnInv'
    <3>1. /\ \A x \in Threads : x # th => call'[x] = call[x]
          /\ call'[th].at = "lock" /\ call'[th].transition = t
          /\ ~InEvent(th)
      BY <1>1, <1>2 DEF IInv, TypeOK, SMTypeOK, InEvent
    <3>2. /\ \A x \in Threads : InEvent(x)' <=> InEvent(x)
          /\ call'[Worker] = call[Worker]
      BY <1>1, <3>1 DEF InEvent, Threads
    <3>3. MutexInv'
      BY <1>2, <3>2 DEF IInv, MutexInv
    <3>4. CallInv'
      BY <1>1, <1>2, <3>1, <3>2 DEF IInv, CallInv, Threads
    <3>5. PlaceInv' /\ ReturnInv'
      BY <1>2, <3>2 DEF IInv, PlaceInv, ReturnInv
    <3>6. AgreeInv'
      BY <1>2, <3>2 DEF IInv, AgreeInv
    <3> QED
      BY <3>3, <3>4, <3>5, <3>6
  <2>4. NoStaleInterrupt' /\ ResetInv' /\ DestructorNeverThrows'
    BY <1>1, <1>2
    DEF IInv, TypeOK, SMTypeOK, CallType, NoStaleInterrupt, ResetInv,
        ExitsWithoutTransports, DestructorNeverThrows
  <2>5. QuietInv'
    BY <1>1, <1>2
    DEF IInv, TypeOK, SMTypeOK, CallType, QuietInv, Quiet, BeforeAuto,
        InEvent, Threads, Unwinding
  <2> QED
    BY <2>2, <2>3, <2>4, <2>5 DEF IInv
<1>3. CASE Returned(th)
  <2>1. TypeOK'
    BY <1>1, <1>3, CallTypes DEF Returned, deviceVars, IInv, TypeOK, SMTypeOK
  <2> USE DEF Returned, Called, NoCall, deviceVars
  <2>2. MutexInv' /\ CallInv' /\ PlaceInv' /\ AgreeInv' /\ ReturnInv'
    <3>1. /\ \A x \in Threads : x # th => call'[x] = call[x]
          /\ call'[th].at = "idle"
          /\ ~InEvent(th)
      BY <1>1, <1>3 DEF IInv, TypeOK, SMTypeOK, InEvent
    <3>2. /\ \A x \in Threads : InEvent(x)' <=> InEvent(x)
          /\ call'[Worker] = call[Worker]
      BY <1>1, <3>1 DEF InEvent, Threads
    <3>3. MutexInv'
      BY <1>3, <3>2 DEF IInv, MutexInv, smVars
    <3>4. CallInv'
      BY <1>1, <1>3, <3>1, <3>2 DEF IInv, CallInv, Threads
    <3>5. PlaceInv' /\ ReturnInv'
      BY <1>3, <3>2 DEF IInv, PlaceInv, ReturnInv
    <3>6. AgreeInv'
      BY <1>3, <3>2 DEF IInv, AgreeInv
    <3> QED
      BY <3>3, <3>4, <3>5, <3>6
  <2>3. NoStaleInterrupt' /\ ResetInv' /\ DestructorNeverThrows'
    BY <1>1, <1>3
    DEF IInv, TypeOK, SMTypeOK, CallType, NoStaleInterrupt, ResetInv,
        ExitsWithoutTransports, DestructorNeverThrows
  <2>4. QuietInv'
    BY <1>1, <1>3
    DEF IInv, TypeOK, SMTypeOK, CallType, QuietInv, Quiet, BeforeAuto,
        InEvent, Threads, Unwinding
  <2> QED
    BY <2>1, <2>2, <2>3, <2>4 DEF IInv
<1> QED
  BY <1>2, <1>3

-----------------------------------------------------------------------------
(* The theorems *)

\* IInv is inductive.
LEMMA NextKeepsInv == IInv /\ [Next]_vars => IInv'
<1> SUFFICES ASSUME IInv, [Next]_vars PROVE IInv'
  OBVIOUS
<1>1. Worker \in Threads /\ Controllers \subseteq Threads
  BY DEF Threads
<1>2. CASE WorkerStep
  BY <1>1, <1>2, MovesKeepInv, WorkerCallsKeepInv, ChangeStateKeepsInv
  DEF WorkerStep
<1>3. CASE RateLoggerEnds
  BY <1>3, MovesKeepInv
<1>4. CASE EnvironmentStep
  BY <1>4, MovesKeepInv, WorkerCallsKeepInv DEF EnvironmentStep
<1>5. ASSUME NEW th \in Controllers, ControllerStep(th) PROVE IInv'
  BY <1>1, <1>5, ControllerKeepsInv, ChangeStateKeepsInv DEF ControllerStep
<1>6. CASE UNCHANGED vars
  <2> USE <1>6 DEF vars, smVars, deviceVars, IInv, InEvent
  <2>1. TypeOK'
    BY DEF TypeOK, SMTypeOK
  <2>2. MutexInv' /\ CallInv' /\ PlaceInv'
    BY DEF MutexInv, CallInv, PlaceInv
  <2>3. AgreeInv' /\ ReturnInv'
    BY DEF AgreeInv, ReturnInv
  <2>4. NoStaleInterrupt' /\ ResetInv' /\ DestructorNeverThrows'
    BY DEF NoStaleInterrupt, ResetInv, ExitsWithoutTransports,
           DestructorNeverThrows
  <2>5. QuietInv'
    BY DEF QuietInv, Quiet, BeforeAuto
  <2> QED
    BY <2>1, <2>2, <2>3, <2>4, <2>5
<1> QED
  BY <1>2, <1>3, <1>4, <1>5, <1>6 DEF Next

\* IInv holds in every reachable state.
LEMMA Invariance == Spec => []IInv
BY InitInv, NextKeepsInv, PTL DEF Spec

\* Every variable of the device and its state machine keeps its type.
THEOREM TypeCorrect == Spec => []TypeOK
<1>1. IInv => TypeOK
  BY DEF IInv
<1> QED
  BY <1>1, Invariance, PTL

\* The ErrorFound request that RunWrapper makes from a destructor is always
\* accepted or already in force, so it never throws.
THEOREM NeverTerminates == Spec => []DestructorNeverThrows
<1>1. IInv => DestructorNeverThrows
  BY DEF IInv
<1> QED
  BY <1>1, Invariance, PTL

\* RunWrapper joins the rate logger thread only while a state is pending.
THEOREM RateLoggerAlwaysReleased == Spec => []RateLoggerReleased
<1>1. IInv => RateLoggerReleased
  BY DEF IInv, ReturnInv, RateLoggerReleased
<1> QED
  BY <1>1, Invariance, PTL

\* No handler starts with transports that a past transition interrupted.
THEOREM InterruptIsCurrent == Spec => []NoStaleInterrupt
<1>1. IInv => NoStaleInterrupt
  BY DEF IInv
<1> QED
  BY <1>1, Invariance, PTL

\* A device in Idle or Exiting owns no transport.
THEOREM ResetDropsTransports == Spec => []ExitsWithoutTransports
<1>1. IInv => ExitsWithoutTransports
  BY DEF IInv, ResetInv
<1> QED
  BY <1>1, Invariance, PTL

\* However many controllers race, a device whose run loop ends only on
\* request fails only if its own code threw or ErrorFound was requested.
THEOREM ErrorsAreCaused == Spec => []ErrorHasCause
<1>1. IInv => ErrorHasCause
  BY DEF IInv, QuietInv, Quiet, ErrorHasCause
<1> QED
  BY <1>1, Invariance, PTL

\* fState moves along the rows of the transition table or to Error, whence it
\* never moves: the device implements Lifecycle.
THEOREM DeviceImplementsLifecycle == Spec => FollowsLifecycle
<1>1. Init => L!Init
  BY DEF Init, SMInit, L!Init
<1>2. IInv /\ [Next]_vars => [L!Next]_fState
  <2> SUFFICES ASSUME IInv, [Next]_vars, fState' # fState PROVE L!Next
    OBVIOUS
  <2>1. AwaitState \/ Unwind
    BY DEF Next, WorkerStep, EnvironmentStep, ControllerStep, Start,
           PrepareState, NotifyState, HandleState, InitWait, InitWrapper,
           AutoWrapper, ExitDevice, CheckPending, Changed, PreRun,
           PreRunInterrupted, PreRunMessage, RunLoop, InputInterrupted,
           InputMessage, RunEnds, PostRun, Join, JoinUnwound, InRunWrapper,
           RateLoggerEnds, RunUnwound, UnwindNotify, RequestErrorFound,
           Failed, Throw, ThrowFrom, ChangeState, ChangeStateRefused,
           RefuseOngoing, EventBlocked, NoTransition, AcceptEvent,
           AnnouncePending, Request, Returned, vars, smVars
  <2>2. CASE Unwind
    BY <2>2 DEF Unwind, EnterErrorState, L!Next, L!Fail
  <2>3. CASE AwaitState
    <3>1. fState # "Error"
      BY <2>3 DEF AwaitState, IInv, PlaceInv
    <3>2. CASE ~okRegion
      BY <2>3, <3>1, <3>2
      DEF AwaitState, TakePendingState, IInv, AgreeInv, L!Next, L!Fail
    <3>3. CASE okRegion
      BY <2>3, <3>1, <3>3
      DEF AwaitState, TakePendingState, StatePending, IInv, AgreeInv, L!Next,
          L!Follow, TransitionTable, L!TransitionTable
    <3> QED
      BY <3>2, <3>3
  <2> QED
    BY <2>1, <2>2, <2>3
<1> QED
  BY <1>1, <1>2, Invariance, PTL DEF Spec, FollowsLifecycle, L!Spec
=============================================================================
