---------------------------- MODULE StateMachine ----------------------------
(***************************************************************************)
(* fairmq/StateMachine.cxx: the boost::msm back end and the two functions  *)
(* that drive it.  Any thread may call ChangeState; one thread, the worker,*)
(* runs ProcessWork.                                                       *)
(*                                                                         *)
(* The msm state (active, okRegion) moves when ChangeState accepts an      *)
(* event.  The state everybody observes (fState) moves later, when the     *)
(* worker takes the pending state.  Both happen under fStateMtx, but       *)
(* NewStatePending and GetCurrentState read atomics without the mutex, and *)
(* the new-transition callbacks run inside ChangeState before              *)
(* fNewStatePending is set.  ChangeState is therefore two steps: the event *)
(* with its callbacks, and the announcement of the pending state.          *)
(***************************************************************************)
EXTENDS States

CONSTANTS
  Worker,        \* the thread that runs ProcessWork
  Controllers,   \* the other threads that call ChangeState
  None           \* not a thread: the owner of a free mutex

Threads == {Worker} \cup Controllers

ASSUME ThreadsAssumption ==
  /\ Worker \notin Controllers
  /\ None \notin Threads

VARIABLES
  active,                 \* current state of msm region 1
  okRegion,               \* TRUE while msm region 2 is in OK_S
  fState,                 \* Machine_::fState
  fNewState,              \* Machine_::fNewState
  fNewStatePending,       \* Machine_::fNewStatePending
  fLastTransitionResult,  \* Machine_::fLastTransitionResult
  fStateMtx,              \* owner of Machine_::fStateMtx
  call                    \* per thread, its ChangeState call

smVars == <<active, okRegion, fState, fNewState, fNewStatePending,
            fLastTransitionResult, fStateMtx, call>>

\* A ChangeState call: waiting for the mutex, inside the event with the
\* mutex held, or returned with a result that the caller has not read yet.
NoCall == [at |-> "idle", transition |-> "Auto", result |-> FALSE]

CallType ==
  [at : {"idle", "lock", "event", "returned"}, transition : Transition,
   result : BOOLEAN]

SMTypeOK ==
  /\ active \in DeviceState
  /\ okRegion \in BOOLEAN
  /\ fState \in State
  /\ fNewState \in State
  /\ fNewStatePending \in BOOLEAN
  /\ fLastTransitionResult \in BOOLEAN
  /\ fStateMtx \in Threads \cup {None}
  /\ call \in [Threads -> CallType]

\* Mutant: the constructor leaves fNewState uninitialized.
SMInitUninitialized ==
  /\ active = "Idle"
  /\ okRegion = TRUE
  /\ fState = "Idle"
  /\ fNewState = "uninitialized"
  /\ fNewStatePending = FALSE
  /\ fLastTransitionResult = TRUE
  /\ fStateMtx = None
  /\ call = [th \in Threads |-> NoCall]

\* Machine_() and Start(): on_entry sets fState to Idle.
SMInit ==
  /\ active = "Idle"
  /\ okRegion = TRUE
  /\ fState = "Idle"
  /\ fNewState = "Ok"
  /\ fNewStatePending = FALSE
  /\ fLastTransitionResult = TRUE
  /\ fStateMtx = None
  /\ call = [th \in Threads |-> NoCall]

-----------------------------------------------------------------------------
(* ChangeState *)

Return(th, result) ==
  [call EXCEPT ![th] = [@ EXCEPT !.at = "returned", !.result = result]]

\* The branch conditions of ChangeState, read with fStateMtx acquired.
AtLock(th) == call[th].at = "lock" /\ fStateMtx = None

\* Mutants: ErrorFound waits its turn; a pending state stops nobody.
MayProcessInTurn(th) == ~fNewStatePending
MayProcessAlways(th) == TRUE

MayProcess(th) == ~fNewStatePending \/ call[th].transition = "ErrorFound"

\* "another state transition is already ongoing"
RefuseOngoing(th) ==
  /\ AtLock(th)
  /\ ~MayProcess(th)
  /\ call' = Return(th, FALSE)
  /\ UNCHANGED <<active, okRegion, fState, fNewState, fNewStatePending,
                 fLastTransitionResult, fStateMtx>>

\* After the terminate state has been entered msm blocks every event, so the
\* result of the last processed event is returned again.
EventBlocked(th) ==
  /\ AtLock(th)
  /\ MayProcess(th)
  /\ ~okRegion
  /\ call' = Return(th, fLastTransitionResult)
  /\ UNCHANGED <<active, okRegion, fState, fNewState, fNewStatePending,
                 fLastTransitionResult, fStateMtx>>

\* Machine_::no_transition
NoTransition(th) ==
  /\ AtLock(th)
  /\ MayProcess(th)
  /\ okRegion
  /\ call[th].transition # "ErrorFound"
  /\ \A row \in TransitionTable :
       ~(row[1] = active /\ row[2] = call[th].transition)
  /\ fLastTransitionResult' = FALSE
  /\ call' = Return(th, FALSE)
  /\ UNCHANGED <<active, okRegion, fState, fNewState, fNewStatePending,
                 fStateMtx>>

\* Machine_::DefaultFct up to and including the new-transition callbacks.
\* fStateMtx stays with the caller.
AcceptEvent(th) ==
  /\ AtLock(th)
  /\ MayProcess(th)
  /\ okRegion
  /\ \/ /\ call[th].transition = "ErrorFound"
        /\ okRegion' = FALSE
        /\ fNewState' = "Error"
        /\ UNCHANGED active
     \/ \E row \in TransitionTable :
          /\ row[1] = active
          /\ row[2] = call[th].transition
          /\ active' = row[3]
          /\ fNewState' = row[3]
          /\ UNCHANGED okRegion
  /\ fLastTransitionResult' = TRUE
  /\ fStateMtx' = th
  /\ call' = [call EXCEPT ![th].at = "event"]
  /\ UNCHANGED <<fState, fNewStatePending>>

\* The end of DefaultFct and of ChangeState: pending is set, the condition
\* variable notified, the mutex released.
AnnouncePending(th) ==
  /\ call[th].at = "event"
  /\ fNewStatePending' = TRUE
  /\ fStateMtx' = None
  /\ call' = Return(th, fLastTransitionResult)
  /\ UNCHANGED <<active, okRegion, fState, fNewState, fLastTransitionResult>>

\* The part of ChangeState that has no callback.
ChangeStateRefused(th) == RefuseOngoing(th) \/ EventBlocked(th) \/ NoTransition(th)

\* ChangeState is entered / its result has been read.
Calling(th, t) ==
  [call EXCEPT ![th] = [at |-> "lock", transition |-> t, result |-> FALSE]]

Called(th) == [call EXCEPT ![th] = NoCall]

-----------------------------------------------------------------------------
(* ProcessWork *)

\* fNewStatePendingCV.wait: the predicate holds and the mutex is acquired.
StatePending == fNewStatePending /\ fStateMtx = None

\* One iteration of Machine_::ProcessWork up to the unlock.
TakePendingState ==
  /\ StatePending
  /\ fState' = fNewState
  /\ fNewStatePending' = FALSE
  /\ UNCHANGED <<active, okRegion, fNewState, fLastTransitionResult,
                 fStateMtx, call>>

\* CallOnDestruction in ProcessWork, first half: the mutex is taken and
\* fState set, the state-change callbacks run before it is released.
EnterErrorState ==
  /\ fStateMtx = None
  /\ fStateMtx' = Worker
  /\ fState' = "Error"
  /\ UNCHANGED <<active, okRegion, fNewState, fNewStatePending,
                 fLastTransitionResult, call>>

\* Second half: unlock and request ErrorFound.
RequestErrorFound ==
  /\ fStateMtx = Worker
  /\ fStateMtx' = None
  /\ call' = Calling(Worker, "ErrorFound")
  /\ UNCHANGED <<active, okRegion, fState, fNewState, fNewStatePending,
                 fLastTransitionResult>>
=============================================================================
