----------------------------- MODULE RegionAcks -----------------------------
(***************************************************************************)
(* fairmq/shmem/UnmanagedRegion.h: how blocks that messages no longer need *)
(* come back to the process that controls the region.  Every process has a *)
(* list of blocks and a sender thread that puts them in bunches into one   *)
(* bounded queue; the controller's receiver thread takes them out and calls*)
(* the user's callback.  StopAcks and the destructor join these threads.   *)
(***************************************************************************)
EXTENDS Naturals, Sequences, FiniteSets, SequencesExt

CONSTANTS
  Controller,     \* the process that created the region
  Viewers,        \* processes that open it through Manager::GetRegion
  Blocks,
  fAckBunchSize,
  QueueSize,      \* bunches that fit into the queue
  MaxLends        \* bound: how often the user puts a block into a message

Processes == {Controller} \cup Viewers

ASSUME RegionAssumption ==
  /\ Controller \notin Viewers
  /\ {fAckBunchSize, QueueSize} \subseteq Nat \ {0}
  /\ MaxLends \in Nat

VARIABLES
  callback,        \* what CreateRegion was given.  Never changed
  phase,           \* the region object of each process
  fStopAcks,
  fBlocksToFree,   \* per process, a sequence of blocks
  sender,          \* per process, where SendAcks is
  bunch,           \* per process, the blocks SendAcks is about to send
  fQueue,          \* the message queue, a sequence of bunches
  receiver,        \* where ReceiveAcks is
  leave,           \* its local variable
  received,        \* the bunch it is calling back
  out,             \* blocks the user has put into messages and not got back
  inUse,           \* those that some message still holds
  lends            \* number of times a block was put into a message

threadVars == <<sender, bunch, fQueue, receiver, leave, received>>
userVars == <<out, inUse, lends>>
vars == <<callback, phase, fStopAcks, fBlocksToFree, threadVars, userVars>>

RegionTypeOK ==
  /\ callback \in {"none", "fCallback", "fBulkCallback"}
  /\ phase \in [Processes ->
       {"none", "open", "joinSender", "joinReceiver", "closed"}]
  /\ fStopAcks \in [Processes -> BOOLEAN]
  /\ fBlocksToFree \in [Processes -> Seq(Blocks)]
  /\ sender \in [Processes -> {"none", "wait", "send", "full", "left"}]
  /\ bunch \in [Processes -> Seq(Blocks)]
  /\ fQueue \in Seq(Seq(Blocks)) /\ Len(fQueue) <= QueueSize
  /\ receiver \in {"none", "check", "receive", "callback", "left"}
  /\ leave \in BOOLEAN
  /\ received \in Seq(Blocks) /\ Len(received) <= fAckBunchSize
  /\ inUse \subseteq out /\ out \subseteq Blocks
  /\ lends \in 0 .. MaxLends

\* CreateRegion: the queue and the threads only if there is a callback.
Init ==
  /\ callback \in {"none", "fCallback", "fBulkCallback"}
  /\ phase = [p \in Processes |-> IF p = Controller THEN "open" ELSE "none"]
  /\ fStopAcks = [p \in Processes |-> FALSE]
  /\ fBlocksToFree = [p \in Processes |-> <<>>]
  /\ sender = [p \in Processes |->
                 IF p = Controller /\ callback # "none" THEN "wait" ELSE "none"]
  /\ bunch = [p \in Processes |-> <<>>]
  /\ fQueue = <<>>
  /\ receiver = IF callback # "none" THEN "check" ELSE "none"
  /\ leave = FALSE
  /\ received = <<>>
  /\ out = {} /\ inUse = {} /\ lends = 0

-----------------------------------------------------------------------------
(* The processes *)

\* GetRegion in a viewer opens the queue and starts the sender.  It needs the
\* shared memory object, which the controller removes when it closes.
GetRegion(p) ==
  /\ p \in Viewers
  /\ phase[p] = "none"
  /\ phase[Controller] # "closed"
  /\ phase' = [phase EXCEPT ![p] = "open"]
  /\ sender' = [sender EXCEPT ![p] = "wait"]
  /\ UNCHANGED <<callback, fStopAcks, fBlocksToFree, bunch, fQueue,
                 receiver, leave, received, userVars>>

\* The user puts a block into a message, see NewRegionMessage in Messages.
Lend(b) ==
  /\ phase[Controller] = "open"
  /\ b \notin out
  /\ lends < MaxLends
  /\ lends' = lends + 1
  /\ out' = out \cup {b}
  /\ inUse' = inUse \cup {b}
  /\ UNCHANGED <<callback, phase, fStopAcks, fBlocksToFree, threadVars>>

\* The last message with the block goes away in process p.
ReleaseBlock(p, b) ==
  /\ b \in inUse
  /\ phase[p] \notin {"none", "closed"}
  /\ inUse' = inUse \ {b}
  /\ fBlocksToFree' = [fBlocksToFree EXCEPT ![p] = Append(@, b)]
  /\ UNCHANGED <<callback, phase, fStopAcks, threadVars, out, lends>>

\* RemoveRegion (StopAcks) in the controller, ~UnmanagedRegion in a viewer.
StopAcks(p) ==
  /\ phase[p] = "open"
  /\ phase' = [phase EXCEPT ![p] = "joinSender"]
  /\ fStopAcks' = [fStopAcks EXCEPT ![p] = TRUE]
  /\ UNCHANGED <<callback, fBlocksToFree, threadVars, userVars>>

JoinThreads(p) ==
  /\ \/ /\ phase[p] = "joinSender" /\ sender[p] \in {"none", "left"}
        /\ phase' = [phase EXCEPT ![p] = "joinReceiver"]
     \/ /\ phase[p] = "joinReceiver"
        /\ p = Controller => receiver \in {"none", "left"}
        /\ phase' = [phase EXCEPT ![p] = "closed"]
  /\ UNCHANGED <<callback, fStopAcks, fBlocksToFree, threadVars, userVars>>

-----------------------------------------------------------------------------
(* SendAcks *)

\* SendAcks takes the blocks i .. j of its list, and leaves the first `rest`.
Take(p, i, j, rest) ==
  /\ sender[p] = "wait"
  /\ bunch' = [bunch EXCEPT ![p] = SubSeq(fBlocksToFree[p], i, j)]
  /\ fBlocksToFree' = [fBlocksToFree EXCEPT ![p] = SubSeq(@, 1, rest)]
  /\ sender' = [sender EXCEPT ![p] = IF i <= j THEN "send"
                                     ELSE IF fStopAcks[p] THEN "left" ELSE "wait"]
  /\ UNCHANGED <<callback, phase, fStopAcks, fQueue, receiver, leave, received,
                 userVars>>

BlocksToSend(p) ==
  IF Len(fBlocksToFree[p]) < fAckBunchSize THEN Len(fBlocksToFree[p])
                                           ELSE fAckBunchSize

\* Mutants: no limit; no resize; copied from the wrong end; waiting for a
\* whole bunch.
TakeAll(p) == Take(p, 1, Len(fBlocksToFree[p]), 0)
TakeWithoutResize(p) ==
  LET size == Len(fBlocksToFree[p])
  IN Take(p, size - BlocksToSend(p) + 1, size, size)
TakeOldest(p) ==
  Take(p, 1, BlocksToSend(p), Len(fBlocksToFree[p]) - BlocksToSend(p))
TakeWholeBunch(p) ==
  LET size == Len(fBlocksToFree[p])
  IN /\ size >= fAckBunchSize \/ fStopAcks[p]
     /\ Take(p, size - BlocksToSend(p) + 1, size, size - BlocksToSend(p))

\* The wait has ended, by a notification or after 500 ms: the sender takes the
\* youngest blocks, or leaves if there are none and it is told to.
TakeBlocks(p) ==
  LET size == Len(fBlocksToFree[p])
  IN Take(p, size - BlocksToSend(p) + 1, size, size - BlocksToSend(p))

TrySend(p) ==
  /\ sender[p] = "send"
  /\ \/ /\ Len(fQueue) < QueueSize
        /\ fQueue' = Append(fQueue, bunch[p])
        /\ sender' = [sender EXCEPT ![p] = "wait"]
        /\ bunch' = [bunch EXCEPT ![p] = <<>>]
     \/ /\ Len(fQueue) = QueueSize
        /\ sender' = [sender EXCEPT ![p] = "full"]
        /\ UNCHANGED <<fQueue, bunch>>
  /\ UNCHANGED <<callback, phase, fStopAcks, fBlocksToFree, receiver, leave,
                 received, userVars>>

\* try_send has failed: the sender tries again or, told to stop, drops the
\* bunch.
AfterFailure(p, drop) ==
  /\ sender[p] = "full"
  /\ IF drop
       THEN /\ sender' = [sender EXCEPT ![p] = "wait"]
            /\ bunch' = [bunch EXCEPT ![p] = <<>>]
       ELSE /\ sender' = [sender EXCEPT ![p] = "send"]
            /\ UNCHANGED bunch
  /\ UNCHANGED <<callback, phase, fStopAcks, fBlocksToFree, fQueue, receiver,
                 leave, received, userVars>>

\* Mutants: a single attempt; fStopAcks is not looked at.
DropWhenFull(p) == AfterFailure(p, TRUE)
RetryForever(p) == AfterFailure(p, FALSE)

Retry(p) == AfterFailure(p, fStopAcks[p])

-----------------------------------------------------------------------------
(* ReceiveAcks *)

\* The head of the outer loop.
CheckStop ==
  /\ receiver = "check"
  /\ leave' = fStopAcks[Controller]
  /\ receiver' = "receive"
  /\ UNCHANGED <<callback, phase, fStopAcks, fBlocksToFree, sender, bunch,
                 fQueue, received, userVars>>

\* timed_receive: a bunch, or nothing within the timeout (100 ms or fLinger).
ReceiveBunch ==
  /\ receiver = "receive"
  /\ \/ /\ fQueue # <<>>
        /\ received' = Head(fQueue)
        /\ fQueue' = Tail(fQueue)
        /\ receiver' = "callback"
     \/ /\ fQueue = <<>>
        /\ receiver' = IF leave THEN "left" ELSE "check"
        /\ UNCHANGED <<received, fQueue>>
  /\ UNCHANGED <<callback, phase, fStopAcks, fBlocksToFree, sender, bunch,
                 leave, userVars>>

\* fBulkCallback gets the whole bunch, fCallback one block after the other.
Callback ==
  /\ receiver = "callback"
  /\ LET n == IF callback = "fBulkCallback" THEN Len(received) ELSE 1 IN
       /\ out' = out \ {received[i] : i \in 1 .. n}
       /\ received' = SubSeq(received, n + 1, Len(received))
       /\ receiver' = IF n = Len(received) THEN "receive" ELSE "callback"
  /\ UNCHANGED <<callback, phase, fStopAcks, fBlocksToFree, sender, bunch,
                 fQueue, leave, inUse, lends>>

-----------------------------------------------------------------------------

Sender(p) == TakeBlocks(p) \/ TrySend(p) \/ Retry(p)
Receiver == CheckStop \/ ReceiveBunch \/ Callback

Next ==
  \/ \E b \in Blocks : Lend(b) \/ \E p \in Processes : ReleaseBlock(p, b)
  \/ \E p \in Processes : GetRegion(p) \/ StopAcks(p) \/ JoinThreads(p) \/ Sender(p)
  \/ Receiver

Spec == Init /\ [][Next]_vars

\* Threads keep running, their waits have timeouts.  Nothing makes a message
\* go away or a process stop.
Fairness ==
  /\ \A p \in Processes : WF_vars(Sender(p)) /\ WF_vars(JoinThreads(p))
  /\ WF_vars(Receiver)

FairSpec == Spec /\ Fairness

-----------------------------------------------------------------------------
(* Properties *)

\* All blocks on their way, in every place they can be, with repetitions.
OnTheWay ==
  FlattenSeq(fQueue) \o received
    \o FlattenSeq([i \in 1 .. Cardinality(Processes) |->
         LET p == SetToSeq(Processes)[i] IN fBlocksToFree[p] \o bunch[p]])

\* A block is on its way back once and in one place only, although senders
\* copy blocks between lists and queues: it is neither still in a message nor
\* already with the user, so no block is ever returned twice.
OnePlace ==
  /\ IsInjective(OnTheWay)
  /\ ToSet(OnTheWay) \subseteq out \ inUse

\* As long as nobody stops, every released block is on its way.
NothingDropped ==
  (\A p \in Processes : ~fStopAcks[p]) => out \ inUse \subseteq ToSet(OnTheWay)

\* The region's part of the promise made to the user.
Life == INSTANCE BlockLife WITH
  with <- [b \in Blocks |-> IF b \notin out THEN "user"
                            ELSE IF b \in inUse THEN "message" ELSE "region"]
KeepsBlockLife == Life!Spec

\* With a callback, every released block reaches it unless somebody stops.
ReleasedReturns ==
  \A b \in Blocks :
    (callback # "none" /\ b \in out \ inUse)
      ~> (b \notin out \/ \E p \in Processes : fStopAcks[p])

\* The destructor of a region returns in every process, whether or not anyone
\* empties the queue: no callback, controller gone, queue full.
StopTerminates ==
  \A p \in Processes : phase[p] = "joinSender" ~> phase[p] = "closed"
=============================================================================
