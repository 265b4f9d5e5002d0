------------------------------ MODULE Transfer ------------------------------
(***************************************************************************)
(* Send and Receive of zeromq/Socket.h and shmem/Socket.h, the loops that  *)
(* retry a transfer until it succeeds, its timeout is over or the transport*)
(* is interrupted.                                                         *)
(*                                                                         *)
(* The ZeroMQ transport hands every part of a multipart message to the     *)
(* socket as a frame of its own; the shared memory transport packs the     *)
(* metadata of all the parts into one frame.  A pipe is what ZeroMQ (an    *)
(* external library) keeps between a PUSH and a PULL socket: it accepts a  *)
(* new message while it is below the high water mark, never refuses the    *)
(* later frames of a message it has begun, and shows the receiver only     *)
(* complete messages.  A call may fail with EAGAIN after the socket's own  *)
(* timeout (or at once with ZMQ_DONTWAIT) or, at any frame, with EINTR.    *)
(*                                                                         *)
(* Time is counted in units of which a socket timeout (fTimeout, 100 ms)   *)
(* has SocketTimeout.                                                      *)
(***************************************************************************)
EXTENDS Integers, Sequences, SequencesExt

CONSTANTS
  Threads,        \* the threads that transfer data
  Pipes,          \* the connections between the sockets
  SNDHWM,         \* complete messages a pipe holds
  SocketTimeout   \* fTimeout: ZMQ_SNDTIMEO and ZMQ_RCVTIMEO

ASSUME TransferAssumption == SNDHWM \in Nat \ {0} /\ SocketTimeout \in Nat \ {0}

VARIABLES
  pipe,          \* the frames in every pipe
  xfer,          \* the Send or Receive every thread is in
  fInterrupted,  \* fInterrupted of the transports of every thread's device
  mishaps,       \* EINTR and errors that may still happen
  torn           \* history: a multipart transfer was cut between two frames

transferVars == <<pipe, xfer, fInterrupted, mishaps, torn>>

\* What is left of a part after zmq_msg_send has taken its content.
Emptied == <<>>

NoTransfer == [op |-> "none"]

\* The state of a call: its socket, the parts to send or received so far, the
\* next part, the timeout, the variable elapsed, and for the properties the
\* time really spent and whether a signal arrived.
Begin(op, p, vec, timeout) ==
  [op |-> op, pipe |-> p, vec |-> vec, i |-> 1, timeout |-> timeout,
   elapsed |-> 0, waited |-> 0, signalled |-> FALSE]

Transferring(t) == xfer[t].op \in {"send", "receive"}
Returned(t) == xfer[t].op = "returned"

\* A transfer ends with a TransferCode; "success" stands for a size.
Return(x, code) ==
  [op |-> "returned", code |-> code, vec |-> x.vec, timeout |-> x.timeout,
   waited |-> x.waited, signalled |-> x.signalled]

TransferInit(m) ==
  /\ pipe = [p \in Pipes |-> <<>>]
  /\ xfer = [t \in Threads |-> NoTransfer]
  /\ fInterrupted = [t \in Threads |-> FALSE]
  /\ mishaps = m
  /\ torn = FALSE

-----------------------------------------------------------------------------
(* ZeroMQ, external *)

Complete(p) == SelectSeq(pipe[p], LAMBDA f : ~f.more)
Ready(p) == Complete(p) # <<>>
Accepts(p, i) == i > 1 \/ Len(Complete(p)) < SNDHWM

-----------------------------------------------------------------------------
(* The transfer loops *)

\* Mutant: the last part but one ends the message.
FrameOffByOne(transport, vec, i) ==
  IF transport = "shmem"
    THEN [parts |-> vec, more |-> FALSE]
    ELSE [parts |-> <<vec[i]>>, more |-> i < Len(vec) - 1]

\* Part i of a message as the transport puts it into the socket.
Frame(transport, vec, i) ==
  IF transport = "shmem"
    THEN [parts |-> vec, more |-> FALSE]
    ELSE [parts |-> <<vec[i]>>, more |-> i < Len(vec)]

\* zmq_msg_send succeeds.  After the last frame the call returns.
SendFrame(t, transport) ==
  LET x == xfer[t]
      f == Frame(transport, x.vec, x.i)
      rest == IF transport = "shmem" THEN [k \in DOMAIN x.vec |-> Emptied]
              ELSE [x.vec EXCEPT ![x.i] = Emptied]
  IN  /\ x.op = "send"
      /\ Accepts(x.pipe, x.i)
      /\ pipe' = [pipe EXCEPT ![x.pipe] = Append(@, f)]
      /\ xfer' = [xfer EXCEPT ![t] =
                    IF f.more THEN [x EXCEPT !.i = @ + 1, !.vec = rest]
                    ELSE Return([x EXCEPT !.vec = rest], "success")]
      /\ UNCHANGED <<fInterrupted, mishaps, torn>>

\* zmq_msg_recv succeeds and ZMQ_RCVMORE tells whether to go on.
ReceiveFrame(t) ==
  LET x == xfer[t]
      f == Head(pipe[x.pipe])
      got == [x EXCEPT !.vec = @ \o f.parts]
  IN  /\ x.op = "receive"
      /\ Ready(x.pipe)
      /\ pipe' = [pipe EXCEPT ![x.pipe] = Tail(@)]
      /\ xfer' = [xfer EXCEPT ![t] = IF f.more THEN got
                                     ELSE Return(got, "success")]
      /\ UNCHANGED <<fInterrupted, mishaps, torn>>

\* ShouldRetry: what elapsed becomes, and whether to go on.
ElapsedAfter(x) == IF x.timeout > 0 THEN x.elapsed + SocketTimeout ELSE x.elapsed

\* Mutants: the end of the timeout is missed, and a timeout of -1 ends.
ShouldRetryLate(x) == x.timeout # 0 /\ (x.timeout > 0 => ElapsedAfter(x) <= x.timeout)
ShouldRetryNever(x) == x.timeout # 0 /\ ElapsedAfter(x) < x.timeout

ShouldRetry(x) == x.timeout # 0 /\ (x.timeout > 0 => ElapsedAfter(x) < x.timeout)

\* Mutant: the retry comes before the look at fInterrupted.
TryAgainUninterrupted(t, x) ==
  CASE ShouldRetry(x) -> [x EXCEPT !.elapsed = ElapsedAfter(x), !.i = 1]
    [] ~ShouldRetry(x) /\ fInterrupted[t] -> Return(x, "interrupted")
    [] ~ShouldRetry(x) /\ ~fInterrupted[t] -> Return(x, "timeout")

\* After EAGAIN or EINTR.  A multipart send starts again with the first part,
\* although the parts already sent are empty by now; a multipart receive goes
\* on behind the parts it has.
TryAgain(t, x) ==
  CASE fInterrupted[t] -> Return(x, "interrupted")
    [] ~fInterrupted[t] /\ ShouldRetry(x) ->
         [x EXCEPT !.elapsed = ElapsedAfter(x), !.i = 1]
    [] ~fInterrupted[t] /\ ~ShouldRetry(x) -> Return(x, "timeout")

\* A transfer that has moved some frames of a message and not the others.
Begun(x) == IF x.op = "send" THEN x.i > 1 ELSE x.vec # <<>>

\* The socket's own timeout is over, or ZMQ_DONTWAIT: EAGAIN.
Again(t) ==
  LET x == xfer[t]
      waited == IF x.timeout > 0 THEN x.waited + SocketTimeout ELSE x.waited
  IN  /\ \/ x.op = "send" /\ ~Accepts(x.pipe, x.i)
         \/ x.op = "receive" /\ ~Ready(x.pipe)
      /\ xfer' = [xfer EXCEPT ![t] = TryAgain(t, [x EXCEPT !.waited = waited])]
      /\ UNCHANGED <<pipe, fInterrupted, mishaps, torn>>

\* A signal: EINTR, before any time has passed.
Signal(t) ==
  LET x == TryAgain(t, [xfer[t] EXCEPT !.signalled = TRUE])
  IN  /\ Transferring(t)
      /\ mishaps > 0
      /\ mishaps' = mishaps - 1
      /\ xfer' = [xfer EXCEPT ![t] = x]
      /\ torn' = (torn \/ (/\ Begun(xfer[t])
                           /\ xfer[t].op = "send" \/ x.op = "returned"))
      /\ UNCHANGED <<pipe, fInterrupted>>

\* HandleErrors: any other failure ends the transfer.
Fail(t) ==
  /\ Transferring(t)
  /\ mishaps > 0
  /\ mishaps' = mishaps - 1
  /\ xfer' = [xfer EXCEPT ![t] = Return(@, "error")]
  /\ torn' = (torn \/ Begun(xfer[t]))
  /\ UNCHANGED <<pipe, fInterrupted>>

\* One turn of the loop; every transfer comes back here until it returns.
Proceed(t, transport) ==
  SendFrame(t, transport) \/ ReceiveFrame(t) \/ Again(t)
=============================================================================
