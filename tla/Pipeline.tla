------------------------------ MODULE Pipeline ------------------------------
(***************************************************************************)
(* The devices of fairmq/devices/ and the input loops of Device.cxx,       *)
(* connected to a small pipeline:                                          *)
(*                                                                         *)
(*    samplers ---in1, in2---> device ---out1, out2---> sinks              *)
(*                                                                         *)
(* The device in the middle is a Proxy, a Merger, a Splitter, a Multiplier *)
(* or a device whose data callbacks keep what comes in on two inputs of    *)
(* one transport ("inputs") or of two ("transports": a poll thread for     *)
(* each).  In a "pair" sampler and sink are connected directly.            *)
(***************************************************************************)
EXTENDS Transfer, ZmqRegions, FiniteSets

CONSTANTS
  Scenes,     \* the pipelines considered
  MaxMade     \* messages each sampler makes in a behaviour

VARIABLES
  scene,     \* which pipeline this is, never changed
  thr,       \* where every thread is in its Run
  pending,   \* the threads whose device sees NewStatePending()
  fMultitransportProceed,
  made,      \* history: messages a sampler has made
  stored,    \* history: the messages each sink has received
  lost       \* history: parts destroyed unsent

pipelineVars ==
  <<scene, thr, pending, fMultitransportProceed, made, stored, lost>>
vars == <<transferVars, zmqRegionVars, pipelineVars>>

Callbacks == {"inputs", "transports"}
TwoInputs == {"merger"} \cup Callbacks
TwoOutputs == {"splitter", "multiplier"}

Samplers == CASE scene.kind = "regions" -> {}
              [] scene.kind \in TwoInputs -> {"s1", "s2"}
              [] OTHER -> {"s1"}
Sinks == CASE scene.kind \in Callbacks \cup {"regions"} -> {}
           [] scene.kind \in TwoOutputs -> {"k1", "k2"}
           [] OTHER -> {"k1"}
Middle == CASE scene.kind \in {"pair", "regions"} -> {}
            [] scene.kind = "transports" -> {"t1", "t2"}
            [] OTHER -> {"w"}

\* The threads of a device are interrupted together.
SameDevice(t) == IF t \in Middle THEN Middle ELSE {t}

Inputs(t) ==
  CASE t = "t1" -> <<"in1">>
    [] t = "t2" -> <<"in2">>
    [] t = "w" -> IF scene.kind \in TwoInputs THEN <<"in1", "in2">> ELSE <<"in1">>
    [] t = "k1" -> IF scene.kind = "pair" THEN <<"in1">> ELSE <<"out1">>
    [] t = "k2" -> <<"out2">>

Outputs(t) ==
  CASE t = "s1" -> <<"in1">>
    [] t = "s2" -> <<"in2">>
    [] OTHER -> IF scene.kind \in TwoOutputs THEN <<"out1", "out2">> ELSE <<"out1">>

\* With two transports the second input is the shared memory one.
TransportOf(p) ==
  CASE scene.kind # "transports" -> scene.transport
    [] scene.kind = "transports" -> IF p = "in2" THEN "shmem" ELSE "zeromq"

\* A message of a sampler, as the sequence of its parts.
Made(s, n) == [k \in 1..scene.parts |-> <<s, n, k>>]

Init ==
  /\ scene \in Scenes
  /\ TransferInit(scene.mishaps)
  /\ ZmqRegionInit
  /\ \E opened \in {TRUE, ~scene.file} :
       thr = [t \in Threads |->
                [at |-> IF t \in Sinks /\ ~opened THEN "done" ELSE "loop",
                 idx |-> 1, revents |-> {}, payload |-> <<>>, num |-> 0]]
  /\ pending = {}
  /\ fMultitransportProceed = TRUE
  /\ made = [t \in Threads |-> 0]
  /\ stored = [t \in Threads |-> <<>>]
  /\ lost = {}

\* Channel::Send and Channel::Receive with the timeout of the channel.
Call(t, op, p, vec) == xfer' = [xfer EXCEPT ![t] = Begin(op, p, vec, scene.timeout)]

EndCall(t) == xfer' = [xfer EXCEPT ![t] = NoTransfer]

Goto(t, l) == thr' = [thr EXCEPT ![t].at = l]

\* The parts of a message that are still there are destroyed with it.
Destroy(vec) == lost' = lost \cup (ToSet(vec) \ {Emptied})

rest == <<pipe, fInterrupted, mishaps, torn, scene, zmqRegionVars>>

-----------------------------------------------------------------------------
(* BenchmarkSampler *)

SamplerLoop(s) ==
  /\ thr[s].at = "loop"
  /\ IF s \in pending
       THEN Goto(s, "done") /\ UNCHANGED <<xfer, made>>
       ELSE /\ made[s] < MaxMade[s]
            /\ made' = [made EXCEPT ![s] = @ + 1]
            /\ Call(s, "send", Outputs(s)[1], Made(s, made[s] + 1))
            /\ Goto(s, "sending")
  /\ UNCHANGED <<rest, pending, fMultitransportProceed, stored, lost>>

\* A message that was not sent is not counted and goes with its scope.  The
\* limit is checked before the message that was just sent is counted.
SamplerSent(s) ==
  LET enough == scene.max > 0 /\ thr[s].num >= scene.max IN
  /\ thr[s].at = "sending" /\ Returned(s)
  /\ EndCall(s)
  /\ thr' = [thr EXCEPT ![s] =
               IF xfer[s].code # "success" THEN [@ EXCEPT !.at = "loop"]
               ELSE IF enough THEN [@ EXCEPT !.at = "done"]
               ELSE [@ EXCEPT !.at = "loop", !.num = @ + 1]]
  /\ Destroy(xfer[s].vec)
  /\ UNCHANGED <<rest, pending, fMultitransportProceed, made, stored>>

-----------------------------------------------------------------------------
(* Sink.  One that cannot open its file throws before its loop (Init).       *)

SinkLoop(k) ==
  /\ thr[k].at = "loop"
  /\ IF k \in pending THEN Goto(k, "done") /\ UNCHANGED xfer
     ELSE Call(k, "receive", Inputs(k)[1], <<>>) /\ Goto(k, "receiving")
  /\ UNCHANGED <<rest, pending, fMultitransportProceed, made, stored, lost>>

\* fBytesWritten after the message, every part being a byte long.
BytesWritten(k) == Len(FlattenSeq(stored'[k]))

\* The loop is left when the file or the number of messages has reached its
\* limit, or by the exception of a write that failed.
SinkReceived(k) ==
  LET enough == \/ scene.file /\ scene.maxFileSize > 0
                     /\ BytesWritten(k) >= scene.maxFileSize
                \/ scene.max > 0 /\ thr[k].num >= scene.max
  IN
  /\ thr[k].at = "receiving" /\ Returned(k)
  /\ EndCall(k)
  /\ IF xfer[k].code = "success"
       THEN /\ stored' = [stored EXCEPT ![k] = Append(@, xfer[k].vec)]
            /\ \E written \in {TRUE, ~scene.file} :
                 thr' = [thr EXCEPT ![k] =
                           IF written /\ ~enough
                           THEN [@ EXCEPT !.at = "loop", !.num = @ + 1]
                           ELSE [@ EXCEPT !.at = "done"]]
            /\ UNCHANGED lost
       ELSE Goto(k, "loop") /\ Destroy(xfer[k].vec) /\ UNCHANGED stored
  /\ UNCHANGED <<rest, pending, fMultitransportProceed, made>>

-----------------------------------------------------------------------------
(* The device in the middle *)

Polls == scene.kind \in TwoInputs

\* The head of the loops of Run, HandleSingleChannelInput,
\* HandleMultipleChannelInput and PollForTransport.
Loop(t) ==
  /\ thr[t].at = "loop"
  /\ CASE t \in pending \/ ~fMultitransportProceed -> Goto(t, "done") /\ UNCHANGED xfer
       [] OTHER ->
            IF Polls THEN Goto(t, "polling") /\ UNCHANGED xfer
            ELSE Call(t, "receive", Inputs(t)[1], <<>>) /\ Goto(t, "receiving")
  /\ UNCHANGED <<rest, pending, fMultitransportProceed, made, stored, lost>>

\* Poller::Poll: some inputs are ready, or its timeout is over.
Poll(t) ==
  /\ thr[t].at = "polling"
  /\ thr' = [thr EXCEPT ![t].at = "scan", ![t].idx = 1,
               ![t].revents = {i \in DOMAIN Inputs(t) : Ready(Inputs(t)[i])}]
  /\ UNCHANGED <<xfer, rest, pending, fMultitransportProceed, made, stored, lost>>

\* Poller::CheckInput: what the last Poll has seen.
CheckInput(t, i) == i \in thr[t].revents

\* fMultitransportMutex is held from CheckInput to the end of the handler.
Handling(t) == thr[t].at \in {"receiving", "sending", "callback"}

\* Mutant: PollForTransport without the second look at fMultitransportProceed.
ScanUnchecked(t) ==
  LET i == thr[t].idx IN
  /\ thr[t].at = "scan"
  /\ IF i > Len(Inputs(t)) THEN Goto(t, "loop") /\ UNCHANGED xfer
     ELSE IF ~CheckInput(t, i)
            THEN thr' = [thr EXCEPT ![t].idx = @ + 1] /\ UNCHANGED xfer
     ELSE /\ \A u \in Middle \ {t} : ~Handling(u)
          /\ Call(t, "receive", Inputs(t)[i], <<>>) /\ Goto(t, "receiving")
  /\ UNCHANGED <<rest, pending, fMultitransportProceed, made, stored, lost>>

\* CheckInput for one input after the other.
Scan(t) ==
  LET i == thr[t].idx IN
  /\ thr[t].at = "scan"
  /\ IF i > Len(Inputs(t)) THEN Goto(t, "loop") /\ UNCHANGED xfer
     ELSE IF ~CheckInput(t, i)
            THEN thr' = [thr EXCEPT ![t].idx = @ + 1] /\ UNCHANGED xfer
     ELSE /\ \A u \in Middle \ {t} : ~Handling(u)
          /\ IF fMultitransportProceed
               THEN Call(t, "receive", Inputs(t)[i], <<>>) /\ Goto(t, "receiving")
               ELSE Goto(t, "loop") /\ UNCHANGED xfer
  /\ UNCHANGED <<rest, pending, fMultitransportProceed, made, stored, lost>>

\* The handler returned: the loops of Proxy and of the single input end when it
\* failed, Merger polls again, the others end with proceed = false.
Handled(t, ok) ==
  /\ fMultitransportProceed' =
       IF scene.kind \in Callbacks /\ ~ok THEN FALSE
       ELSE fMultitransportProceed
  /\ thr' = [thr EXCEPT ![t] =
       CASE ok /\ Polls -> [@ EXCEPT !.at = "scan", !.idx = @ + 1]
         [] ok /\ ~Polls -> [@ EXCEPT !.at = "loop"]
         [] ~ok /\ Polls -> [@ EXCEPT !.at = "loop"]
         [] ~ok /\ ~Polls -> [@ EXCEPT !.at = "done"]]

\* Receive returned.  A data callback is called with the message, the other
\* devices send it to an output: Splitter's next one, and Multiplier's first.
Received(t) ==
  /\ thr[t].at = "receiving" /\ Returned(t)
  /\ IF xfer[t].code = "success" /\ scene.kind \in Callbacks
       THEN Goto(t, "callback") /\ UNCHANGED <<xfer, lost, fMultitransportProceed>>
     ELSE IF xfer[t].code = "success"
       THEN LET o == IF scene.kind = "splitter" THEN thr[t].num + 1 ELSE 1
            IN  /\ Call(t, "send", Outputs(t)[o], xfer[t].vec)
                /\ thr' = [thr EXCEPT ![t].at = "sending",
                     ![t].payload = IF scene.kind = "multiplier" THEN xfer[t].vec
                                    ELSE <<>>]
                /\ UNCHANGED <<lost, fMultitransportProceed>>
       ELSE /\ EndCall(t)
            /\ Handled(t, FALSE)
            /\ Destroy(xfer[t].vec)
  /\ UNCHANGED <<rest, pending, made, stored>>

\* The data callback returns whether to go on.
Callback(t) ==
  /\ thr[t].at = "callback"
  /\ EndCall(t)
  /\ stored' = [stored EXCEPT ![t] = Append(@, xfer[t].vec)]
  /\ \E result \in {TRUE, ~scene.refuses} : Handled(t, result)
  /\ UNCHANGED <<rest, pending, made, lost>>

\* An exception of the data callback or of the poller leaves Run, and the device
\* goes to Error; out of a poll thread it ends the process with all its threads.
Throw(t) ==
  LET gone == SameDevice(t) IN
  /\ scene.throws /\ thr[t].at \in {"polling", "callback"}
  /\ stored' = IF thr[t].at = "callback"
                 THEN [stored EXCEPT ![t] = Append(@, xfer[t].vec)] ELSE stored
  /\ lost' = lost \cup UNION {ToSet(xfer[u].vec) \ {Emptied} :
                                u \in {u \in gone \ {t} : xfer[u] # NoTransfer}}
  /\ xfer' = [u \in Threads |-> IF u \in gone THEN NoTransfer ELSE xfer[u]]
  /\ thr' = [u \in Threads |->
       IF u \in gone
       THEN [thr[u] EXCEPT !.at = IF scene.kind = "transports" THEN "terminated"
                                ELSE "done"]
       ELSE thr[u]]
  /\ UNCHANGED <<rest, pending, fMultitransportProceed, made>>

\* Send returned.  Proxy and Merger look at the result.
ForwarderSent(t) ==
  /\ scene.kind \in {"proxy", "merger"}
  /\ EndCall(t)
  /\ Handled(t, xfer[t].code = "success")

\* Splitter does not; it turns to its next output, fDirection.
SplitterSent(t) ==
  /\ scene.kind = "splitter"
  /\ EndCall(t)
  /\ thr' = [thr EXCEPT ![t].at = "loop", ![t].num = (@ + 1) % Len(Outputs(t))]
  /\ UNCHANGED fMultitransportProceed

\* Nor does Multiplier, which sends copies first and to the last output the
\* message itself.
MultiplierSent(t) ==
  /\ scene.kind = "multiplier"
  /\ IF thr[t].num = 0
     THEN /\ Call(t, "send", Outputs(t)[2], thr[t].payload)
          /\ thr' = [thr EXCEPT ![t].num = 1]
     ELSE /\ EndCall(t)
          /\ thr' = [thr EXCEPT ![t].at = "loop", ![t].num = 0,
                                ![t].payload = <<>>]
  /\ UNCHANGED fMultitransportProceed

Sent(t) ==
  /\ thr[t].at = "sending" /\ Returned(t)
  /\ ForwarderSent(t) \/ SplitterSent(t) \/ MultiplierSent(t)
  /\ Destroy(xfer[t].vec)
  /\ UNCHANGED <<rest, pending, made, stored>>

-----------------------------------------------------------------------------
(* A new state is requested: the transports are interrupted before           *)
(* NewStatePending() tells (StateMachine.cxx).                               *)

Interrupt(t) ==
  /\ t \in scene.stops \cap (Samplers \cup Middle \cup Sinks)
  /\ ~fInterrupted[t]
  /\ fInterrupted' = [u \in Threads |-> fInterrupted[u] \/ u \in SameDevice(t)]
  /\ UNCHANGED <<pipe, xfer, mishaps, torn, zmqRegionVars, pipelineVars>>

NewStatePending(t) ==
  /\ fInterrupted[t] /\ t \notin pending
  /\ pending' = pending \cup SameDevice(t)
  /\ UNCHANGED <<transferVars, zmqRegionVars, scene, thr, fMultitransportProceed,
                 made, stored, lost>>

-----------------------------------------------------------------------------

Transferred(t) ==
  /\ Transferring(t)
  /\ Proceed(t, TransportOf(xfer[t].pipe))
  /\ UNCHANGED <<zmqRegionVars, pipelineVars>>

Mishap(t) ==
  /\ Signal(t) \/ Fail(t)
  /\ UNCHANGED <<zmqRegionVars, pipelineVars>>

Sampler(s) == SamplerLoop(s) \/ SamplerSent(s)
Sink(k) == SinkLoop(k) \/ SinkReceived(k)
MiddleDevice(t) == 
  \/ Loop(t) \/ Poll(t) \/ Scan(t) \/ Received(t) \/ Callback(t) \/ Sent(t)
  \/ Throw(t)

Thread(t) ==
  \/ Transferred(t)
  \/ t \in Samplers /\ Sampler(t)
  \/ t \in Sinks /\ Sink(t)
  \/ t \in Middle /\ MiddleDevice(t)

Next ==
  \/ \E t \in Threads : Thread(t)
  \/ \E t \in Threads : Mishap(t)
  \/ \E t \in Threads : Interrupt(t)
  \/ \E t \in Threads : NewStatePending(t)
  \/ /\ scene.kind = "regions"
     /\ ZmqRegionNext
     /\ UNCHANGED <<transferVars, pipelineVars>>

Spec == Init /\ [][Next]_vars

\* A thread that can run does: blocking calls come back after the timeout of
\* the socket.  A request that has interrupted the transports is announced.
Fairness ==
  \A t \in Threads :
    /\ WF_vars(Thread(t))
    /\ WF_vars(NewStatePending(t))

FairSpec == Spec /\ Fairness

-----------------------------------------------------------------------------
(* Properties *)

\* What a sink receives is what a sampler sent: all parts of one message, none
\* of another one, every message at most once and those of a sampler in their
\* order.  Frames, pipes at their limit, poll threads and devices that stop in
\* the middle do not change that, unless a signal or an error cuts a multipart
\* transfer between two frames (zeromq/Socket.h starts it again from the first
\* part).
WholeMessages ==
  ~torn => \A k \in Sinks \cup Middle :
    LET got == stored[k] IN
    \A i \in DOMAIN got :
      /\ \E s \in Samplers : \E n \in 1..made[s] : got[i] = Made(s, n)
      /\ \A j \in 1..(i - 1) : got[j][1][1] = got[i][1][1] => got[j][1][2] < got[i][1][2]

\* Where a part is.
InFrames(p) == UNION {ToSet(f.parts) : f \in ToSet(pipe[p])}
InTransfer(t) == IF xfer[t] = NoTransfer THEN {} ELSE ToSet(xfer[t].vec)
InSink(k) == UNION {ToSet(m) : m \in ToSet(stored[k])}
Somewhere ==
  UNION {InFrames(p) : p \in Pipes} \cup UNION {InTransfer(t) : t \in Threads}
    \cup UNION {InSink(k) : k \in Threads} \cup lost

\* Every part a sampler made is in a pipe, in a transfer or in a sink, or was
\* destroyed with a transfer that failed; and with the default timeout that
\* happens only if a device was interrupted or its process ended by an exception,
\* or on an error: full pipes and slow devices lose nothing.
NothingLost ==
  /\ \A s \in Samplers : \A n \in 1..made[s] : ToSet(Made(s, n)) \subseteq Somewhere
  /\ lost # {} => \/ \E t \in Threads : fInterrupted[t]
                  \/ \E t \in Threads : thr[t].at = "terminated"
                  \/ mishaps < scene.mishaps
                  \/ scene.timeout >= 0

\* Send and Receive with a timeout give up in the first slice of the socket
\* timeout in which it is over, not before and not later; with -1 they never
\* give up.  (A signal counts as a full slice: then they give up early.)
TimesOutInTime ==
  \A t \in Threads :
    LET x == xfer[t] IN
    /\ Returned(t) /\ x.code = "timeout" /\ ~x.signalled =>
         /\ x.timeout >= 0
         /\ x.waited >= x.timeout
         /\ x.waited < x.timeout + SocketTimeout
    /\ Transferring(t) /\ x.timeout > 0 => x.waited < x.timeout

\* However the poll threads of HandleMultipleTransportInput interleave, one data
\* callback runs at a time, and none once one of them has returned false.
OneInputAtATime ==
  /\ Cardinality({t \in Middle : Handling(t)}) <= 1
  /\ ~fMultitransportProceed => \A t \in Middle : ~Handling(t)

\* A device that has to change its state leaves its loop, whatever transfer it
\* is blocked in: interrupting the transports is enough.  (Unless its process has
\* ended, by an exception out of a poll thread.)
StoppedLeaves ==
  \A t \in Threads : t \in pending ~> thr[t].at \in {"done", "terminated"}
=============================================================================
