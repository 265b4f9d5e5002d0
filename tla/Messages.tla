------------------------------ MODULE Messages ------------------------------
(***************************************************************************)
(* fairmq/shmem/Message.h and the transfers of fairmq/shmem/Socket.h: who  *)
(* owns a buffer in shared memory.                                         *)
(*                                                                         *)
(* A buffer is a chunk of a managed segment, whose reference count is part *)
(* of the chunk, or a block of an unmanaged region, which gets a reference *)
(* count of its own once it is shared.  Only meta data travels: a sent     *)
(* message keeps its handle and is marked fQueued, the receiver's message  *)
(* takes the handle over.                                                  *)
(*                                                                         *)
(* An actor is a thread with the transport of its device.  Reference counts*)
(* are atomics in shared memory, so giving up a reference is a step of its *)
(* own and freeing the buffer that nobody else uses is the next.           *)
(***************************************************************************)
EXTENDS Naturals, FiniteSets, Sequences

CONSTANTS
  Actors,      \* the threads that use messages
  Segments,    \* managed segments of the session
  SegmentOf,   \* the segment in which an actor's Manager allocates
  Chunks,      \* what a segment has room for
  Blocks,      \* blocks of the unmanaged region
  Cells,       \* what the reference count segment of the region has room for
  Msgs,        \* message objects
  CountSize,   \* reference counts are unsigned and wrap at this value
  MaxWire,     \* bound on the transfers in flight
  MaxParts,    \* bound on the parts of a transfer
  Reuse,       \* liberties the users take with objects that were used before
  None

ASSUME MessagesAssumption ==
  /\ SegmentOf \in [Actors -> Segments]
  /\ "rc" \notin Segments
  /\ CountSize \in Nat /\ CountSize > 2
  /\ {MaxWire, MaxParts} \subseteq Nat
  /\ Reuse \subseteq {"rebuild", "queued"}
  /\ None \notin Chunks \cup Blocks \cup Cells \cup Msgs \cup Actors

VARIABLES
  msg,     \* the objects: None, or the fields of shmem::Message
  op,      \* per actor, the operation that closes a message, or None
  count,   \* per place, the reference count stored there, or None if free
  lent,    \* blocks of the region that the user has put into a message
  acks,    \* per block, ReleaseBlock calls the user has not been told about
  wire,    \* transfers in flight: sequences of MetaHeaders
  rc       \* is the region's rcSegmentSize > 0?  Never changed

vars == <<msg, op, count, lent, acks, wire, rc>>

\* Where a reference count can be: in a chunk or in the region's own segment.
Places == (Segments \X Chunks) \cup ({"rc"} \X Cells)

\* A handle that was computed relative to another segment points nowhere.
Nowhere == "nowhere"

Buffer == Chunks \cup Blocks \cup {None, Nowhere}
MetaHeader ==
  [fHandle : Buffer, fShared : Chunks \cup Cells \cup {None, Nowhere},
   fSegmentId : Segments, fManaged : BOOLEAN]
Message ==
  [owner : Actors, fHandle : Buffer,
   fShared : Chunks \cup Cells \cup {None, Nowhere},
   fSegmentId : Segments, fManaged : BOOLEAN, fQueued : BOOLEAN]
Operation ==
  [name : {"destroy", "rebuild", "rebuildSize", "resize", "copy"}, msg : Msgs,
   other : Msgs \cup {None}, at : {"free", "finish"}]

MessagesTypeOK ==
  /\ msg \in [Msgs -> Message \cup {None}]
  /\ op \in [Actors -> Operation \cup {None}]
  /\ count \in [Places -> (0 .. CountSize - 1) \cup {None}]
  /\ lent \subseteq Blocks
  /\ acks \in [Blocks -> Nat]
  /\ wire \in Seq(Seq(MetaHeader))
  /\ rc \in BOOLEAN

Init ==
  /\ msg = [m \in Msgs |-> None]
  /\ op = [a \in Actors |-> None]
  /\ count = [p \in Places |-> None]
  /\ lent = {}
  /\ acks = [b \in Blocks |-> 0]
  /\ wire = <<>>
  /\ rc \in BOOLEAN

-----------------------------------------------------------------------------
(* Helpers *)

\* The place of the reference count of a message or a MetaHeader, None for a
\* region message that is not shared yet.
CountPlace(x) ==
  IF x.fManaged THEN <<x.fSegmentId, x.fHandle>>
  ELSE IF x.fShared = None THEN None
  ELSE <<IF rc THEN "rc" ELSE x.fSegmentId, x.fShared>>

Increment(p) == [count EXCEPT ![p] = (@ + 1) % CountSize]
Decrement(p) == [count EXCEPT ![p] = (@ + CountSize - 1) % CountSize]

\* GetHandleFromAddress of a chunk of segment s, relative to segment id.
HandleIn(s, c, id) == IF s = id THEN c ELSE Nowhere

\* Chunks that the Manager of actor a can allocate.
FreeChunks(a) == {c \in Chunks : count[<<SegmentOf[a], c>>] = None}
FreeCells == {c \in Cells : count[<<"rc", c>>] = None}

Mine(a, m) == msg[m] # None /\ msg[m].owner = a
Idle(a) == op[a] = None

\* The object holds a buffer that it has not passed on.
Holding(x) == x.fHandle # None /\ ~x.fQueued

\* What users are expected to do, and what the devices of this library do:
\* a sent object is not used again without Rebuild, ...
Unsent(m) == "queued" \in Reuse \/ ~msg[m].fQueued

\* ... and an object gets a new buffer only if the last one it described was
\* in the segment of its own Manager.
OwnChunk(m) ==
  \/ "rebuild" \in Reuse
  \/ msg[m].fManaged /\ msg[m].fSegmentId = SegmentOf[msg[m].owner]

-----------------------------------------------------------------------------
(* Constructors *)

\* Mutant: fHandle is not initialized.
NewUninitialized(a) ==
  [owner |-> a, fHandle |-> "uninitialized", fShared |-> None,
   fSegmentId |-> SegmentOf[a], fManaged |-> TRUE, fQueued |-> FALSE]

New(a) ==
  [owner |-> a, fHandle |-> None, fShared |-> None,
   fSegmentId |-> SegmentOf[a], fManaged |-> TRUE, fQueued |-> FALSE]

\* InitializeChunk with a chunk c that the Manager allocated.
InitializeChunk(m, x, c) ==
  /\ msg' = [msg EXCEPT ![m] =
       [x EXCEPT !.fHandle = HandleIn(SegmentOf[x.owner], c, x.fSegmentId)]]
  /\ count' = [count EXCEPT ![<<SegmentOf[x.owner], c>>] = 1]

\* An empty message, or one of size 0.
NewMessage(a, m) ==
  /\ Idle(a)
  /\ msg[m] = None
  /\ msg' = [msg EXCEPT ![m] = New(a)]
  /\ UNCHANGED <<op, count, lent, acks, wire, rc>>

\* A constructor that cannot allocate throws and leaves no object.
NewMessageSize(a, m) ==
  /\ Idle(a)
  /\ msg[m] = None
  /\ \E c \in FreeChunks(a) : InitializeChunk(m, New(a), c)
  /\ UNCHANGED <<op, lent, acks, wire, rc>>

\* The user puts a block into a message again once it has been returned.
NewRegionMessage(a, m, b) ==
  /\ Idle(a)
  /\ msg[m] = None
  /\ b \notin lent
  /\ lent' = lent \cup {b}
  /\ msg' = [msg EXCEPT ![m] =
               [New(a) EXCEPT !.fHandle = b, !.fManaged = FALSE]]
  /\ UNCHANGED <<op, count, acks, wire, rc>>

-----------------------------------------------------------------------------
(* Operations that close a message first *)

At(a, l) == op[a] # None /\ op[a].at = l
Closing(a) == msg[op[a].msg]

\* The object m once it is closed: a destructor leaves nothing, every Rebuild
\* resets fQueued.  What fShared, fSegmentId and fManaged say stays.
Closed(name, m) ==
  msg' = [msg EXCEPT ![m] =
    CASE name = "destroy" -> None
      [] name \in {"rebuild", "rebuildSize"} ->
           [msg[m] EXCEPT !.fHandle = None, !.fQueued = FALSE]
      [] OTHER -> [msg[m] EXCEPT !.fHandle = None]]

Pending(name, m, o, l) == [name |-> name, msg |-> m, other |-> o, at |-> l]

\* Copy and Rebuild(size) go on after the closing.
Continue(a, name, m, o) ==
  op' = [op EXCEPT ![a] = IF name \in {"copy", "rebuildSize"}
                            THEN Pending(name, m, o, "finish") ELSE None]

\* ReleaseUnmanagedRegionBlock
ReleaseBlock(b) == acks' = [acks EXCEPT ![b] = @ + 1]

\* The count is decremented atomically, and who finds a count of 1 frees the
\* buffer.
Decremented(a, name, m, o) ==
  /\ count' = Decrement(CountPlace(msg[m]))
  /\ IF count[CountPlace(msg[m])] = 1
       THEN /\ op' = [op EXCEPT ![a] = Pending(name, m, o, "free")]
            /\ UNCHANGED msg
       ELSE Closed(name, m) /\ Continue(a, name, m, o)

\* Mutant: the block is also released by those who do not find 1.
GiveUpAndRelease(a, name, m, o) ==
  /\ Decremented(a, name, m, o)
  /\ IF msg[m].fManaged THEN UNCHANGED acks ELSE ReleaseBlock(msg[m].fHandle)

GiveUp(a, name, m, o) ==
  /\ Decremented(a, name, m, o)
  /\ UNCHANGED acks

\* Deallocate: a message that is empty or was sent gives up nothing; a region
\* message that was never shared returns its block.
Deallocate(a, name, m, o) ==
  \/ /\ ~Holding(msg[m])
     /\ Closed(name, m)
     /\ Continue(a, name, m, o)
     /\ UNCHANGED <<count, acks>>
  \/ /\ Holding(msg[m])
     /\ CountPlace(msg[m]) = None
     /\ ReleaseBlock(msg[m].fHandle)
     /\ Closed(name, m)
     /\ Continue(a, name, m, o)
     /\ UNCHANGED count
  \/ /\ Holding(msg[m])
     /\ CountPlace(msg[m]) # None
     /\ GiveUp(a, name, m, o)

\* Destructor, Rebuild(), Rebuild(size), SetUsedSize(0).
Close(a, m, name) ==
  /\ Idle(a)
  /\ Mine(a, m)
  /\ name = "rebuildSize" => OwnChunk(m)
  /\ Deallocate(a, name, m, None)
  /\ UNCHANGED <<lent, wire, rc>>

\* Copy(other): an empty other closes this message, too.
Copy(a, m, o) ==
  /\ Idle(a)
  /\ Mine(a, m) /\ Mine(a, o) /\ m # o
  /\ Unsent(m) /\ Unsent(o)
  /\ ~rc /\ ~msg[o].fManaged => OwnChunk(m)
  /\ IF msg[o].fHandle = None THEN Deallocate(a, "resize", m, None)
                              ELSE Deallocate(a, "copy", m, o)
  /\ UNCHANGED <<lent, wire, rc>>

\* Mutant: the reference count is removed, the block not released.
FreeSilently(a) ==
  /\ At(a, "free")
  /\ count' = [count EXCEPT ![CountPlace(Closing(a))] = None]
  /\ Closed(op[a].name, op[a].msg)
  /\ Continue(a, op[a].name, op[a].msg, op[a].other)
  /\ UNCHANGED <<lent, acks, wire, rc>>

\* The chunk or the reference count goes back to its segment, and the block
\* back to the user.
Free(a) ==
  /\ At(a, "free")
  /\ count' = [count EXCEPT ![CountPlace(Closing(a))] = None]
  /\ IF Closing(a).fManaged THEN UNCHANGED acks
                            ELSE ReleaseBlock(Closing(a).fHandle)
  /\ Closed(op[a].name, op[a].msg)
  /\ Continue(a, op[a].name, op[a].msg, op[a].other)
  /\ UNCHANGED <<lent, wire, rc>>

Done(a) == op' = [op EXCEPT ![a] = None]

\* The rest of Rebuild(size); Allocate throws when the segment is full.
RebuildChunk(a) ==
  /\ At(a, "finish")
  /\ op[a].name = "rebuildSize"
  /\ \/ \E c \in FreeChunks(a) : InitializeChunk(op[a].msg, Closing(a), c)
     \/ FreeChunks(a) = {} /\ UNCHANGED <<msg, count>>
  /\ Done(a)
  /\ UNCHANGED <<lent, acks, wire, rc>>

-----------------------------------------------------------------------------
(* Copy after the closing *)

\* The meta data of x, in the message m that keeps its fQueued.
WithMeta(m, x) ==
  [msg[m] EXCEPT !.fHandle = x.fHandle, !.fShared = x.fShared,
                 !.fSegmentId = x.fSegmentId, !.fManaged = x.fManaged]

\* The buffer has a reference count already.
CopyShared(a) ==
  /\ At(a, "finish")
  /\ op[a].name = "copy"
  /\ LET m == op[a].msg
         x == msg[op[a].other]
     IN /\ CountPlace(x) # None
        /\ count' = Increment(CountPlace(x))
        /\ msg' = [msg EXCEPT ![m] = WithMeta(m, x)]
  /\ Done(a)
  /\ UNCHANGED <<lent, acks, wire, rc>>

\* Mutant: the other message does not learn of the reference count.
CopyUnsharedLocally(a) ==
  /\ At(a, "finish")
  /\ op[a].name = "copy"
  /\ CountPlace(msg[op[a].other]) = None
  /\ rc
  /\ \E c \in FreeCells :
       /\ count' = [count EXCEPT ![<<"rc", c>>] = 2]
       /\ msg' = [msg EXCEPT ![op[a].msg] =
            WithMeta(op[a].msg, [msg[op[a].other] EXCEPT !.fShared = c])]
  /\ Done(a)
  /\ UNCHANGED <<lent, acks, wire, rc>>

\* The first copy of a region message creates the reference count, in the
\* region's segment or in the Manager's, and tells the other message.
\* Without room for it Copy throws and leaves this message empty.
CopyUnshared(a) ==
  /\ At(a, "finish")
  /\ op[a].name = "copy"
  /\ LET m == op[a].msg
         o == op[a].other
         share(x, p) == /\ count' = [count EXCEPT ![p] = 2]
                        /\ msg' = [msg EXCEPT ![o] = x, ![m] = WithMeta(m, x)]
     IN /\ CountPlace(msg[o]) = None
        /\ \/ rc /\ \E c \in FreeCells :
                      share([msg[o] EXCEPT !.fShared = c], <<"rc", c>>)
           \/ ~rc /\ \E c \in FreeChunks(a) :
                share([msg[o] EXCEPT
                         !.fShared = HandleIn(SegmentOf[a], c, msg[m].fSegmentId),
                         !.fSegmentId = msg[m].fSegmentId],
                      <<SegmentOf[a], c>>)
           \/ /\ (IF rc THEN FreeCells ELSE FreeChunks(a)) = {}
              /\ UNCHANGED <<msg, count>>
  /\ Done(a)
  /\ UNCHANGED <<lent, acks, wire, rc>>

-----------------------------------------------------------------------------
(* SetUsedSize with a reallocation, Send and Receive *)

\* Shrinking in place failed and a lot is to be saved.  The old chunk is freed
\* whatever its count; "Modifying the buffer after a call to Copy() is
\* undefined behaviour" keeps users from it while it is shared.
Reallocate(a, m) ==
  /\ Idle(a)
  /\ Mine(a, m)
  /\ Holding(msg[m])
  /\ msg[m].fManaged
  /\ OwnChunk(m)
  /\ count[CountPlace(msg[m])] = 1
  /\ \E c \in FreeChunks(a) :
       /\ count' = [count EXCEPT ![<<SegmentOf[a], c>>] = 1,
                                 ![CountPlace(msg[m])] = None]
       /\ msg' = [msg EXCEPT ![m].fHandle =
                    HandleIn(SegmentOf[a], c, msg[m].fSegmentId)]
  /\ UNCHANGED <<op, lent, acks, wire, rc>>

Meta(x) == [fHandle |-> x.fHandle, fShared |-> x.fShared,
            fSegmentId |-> x.fSegmentId, fManaged |-> x.fManaged]

\* Mutant: only the first part is marked.
SendFirst(a, parts) ==
  /\ Idle(a)
  /\ Len(wire) < MaxWire
  /\ \A i \in DOMAIN parts : Mine(a, parts[i]) /\ Unsent(parts[i])
  /\ wire' = Append(wire, [i \in DOMAIN parts |-> Meta(msg[parts[i]])])
  /\ msg' = [msg EXCEPT ![parts[1]].fQueued = TRUE]
  /\ UNCHANGED <<op, count, lent, acks, rc>>

\* One message or several parts as one ZeroMQ message.  A transfer that is
\* interrupted, times out or fails leaves everything as it is.
Send(a, parts) ==
  /\ Idle(a)
  /\ Len(wire) < MaxWire
  /\ \A i \in DOMAIN parts : Mine(a, parts[i]) /\ Unsent(parts[i])
  /\ wire' = Append(wire, [i \in DOMAIN parts |-> Meta(msg[parts[i]])])
  /\ msg' = [m \in Msgs |-> IF \E i \in DOMAIN parts : parts[i] = m
                              THEN [msg[m] EXCEPT !.fQueued = TRUE]
                              ELSE msg[m]]
  /\ UNCHANGED <<op, count, lent, acks, rc>>

\* Receive into an object that exists already, normally an empty one.
Receive(a, m) ==
  /\ Idle(a)
  /\ wire # <<>> /\ Len(Head(wire)) = 1
  /\ Mine(a, m)
  /\ "queued" \in Reuse \/ (~msg[m].fQueued /\ msg[m].fHandle = None)
  /\ msg' = [msg EXCEPT ![m] = WithMeta(m, Head(wire)[1])]
  /\ wire' = Tail(wire)
  /\ UNCHANGED <<op, count, lent, acks, rc>>

\* Receive into a container: one new object for each part.  The formats of
\* single messages and of containers differ and users do not mix them; for the
\* ownership of its buffer a container of one part is a single message.
ReceiveParts(a, parts) ==
  /\ Idle(a)
  /\ wire # <<>> /\ Len(Head(wire)) = Len(parts) /\ Len(parts) > 1
  /\ \A i \in DOMAIN parts : msg[parts[i]] = None
  /\ msg' = [m \in Msgs |->
       IF \E i \in DOMAIN parts : parts[i] = m
         THEN LET x == Head(wire)[CHOOSE i \in DOMAIN parts : parts[i] = m]
              IN [owner |-> a, fHandle |-> x.fHandle, fShared |-> x.fShared,
                  fSegmentId |-> x.fSegmentId, fManaged |-> x.fManaged,
                  fQueued |-> FALSE]
         ELSE msg[m]]
  /\ wire' = Tail(wire)
  /\ UNCHANGED <<op, count, lent, acks, rc>>

\* The region's callback returns a block to the user, see RegionAcks.
Callback(b) ==
  /\ acks[b] > 0
  /\ acks' = [acks EXCEPT ![b] = @ - 1]
  /\ lent' = lent \ {b}
  /\ UNCHANGED <<msg, op, count, wire, rc>>

-----------------------------------------------------------------------------

\* Sequences of distinct messages that can be sent or filled as one transfer.
PartLists ==
  UNION {{s \in [1 .. n -> Msgs] : \A i, j \in 1 .. n : i # j => s[i] # s[j]} :
           n \in 1 .. MaxParts}

Next ==
  \/ \E a \in Actors :
       \/ \E m \in Msgs :
            \/ NewMessage(a, m) \/ NewMessageSize(a, m)
            \/ \E b \in Blocks : NewRegionMessage(a, m, b)
            \/ \E name \in {"destroy", "rebuild", "rebuildSize", "resize"} :
                 Close(a, m, name)
            \/ \E o \in Msgs : Copy(a, m, o)
            \/ Reallocate(a, m) \/ Receive(a, m)
       \/ \E parts \in PartLists : Send(a, parts) \/ ReceiveParts(a, parts)
       \/ Free(a) \/ RebuildChunk(a) \/ CopyShared(a) \/ CopyUnshared(a)
  \/ \E b \in Blocks : Callback(b)

Spec == Init /\ [][Next]_vars

-----------------------------------------------------------------------------
(* Properties *)

\* A reference is held by an object that has not passed it on, or by a part
\* that is in flight.  An actor at "free" has given up the last one already.
FreeingNow(m) == \E a \in Actors : At(a, "free") /\ op[a].msg = m

Holders == {m \in Msgs : msg[m] # None /\ Holding(msg[m]) /\ ~FreeingNow(m)}

InFlight == {<<i, j>> \in (1 .. MaxWire) \X (1 .. MaxParts) :
               /\ i <= Len(wire) /\ j <= Len(wire[i])
               /\ wire[i][j].fHandle # None}

References(p) ==
  Cardinality({m \in Holders : CountPlace(msg[m]) = p})
    + Cardinality({f \in InFlight : CountPlace(wire[f[1]][f[2]]) = p})

\* Every reference count is the number of references to it, over all devices
\* and everything in flight: no message refers to freed memory, no buffer is
\* freed twice and none is forgotten.
CountsAreExact ==
  \A p \in Places :
    IF count[p] = None
      THEN References(p) = 0
      ELSE /\ count[p] = References(p)
           /\ count[p] = 0 => \E a \in Actors :
                                At(a, "free") /\ CountPlace(Closing(a)) = p

BlockHolders(b) ==
  {m \in Holders : ~msg[m].fManaged /\ msg[m].fHandle = b}
BlocksInFlight(b) ==
  {f \in InFlight : /\ ~wire[f[1]][f[2]].fManaged
                    /\ wire[f[1]][f[2]].fHandle = b}

\* "callback to be called when a message belonging to this region is no longer
\* needed by the transport": a lent block is either in use or returned, never
\* both, and it is returned once.
BlockReturnedOnce ==
  \A b \in Blocks :
    LET users == Cardinality(BlockHolders(b)) + Cardinality(BlocksInFlight(b))
        freeing == {a \in Actors : At(a, "free") /\ ~Closing(a).fManaged
                                                 /\ Closing(a).fHandle = b}
    IN IF b \in lent
         THEN acks[b] + Cardinality(freeing) = IF users = 0 THEN 1 ELSE 0
         ELSE users = 0 /\ freeing = {} /\ acks[b] = 0

\* The messages' part of the promise made to the user of a region.
Life == INSTANCE BlockLife WITH
  with <- [b \in Blocks |-> IF b \notin lent THEN "user"
                            ELSE IF acks[b] = 0 THEN "message" ELSE "region"]
KeepsBlockLife == Life!Spec

\* All messages with the same block share one reference count, wherever they
\* are, and a block without one has a single user.
OneCountPerBlock ==
  \A b \in Blocks :
    LET places == {CountPlace(msg[m]) : m \in BlockHolders(b)}
                    \cup {CountPlace(wire[f[1]][f[2]]) : f \in BlocksInFlight(b)}
    IN /\ Cardinality(places) <= 1
       /\ None \in places => Cardinality(BlockHolders(b))
                               + Cardinality(BlocksInFlight(b)) = 1

\* "true = managed segment, false = unmanaged region" and "id of the managed
\* segment": the fields of a message that holds a buffer say where it is.
HandleIsWhereItSays ==
  \A m \in Msgs : msg[m] # None /\ Holding(msg[m]) =>
    /\ msg[m].fHandle \in (IF msg[m].fManaged THEN Chunks ELSE Blocks)
    /\ msg[m].fShared # Nowhere
=============================================================================
