----------------------------- MODULE ZmqRegions -----------------------------
(***************************************************************************)
(* Unmanaged regions and region events of the ZeroMQ transport             *)
(* (zeromq/Context.h, zeromq/UnmanagedRegion.h): regions are local to the  *)
(* process, and the context queues an event for each of them.              *)
(***************************************************************************)
EXTENDS Integers, Sequences, SequencesExt

CONSTANT MaxRegions    \* bound: regions created in a behaviour

VARIABLES
  fRegionCounter,   \* the next id
  fRegionInfos,     \* the regions there are, in the order they were added
  fRegionEvents,    \* the queue of events not delivered yet
  region,           \* the region objects, by the addresses of their memory
  subscription,     \* none, wait, or drain (the thread holds fMtx)
  heard             \* the events the callbacks got, per address

zmqRegionVars ==
  <<fRegionCounter, fRegionInfos, fRegionEvents, region, subscription, heard>>

Managed == 0                    \* what the context has instead of a segment
Addresses == 1 .. MaxRegions
UInt16 == 65536

\* beside: history, the regions that were under construction at the same time.
Unconstructed == [at |-> "none", id |-> 0, beside |-> {}]

\* The context announces itself as the managed region of the transport.
ZmqRegionInit ==
  /\ fRegionCounter = 1
  /\ fRegionInfos = <<>>
  /\ fRegionEvents = <<[ptr |-> Managed, event |-> "local_only"]>>
  /\ region = [r \in Addresses |-> Unconstructed]
  /\ subscription = "none"
  /\ heard = [s \in {"callback"} |-> [r \in Addresses \cup {Managed} |-> <<>>]]

FreeMtx == subscription # "drain"

UnderConstruction == {r \in Addresses : region[r].at = "constructed"}

\* UnmanagedRegion::UnmanagedRegion, in any number of threads: the id is read ...
ConstructRegion(r) ==
  /\ region[r].at = "none"
  /\ \A q \in 1 .. r - 1 : region[q].at # "none"
  /\ FreeMtx
  /\ region' = [q \in Addresses |->
       CASE q = r -> [at |-> "constructed", id |-> fRegionCounter,
                      beside |-> UnderConstruction]
         [] q \in UnderConstruction -> [region[q] EXCEPT !.beside = @ \cup {r}]
         [] OTHER -> region[q]]
  /\ UNCHANGED <<fRegionCounter, fRegionInfos, fRegionEvents, subscription, heard>>

\* Mutant: the counter stays.
AddRegionUncounted(r) ==
  /\ region[r].at = "constructed"
  /\ FreeMtx
  /\ fRegionInfos' = Append(fRegionInfos, [ptr |-> r, id |-> region[r].id])
  /\ fRegionEvents' = Append(fRegionEvents, [ptr |-> r, event |-> "created"])
  /\ region' = [region EXCEPT ![r].at = "used"]
  /\ UNCHANGED <<fRegionCounter, subscription, heard>>

\* ... and counted only when the factory adds the region.
AddRegion(r) ==
  /\ region[r].at = "constructed"
  /\ FreeMtx
  /\ fRegionCounter' = (fRegionCounter + 1) % UInt16
  /\ fRegionInfos' = Append(fRegionInfos, [ptr |-> r, id |-> region[r].id])
  /\ fRegionEvents' = Append(fRegionEvents, [ptr |-> r, event |-> "created"])
  /\ region' = [region EXCEPT ![r].at = "used"]
  /\ UNCHANGED <<subscription, heard>>

\* ~UnmanagedRegion.  RemoveRegion takes the first region with the id.
RemoveRegion(r) ==
  LET found == SelectInSeq(fRegionInfos, LAMBDA i : i.id = region[r].id) IN
  /\ region[r].at = "used"
  /\ FreeMtx
  /\ IF found # 0
       THEN /\ fRegionInfos' = RemoveAt(fRegionInfos, found)
            /\ fRegionEvents' = Append(fRegionEvents,
                 [ptr |-> fRegionInfos[found].ptr, event |-> "destroyed"])
       ELSE UNCHANGED <<fRegionInfos, fRegionEvents>>
  /\ region' = [region EXCEPT ![r].at = "gone"]
  /\ UNCHANGED <<fRegionCounter, subscription, heard>>

\* A subscription that exists is ended first: its thread has to be waiting.
\* The new thread finds the queue as the old one left it.
SubscribeToRegionEvents ==
  /\ subscription \in {"none", "wait"}
  /\ subscription' = "wait"
  /\ UNCHANGED <<fRegionCounter, fRegionInfos, fRegionEvents, region, heard>>

UnsubscribeFromRegionEvents ==
  /\ subscription = "wait"
  /\ subscription' = "none"
  /\ UNCHANGED <<fRegionCounter, fRegionInfos, fRegionEvents, region, heard>>

Awake ==
  /\ subscription = "wait"
  /\ fRegionEvents # <<>>
  /\ subscription' = "drain"
  /\ UNCHANGED <<fRegionCounter, fRegionInfos, fRegionEvents, region, heard>>

\* The callback runs under fMtx, then the event is removed.
CallBack ==
  /\ subscription = "drain" /\ fRegionEvents # <<>>
  /\ LET e == Head(fRegionEvents)
     IN  heard' = [heard EXCEPT !["callback"][e.ptr] = Append(@, e.event)]
  /\ fRegionEvents' = Tail(fRegionEvents)
  /\ UNCHANGED <<fRegionCounter, fRegionInfos, region, subscription>>

Drained ==
  /\ subscription = "drain" /\ fRegionEvents = <<>>
  /\ subscription' = "wait"
  /\ UNCHANGED <<fRegionCounter, fRegionInfos, fRegionEvents, region, heard>>

ZmqRegionNext ==
  \/ \E r \in Addresses : ConstructRegion(r) \/ AddRegion(r) \/ RemoveRegion(r)
  \/ SubscribeToRegionEvents \/ UnsubscribeFromRegionEvents
  \/ Awake \/ CallBack \/ Drained

-----------------------------------------------------------------------------
(* Properties *)

\* What is reported destroyed, or is going to be.
Destroyed ==
  {r \in Addresses : "destroyed" \in Range(heard["callback"][r])}
    \cup {e.ptr : e \in {e \in Range(fRegionEvents) : e.event = "destroyed"}}

\* Whoever subscribes, whenever, and whoever creates and destroys regions of a
\* factory at the same time: the callbacks hear of a region (RegionInfo::ptr)
\* being created and destroyed in this order and once each, no event is lost or
\* repeated when the subscription is replaced, and a region in use is not
\* reported destroyed.  The last does not hold for two regions that were
\* constructed at the same time: they may have one id, by which
\* Context::RemoveRegion finds either.
Promise == INSTANCE RegionEvents WITH
             Subscribers <- {"callback"}, Observable <- Addresses \cup {Managed},
             told <- heard
ZmqFollowsEvents ==
  /\ Promise!Spec
  /\ [](\A r \in Destroyed : region[r].at = "gone" \/ region[r].beside # {})
=============================================================================
