---------------------------- MODULE SharedMemory ----------------------------
(***************************************************************************)
(* The named objects of one shared memory session: the management segment, *)
(* the managed segment and, for every unmanaged region, its memory, queue  *)
(* and reference count segment (fairmq/shmem/README.md lists the names).   *)
(* A name can be unlinked while processes still have the object mapped;    *)
(* whoever opens the name next creates a new object.  Generations of the   *)
(* management segment make this visible.                                   *)
(***************************************************************************)
EXTENDS Naturals, FiniteSets, Sequences, SequencesExt

CONSTANTS
  Regions,     \* region ids
  MaxGens,     \* bound: generations of the management segment
  MaxBeats     \* bound: counted heartbeats of a generation

ASSUME SharedMemoryAssumption == {MaxGens, MaxBeats} \subseteq Nat \ {0}

VARIABLES
  mng,         \* the generation the name of the management segment leads to
  lastGen,     \* the last generation that was created
  store,       \* the content of every generation
  files        \* the other names that exist

shmVars == <<mng, lastGen, store, files>>

None == 0      \* no management segment

Segment == <<"m">>
rg(r) == <<"rg", r>>
rgq(r) == <<"rgq", r>>
rrc(r) == <<"rrc", r>>
RegionFiles(r) == {rg(r), rgq(r), rrc(r)}

\* fCount: DeviceCounter; events: EventCounter; segment: the entry of
\* fShmSegments; region: fShmRegions with fDestroyed; counter: RegionCounter,
\* 0 while there is none; beats: Heartbeat.
NoContent ==
  [fCount |-> 0, events |-> 0, segment |-> FALSE,
   region |-> [r \in Regions |-> "none"], counter |-> 0, beats |-> 0]

ShmInit ==
  /\ mng = None /\ lastGen = 0
  /\ store = [g \in 1 .. MaxGens |-> NoContent]
  /\ files = {}

\* open_or_create: what the name leads to afterwards.
OpenOrCreate == IF mng = None THEN lastGen + 1 ELSE mng
MayOpen == mng # None \/ lastGen < MaxGens
Opened ==
  /\ MayOpen
  /\ mng' = OpenOrCreate
  /\ lastGen' = IF mng = None THEN OpenOrCreate ELSE lastGen

Registered(g, r) == store[g].region[r] # "none"

\* UnmanagedRegion::Register and Segment::Register open the management segment
\* by name, whatever segment the caller has mapped.
RegionRegistered(c, r) ==
  [c EXCEPT !.region[r] = "alive", !.events = @ + 1]
SegmentRegistered(c) ==
  [c EXCEPT !.segment = TRUE, !.events = IF c.segment THEN @ ELSE @ + 1]

-----------------------------------------------------------------------------
(* Monitor::Cleanup: first everything the management segment lists, then    *)
(* the management segment itself.                                           *)

\* Mutant: the queues of the regions stay.
CleanedButQueues(g) ==
  UNION {{rg(r), rrc(r)} : r \in {q \in Regions : Registered(g, q)}}
    \cup (IF store[g].segment THEN {Segment} ELSE {})

Cleaned(g) ==
  UNION {RegionFiles(r) : r \in {q \in Regions : Registered(g, q)}}
    \cup (IF store[g].segment THEN {Segment} ELSE {})

RemoveListed ==
  /\ mng # None
  /\ files' = files \ Cleaned(mng)
  /\ UNCHANGED <<mng, lastGen, store>>

RemoveManagement ==
  /\ mng' = None
  /\ UNCHANGED <<lastGen, store, files>>

\* Monitor::ResetContent(shmId) on the present segment.  What the managed
\* segment contains is no part of this model.
ResetFiles(g) ==
  UNION {{rgq(r), rrc(r)} : r \in {q \in Regions : Registered(g, q)}}

SegmentIsPresent ==
  mng # None /\ store[mng].segment /\ Segment \in files
RegionIsPresent(r) ==
  mng # None /\ Registered(mng, r) /\ rg(r) \in files
=============================================================================
