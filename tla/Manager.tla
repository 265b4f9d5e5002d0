------------------------------ MODULE Manager ------------------------------
(***************************************************************************)
(* fairmq/shmem/Manager.h.  A manager is one life of a shared memory       *)
(* transport factory in some process.  Threads of the process use it, one  *)
(* of them, which may use several, to look regions up; next to them run its*)
(* heartbeat thread and the thread of its subscription to region events.  A*)
(* section under fShmMtx is one step.                                      *)
(***************************************************************************)
EXTENDS SharedMemory

CONSTANTS
  Managers,
  ProcessOf,     \* the process of each manager
  FirstCounted,  \* the first region id CreateRegion counts (1024)
  Scenarios      \* what the processes do, see Scenario

Processes == {ProcessOf[m] : m \in Managers}

\* fNoCleanup, autolaunch: options of the devices; creates: bound on calls of
\* CreateRegion; remove: RegionConfig::removeOnDestruction of regions; backed:
\* ids of regions in a file (RegionConfig::path); subscribers; lookups: whether
\* messages are looked up; crashes, beats: bounds; fails: whether
\* constructors may fail; tools: whether fairmq-shmmonitor is called to clean or
\* reset; monitor: "none" or how it is started to watch; keeper: the regions of a keep-alive process.
Scenario ==
  [devices : SUBSET Managers, fNoCleanup : BOOLEAN, autolaunch : BOOLEAN,
   creates : Nat, remove : BOOLEAN, backed : SUBSET Regions,
   subscribers : SUBSET Managers, lookups : BOOLEAN, crashes : Nat,
   beats : 0 .. MaxBeats, fails : BOOLEAN, tools : BOOLEAN,
   monitor : {"none", "monitor", "selfDestruct"}, keeper : SUBSET Regions]

ASSUME ManagerAssumption ==
  /\ \A s \in Scenarios : s \in Scenario
  /\ FirstCounted \in Nat \ {0} /\ Regions \subseteq Nat \ {0}

VARIABLES
  scene,         \* the scenario.  Never changed
  pc,            \* per manager
  gen,           \* the management segment it has mapped
  fRegions,      \* per manager and id: "none", "view", "controller" or, once
                 \* its user is gone but the object is not, "left"
  made,          \* per manager and id, how many objects there have been
  creates,       \* calls of CreateRegion
  fRegionsGen,   \* per process, static
  cache,         \* per process, fTlRegionCache of the thread that looks up
  lookup,        \* per process, the GetRegionFromCache in progress
  unsignalled,   \* per manager, calls of RemoveRegion between the erase and the
                 \* new generation
  sub,           \* per manager, its subscription
  told,          \* per manager and id, the calls of fRegionEventCallback
  failedLate,    \* a constructor failed after it had registered the segment
  ms             \* the name of the monitor's mutex exists

cacheVars == <<fRegionsGen, cache, lookup, unsignalled>>
regionVars == <<fRegions, made, creates, cacheVars>>
eventVars == <<sub, told>>
managerVars == <<scene, pc, gen, regionVars, eventVars, failedLate>>

SegmentId == 0    \* the entry of the managed segment among the events
Observable == Regions \cup {SegmentId}

\* on: fRegionEventsSubscriptionActive; infos: what GetRegionInfo has returned
\* and the thread has not yet dealt with; toOpen: the regions it still has to map.
Unsubscribed ==
  [on |-> FALSE, infos |-> <<>>, toOpen |-> {}, fNumObservedEvents |-> 0,
   observed |-> [o \in Observable |-> "none"]]
Waiting(m) == DOMAIN sub[m].infos = {}

\* mixed: history, the generation had changed between the check of
\* GetRegionFromCache and the store of the generation.
EmptyCache == [gen |-> 0, entries |-> {}, mixed |-> FALSE]

Alive(m) == pc[m] \notin {"off", "gone", "threw", "dead", "aborted"}
Attached(m) == pc[m] = "attached"
Beating(m) == pc[m] \in {"beating", "attached", "leaving"}

ManagerInit ==
  /\ ShmInit
  /\ scene \in Scenarios
  /\ pc = [m \in Managers |-> "off"]
  /\ gen = [m \in Managers |-> None]
  /\ fRegions = [m \in Managers |-> [r \in Regions |-> "none"]]
  /\ made = [m \in Managers |-> [r \in Regions |-> 0]]
  /\ creates = 0
  /\ fRegionsGen = [p \in Processes |-> 0]
  /\ cache = [p \in Processes |-> EmptyCache]
  /\ lookup = [p \in Processes |-> [at |-> "none"]]
  /\ unsignalled = [m \in Managers |-> 0]
  /\ sub = [m \in Managers |-> Unsubscribed]
  /\ told = [m \in Managers |-> [o \in Observable |-> <<>>]]
  /\ failedLate = FALSE /\ ms = FALSE

-----------------------------------------------------------------------------
(* fShmMtx.  Only the wait for the monitor holds it for more than a step.   *)

Locked(g) == \E m \in Managers : pc[m] = "waitMonitor" /\ gen[m] = g

\* A section under the lock turns the content of the manager's generation into c.
Write(m, c) ==
  /\ ~Locked(gen[m])
  /\ store' = [store EXCEPT ![gen[m]] = c]

Moved(m, to) == pc' = [pc EXCEPT ![m] = to]

\* The process ends with all its managers.
Killed(p, how) ==
  pc' = [m \in Managers |-> IF ProcessOf[m] = p /\ Alive(m) THEN how ELSE pc[m]]

-----------------------------------------------------------------------------
(* The constructor *)

\* The initializer list opens or creates the management segment.
Open(m) ==
  /\ pc[m] = "off"
  /\ m \in scene.devices
  /\ Opened
  /\ gen' = [gen EXCEPT ![m] = OpenOrCreate]
  /\ Moved(m, "opened")
  /\ UNCHANGED <<store, files, scene, regionVars, eventVars, failedLate, ms>>

\* StartMonitor.  SpawnShmMonitor may not find the executable, that is ignored.
\* The monitor may not come up in time, then the constructor throws.
StartMonitor(m) ==
  /\ \/ /\ pc[m] = "opened"
        /\ ~scene.autolaunch \/ (~Locked(gen[m]) /\ ms)
        /\ Moved(m, "beating")
     \/ /\ pc[m] = "opened"
        /\ scene.autolaunch /\ ~Locked(gen[m]) /\ ~ms
        /\ \E to \in {"beating", "waitMonitor"} : Moved(m, to)
     \/ /\ pc[m] = "waitMonitor" /\ ms
        /\ Moved(m, "beating")
     \/ /\ pc[m] = "waitMonitor" /\ ~ms
        /\ Moved(m, "threw")
  /\ UNCHANGED <<shmVars, scene, gen, regionVars, eventVars, failedLate, ms>>

Heartbeats(m) ==
  /\ Beating(m)
  /\ store[gen[m]].beats < scene.beats
  /\ store' = [store EXCEPT ![gen[m]].beats = @ + 1]
  /\ UNCHANGED <<mng, lastGen, files, managerVars, ms>>

Counted(c) == [c EXCEPT !.fCount = @ + 1]

\* The try block.  A failure to open the segment leaves no entry; a failure to
\* lock it leaves the entry, but the event is not counted.
Attach(m) ==
  /\ pc[m] = "beating"
  /\ LET c == Counted(store[gen[m]]) IN
       \/ /\ Write(m, SegmentRegistered(c))
          /\ files' = files \cup {Segment}
          /\ Moved(m, "attached")
          /\ UNCHANGED failedLate
       \/ /\ scene.fails
          /\ Write(m, c)
          /\ Moved(m, "failed")
          /\ UNCHANGED <<files, failedLate>>
       \/ /\ scene.fails
          /\ Write(m, [c EXCEPT !.segment = TRUE])
          /\ files' = files \cup {Segment}
          /\ failedLate' = (failedLate \/ ~c.segment)
          /\ Moved(m, "failed")
  /\ UNCHANGED <<mng, lastGen, scene, gen, regionVars, eventVars, ms>>

-----------------------------------------------------------------------------
(* The destructor *)

Bumped(m) == [fRegionsGen EXCEPT ![ProcessOf[m]] = @ + 1]

\* A thread is in a call of the manager.
InUse(m) ==
  \/ lookup[ProcessOf[m]].at # "none" /\ lookup[ProcessOf[m]].m = m
  \/ unsignalled[m] # 0

\* The destructor begins; the generation of the regions is then the given one.
LeaveWith(m, generation) ==
  /\ Attached(m) /\ ~InUse(m)
  /\ \A r \in Regions : fRegions[m][r] # "controller"
  /\ Waiting(m)
  /\ sub' = [sub EXCEPT ![m].on = FALSE]
  /\ fRegionsGen' = generation
  /\ Moved(m, "leaving")
  /\ UNCHANGED <<shmVars, scene, gen, fRegions, made, creates, cache, lookup,
                 unsignalled, told, failedLate, ms>>

\* Mutant: the cache is not invalidated.
LeaveKeepingCache(m) == LeaveWith(m, fRegionsGen)

\* The cache is invalidated and the subscription ended.  It has to wait for
\* fRegionEventsMtx, which the subscription releases only in its wait.  Users
\* have destroyed their regions before, and no other thread uses the manager.
Leave(m) == LeaveWith(m, Bumped(m))

\* CleanupIfLast, under the lock: what is left to do without it.
AfterCount(n) ==
  IF n = 0 /\ ~scene.fNoCleanup THEN "cleanListed" ELSE "closing"

\* Mutant: a device that is not the last one cleans up.
CleanupAlways(m) ==
  /\ pc[m] \in {"leaving", "failed"}
  /\ Write(m, [store[gen[m]] EXCEPT !.fCount = @ - 1])
  /\ Moved(m, AfterCount(0))
  /\ UNCHANGED <<mng, lastGen, files, scene, gen, regionVars, eventVars,
                 failedLate, ms>>

\* The heartbeats have been stopped before.
CleanupIfLast(m) ==
  /\ pc[m] \in {"leaving", "failed"}
  /\ Write(m, [store[gen[m]] EXCEPT !.fCount = @ - 1])
  /\ Moved(m, AfterCount(store[gen[m]].fCount - 1))
  /\ UNCHANGED <<mng, lastGen, files, scene, gen, regionVars, eventVars,
                 failedLate, ms>>

\* Monitor::Cleanup goes by the name, without a lock.
Cleanup(m) ==
  /\ \/ /\ pc[m] = "cleanListed" /\ RemoveListed
        /\ Moved(m, "cleanManagement")
     \/ /\ pc[m] = "cleanListed" /\ mng = None
        /\ Moved(m, "closing")
        /\ UNCHANGED shmVars
     \/ /\ pc[m] = "cleanManagement" /\ RemoveManagement
        /\ Moved(m, "closing")
  /\ UNCHANGED <<scene, gen, regionVars, eventVars, failedLate, ms>>

\* The members go, fRegions with the objects that are left.
Close(m) ==
  /\ pc[m] = "closing"
  /\ files' = files \ UNION {IF scene.remove THEN RegionFiles(r) ELSE {rgq(r)} :
                             r \in {q \in Regions : fRegions[m][q] = "left"}}
  /\ fRegions' = [fRegions EXCEPT ![m] = [r \in Regions |-> "none"]]
  /\ Moved(m, "gone")
  /\ UNCHANGED <<mng, lastGen, store, scene, gen, made, creates, cacheVars,
                 eventVars, failedLate, ms>>

-----------------------------------------------------------------------------
(* Regions *)

\* The user's id, or the next one of RegionCounter.
NextCounted(c) == IF c.counter = 0 THEN FirstCounted ELSE c.counter + 1

\* InitializeRefCountSegment opens or creates it, unless RegionInfo has the
\* size 0, as for the regions of the keep-alive process.
RefCounts(r) == IF r \in scene.keeper THEN {} ELSE {rrc(r)}

\* The constructor of a controlling UnmanagedRegion opens or creates the memory,
\* may fail to lock it, opens or creates the reference count segment and, if it
\* has created the memory, registers the region, which fails for an id that is
\* registered.  A region in a file counts as not created.  s: the store so far.
CreateObject(m, r, s) ==
  LET created == rg(r) \notin files /\ r \notin scene.backed
      g == OpenOrCreate
      refused == created /\ s[g].region[r] # "none"
  IN \/ /\ scene.fails
        /\ files' = files \cup {rg(r)}
        /\ store' = s
        /\ UNCHANGED <<mng, lastGen, fRegions, fRegionsGen>>
     \/ /\ created
        /\ Opened
        /\ refused
        /\ files' = files \cup {rg(r)} \cup RefCounts(r)
        /\ store' = s
        /\ UNCHANGED <<fRegions, fRegionsGen>>
     \/ /\ IF created THEN Opened ELSE UNCHANGED <<mng, lastGen>>
        /\ ~refused
        /\ \E queue \in {{}, {rgq(r)}} :    \* without or with a callback
             files' = files \cup {rg(r)} \cup RefCounts(r) \cup queue
        /\ store' = IF created THEN [s EXCEPT ![g] = RegionRegistered(@, r)] ELSE s
        /\ fRegions' = [fRegions EXCEPT ![m][r] = "controller"]
        /\ fRegionsGen' = Bumped(m)

\* BecomeController: the subscription or a lookup has opened the region, and its
\* queue, before.
Promote(m, r, s) ==
  /\ store' = s
  /\ fRegions' = [fRegions EXCEPT ![m][r] = "controller"]
  /\ fRegionsGen' = Bumped(m)
  /\ UNCHANGED <<mng, lastGen, files>>

CreateRegion(m, r) ==
  /\ Attached(m)
  /\ ~Locked(gen[m])
  /\ creates < scene.creates
  /\ creates' = creates + 1
  /\ \E counted \in {FALSE, r = NextCounted(store[gen[m]])} :
       LET s == IF counted THEN [store EXCEPT ![gen[m]].counter = r] ELSE store
       IN CASE fRegions[m][r] = "none" -> CreateObject(m, r, s)
            [] fRegions[m][r] = "view" -> Promote(m, r, s)
            [] OTHER -> /\ store' = s        \* "already exists"
                        /\ UNCHANGED <<mng, lastGen, files, fRegions, fRegionsGen>>
  /\ UNCHANGED <<scene, pc, gen, made, cache, lookup, unsignalled, eventVars,
                 failedLate, ms>>

\* RemoveRegion, called by ~UnmanagedRegionImpl.  For a region that is not
\* registered, at() throws before the object is erased.
RemoveRegion(m, r) ==
  /\ Attached(m)
  /\ ~Locked(gen[m])
  /\ fRegions[m][r] = "controller"
  /\ LET found == Registered(gen[m], r) IN
       IF scene.remove /\ ~found
         THEN /\ fRegions' = [fRegions EXCEPT ![m][r] = "left"]
              /\ UNCHANGED <<store, files, made>>
         ELSE /\ store' = IF scene.remove
                            THEN [store EXCEPT ![gen[m]].region[r] = "destroyed",
                                               ![gen[m]].events = @ + 1]
                            ELSE store
              /\ files' = files \ (IF scene.remove THEN RegionFiles(r) ELSE {rgq(r)})
              /\ fRegions' = [fRegions EXCEPT ![m][r] = "none"]
              /\ made' = [made EXCEPT ![m][r] = @ + 1]
  /\ unsignalled' = [unsignalled EXCEPT ![m] = @ + 1]
  /\ UNCHANGED <<mng, lastGen, scene, pc, gen, creates, fRegionsGen, cache,
                 lookup, eventVars, failedLate, ms>>

\* Its end, without the locks: the cache is invalidated.
RegionRemoved(m) ==
  /\ Attached(m) /\ unsignalled[m] > 0
  /\ unsignalled' = [unsignalled EXCEPT ![m] = @ - 1]
  /\ fRegionsGen' = Bumped(m)
  /\ UNCHANGED <<shmVars, scene, pc, gen, fRegions, made, creates, cache, lookup,
                 eventVars, failedLate, ms>>

\* GetRegionFromCache where the cache has no answer, without a lock.  What is
\* cached under another generation is forgotten ...
CheckCache(m, r) ==
  LET p == ProcessOf[m]
      current == cache[p].gen = fRegionsGen[p]
  IN /\ scene.lookups /\ Attached(m)
     /\ lookup[p].at = "none"
     /\ current => \A e \in cache[p].entries : e[1] # r
     /\ cache' = IF current THEN cache
                 ELSE [cache EXCEPT ![p] = [EmptyCache EXCEPT !.gen = cache[p].gen]]
     /\ lookup' = [lookup EXCEPT ![p] =
                     [at |-> "get", m |-> m, r |-> r, gen |-> fRegionsGen[p],
                      object |-> <<>>]]
     /\ UNCHANGED <<shmVars, scene, pc, gen, fRegions, made, creates, fRegionsGen,
                    unsignalled, eventVars, failedLate, ms>>

Got(p, o) == lookup' = [lookup EXCEPT ![p].at = "put", ![p].object = o]

\* ... GetRegion finds the object, or opens a view, or gives null, <<>>, for a
\* region that is not registered or whose memory is gone ...
GetRegion(m, r) ==
  LET p == ProcessOf[m]
      object == <<m, r, made[m][r]>>
      present == Registered(gen[m], r) /\ rg(r) \in files
  IN /\ Attached(m)
     /\ lookup[p].at = "get" /\ lookup[p].m = m /\ lookup[p].r = r
     /\ \/ /\ fRegions[m][r] # "none"
           /\ Got(p, object)
           /\ UNCHANGED <<files, fRegions>>
        \/ /\ fRegions[m][r] = "none" /\ ~Locked(gen[m]) /\ ~present
           /\ Got(p, <<>>)
           /\ UNCHANGED <<files, fRegions>>
        \/ /\ fRegions[m][r] = "none" /\ ~Locked(gen[m]) /\ present
           /\ fRegions' = [fRegions EXCEPT ![m][r] = "view"]
           /\ files' = files \cup {rgq(r)} \cup RefCounts(r)
           /\ Got(p, object)
     /\ UNCHANGED <<mng, lastGen, store, scene, pc, gen, made, creates, fRegionsGen,
                    cache, unsignalled, eventVars, failedLate, ms>>

\* ... and the answer is cached under what is the generation by then.
FillCache(m) ==
  LET p == ProcessOf[m]
      l == lookup[p]
  IN /\ Attached(m)
     /\ l.at = "put" /\ l.m = m
     /\ cache' = [cache EXCEPT ![p] =
          [gen |-> fRegionsGen[p], entries |-> @.entries \cup {<<l.r, l.object>>},
           mixed |-> @.mixed \/ l.gen # fRegionsGen[p]]]
     /\ lookup' = [lookup EXCEPT ![p] = [at |-> "none"]]
     /\ UNCHANGED <<shmVars, scene, pc, gen, fRegions, made, creates, fRegionsGen,
                    unsignalled, eventVars, failedLate, ms>>
=============================================================================
