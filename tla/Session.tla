------------------------------- MODULE Session -------------------------------
(***************************************************************************)
(* A shared memory session as a whole: the managers of the devices, the    *)
(* monitor of fairmq/shmem/Monitor.cxx, the fairmq-shmmonitor tool of      *)
(* runMonitor.cxx and the process of examples/region/keep-alive.cxx, which *)
(* owns segments and regions that outlive devices.                         *)
(***************************************************************************)
EXTENDS Subscription

VARIABLES
  watch,     \* the monitor process
  keep,      \* where the keep-alive process is
  overlap    \* somebody has cleaned up while a manager was starting

otherVars == <<watch, keep>>
vars == <<shmVars, managerVars, ms, otherVars, overlap>>

Running == {"running", "cleanListed", "cleanManagement"}

Init ==
  /\ ManagerInit
  /\ watch = [pc |-> "off", fSeenOnce |-> FALSE, fHeartbeatTriggered |-> FALSE,
              localHb |-> 0, silent |-> FALSE, signalled |-> FALSE]
  /\ keep = "off"
  /\ overlap = FALSE

NobodyAlive == \A m \in Managers : ~Alive(m)

-----------------------------------------------------------------------------
(* The monitor *)

fSelfDestruct == scene.monitor = "selfDestruct" \/ scene.autolaunch

Watching(w) == watch' = w

\* main and the constructor.  A second monitor finds the name and leaves.
MonitorStart ==
  /\ watch.pc = "off"
  /\ scene.monitor # "none" \/ \E m \in Managers : pc[m] = "waitMonitor"
  /\ ~ms
  /\ ms' = TRUE
  /\ Watching([watch EXCEPT !.pc = "running"])
  /\ UNCHANGED <<shmVars, managerVars, keep>>

\* Mutant: the last heartbeat is not remembered.
CheckHeartbeatsForgetful ==
  /\ watch.pc \in Running
  /\ mng # None /\ store[mng].beats # 0
  /\ Watching([watch EXCEPT !.fHeartbeatTriggered = TRUE, !.silent = FALSE])
  /\ UNCHANGED <<shmVars, managerVars, ms, keep>>

\* A counter at its bound stands for any higher number: who beats still counts.
NewHeartbeat ==
  \/ store[mng].beats \notin {0, watch.localHb}
  \/ /\ store[mng].beats = scene.beats
     /\ \E m \in Managers : Beating(m) /\ gen[m] = mng

CheckHeartbeats ==
  /\ watch.pc \in Running
  /\ mng # None /\ NewHeartbeat
  /\ Watching([watch EXCEPT !.fHeartbeatTriggered = TRUE, !.silent = FALSE,
                            !.localHb = store[mng].beats])
  /\ UNCHANGED <<shmVars, managerVars, ms, keep>>

\* fTimeoutInMS have passed since the last new heartbeat.  Heartbeats come every
\* 100 ms and the timeout is 2000 ms or more: nobody who beats is that late.
Silence ==
  /\ watch.pc \in Running /\ ~watch.silent
  /\ \A m \in Managers : ~(Beating(m) /\ gen[m] = mng)
  /\ Watching([watch EXCEPT !.silent = TRUE])
  /\ UNCHANGED <<shmVars, managerVars, ms, keep>>

\* One turn of Watch.
Watch ==
  /\ watch.pc = "running"
  /\ Watching(
       CASE mng # None ->
              [watch EXCEPT !.fSeenOnce = TRUE,
                 !.pc = IF watch.fHeartbeatTriggered /\ watch.silent
                          THEN "cleanListed" ELSE @]
         [] mng = None /\ (~fSelfDestruct \/ (~watch.fSeenOnce /\ ~watch.silent)) ->
              [watch EXCEPT !.fHeartbeatTriggered = FALSE]
         [] mng = None /\ fSelfDestruct /\ watch.fSeenOnce ->
              [watch EXCEPT !.fHeartbeatTriggered = FALSE, !.pc = "terminating"]
         [] OTHER ->
              [watch EXCEPT !.fHeartbeatTriggered = FALSE, !.pc = "cleanListed"])
  /\ UNCHANGED <<shmVars, managerVars, ms, keep>>

AfterCleanup ==
  [watch EXCEPT !.fHeartbeatTriggered = FALSE,
                !.pc = IF fSelfDestruct THEN "terminating" ELSE "running"]

MonitorCleanup ==
  /\ \/ /\ watch.pc = "cleanListed" /\ RemoveListed
        /\ Watching([watch EXCEPT !.pc = "cleanManagement"])
     \/ /\ watch.pc = "cleanListed" /\ mng = None
        /\ Watching(AfterCleanup)
        /\ UNCHANGED shmVars
     \/ /\ watch.pc = "cleanManagement" /\ RemoveManagement
        /\ Watching(AfterCleanup)
  /\ UNCHANGED <<managerVars, ms, keep>>

\* SignalMonitor.
MonitorSignal ==
  /\ watch.pc = "running"
  /\ Watching([watch EXCEPT !.pc = "terminating", !.signalled = TRUE])
  /\ UNCHANGED <<shmVars, managerVars, ms, keep>>

\* ~Monitor, after Run has joined the heartbeat thread.
MonitorStop ==
  /\ watch.pc = "terminating"
  /\ ms' = FALSE
  /\ Watching([watch EXCEPT !.pc = "stopped"])
  /\ UNCHANGED <<shmVars, managerVars, keep>>

-----------------------------------------------------------------------------
(* fairmq-shmmonitor --cleanup and --reset-content.  Users call them when   *)
(* nobody uses the session.                                                 *)

\* What the management segment lists goes with it, if there is one, and the name
\* of the monitor's mutex in any case.
CleanupFull ==
  /\ scene.tools /\ NobodyAlive /\ keep \in {"off", "gone"} /\ watch.pc \notin Running
  /\ files' = IF mng = None THEN files ELSE files \ Cleaned(mng)
  /\ mng' = None
  /\ ms' = FALSE
  /\ UNCHANGED <<lastGen, store, managerVars, otherVars>>

ResetContent ==
  /\ scene.tools /\ NobodyAlive /\ keep \in {"off", "gone"}
  /\ mng # None
  /\ files' = files \ ResetFiles(mng)
  /\ UNCHANGED <<mng, lastGen, store, managerVars, ms, otherVars>>

-----------------------------------------------------------------------------
(* ShmManager of keep-alive.cxx.  It is started before the devices, reset   *)
(* while none of them runs, and stopped after them.                         *)

Kept(to) == keep' = to /\ UNCHANGED <<managerVars, ms, watch>>

\* The constructor begins with FullReset, the destructor cleans up: Cleanup.
KeepCleanup ==
  \/ /\ keep = "off" /\ scene.keeper # {} /\ NobodyAlive
     /\ Kept("cleanListed") /\ UNCHANGED shmVars
  \/ /\ keep \in {"cleanListed", "leaveListed"} /\ mng # None
     /\ RemoveListed
     /\ Kept(IF keep = "cleanListed" THEN "cleanManagement" ELSE "leaveManagement")
  \/ /\ keep \in {"cleanListed", "leaveListed"} /\ mng = None
     /\ Kept(IF keep = "cleanListed" THEN "segments" ELSE "members")
     /\ UNCHANGED shmVars
  \/ /\ keep \in {"cleanManagement", "leaveManagement"}
     /\ RemoveManagement
     /\ Kept(IF keep = "cleanManagement" THEN "segments" ELSE "members")

AddSegments ==
  /\ keep = "segments" /\ Opened
  /\ files' = files \cup {Segment}
  /\ store' = [store EXCEPT ![OpenOrCreate] = SegmentRegistered(@)]
  /\ Kept("regions")

\* The regions of the configuration in one step: no device runs yet.
AddRegions ==
  /\ keep = "regions" /\ Opened
  /\ files' = files \cup {rg(r) : r \in scene.keeper}
  /\ store' = [store EXCEPT ![OpenOrCreate] =
       FoldLeft(RegionRegistered, @, SetToSeq({r \in scene.keeper : rg(r) \notin files}))]
  /\ Kept("keeping")

CheckPresence == SegmentIsPresent /\ \A r \in scene.keeper : RegionIsPresent(r)

\* ResetContent with the configurations makes a new management segment.
KeepReset ==
  /\ keep = "keeping" /\ NobodyAlive /\ lastGen < MaxGens
  /\ lastGen' = lastGen + 1 /\ mng' = lastGen + 1
  /\ LET c == FoldLeft(RegionRegistered, SegmentRegistered(NoContent),
                       SetToSeq(scene.keeper))
     IN store' = [store EXCEPT ![lastGen + 1] = c]
  /\ files' = files \ UNION {{rgq(r), rrc(r)} : r \in scene.keeper}
  /\ Kept("keeping")

\* A signal, or CheckPresence finds something missing.
KeepStop ==
  /\ keep = "keeping"
  /\ NobodyAlive \/ ~CheckPresence
  /\ Kept("leaveListed")
  /\ UNCHANGED shmVars

\* The members: the regions, which remove their memory and queues.
KeepClose ==
  /\ keep = "members"
  /\ files' = files \ UNION {{rg(r), rgq(r)} : r \in scene.keeper}
  /\ UNCHANGED <<mng, lastGen, store>>
  /\ Kept("gone")

Keeper ==
  KeepCleanup \/ AddSegments \/ AddRegions \/ KeepReset \/ KeepStop \/ KeepClose

-----------------------------------------------------------------------------
(* Crashes.  A process that dies in a section under fShmMtx leaves it locked  *)
(* for good; that is not modelled.                                           *)

Crashed == Cardinality({m \in Managers : pc[m] = "dead"})
             + (IF watch.pc = "dead" THEN 1 ELSE 0)

Crash(p) ==
  /\ Crashed < scene.crashes
  /\ \E m \in Managers : ProcessOf[m] = p /\ Alive(m)
  /\ \A m \in Managers : ProcessOf[m] = p => pc[m] # "waitMonitor"
  /\ Killed(p, "dead")
  /\ UNCHANGED <<shmVars, scene, gen, regionVars, eventVars, failedLate, ms,
                 otherVars>>

\* The name of its mutex stays.
MonitorCrash ==
  /\ Crashed < scene.crashes
  /\ watch.pc \in Running
  /\ Watching([watch EXCEPT !.pc = "dead"])
  /\ UNCHANGED <<shmVars, managerVars, ms, keep>>

-----------------------------------------------------------------------------

Constructor(m) == StartMonitor(m) \/ Attach(m)
Destructor(m) == CleanupIfLast(m) \/ Cleanup(m) \/ Close(m)
User(m) ==
  \/ (scene.keeper # {} => keep = "keeping") /\ Open(m)
  \/ Leave(m) \/ Subscribe(m) \/ Unsubscribe(m)
  \/ \E r \in Regions : CreateRegion(m, r) \/ RemoveRegion(m, r)
  \/ RegionRemoved(m)
  \/ \E r \in Regions : CheckCache(m, r) \/ GetRegion(m, r)
  \/ FillCache(m)

Manager(m) ==
  /\ User(m) \/ Constructor(m) \/ Destructor(m) \/ Heartbeats(m) \/ SubscriptionThread(m)
  /\ UNCHANGED otherVars

MonitorProcess ==
  \/ MonitorStart \/ CheckHeartbeats \/ Silence \/ Watch \/ MonitorCleanup
  \/ MonitorSignal \/ MonitorStop

\* Somebody removes files, or the monitor's timeout has expired, while a manager
\* has mapped the management segment and is not yet counted in it.
Overlapping ==
  LET uncounted(m) == pc[m] \in {"opened", "waitMonitor", "beating"}
      Cleaning == {"cleanListed", "cleanManagement", "leaveListed", "leaveManagement"}
  IN /\ \E m \in Managers : uncounted(m)
     /\ \/ \E m \in Managers : pc[m] \in Cleaning
        \/ watch.pc \in Cleaning
        \/ watch.pc = "running" /\ watch.fHeartbeatTriggered /\ watch.silent
        \/ keep \in Cleaning

Next ==
  /\ \/ \E m \in Managers : Manager(m)
     \/ MonitorProcess
     \/ CleanupFull \/ ResetContent
     \/ Keeper
     \/ \E p \in Processes : Crash(p)
     \/ MonitorCrash
  /\ overlap' = (overlap \/ Overlapping')

Spec == Init /\ [][Next]_vars

\* Threads run; time passes; StartMonitor gives up after a while.  Nothing is
\* assumed of users, signals and crashes.
Fairness ==
  /\ \A m \in Managers :
       WF_<<shmVars, managerVars, ms>>(StartMonitor(m) \/ SubscriptionThread(m))
  /\ WF_<<shmVars, managerVars, ms, otherVars>>(CheckHeartbeats)
  /\ WF_<<shmVars, managerVars, ms, otherVars>>(Silence)
  /\ WF_<<shmVars, managerVars, ms, otherVars>>(Watch)
  /\ WF_<<shmVars, managerVars, ms, otherVars>>(MonitorCleanup)

FairSpec == Spec /\ Fairness

-----------------------------------------------------------------------------
(* Properties.  A device that starts during a cleanup is left out of the     *)
(* first two: it is not counted yet, and Monitor::Cleanup takes no lock.     *)

\* A device in use keeps its session: Manager::CleanupIfLast of other devices,
\* failed constructors and the monitor leave the management segment it has mapped,
\* its managed segment and the memory of the regions that are not destroyed; with
\* --shm-no-cleanup and removeOnDestruction off, also what a keep-alive process has.
InUseKeepsFiles ==
  ~overlap =>
    /\ \A m \in Managers : Attached(m) =>
         /\ gen[m] = mng
         /\ Segment \in files
         /\ \A r \in Regions : store[mng].region[r] = "alive" => rg(r) \in files
    /\ keep = "keeping" /\ scene.fNoCleanup /\ ~scene.remove => CheckPresence

\* After a graceful end of all devices nothing of the session is left, however
\* their constructors, failures, regions and destructors interleave, but the
\* memory of regions whose constructor failed before it registered them.
LeavesNothing ==
  (/\ ~overlap /\ scene.keeper = {} /\ ~scene.fNoCleanup /\ scene.remove
   /\ \A m \in Managers : pc[m] \in {"off", "gone"}) =>
     /\ mng = None
     /\ files \subseteq {rg(r) : r \in {q \in Regions :
                                      lastGen # 0 /\ ~Registered(lastGen, q)}}

\* GetRegionFromCache does not return a region object that is gone: in a process
\* that lives, what its cache holds under the current generation is null or an
\* object in fRegions of a manager, and not of one that was destroyed, however
\* the regions and the managers of the process come and go.  Two races of threads
\* are left out: the generation changes between the check and the store in
\* GetRegionFromCache (mixed), and RemoveRegion has erased the object and not yet
\* signalled it (unsignalled).  In both the cache may hold what is gone.
CachedRegionIsLive ==
  \A p \in Processes :
    (/\ \A m \in Managers : ProcessOf[m] = p =>
          pc[m] \notin {"dead", "aborted"} /\ unsignalled[m] = 0
     /\ cache[p].gen = fRegionsGen[p] /\ ~cache[p].mixed) =>
      \A e \in cache[p].entries :
        e[2] # <<>> => /\ fRegions[e[2][1]][e[1]] # "none"
                       /\ made[e[2][1]][e[1]] = e[2][3]

\* A subscriber sees of every segment and region what RegionEvents promises.
Promise == INSTANCE RegionEvents WITH Subscribers <- Managers
FollowsEvents == Promise!Spec

\* The callback still owes the subscriber an event of the registry.
Due(m, o) ==
  LET c == store[gen[m]]
      alive == IF o = SegmentId THEN c.segment ELSE c.region[o] = "alive"
      destroyed == o # SegmentId /\ c.region[o] = "destroyed"
  IN /\ Attached(m) /\ sub[m].on
     /\ (alive /\ told[m][o] = <<>>) \/ (destroyed /\ told[m][o] = <<"created">>)

\* RegionEventsSubscription catches up with the registry by comparing counters:
\* again and again nothing is due, as the regions created are bounded, unless a
\* constructor has registered a segment without counting it.
CatchesUp ==
  \A m \in Managers :
    (\E o \in Observable : Due(m, o)) ~>
      ((\A o \in Observable : ~Due(m, o)) \/ failedLate)

\* When all devices have died, the monitor that has seen heartbeats removes the
\* session (Monitor::Watch), unless it is stopped or dies itself, or others come.
DeadIsCleaned ==
  (/\ watch.pc = "running" /\ watch.fHeartbeatTriggered
   /\ mng # None /\ NobodyAlive) ~>
     (mng = None \/ watch.signalled \/ watch.pc = "dead" \/ ~NobodyAlive)
=============================================================================
