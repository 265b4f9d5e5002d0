---------------------------- MODULE Subscription ----------------------------
(* Region events of fairmq/shmem/Manager.h: a thread polls the event counter *)
(* of the session and compares the registry with what it has seen.           *)
EXTENDS Manager, TLC

Subscribe(m) ==
  /\ Attached(m)
  /\ m \in scene.subscribers
  /\ ~sub[m].on
  /\ sub' = [sub EXCEPT ![m].on = TRUE]
  /\ UNCHANGED <<shmVars, scene, pc, gen, regionVars, told, failedLate, ms>>

\* Needs fRegionEventsMtx, so the thread is in its wait, and joins it.
Unsubscribe(m) ==
  /\ Attached(m)
  /\ sub[m].on /\ Waiting(m)
  /\ sub' = [sub EXCEPT ![m].on = FALSE]
  /\ UNCHANGED <<shmVars, scene, pc, gen, regionVars, told, failedLate, ms>>

\* GetRegionInfo under fShmMtx: all segments and regions of the registry.
Infos(c) ==
  [o \in {r \in Regions : c.region[r] # "none"}
           \cup (IF c.segment THEN {SegmentId} ELSE {}) |->
     IF o \in Regions /\ c.region[o] = "destroyed" THEN "destroyed" ELSE "created"]

\* Mutant: polls only when the counter has grown by more than one.
PollRarely(m) ==
  LET c == store[gen[m]] IN
  /\ Attached(m) /\ sub[m].on /\ Waiting(m)
  /\ c.events > sub[m].fNumObservedEvents + 1
  /\ ~Locked(gen[m])
  /\ sub' = [sub EXCEPT ![m].infos = Infos(c),
                        ![m].toOpen = {o \in DOMAIN Infos(c) \cap Regions :
                                         Infos(c)[o] = "created"}]
  /\ UNCHANGED <<shmVars, scene, pc, gen, regionVars, told, failedLate, ms>>

Poll(m) ==
  LET c == store[gen[m]] IN
  /\ Attached(m) /\ sub[m].on /\ Waiting(m)
  /\ c.events # sub[m].fNumObservedEvents
  /\ ~Locked(gen[m])
  /\ sub' = [sub EXCEPT ![m].infos = Infos(c),
                        ![m].toOpen = {o \in DOMAIN Infos(c) \cap Regions :
                                         Infos(c)[o] = "created"}]
  /\ UNCHANGED <<shmVars, scene, pc, gen, regionVars, told, failedLate, ms>>

\* GetRegionInfo without fShmMtx: views of the regions that were there.  Nobody
\* catches the exception of a region that has been removed since then.
OpenView(m, r) ==
  /\ Attached(m) /\ r \in sub[m].toOpen
  /\ \/ /\ fRegions[m][r] # "none"
        /\ sub' = [sub EXCEPT ![m].toOpen = @ \ {r}]
        /\ UNCHANGED <<files, fRegions, pc>>
     \/ /\ fRegions[m][r] = "none" /\ rg(r) \in files
        /\ sub' = [sub EXCEPT ![m].toOpen = @ \ {r}]
        /\ fRegions' = [fRegions EXCEPT ![m][r] = "view"]
        /\ files' = files \cup {rgq(r)} \cup RefCounts(r)
        /\ UNCHANGED pc
     \/ /\ fRegions[m][r] = "none" /\ rg(r) \notin files
        /\ Killed(ProcessOf[m], "aborted")
        /\ UNCHANGED <<files, fRegions, sub>>
  /\ UNCHANGED <<mng, lastGen, store, scene, gen, made, creates, cacheVars,
                 told, failedLate, ms>>

\* What the thread makes of one info: whether it calls back, what it remembers
\* and how many events it counts.
Reaction(seen, now) ==
  CASE seen = "none" /\ now = "created" -> [call |-> TRUE, seen |-> now, events |-> 1]
    [] seen = "none" /\ now = "destroyed" ->
         [call |-> FALSE, seen |-> now, events |-> 2]
    [] seen = "created" /\ now = "destroyed" ->
         [call |-> TRUE, seen |-> now, events |-> 1]
    [] OTHER -> [call |-> FALSE, seen |-> seen, events |-> 0]

Dealt(m, o, react) ==
  /\ Attached(m) /\ sub[m].toOpen = {} /\ o \in DOMAIN sub[m].infos
  /\ sub' = [sub EXCEPT
       ![m].infos = [i \in DOMAIN @ \ {o} |-> @[i]],
       ![m].observed[o] = react.seen,
       ![m].fNumObservedEvents = @ + react.events]
  /\ told' = IF react.call
               THEN [told EXCEPT ![m][o] = Append(@, sub[m].infos[o])]
               ELSE told
  /\ UNCHANGED <<shmVars, scene, pc, gen, regionVars, failedLate, ms>>

\* Mutant: that a region has been destroyed is not remembered.
DeliverAgain(m, o) ==
  Dealt(m, o, LET react == Reaction(sub[m].observed[o], sub[m].infos[o])
              IN [react EXCEPT !.seen = IF @ = "destroyed" THEN "created" ELSE @])

Deliver(m, o) == Dealt(m, o, Reaction(sub[m].observed[o], sub[m].infos[o]))

SubscriptionThread(m) ==
  \/ Poll(m)
  \/ \E r \in Regions : OpenView(m, r)
  \/ \E o \in Observable : Deliver(m, o)
=============================================================================
