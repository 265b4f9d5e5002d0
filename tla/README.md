# TLA+ models of FairMQ

Specifications of FairMQ's processes, transports and configuration, the TLC configurations that
check them on small instances, and TLAPS proofs for the device state machine.
Paths are relative to the repository (`src/` here).  `PROJECT.json` maps every
definition to the lines it models and lists runs, mutants, findings, hazards
and theorems.

## The system

A FairMQ process runs one **device**.  Its main thread is the *worker*: it takes
states from the **state machine** and runs the handler of each.  Anybody else who
wants a state change (a plugin, a signal thread, user code) calls `ChangeState`,
which makes the msm state move at once, interrupts the transports and leaves a
*pending state* for the worker.  The builtin **control plugin** drives the device
through its life, listening to state announcements in a **state queue** and
holding the device control role of **PluginServices**; **DeviceRunner** owns all
of it.  Devices talk through **channels** over a **transport**: ZeroMQ, or shared
memory, where ZeroMQ only carries metadata and the payload stays in *managed
segments* or user-managed *unmanaged regions*.  A shared memory *session* spans
processes; its **manager** counts devices and its **monitor** cleans up after
crashes.  **ProgOptions** keeps the properties everyone reads.

| Part | Source | Module | Status |
|---|---|---|---|
| state machine | `StateMachine.cxx`, `States.*` | `States`, `StateMachine`, `Lifecycle` | modelled, proved |
| device | `Device.cxx`, `Device.h` | `Device`, `DeviceProofs` | partly, proved |
| control plugin, state queue | `plugins/control/Control.cxx`, `StateQueue.h` | `Control` | modelled |
| plugin services, device runner | `PluginServices.*`, `DeviceRunner.cxx` | `Control`, `Startup` | partly |
| channels, attachment | `Channel.*`, `Device.cxx` | `Attach` | partly |
| program options, events | `ProgOptions.*`, `EventManager.h` | `Config` | partly |
| config plugin and parsers | `plugins/config/Config.cxx`, `JSONParser.cxx`, `SuboptParser.cxx` | `Parsers`, `Startup` | modelled |
| plugin manager | `PluginManager.cxx` | `Startup` | partly |
| transfers of both transports | `zeromq/Socket.h`, `zeromq/Common.h`, `shmem/Socket.h` | `Transfer` | partly |
| zeromq regions and events | `zeromq/Context.h`, `zeromq/UnmanagedRegion.h` | `ZmqRegions`, `RegionEvents` | partly |
| devices, input loops, pollers | `devices/*.h`, `Device.cxx`, `*/Poller.h` | `Pipeline` | modelled |
| shmem messages and sockets | `shmem/Message.h`, `shmem/Socket.h`, `shmem/Common.h` | `Messages`, `BlockLife` | partly |
| shmem regions | `shmem/UnmanagedRegion.h` | `RegionAcks`, `BlockLife`, `Manager` | partly |
| shmem manager | `shmem/Manager.*`, `shmem/Segment.h` | `SharedMemory`, `Manager`, `Subscription`, `RegionEvents` | partly |
| shmem monitor, keep-alive process | `shmem/Monitor.cxx`, `shmem/runMonitor.cxx`, `examples/region/keep-alive.cxx` | `Session` | partly |
| memory resources, tidy tool | see `PROJECT.json` | | not modelled |

## Modules and code

**`States`** has the states, the transitions and the msm transition table.
**`Lifecycle`** is the abstract promise: the reported state starts at Idle, moves
along the table or to Error, and Error is final.

**`StateMachine`** has `Machine_`'s fields.  `active` and `okRegion` are the two
msm regions, `fState` is what is reported, `fNewState`/`fNewStatePending` is the
hand-over to the worker.  A call of `ChangeState` has three steps: it gets the
mutex and is refused or accepted (`active` moves and the transports are
interrupted), then announces the pending state, then returns.

**`Device`** adds the worker: `pc` walks through `ProcessWork` and the handlers.
User code may return or throw; the `Running` handler is kept step by step,
including the rate logger it joins and the `CallOnDestruction` guard that requests
ErrorFound while an exception unwinds.  A `DeviceKinds` record says what matters
of the user's class: OnData callbacks, a loop that ends by itself, a blocking
receive in PreRun, code that throws.

**`Control`** composes a `Device` with the controller thread (startup sequence,
then static, gui or interactive mode), the signal thread and the main thread that
destroys the plugin.  `fStateQueue` is the queue; an Error at its front makes the
wait throw.

**`Messages`** models who owns a buffer.  `msg` holds the fields of
`shmem::Message`; `count` the reference counts in chunks and in the region's own
segment; `wire` the metadata in flight.  Giving up a reference is one atomic step,
freeing the buffer the next, as in `Deallocate`.  A handle computed relative to
the wrong segment is `Nowhere`.

**`RegionAcks`** models how released blocks return: per process
`fBlocksToFree`, a sender thread that takes the youngest at most `fAckBunchSize`,
a bounded queue, the controller's receiver thread with either kind of callback or
none, and `StopAcks`/the destructor joining the threads.

**`BlockLife`** is the abstract promise to the user of a region: a block goes user
-> message -> region -> user.  `Messages` and `RegionAcks` each implement it.

**`SharedMemory`** has the names of a session: `mng` is the generation of the
management segment its name leads to, `store` the content of each generation (device
counter, event counter, registry of segments and regions, heartbeat), `files` the
other names.  A name can be unlinked while processes have the old object mapped.
**`Manager`** has one life of a `Manager` per element of `Managers`: constructor with
the launch of a monitor and its failures, heartbeats, `CreateRegion`,
`RemoveRegion` (the new generation follows the erase as a step of its own), and the
destructor with `CleanupIfLast`, whose cleanup happens in two steps after the lock is
released.  `GetRegionFromCache` takes three steps, `CheckCache`, `GetRegion` and
`FillCache`, of one thread per process that looks up in any of its managers (a cache is
thread-local); regions are created and removed by other threads meanwhile.
**`Subscription`** is the thread that compares event counters; **`RegionEvents`** is
what it promises, and what the ZeroMQ context promises too.  **`Session`** adds the
monitor process (`watch`), the tool, the keep-alive process (`keep`) and crashes.

**`Transfer`** is the retry loop of `Send` and `Receive`: `xfer[t]` is the call a
thread is in, `pipe` what ZeroMQ (external) keeps between two sockets, `elapsed`
the variable of `ShouldRetry` next to `waited`, the time really spent.  ZeroMQ sends a
frame per part, shared memory one for all.  **`Pipeline`** connects samplers, one
device and sinks, with the `Run` loops of `devices/` and the three input loops of
`Device`.  An exception of a callback or the poller leaves `Run` (`"done"`); out of the
poll thread of one of several transports it ends the process (`"terminated"`).  A sink
may write a file, which cannot be opened or written or becomes full.
**`ZmqRegions`** has the event queue of `zeromq::Context` and regions constructed and
destroyed by any number of threads: an id is read in the constructor and counted in
`AddRegion`, so regions under construction together may get the same one.

**`Config`** is `ProgOptions`: writes take the mutex, their events follow one by one
without it.  A callback that throws, a type without an emitter or a key deleted before
the string event end the call (`Throw`); whatever it had left is stored and not told.
**`Parsers`** turns a property tree or `--channel-config` into channel
properties.  **`Attach`** is `InitWrapper`, `BindWrapper`, `ConnectWrapper` and
`ResetWrapper`; an address is a sequence of endpoints, `socket` what was really
attached, and name resolution and `zmq_bind` are choices.  **`Startup`** runs
`DeviceRunner::Run` around them, with plugins that write properties at any time.  A
plugin is named with the mechanism that loads it, as only those loaded from a library
are in `fPluginFactories` and recognised when they are named again.

## Runs

| Run | Result | Shows |
|---|---|---|
| `device` | holds | all interleavings of worker, rate logger and a controller that requests anything at any time, five kinds of device |
| `device_stop` | violated | a Stop whose interrupt ends the input loop before it is pending sends a healthy device to Error |
| `device_receive` | violated | a transition requested between taking and preparing a state has its interrupt wiped out; a later Receive blocks |
| `control` | holds | three modes, keys, a loop that ends, code that throws, signals, destruction of the plugin |
| `control_signal` | violated | `RunShutdownSequence` reads the state and then clears the queue; an announcement in between is lost and the process hangs |
| `shm_message` | holds | two devices create, copy, resize, rebuild, send, receive and destroy messages |
| `shm_rebuild` | violated | `Rebuild(size)` on an object that held a region block leaves `fManaged` false |
| `shm_region` | holds | acknowledgements over a full queue, with or without callback, down to destruction |
| `session` | holds | managers in two processes, lookups next to creation and removal of regions, a subscriber, a monitor, the tool and the keep-alive process; failing constructors and crashes |
| `pipeline` | holds | every kind of device, over one transport or the other, full pipes, signals, errors, timeouts, exceptions, interruption; ZeroMQ regions and their events |
| `startup` | holds | twenty-one command lines and channel configurations with concurrent writers and callbacks that throw |
| `startup_root` | violated | where TCP port 1 can be bound, the address of a channel without a configured one is not put into the configuration |

The violated ones are the findings of `PROJECT.json`, each with the comment or
document line it contradicts.  Every property that holds is paired with a mutant,
a plausible bug, that breaks it.

### Bounds

- `device`: one controller.  It can already race with the worker at every step;
  the proofs cover any number.
- `control`: `MaxKeys = 4` transition keys.  The sequences of the other modes are
  finite by themselves.
- `shm_message`: one segment of two chunks, one block, one cell for reference
  counts, three messages, one transfer of up to two parts in flight.  This is
  enough for a buffer to be shared, sent and closed by two devices at once, for a
  full segment and for a full reference count segment.  Counts wrap at
  `CountSize = 8`, which three messages cannot reach.  Messages, devices and
  chunks are symmetric; with symmetry only safety is checked.
- `shm_region`: three blocks, bunches of two, a queue of one bunch, `MaxLends = 4`.
  A list can exceed a bunch, the queue can be full, and a block can be lent again
  while stale copies of it would still be on their way.
- `session`: three managers (two in one process), two region ids of which one is
  counted, two generations of the management segment.  Each of the nine scenarios
  brings one or two dangers, because all at once have too many states.  A heartbeat
  counter at its bound stands for any higher value.  Calls of `CreateRegion` are
  bounded, which `CatchesUp` relies on: it says that nothing is due in the end.
- `pipeline`: pipes hold one message (`SNDHWM = 1`) of one or two parts, samplers make
  two and one, so that pipes are full and empty and messages follow each other.
  A socket timeout is two units, and the timeouts of the channels are none, 0, below, at
  and above it.  At most two signals or errors.  Three ZeroMQ regions, so that two can
  be under construction at once.
- `startup`: two writes by plugins, one retry (`MaxAttempts = 1`), two random ports, at
  most two initializations.  One retry is enough for an address that arrives late.

### Fairness

Weak fairness of each thread: the scheduler runs every thread that can run.  User
code is assumed to return (or to throw), waits with a timeout to end.  Nothing is
assumed of controllers' requests, keys, signals, the end of messages, or processes
stopping.  `session` also assumes that a monitor's timeout expires when nobody beats;
nothing is assumed of users, signals and crashes.  In `pipeline` a blocking call comes
back after the socket's timeout, and a request that has interrupted the transports
announces its state.  In `control`, a run loop that can end is assumed to end.

`ReleasedReturns` holds because lending is bounded by `MaxLends`: the sender takes
the youngest blocks first, so under endless load with more than a bunch waiting,
old blocks could wait for ever.

### What users are assumed to do

`Messages` excludes, through the constant `Reuse`, using a sent object again
without `Rebuild`, and giving an object a new buffer when its last one was not in
its own segment (the case of `shm_rebuild`).  It also excludes copying a message
onto itself, resizing a shared or a region message, and mixing single and
multipart transfers.  A region is always available to the messages in it.

In `Session` the tool and the keep-alive process are used while no device runs.  A
device that starts during somebody's cleanup, or when the monitor's timeout has just
expired, can lose its session: `Monitor::Cleanup` takes no lock.  The run reaches this;
the history variable `overlap` takes it out of `InUseKeepsFiles` and `LeavesNothing`.
`WholeMessages` does not hold after a signal or an error between two frames of a
multipart message (`torn`), since `zeromq/Socket.h` then starts again from the first
part.

Other properties leave out a race, or a call that failed, by a history variable.  The
runs reach these cases too, and without the exception the property is violated:

- `CachedRegionIsLive`: `RemoveRegion` has erased the object and not yet started a new
  generation (`unsignalled`), or the generation changes between the check and the store
  of `GetRegionFromCache` (`mixed`), which then keeps old entries, or the one it just got,
  under the new generation.  A manager is not destroyed while a thread is in a call of it.
- `ZmqFollowsEvents`: `Context::RemoveRegion` goes by the id and may report the other of
  two regions that were under construction together (`beside`).
- `ToldPresentValues`: the events of two calls are not ordered like their stores, so the
  value a subscriber hears last is the present one only if no other call was still to
  emit the key (`crossed`); otherwise it was told it at some time.  What a call had left
  when it threw, and the values of `AddChannel`, nobody is told.
- `AttachingEnds` starts from lists of existing channels (`ListsAreLive`):
  `ResetWrapper` leaves pointers to destroyed ones on them, whose use is undefined.

## Proofs

`DeviceProofs` proves for every set of controllers, requests and device kinds, from
`DeviceAssumption` and the assumptions of `StateMachine`:

| Theorem | Property |
|---|---|
| `TypeCorrect` | `TypeOK` |
| `NeverTerminates` | `DestructorNeverThrows` |
| `RateLoggerAlwaysReleased` | `RateLoggerReleased` |
| `InterruptIsCurrent` | `NoStaleInterrupt` |
| `ResetDropsTransports` | `ExitsWithoutTransports` |
| `ErrorsAreCaused` | `ErrorHasCause` |
| `DeviceImplementsLifecycle` | `FollowsLifecycle` |

None of the properties is inductive.  The invariant `IInv` adds who holds the mutex
(`MutexInv`), which calls can be in flight (`CallInv`), where the worker can be in
each state (`PlaceInv`), how `active`, `fNewState` and `fState` agree
(`AgreeInv`), what holds when the worker's own request has returned (`ReturnInv`),
the transports on the way back to Idle (`ResetInv`), and, for `ErrorHasCause`, that
nobody can race with the worker's Auto request (`QuietInv`: in a state with an Auto
row the table accepts no other request but ErrorFound).  The proof has one lemma
per group of actions: the worker's moves, its own calls, and a call's refusal,
acceptance and announcement by any thread.

Only model-checked: all liveness properties (fairness and ENABLED are outside the
prover's reach), and everything about the other modules.

## Not modelled

- Memory resources and the tidy tool have no protocol of their own; texts, logging,
  listings of the monitor and terminal handling are output.
- `Monitor`: the interactive and view-only modes and `--clean-on-exit`.
- `Manager`: a process that dies while it holds `fShmMtx` (nobody recovers from that).
  A section under `fShmMtx` and `fLocalRegionsMtx` is one step, so the order in which
  `CreateRegion`, `RemoveRegion` and `GetRegion` lock them is a hazard without a property,
  and `GetRegion` opens the region in the step that finds it in the registry.
- `Channel`: numeric options, which are copied and range-checked one by one, the check of
  the name, and the check that a message has the transport of its channel.
- Sockets: options, `Close`, the count of connected peers; the content of messages.
- `RegionAcks`: linger times.
- Search paths and symbols of plugin libraries; more than one plugin that takes control.

## Plan

Proofs: the inductive invariants of `RegionAcks` (`OnePlace`, its implementation
of `BlockLife`) and of `Messages` (`CountsAreExact`); `OneShutdownSequence` and
`RoleHeldWhileAlive` of `Control`.  `TimesOutInTime` of `Transfer` and
`OneInputAtATime` of `Pipeline`, which need only the state of one or two threads.
