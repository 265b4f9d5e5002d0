------------------------------ MODULE Startup -------------------------------
(***************************************************************************)
(* From the command line to a device with attached channels:               *)
(* DeviceRunner::Run (fairmq/DeviceRunner.cxx) loads the plugins           *)
(* (fairmq/PluginManager.cxx), subscribes to the configuration and runs the*)
(* state machine; the config plugin fills the configuration when the device*)
(* initialises (fairmq/plugins/config/Config.cxx); plugin threads write    *)
(* configuration properties at any time (fairmq/PluginServices.h).  Of the *)
(* life cycle only the way to DeviceReady and back is used here.           *)
(***************************************************************************)
EXTENDS Attach, States

CONSTANTS
  Scenes,       \* the command lines and configuration files considered
  MaxWrites,    \* bound on the number of writes by plugins
  Runner,       \* the subscriber name of DeviceRunner
  Listener      \* the subscriber name of a plugin

\* A scene gives: plugins, the sequence of -P names; option, the general option
\* given, if any; id; format and file, the channel configuration; writers, the
\* threads of plugins, and writes, the configuration calls they make; listens,
\* does a plugin subscribe, and refuses, may its callback throw; errors, may
\* ErrorFound be requested; and maxInits, a bound on the InitDevice transitions.
VARIABLES
  scene,
  fPluginOrder,  \* the plugins loaded, in order
  fPlugins,      \* the plugins instantiated, in order
  inits, writes  \* how often the device was initialised and plugins wrote

startupVars == <<scene, fPluginOrder, fPlugins, inits, writes>>
vars == <<configVars, attachVars, startupVars>>

\* PluginManager's constructor loads the -P plugins, then Run loads the
\* builtin ones.
Static(name) == [how |-> "s:", name |-> name]
Library(name) == [how |-> "", name |-> name]
Wanted == scene.plugins \o <<Static("config"), Static("control")>>

Init ==
  /\ scene \in Scenes
  /\ ConfigInit(scene.options)
  /\ AttachInit
  /\ pc = "load"
  /\ fPluginOrder = <<>>
  /\ fPlugins = <<>>
  /\ inits = 0
  /\ writes = 0

-----------------------------------------------------------------------------
(* DeviceRunner::Run up to the state machine *)

Builtin == {"config", "control"}

Exit == pc' = "returned"

\* s:config and s:control need no symbols of a library ...
NeedsSymbols(p) == p.how # "s:" \/ p.name \notin Builtin

\* ... and so are never in fPluginFactories.
fPluginFactories == {p.name : p \in {p \in Range(fPluginOrder) : NeedsSymbols(p)}}

\* LoadPlugin: a name whose symbols are loaded already is not loaded again, and
\* a library that cannot be loaded ends the program.
LoadPlugin ==
  /\ pc = "load" /\ itr <= Len(Wanted)
  /\ LET p == Wanted[itr]
     IN  \/ /\ p.name \notin fPluginFactories
            /\ fPluginOrder' = Append(fPluginOrder, p)
            /\ itr' = itr + 1
            /\ UNCHANGED pc
         \/ /\ p.name \in fPluginFactories
            /\ itr' = itr + 1
            /\ UNCHANGED <<pc, fPluginOrder>>
         \/ /\ p.name \notin fPluginFactories /\ NeedsSymbols(p)
            /\ Exit
            /\ UNCHANGED <<itr, fPluginOrder>>
  /\ UNCHANGED <<configVars, state, fNewStatePending, fChannels,
                 fUninitialized, numAttempts, fTransports, foreign, scene,
                 fPlugins, inits, writes>>

\* HandleGeneralOptions and SubscribeForConfigChange.
HandleGeneralOptions ==
  /\ pc = "load" /\ itr > Len(Wanted)
  /\ itr' = 1
  /\ IF scene.option \in {"help", "print-options"}
     THEN Exit /\ UNCHANGED configVars
     ELSE Goto("device") /\ Subscribe(Runner)
  /\ UNCHANGED <<state, fNewStatePending, fChannels, fUninitialized,
                 numAttempts, fTransports, foreign, startupVars>>

\* The hook that creates the device, then the options that only ask for
\* information about it: End is accepted, but nobody runs the state machine.
InstantiateDevice ==
  /\ pc = "device"
  /\ IF scene.option \in {"no-device", "print-channels", "version"} THEN Exit
     ELSE Goto("plugins")
  /\ fNewStatePending' = (scene.option \in {"print-channels", "version"})
  /\ UNCHANGED <<configVars, state, fChannels, fUninitialized, itr,
                 numAttempts, fTransports, foreign, startupVars>>

\* InstantiatePlugins: one instance per name; a constructor may throw.
InstantiatePlugin ==
  /\ pc = "plugins" /\ itr <= Len(fPluginOrder)
  /\ LET name == fPluginOrder[itr].name
     IN  \/ /\ fPlugins' = IF name \in Range(fPlugins) THEN fPlugins
                           ELSE Append(fPlugins, name)
            /\ itr' = itr + 1
            /\ UNCHANGED pc
         \/ /\ name \notin Builtin \cup Range(fPlugins)
            /\ Exit
            /\ UNCHANGED <<itr, fPlugins>>
  /\ UNCHANGED <<configVars, state, fNewStatePending, fChannels,
                 fUninitialized, numAttempts, fTransports, foreign, scene,
                 fPluginOrder, inits, writes>>

RunStateMachine ==
  /\ pc = "plugins" /\ itr > Len(fPluginOrder)
  /\ Goto("await")
  /\ UNCHANGED <<configVars, state, fNewStatePending, fChannels,
                 fUninitialized, itr, numAttempts, fTransports, foreign,
                 startupVars>>

\* The state machine has ended in Exiting.
UnsubscribeFromConfigChange ==
  /\ pc = "exit"
  /\ Unsubscribe(Runner)
  /\ Exit
  /\ UNCHANGED <<state, fNewStatePending, fChannels, fUninitialized, itr,
                 numAttempts, fTransports, foreign, startupVars>>

\* An exception of a handler, or ErrorFound: Error is left through the
\* exception handlers of DeviceRunner.
Fail ==
  /\ \/ pc = "failed"
     \/ pc = "await" /\ fNewStatePending
  /\ state' = "Error"
  /\ Exit
  /\ UNCHANGED <<configVars, fNewStatePending, fChannels, fUninitialized, itr,
                 numAttempts, fTransports, foreign, startupVars>>

-----------------------------------------------------------------------------
(* The life cycle *)

\* Where the worker goes when it enters a state.
Entry == [InitializingDevice |-> "configure", Initialized |-> "init",
          Binding |-> "attach", Connecting |-> "attach",
          ResettingDevice |-> "reset", Exiting |-> "exit"]

\* The controller requests a transition that the table allows.  CompleteInit
\* wakes the handler of InitializingDevice, which is InitWrapper.
Request(t) ==
  \E row \in TransitionTable :
    /\ row[1] = state /\ row[2] = t /\ row[3] \in DOMAIN Entry
    /\ pc = IF t = "CompleteInit" THEN "initWait" ELSE "await"
    /\ ~fNewStatePending /\ Idle(Worker)
    /\ t = "InitDevice" => inits < scene.maxInits
    /\ inits' = IF t = "InitDevice" THEN inits + 1 ELSE inits
    /\ state' = IF t = "CompleteInit" THEN state ELSE row[3]
    /\ Goto(Entry[row[3]])
    /\ itr' = 1
    /\ numAttempts' = IF t = "Connect" THEN 1 ELSE numAttempts
    /\ UNCHANGED <<configVars, fNewStatePending, fChannels, fUninitialized,
                   fTransports, foreign, scene, fPluginOrder, fPlugins, writes>>

\* ErrorFound is accepted in every state.
ErrorFound ==
  /\ scene.errors
  /\ pc \in {"configure", "initWait", "init", "attach", "refresh", "await"}
  /\ ~fNewStatePending
  /\ fNewStatePending' = TRUE
  /\ UNCHANGED <<configVars, state, pc, fChannels, fUninitialized, itr,
                 numAttempts, fTransports, foreign, startupVars>>

\* WaitForPendingState at the beginning of InitWrapper ends for Error, too.
WaitForPendingState ==
  /\ pc = "initWait" /\ Idle(Worker)
  /\ fNewStatePending
  /\ Goto("init")
  /\ UNCHANGED <<configVars, state, fNewStatePending, fChannels,
                 fUninitialized, itr, numAttempts, fTransports, foreign,
                 startupVars>>

\* The tree that the config plugin parses.
Tree == IF scene.format = "subopt" THEN SuboptTree(scene.file, scene.id)
        ELSE scene.file

Parses == /\ scene.format # "none"
          /\ ~Unparsable(Tree, scene.id)

\* The config plugin is told of InitializingDevice before the handler runs and
\* sets all the properties, those a previous run has changed included.  Its
\* own exceptions are caught.
Configure ==
  /\ pc = "configure"
  /\ Goto("initWait")
  /\ \E parsed \in {DeviceParser(Tree, scene.id)} :
       IF Parses /\ DOMAIN parsed # {}
       THEN /\ SetProperties(Worker, InSomeOrder({Prop(k, parsed[k]) :
                                                   k \in DOMAIN parsed}))
            /\ foreign' = foreign \ DOMAIN parsed
       ELSE UNCHANGED <<configVars, foreign>>
  /\ UNCHANGED <<state, fNewStatePending, fChannels, fUninitialized, itr,
                 numAttempts, fTransports, startupVars>>

-----------------------------------------------------------------------------
(* Plugins at work *)

PluginsRun == fPlugins # <<>> /\ pc \notin {"returned", "undefined"}

\* One of the writing calls of PluginServices, or AddChannel of the device.
Write(t) ==
  /\ PluginsRun /\ writes < MaxWrites
  /\ writes' = writes + 1
  /\ \E w \in scene.writes :
       /\ CASE w.op = "set"     -> SetProperty(t, w.props[1].key, w.props[1].val)
            [] w.op = "update"  -> UpdateProperty(t, w.props[1].key, w.props[1].val)
            [] w.op = "setAll"  -> SetProperties(t, w.props)
            [] w.op = "updateAll" -> UpdateProperties(t, w.props)
            [] w.op = "delete"  -> DeleteProperty(t, w.props[1].key)
            [] w.op = "addChannel" -> AddChannel(t, w.name, w.channel)
       /\ Foreign(Keys(w.props) \cup (DOMAIN fVarMap' \ DOMAIN fVarMap))
  /\ UNCHANGED <<state, pc, fNewStatePending, fChannels, fUninitialized, itr,
                 numAttempts, fTransports, scene, fPluginOrder, fPlugins, inits>>

\* The plugin handles the exception of its call.
Caught(t) ==
  /\ PluginsRun /\ call[t].at = "thrown"
  /\ call' = [call EXCEPT ![t] = NoCall]
  /\ UNCHANGED <<fVarMap, connected, told, owed, crossed, attachVars, startupVars>>

\* The config plugin logs an exception of its SetProperties.
ConfigureThrows ==
  /\ pc = "initWait" /\ call[Worker].at = "thrown"
  /\ call' = [call EXCEPT ![Worker] = NoCall]
  /\ UNCHANGED <<fVarMap, connected, told, owed, crossed, attachVars, startupVars>>

Listen ==
  /\ PluginsRun /\ scene.listens
  /\ Subscribe(Listener) \/ Unsubscribe(Listener)
  /\ UNCHANGED <<attachVars, startupVars>>

-----------------------------------------------------------------------------

\* The callback of the runner opens the log file with the severity that the
\* configuration gives, and throws when it gives none (DeviceRunner.cxx).
RunnerThrows(k) == k = <<"log-to-file">> /\ <<"file-severity">> \notin DOMAIN fVarMap

Tell(t) ==
  /\ pc \notin {"returned", "undefined"}
  /\ call[t].left # <<>>
  /\ \E refusing \in {{}, IF scene.refuses THEN {Listener} ELSE {}} :
       Emitting(t, refusing \cup IF RunnerThrows(Head(call[t].left).key)
                                 THEN {Runner} ELSE {})
  /\ UNCHANGED <<attachVars, startupVars>>

WorkerStep ==
  \/ LoadPlugin \/ HandleGeneralOptions \/ InstantiateDevice
  \/ InstantiatePlugin \/ RunStateMachine \/ Configure \/ ConfigureThrows
  \/ WaitForPendingState
  \/ InitWrapper /\ UNCHANGED startupVars
  \/ Attaching /\ UNCHANGED startupVars
  \/ ResetWrapper /\ UNCHANGED startupVars
  \/ UnsubscribeFromConfigChange \/ Fail

Next ==
  \/ WorkerStep
  \/ \E t \in Threads : Tell(t)
  \/ \E t \in Transition : Request(t)
  \/ ErrorFound
  \/ \E t \in scene.writers : Write(t) \/ Caught(t)
  \/ Listen

Spec == Init /\ [][Next]_vars

\* The worker is never stopped for good, and neither are its callbacks.
Fairness == WF_vars(WorkerStep) /\ WF_vars(Tell(Worker))

FairSpec == Spec /\ Fairness

-----------------------------------------------------------------------------
(* Properties *)

\* The channel is attached: it is on none of the lists.
Attached(id) ==
  \A l \in DOMAIN fUninitialized :
    \A i \in DOMAIN fUninitialized[l] : fUninitialized[l][i].chan # id

\* AttachChannel puts the actual address back in the config: once a channel is
\* attached, its address property names the endpoints of its socket, unless
\* somebody else has written the property after the device used it.
AddressPublished ==
  Idle(Worker) /\ pc \in {"attach", "refresh", "await"} =>
    \A id \in DOMAIN fChannels :
      Attached(id) /\ AddressKey(id) \in DOMAIN fVarMap \ foreign =>
        fVarMap[AddressKey(id)] = fChannels[id].socket

\* The sockets that the configuration declares, counted without the parser.
Declared ==
  IF ~Parses THEN {}
  ELSE LET channels == UNION {Range(Tree[d].channels) :
                                d \in {d \in DOMAIN Tree : Tree[d].key = scene.id}}
           Count(cn) == IF cn.numSockets > 0 THEN cn.numSockets
                        ELSE IF cn.sockets = <<>> THEN 1 ELSE Len(cn.sockets)
       IN  UNION {{cn.name} \X (0 .. Count(cn) - 1) : cn \in channels}

\* A device that has arrived in DeviceReady (ConnectWrapper) has a channel for
\* every socket declared in its configuration, each is attached to as many
\* endpoints as its address has, and the configuration tells which.
ReadyIsAttached ==
  /\ AddressPublished
  /\ pc = "await" /\ state = "DeviceReady" /\ ~fNewStatePending =>
       \A id \in Declared :
         /\ id \in DOMAIN fChannels /\ Attached(id)
         /\ fChannels[id].address # Unspecified
         /\ fChannels[id].socket = fChannels[id].address

\* The pointers of fUninitializedBindingChannels and ...ConnectingChannels that
\* AttachChannels may use: ResetWrapper leaves dangling ones on the lists.
ListsAreLive ==
  \A l \in DOMAIN fUninitialized :
    \A i \in DOMAIN fUninitialized[l] : fUninitialized[l][i].live

\* BindWrapper and ConnectWrapper end: a device that is attaching channels all
\* of which exist comes to the next state or to Error, whatever the
\* configuration, its subscribers and the network do.
AttachingEnds ==
  (pc \in {"attach", "refresh"} /\ ListsAreLive) ~> (pc \in {"await", "failed"})
=============================================================================
