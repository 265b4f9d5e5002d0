------------------------------- MODULE Attach -------------------------------
(***************************************************************************)
(* How a device gets its channels: Device::InitWrapper creates them from   *)
(* the configuration, BindWrapper and ConnectWrapper attach them and put   *)
(* the addresses back into the configuration, ResetWrapper drops them      *)
(* (fairmq/Device.cxx, fairmq/Channel.{h,cxx}, fairmq/zeromq/Common.h).    *)
(***************************************************************************)
EXTENDS Config, Parsers, FiniteSets

CONSTANTS
  MaxAttempts,  \* init-timeout in sleeps of 50 ms
  PortRange,    \* fPortRangeMin .. fPortRangeMax
  Privileged,   \* may the process bind the TCP port 1?
  Worker        \* the thread that runs the state machine

ASSUME AttachAssumption ==
  /\ MaxAttempts \in Nat
  /\ Worker \in Threads
  /\ Privileged \in BOOLEAN

VARIABLES
  state,            \* the state of the device
  pc,               \* where the worker thread is
  fNewStatePending, \* was ErrorFound accepted, or End by the runner?
  fChannels,        \* a function from <<name, index>> to channels
  fUninitialized,   \* fUninitializedBindingChannels, ...ConnectingChannels
  itr,              \* position of AttachChannels and of the refresh loop
  numAttempts,      \* counter of ConnectWrapper
  fTransports,      \* the transports created
  foreign           \* history: keys others wrote since the device used them

attachVars == <<state, pc, fNewStatePending, fChannels, fUninitialized, itr,
                numAttempts, fTransports, foreign>>

AttachInit ==
  /\ state = "Idle"
  /\ fNewStatePending = FALSE
  /\ fChannels = <<>>
  /\ fUninitialized = [bind |-> <<>>, connect |-> <<>>]
  /\ itr = 1
  /\ numAttempts = 0
  /\ fTransports = {}
  /\ foreign = {}

Goto(l) == pc' = l

AddressKey(id) == ChannelKey(id[1], id[2], "address")

\* What another thread writes is news to the device.
Foreign(keys) == foreign' = foreign \cup keys

-----------------------------------------------------------------------------
(* Endpoints: [mod, proto, host, port], port 0 meaning that there is none.  *)

Failed == [mod |-> "", proto |-> "failed", host |-> "", port |-> 0]

\* A modifier overrides the method of the channel.
Binds(ch, e) == IF e.mod = "" THEN ch.method = "bind" ELSE e.mod = "@"

\* The ports that the sockets of the other channels have bound.
OtherPorts(id) ==
  {e.port : e \in UNION {{e \in Range(fChannels[c].socket) :
                           Binds(fChannels[c], e) /\ e.proto = "tcp"} :
                         c \in DOMAIN fChannels \ {id}}}

\* tools::getIpFromHostname: a name may be unknown for a while.
Resolutions(ch, e) ==
  CASE e.proto # "tcp" \/ (Binds(ch, e) /\ e.host = "*") -> {e}
    [] e.host = "ip" -> {e}
    [] e.host = "name" -> {[e EXCEPT !.host = "ip"], Failed}
    [] OTHER -> {Failed}

\* zmq_bind: others may use any port, this process has its own, and port 1 is
\* for the privileged.
MayBind(id, e) ==
  /\ e.proto # "none"
  /\ e.proto = "tcp" =>
       /\ e.port # 0
       /\ e.port \notin OtherPorts(id)
       /\ e.port = 1 => Privileged

\* Channel::BindEndpoint: the configured port, then random ones, of which a
\* thousand may be taken.
BindEndpoint(id, e) ==
  LET random == IF e.proto = "tcp" /\ fChannels[id].autoBind
                THEN {[e EXCEPT !.port = p] : p \in PortRange}
                ELSE {}
  IN  {Failed} \cup {x \in {e} \cup random : MayBind(id, x)}

\* Channel::ConnectEndpoint: zmq_connect refuses what is not an address.
ConnectEndpoint(e) ==
  {IF e.proto = "none" \/ (e.proto = "tcp" /\ e.port = 0) THEN Failed ELSE e}

\* One round of the loop of AttachChannel: what the endpoint may turn into.
AttachEndpoint(id, e) ==
  LET bind == Binds(fChannels[id], e)
      Attached(r) ==
        IF r = Failed THEN {Failed}
        ELSE IF bind THEN BindEndpoint(id, r) ELSE ConnectEndpoint(r)
      Kept(x) ==
        IF x = Failed \/ e.mod = "" THEN x
        ELSE [x EXCEPT !.mod = IF bind THEN "@" ELSE "+"]
  IN  {Kept(x) : x \in UNION {Attached(r) : r \in Resolutions(fChannels[id], e)}}

\* All of them.  The ports of one socket are distinct.
AttachOutcomes(id) ==
  LET ch == fChannels[id]
      n == DOMAIN ch.address
      possible == [i \in n |-> AttachEndpoint(id, ch.address[i])]
      Bound(o) == {i \in n : o[i] # Failed /\ Binds(ch, ch.address[i])
                              /\ o[i].proto = "tcp"}
  IN  {o \in [n -> UNION Range(possible)] :
         /\ \A i \in n : o[i] \in possible[i]
         /\ \A i, j \in Bound(o) : i # j => o[i].port # o[j].port}

\* The loop ends with the first endpoint that fails.
UpToFailure(o) ==
  LET failing == {i \in DOMAIN o : o[i] = Failed}
  IN  IF failing = {} THEN o
      ELSE SubSeq(o, 1, (CHOOSE i \in failing : \A j \in failing : i <= j) - 1)

\* Channel::Validate.  The address is split at ";" here and at "," in
\* AttachChannel: of several endpoints only the first is looked at, and any
\* later colon passes for the port delimiter.  A negative size throws like an
\* unknown type.
Validate(ch) ==
  IF ch.fValid THEN "valid"
  ELSE IF ch.type = "unspecified" THEN "throws"
  ELSE IF ch.address = Unspecified THEN "invalid"
  ELSE LET e == Head(ch.address)
       IN  IF e.mod = "" /\ ch.method \notin {"bind", "connect"} THEN "throws"
           ELSE IF e.proto = "none" THEN "invalid"
           ELSE IF /\ e.proto = "tcp" /\ e.port = 0
                   /\ \A f \in Range(Tail(ch.address)) : f.proto = "none"
                THEN "invalid"
                ELSE "valid"

UpdateAddress(ch, address) == [ch EXCEPT !.address = address, !.fValid = FALSE]

-----------------------------------------------------------------------------
(* InitWrapper *)

\* ProgOptions::GetChannelInfo: the sub-channels are counted by their types.
ChannelIds ==
  LET types == {k \in DOMAIN fVarMap : Len(k) = 3 /\ k[3] = "type"}
      names == {k[1] : k \in types}
  IN  UNION {{n} \X (0 .. Cardinality({k \in types : k[1] = n}) - 1) : n \in names}

\* ProgOptions::AddChannel, behind the sub-channels there are.  Nobody is told.
AddChannel(t, name, channel) ==
  LET index == Cardinality({id \in ChannelIds : id[1] = name})
      keys == {ChannelKey(name, index, f) : f \in Fields}
  IN  /\ Idle(t)
      /\ fVarMap' = [k \in keys |-> channel[k[3]]] @@ fVarMap
      /\ owed' = [s \in Subscribers |-> Others(owed[s], keys)]
      /\ UNCHANGED <<call, connected, told, crossed>>

\* The constructor of Channel from properties.
Channel(id) ==
  LET Get(f) == LET k == ChannelKey(id[1], id[2], f)
                IN  IF k \in DOMAIN fVarMap THEN fVarMap[k] ELSE Default[f]
  IN  [f \in Fields |-> Get(f)] @@ [fValid |-> FALSE, socket |-> <<>>]

HasModifier(address) == \E e \in Range(address) : e.mod # ""

\* A bind address that is not given: the address of the network interface, or
\* the wildcard when the default route is unknown, and port 1, which asks for
\* a random one.
Guessed(ch, host) ==
  IF ch.method = "bind" /\ ch.address = Unspecified
  THEN [ch EXCEPT !.address =
          <<[mod |-> "", proto |-> "tcp", host |-> host, port |-> 1]>>]
  ELSE ch

Listed(ids) == InSomeOrder({[chan |-> id, live |-> TRUE] : id \in ids})

\* A handler requests Auto unless a state is pending; then the worker waits.
Arrive(next) ==
  /\ state' = IF fNewStatePending THEN state ELSE next
  /\ Goto("await")

\* AddTransport: one factory per kind of transport.
Transports == {"zeromq", "shmem"}

TransportOf(id) ==
  IF Channel(id).transport = "default" THEN fVarMap[<<"transport">>]
  ELSE Channel(id).transport

\* Each read of the configuration takes fMtx by itself; they concern
\* different keys and are one step here.  A channel without a method, or an
\* unknown transport, throws.
InitWrapper ==
  /\ pc = "init"
  /\ LET ids == ChannelIds
         Of(m) == {id \in ids : Channel(id).method = m}
         modified == {id \in ids \ (Of("bind") \cup Of("connect")) :
                        HasModifier(Channel(id).address)}
         configured == Of("bind") \cup Of("connect") \cup modified
         used == {fVarMap[<<"transport">>]} \cup {TransportOf(id) : id \in ids}
     IN  /\ \E host \in {"ip", "*"} :
              fChannels' = [id \in ids |-> Guessed(Channel(id), host)]
         /\ fTransports' = used \cap Transports
         /\ foreign' = foreign \ {AddressKey(id) : id \in ids}
         /\ \/ /\ ids # configured \/ ~(used \subseteq Transports)
               /\ Goto("failed")
               /\ UNCHANGED <<state, fUninitialized>>
            \/ /\ ids = configured /\ used \subseteq Transports
               /\ fUninitialized' =
                    [bind    |-> fUninitialized.bind \o Listed(Of("bind")),
                     connect |-> fUninitialized.connect
                                   \o Listed(Of("connect") \cup modified)]
               /\ Arrive("Initialized")
  /\ UNCHANGED <<configVars, fNewStatePending, itr, numAttempts>>

-----------------------------------------------------------------------------
(* BindWrapper and ConnectWrapper *)

\* The list that the present state works on.
Stage == IF state = "Binding" THEN "bind" ELSE "connect"

Unattached == fUninitialized[Stage]

StartAttaching ==
  /\ Goto("attach")
  /\ itr' = 1

\* AttachChannels passes over a channel that is not valid or did not attach.
Skip ==
  /\ itr' = itr + 1
  /\ UNCHANGED <<configVars, pc, fUninitialized, foreign>>

\* Mutant: the channel is taken off the list before it is attached.
AttachedOrNot(id, o) ==
  /\ fUninitialized' = [fUninitialized EXCEPT ![Stage] = RemoveAt(@, itr)]
  /\ fChannels' = [fChannels EXCEPT ![id].socket = UpToFailure(o)]
  /\ UNCHANGED <<configVars, pc, itr, foreign>>

\* Channel::Init, before every attempt: a socket without endpoints.
Initialized(ch) == [ch EXCEPT !.fValid = TRUE, !.socket = <<>>]

\* AttachChannel with the outcome o.  An address that changed goes to the
\* channel and to the configuration.
AttachChannel(id, o) ==
  LET ch == [Initialized(fChannels[id]) EXCEPT !.socket = @ \o UpToFailure(o)]
  IN  \/ /\ Failed \in Range(o)
         /\ fChannels' = [fChannels EXCEPT ![id] = ch]
         /\ Skip
      \/ /\ Failed \notin Range(o)
         /\ fUninitialized' = [fUninitialized EXCEPT ![Stage] = RemoveAt(@, itr)]
         /\ IF o = ch.address
            THEN /\ fChannels' = [fChannels EXCEPT ![id] = ch]
                 /\ UNCHANGED <<configVars, foreign>>
            ELSE /\ fChannels' = [fChannels EXCEPT ![id] = UpdateAddress(ch, o)]
                 /\ SetProperty(Worker, AddressKey(id), o)
                 /\ foreign' = foreign \ {AddressKey(id)}
         /\ UNCHANGED <<pc, itr>>

\* One round of the loop of AttachChannels.  A pointer to a channel that
\* ResetWrapper has destroyed makes everything after it undefined.
AttachNext ==
  /\ pc = "attach" /\ Idle(Worker)
  /\ itr <= Len(Unattached)
  /\ LET id == Unattached[itr].chan
         live == Unattached[itr].live
         ch == fChannels[id]
     IN  \/ /\ ~live
            /\ Goto("undefined")
            /\ UNCHANGED <<configVars, fChannels, fUninitialized, itr, foreign>>
         \/ /\ live /\ Validate(ch) = "throws"
            /\ Goto("failed")
            /\ UNCHANGED <<configVars, fChannels, fUninitialized, itr, foreign>>
         \/ /\ live /\ Validate(ch) = "invalid"
            /\ Skip
            /\ UNCHANGED fChannels
         \/ /\ live /\ Validate(ch) = "valid"
            /\ \E o \in AttachOutcomes(id) : AttachChannel(id, o)
  /\ UNCHANGED <<state, fNewStatePending, numAttempts, fTransports>>

\* AttachChannels is over.  Binding has one run and then the user's Bind();
\* Connecting ends when nothing is left or a state is pending.
AttachingOver ==
  /\ pc = "attach" /\ Idle(Worker)
  /\ itr > Len(Unattached)
  /\ \/ /\ state = "Binding" /\ Unattached # <<>>
        /\ Goto("failed")
        /\ UNCHANGED state
     \/ /\ state = "Binding" /\ Unattached = <<>>
        /\ Arrive("Bound")
     \/ /\ state = "Connecting" /\ (Unattached = <<>> \/ fNewStatePending)
        /\ Arrive("DeviceReady")
     \/ /\ state = "Connecting" /\ Unattached # <<>> /\ ~fNewStatePending
        /\ Goto("refresh")
        /\ UNCHANGED state
  /\ itr' = 1
  /\ UNCHANGED <<configVars, fNewStatePending, fChannels, fUninitialized,
                 numAttempts, fTransports, foreign>>

\* After the sleep ConnectWrapper reads the addresses again.  A property that
\* was deleted makes GetProperty throw.
Refresh ==
  /\ pc = "refresh"
  /\ itr <= Len(Unattached)
  /\ LET id == Unattached[itr].chan
         k == AddressKey(id)
     IN  IF k \notin DOMAIN fVarMap
         THEN /\ Goto("failed")
              /\ UNCHANGED <<fChannels, itr, foreign>>
         ELSE /\ fChannels' = IF fVarMap[k] = fChannels[id].address
                              THEN fChannels
                              ELSE [fChannels EXCEPT ![id] =
                                      UpdateAddress(@, fVarMap[k])]
              /\ itr' = itr + 1
              /\ foreign' = foreign \ {k}
              /\ UNCHANGED pc
  /\ UNCHANGED <<configVars, state, fNewStatePending, fUninitialized,
                 numAttempts, fTransports>>

\* Mutant: the attempts are not counted.
RetryForever ==
  /\ pc = "refresh"
  /\ itr > Len(Unattached)
  /\ StartAttaching
  /\ UNCHANGED <<configVars, state, fNewStatePending, fChannels,
                 fUninitialized, numAttempts, fTransports, foreign>>

\* numAttempts++ > maxAttempts
Retry ==
  /\ pc = "refresh"
  /\ itr > Len(Unattached)
  /\ IF numAttempts > MaxAttempts
     THEN Goto("failed") /\ UNCHANGED itr
     ELSE StartAttaching
  /\ numAttempts' = numAttempts + 1
  /\ UNCHANGED <<configVars, state, fNewStatePending, fChannels,
                 fUninitialized, fTransports, foreign>>

\* SetProperty threw: the address was deleted before the string event, or a
\* callback threw.
AttachThrows ==
  /\ pc = "attach"
  /\ call[Worker].at = "thrown"
  /\ Goto("failed")
  /\ call' = [call EXCEPT ![Worker] = NoCall]
  /\ UNCHANGED <<fVarMap, connected, told, owed, crossed, state,
                 fNewStatePending, fChannels, fUninitialized, itr, numAttempts,
                 fTransports, foreign>>

Attaching ==
  AttachNext \/ AttachingOver \/ Refresh \/ Retry \/ AttachThrows

-----------------------------------------------------------------------------
(* ResetWrapper *)

\* The channels are destroyed; the lists keep what was never attached.
ResetWrapper ==
  /\ pc = "reset"
  /\ fTransports' = {}
  /\ fChannels' = <<>>
  /\ fUninitialized' =
       [l \in DOMAIN fUninitialized |->
          [i \in DOMAIN fUninitialized[l] |->
             [fUninitialized[l][i] EXCEPT !.live = FALSE]]]
  /\ Arrive("Idle")
  /\ UNCHANGED <<configVars, fNewStatePending, itr, numAttempts, foreign>>
=============================================================================
