----------------------------- MODULE MCStartup ------------------------------
(***************************************************************************)
(* Command lines, configuration files and plugins for Startup.             *)
(***************************************************************************)
EXTENDS Startup

Endpoint(mod, proto, host, port) ==
  [mod |-> mod, proto |-> proto, host |-> host, port |-> port]

AnyFive == <<Endpoint("", "tcp", "*", 5)>>
NameSix == <<Endpoint("", "tcp", "name", 6)>>
PortMissing == <<Endpoint("", "tcp", "name", 0)>>
Pipe == <<Endpoint("", "ipc", "", 0)>>
NotAnAddress == <<Endpoint("", "none", "", 0)>>
Mixed == <<Endpoint("@", "tcp", "*", 5), Endpoint(">", "tcp", "name", 6)>>
HalfBad == <<Endpoint("", "tcp", "ip", 6), Endpoint("", "none", "", 0)>>

Options ==
  (<<"severity">> :> "info") @@ (<<"color">> :> "on")
  @@ (<<"transport">> :> "zeromq")

Scene ==
  [plugins |-> <<>>, option |-> "none", options |-> Options, id |-> "dev",
   format |-> "json", file |-> <<>>, writers |-> {"p"}, writes |-> {},
   listens |-> FALSE, refuses |-> FALSE, errors |-> FALSE, maxInits |-> 1]

\* A file with one device of this id and one of another.
File(channels) ==
  <<[key |-> "other", channels |-> <<>>], [key |-> "dev", channels |-> channels]>>

ChannelOf(name, num, common, sockets) ==
  [name |-> name, numSockets |-> num, common |-> common, sockets |-> sockets]

Call(op, k, v) == [op |-> op, props |-> <<Prop(k, v)>>]

Bind == [type |-> "push", method |-> "bind"]
Connect == [type |-> "pull", method |-> "connect"]
At(common, address) == common @@ [address |-> address]

InAddress == ChannelKey("in", 0, "address")

\* Two sockets on random ports, and one whose address arrives later.
Dynamic ==
  [Scene EXCEPT
    !.maxInits = 2,
    !.file = File(<<ChannelOf("out", 2, Bind, <<>>),
                    ChannelOf("in", 0, Connect, <<>>)>>),
    !.writes = {Call("set", InAddress, NameSix)}]

\* A port that must be the configured one; a second socket of its own;
\* somebody deletes the address.
Fixed ==
  [Scene EXCEPT
    !.file = File(<<ChannelOf("out", 0, Bind @@ [autoBind |-> FALSE],
                              <<[address |-> AnyFive], [address |-> Pipe]>>),
                    ChannelOf("in", 0, At(Connect, NameSix), <<>>)>>),
    !.writes = {Call("delete", InAddress, NameSix),
                Call("update", InAddress, Pipe)},
    !.errors = TRUE]

\* No method, but modifiers; an endpoint that Validate does not look at.
Modified ==
  [Scene EXCEPT
    !.file = File(<<ChannelOf("both", 0, [type |-> "pair", address |-> Mixed], <<>>),
                    ChannelOf("in", 1, At(Connect, HalfBad), <<>>)>>),
    !.writes = {Call("updateAll", InAddress, NameSix)}]

\* --channel-config
Subopt ==
  [Scene EXCEPT
    !.format = "subopt", !.listens = TRUE, !.errors = TRUE,
    !.file = <<<<<<"name", "in">>, <<"type", "sub">>, <<"method", "connect">>,
                 <<"address", PortMissing>>, <<"address", Pipe>>>>>>,
    !.writes = {Call("setAll", InAddress, NameSix)}]

\* A plugin whose callback throws, also when the device itself writes.
Refusing ==
  [Scene EXCEPT
    !.listens = TRUE, !.refuses = TRUE,
    !.file = File(<<ChannelOf("in", 0, At(Connect, NameSix), <<>>)>>)]

\* Configurations that cannot work.
Broken ==
  {[Scene EXCEPT !.file = File(<<ChannelOf("in", 0, cn, <<>>)>>)] :
     cn \in {At(Connect, NotAnAddress), At(Bind, NotAnAddress),
             [method |-> "connect", address |-> NameSix],
             [type |-> "pull", address |-> NameSix],
             [type |-> "pull", method |-> "bind", transport |-> "pigeon"]}}
  \cup {[Scene EXCEPT !.format = "subopt", !.file = <<<<<<"type", "sub">>>>>>],
        [Scene EXCEPT !.id = ""], [Scene EXCEPT !.format = "none"]}

\* The general options and the plugins.
CommandLines ==
  {[Scene EXCEPT !.option = o] :
     o \in {"help", "print-channels", "version", "no-device"}}
  \cup {[Scene EXCEPT !.plugins = <<Library("odc"), Library("odc"), Static("config"),
                                    Library("config")>>]}

\* Plugins that write general properties at the same time.
Writers ==
  [Scene EXCEPT
    !.format = "none", !.writers = {"p", "q"}, !.listens = TRUE,
    !.writes = {Call("set", <<"severity">>, v) : v \in {"debug", "warn"}}
               \cup {Call("delete", <<"severity">>, "info"),
                     [op |-> "updateAll",
                      props |-> <<Prop(<<"color">>, "off"),
                                  Prop(<<"severity">>, "error")>>]}]

\* Calls that throw when they have told a part of what they stored.
Throwing ==
  [Scene EXCEPT
    !.format = "none", !.listens = TRUE, !.refuses = TRUE,
    !.writers = {"p", "q"},
    !.options = Options @@ (<<"file-severity">> :> "info"),
    !.writes = {Call("delete", <<"file-severity">>, "info"),
                [op |-> "setAll",
                 props |-> <<Prop(<<"color">>, "off"),
                             Prop(<<"log-to-file">>, "log"),
                             Prop(<<"severity">>, "error")>>],
                [op |-> "updateAll",
                 props |-> <<UnknownTypeProp(<<"color">>, "blue"),
                             Prop(<<"severity">>, "warn")>>]}]

\* Channels are added by the program instead of a configuration file.
Added ==
  [Scene EXCEPT
    !.format = "none", !.maxInits = 2,
    !.writes = {[op |-> "addChannel", props |-> <<>>, name |-> "in",
                 channel |-> c @@ Default] : c \in {At(Connect, NameSix), Bind}}]

StartupScenes ==
  {Dynamic, Fixed, Modified, Subopt, Refusing, Writers,
   Throwing, Added} \cup Broken \cup CommandLines

RootScenes == {Dynamic}
=============================================================================
