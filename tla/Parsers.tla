------------------------------ MODULE Parsers -------------------------------
(***************************************************************************)
(* From the configuration of the channels to properties: the property tree *)
(* parser of fairmq/JSONParser.cxx and the --channel-config parser of      *)
(* fairmq/SuboptParser.cxx, which builds such a tree.  A tree is a sequence*)
(* of devices [key, channels]; a channel is [name, numSockets, common,     *)
(* sockets], where common and each socket give the fields that are present.*)
(* The numeric fields are handled like these and left out.                 *)
(***************************************************************************)
EXTENDS Naturals, Sequences, SequencesExt, TLC

Fields == {"type", "method", "address", "transport", "autoBind"}

\* An address is a sequence of endpoints; "unspecified" is the empty one.
Unspecified == <<>>

\* The Default... members of Channel.
Default ==
  [type |-> "unspecified", method |-> "unspecified", address |-> Unspecified,
   transport |-> "default", autoBind |-> TRUE]

\* "chans.<name>.<i>.<field>"
ChannelKey(name, i, field) == <<name, i, field>>

\* A channel without a name makes get<string>("name") throw.
Unnamed == ""

-----------------------------------------------------------------------------

\* ChannelParser and SubChannelParser: the properties of each socket.  With
\* numSockets the entries of "sockets" are not looked at.
Sockets(cn) ==
  LET common == cn.common @@ Default
  IN  IF cn.numSockets > 0 THEN [i \in 0 .. cn.numSockets - 1 |-> common]
      ELSE IF cn.sockets = <<>> THEN [i \in {0} |-> common]
      ELSE [i \in 0 .. Len(cn.sockets) - 1 |-> cn.sockets[i + 1] @@ common]

ChannelProperties(cn) ==
  LET sockets == Sockets(cn)
      ids == {<<i, f>> : i \in DOMAIN sockets, f \in Fields}
  IN  [k \in {ChannelKey(cn.name, id[1], id[2]) : id \in ids} |->
         sockets[k[2]][k[3]]]

\* DeviceParser: the channels of every device with this key.  emplace keeps
\* what is there already, so the first of two channels with one name wins.
DeviceParser(tree, deviceId) ==
  LET chosen == SelectSeq(tree, LAMBDA device : device.key = deviceId)
      channels == FlattenSeq([d \in DOMAIN chosen |-> chosen[d].channels])
  IN  FoldLeft(LAMBDA props, cn : props @@ ChannelProperties(cn), <<>>, channels)

\* The exceptions of PtreeParser and ChannelParser.
Unparsable(tree, deviceId) ==
  \/ deviceId = ""
  \/ \E d \in DOMAIN tree :
       /\ tree[d].key = deviceId
       /\ \E c \in DOMAIN tree[d].channels : tree[d].channels[c].name = Unnamed

\* SuboptParser: each --channel-config token is a sequence of <<key, value>>.
\* Every address becomes a socket of its own; of the other options the last
\* one counts.
SuboptChannel(token) ==
  LET Given(key, default) ==
        FoldLeft(LAMBDA v, opt : IF opt[1] = key THEN opt[2] ELSE v,
                 default, token)
      named == {token[i][1] : i \in DOMAIN token} \cap (Fields \ {"address"})
      addresses == SelectSeq(token, LAMBDA opt : opt[1] = "address")
  IN  [name       |-> Given("name", Unnamed),
       numSockets |-> Given("numSockets", 0),
       common     |-> [f \in named |-> Given(f, Default[f])],
       sockets    |-> [i \in DOMAIN addresses |->
                         [f \in {"address"} |-> addresses[i][2]]]]

SuboptTree(channelConfig, deviceId) ==
  <<[key      |-> deviceId,
     channels |-> [i \in DOMAIN channelConfig |->
                     SuboptChannel(channelConfig[i])]]>>
=============================================================================
