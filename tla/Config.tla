------------------------------- MODULE Config -------------------------------
(***************************************************************************)
(* The property store of a device, fairmq/ProgOptions.{h,cxx}, and the     *)
(* notification of its subscribers, fairmq/EventManager.h.  Every access to*)
(* fVarMap is made under fMtx, but the events are emitted after it has been*)
(* released: between the store and the events other threads run.           *)
(***************************************************************************)
EXTENDS Naturals, Sequences, SequencesExt, TLC

CONSTANTS
  Threads,      \* the threads that call the configuration API
  Subscribers,  \* the subscriber names used with Subscribe
  AsString      \* those of them that called SubscribeAsString

VARIABLES
  fVarMap,    \* the container: a function from the present keys to values
  call,       \* per thread: the Set/Update call in progress
  connected,  \* the subscribers in fConnections
  told,       \* history: per subscriber and key, the values it was called with
              \* since the key was stored (or the first of the calls that overlap)
  owed,       \* history: the <<key, thread>> a subscriber is to be told, as the
              \* thread stored the present value since the subscriber connected
  crossed     \* history: the keys stored when another call was still to tell them

configVars == <<fVarMap, call, connected, told, owed, crossed>>

\* left: the properties still to be emitted; reread: is the value for the
\* string event read from the container again?
NoCall == [at |-> "idle", left |-> <<>>, reread |-> FALSE]

Idle(t) == call[t].at = "idle"

\* The container after parsing the command line.
ConfigInit(properties) ==
  /\ fVarMap = properties
  /\ call = [t \in Threads |-> NoCall]
  /\ connected = {}
  /\ told = [s \in Subscribers |-> <<>>]
  /\ owed = [s \in Subscribers |-> {}]
  /\ crossed = {}

-----------------------------------------------------------------------------
(* Writing *)

Prop(k, v) == [key |-> k, val |-> v, typed |-> TRUE]

\* A value of a type that PropertyHelper does not know.
UnknownTypeProp(k, v) == [Prop(k, v) EXCEPT !.typed = FALSE]

Keys(props) == {props[i].key : i \in DOMAIN props}

\* The order in which a container is gone through does not matter here.
InSomeOrder(S) == FoldSet(LAMBDA x, seq : Append(seq, x), <<>>, S)

\* SetVarMapValue of each property in turn.
Written(props) ==
  FoldLeft(LAMBDA map, p : (p.key :> p.val) @@ map, fVarMap, props)

Others(debts, keys) == {d \in debts : d[1] \notin keys}

\* The part under fMtx that the four operations share.
Store(t, props, reread) ==
  /\ Idle(t)
  /\ fVarMap' = Written(props)
  /\ call' = [call EXCEPT ![t] = [at |-> "typed", left |-> props,
                                  reread |-> reread]]
  /\ owed' = [s \in Subscribers |->
                Others(owed[s], Keys(props))
                  \cup IF s \in connected THEN Keys(props) \X {t} ELSE {}]
  /\ crossed' = (crossed \ Keys(props))
                  \cup (Keys(props) \cap UNION {Keys(call[u].left) : u \in Threads})
  /\ told' = [s \in Subscribers |->
                [k \in DOMAIN told[s] \ (Keys(props) \ crossed') |-> told[s][k]]]
  /\ UNCHANGED connected

SetProperty(t, k, v) == Store(t, <<Prop(k, v)>>, TRUE)

SetProperties(t, props) == props # <<>> /\ Store(t, props, FALSE)

\* The two updates refuse keys the container does not have.
UpdateProperty(t, k, v) ==
  /\ k \in DOMAIN fVarMap
  /\ SetProperty(t, k, v)

UpdateProperties(t, props) ==
  /\ Keys(props) \subseteq DOMAIN fVarMap
  /\ SetProperties(t, props)

\* Erased without an event.
DeleteProperty(t, k) ==
  /\ Idle(t)
  /\ k \in DOMAIN fVarMap
  /\ fVarMap' = [j \in DOMAIN fVarMap \ {k} |-> fVarMap[j]]
  /\ UNCHANGED <<call, connected, told, owed, crossed>>

-----------------------------------------------------------------------------
(* Telling the subscribers *)

\* The values s was called with for k.
Told(s, k) == IF k \in DOMAIN told[s] THEN told[s][k] ELSE <<>>

CallBack(called, p) ==
  told' = [s \in Subscribers |->
             IF s \in called THEN (p.key :> Append(Told(s, p.key), p.val)) @@ told[s]
             ELSE told[s]]

\* An exception ends the call: whatever it has left is stored, but not told.
Throw(t) ==
  /\ call' = [call EXCEPT ![t] = [NoCall EXCEPT !.at = "thrown"]]
  /\ owed' = [s \in Subscribers |-> owed[s] \ (Keys(call[t].left) \X {t})]

\* EventManager::Emit: the signal calls whoever is connected now, up to the
\* first of them that throws.
Emit(t, listeners, throwing, then) ==
  LET due == connected \cap listeners
      p == Head(call[t].left)
  IN  \/ /\ due \cap throwing = {}
         /\ CallBack(due, p)
         /\ call' = [call EXCEPT ![t] = then]
         /\ UNCHANGED owed
      \/ /\ \E s \in due \cap throwing : \E before \in SUBSET (due \ throwing) :
              CallBack(before \cup {s}, p)
         /\ Throw(t)

\* The PropertyChange event, with the value the caller gave.  SetProperties and
\* UpdateProperties look up its type in fEventEmitters, which throws for one
\* that is not known.
EmitTyped(t, throwing) ==
  LET known == call[t].reread \/ Head(call[t].left).typed IN
  /\ call[t].at = "typed"
  /\ \/ /\ known
        /\ Emit(t, Subscribers \ AsString, throwing,
                [call[t] EXCEPT !.at = IF call[t].reread THEN "read" ELSE "string"])
     \/ ~known /\ Throw(t) /\ UNCHANGED told
  /\ UNCHANGED <<fVarMap, connected, crossed>>

\* SetProperty and UpdateProperty evaluate GetPropertyAsString for the second
\* event, which throws when the key was deleted in the meantime.
GetPropertyAsString(t) ==
  LET k == Head(call[t].left).key
  IN  /\ call[t].at = "read"
      /\ IF k \in DOMAIN fVarMap
         THEN /\ call' = [call EXCEPT ![t].at = "string",
                                      ![t].left[1].val = fVarMap[k]]
              /\ UNCHANGED owed
         ELSE Throw(t)
      /\ UNCHANGED <<fVarMap, connected, told, crossed>>

\* Mutant: the loop over the input ends after its first property.
EmitStringOnce(t, throwing) ==
  /\ call[t].at = "string"
  /\ Emit(t, AsString, throwing, NoCall)
  /\ UNCHANGED <<fVarMap, connected, crossed>>

\* The PropertyChangeAsString event, then the next property of the input.
EmitString(t, throwing) ==
  /\ call[t].at = "string"
  /\ Emit(t, AsString, throwing,
          IF Len(call[t].left) = 1 THEN NoCall
          ELSE [call[t] EXCEPT !.at = "typed", !.left = Tail(@)])
  /\ UNCHANGED <<fVarMap, connected, crossed>>

\* throwing: the subscribers whose callbacks throw for this property.
Emitting(t, throwing) ==
  EmitTyped(t, throwing) \/ GetPropertyAsString(t) \/ EmitString(t, throwing)

\* EventManager::Subscribe, called under fMtx: a second subscription of the
\* same name replaces the first.
Subscribe(s) ==
  /\ connected' = connected \cup {s}
  /\ told' = [told EXCEPT ![s] = <<>>]
  /\ owed' = [owed EXCEPT ![s] = {}]
  /\ UNCHANGED <<fVarMap, call, crossed>>

\* EventManager::Unsubscribe throws for a name it does not know.
Unsubscribe(s) ==
  /\ s \in connected
  /\ connected' = connected \ {s}
  /\ told' = [told EXCEPT ![s] = <<>>]
  /\ owed' = [owed EXCEPT ![s] = {}]
  /\ UNCHANGED <<fVarMap, call, crossed>>

-----------------------------------------------------------------------------
(* Properties *)

\* Subscribers come to know the present values (ProgOptions::SetProperty ...
\* UpdateProperties, EventManager::Emit).  Once no call is in progress, a
\* subscriber was called with the value the container now holds of every key
\* stored since it subscribed, after it was stored, and last with this one if
\* no other call was still emitting the key when the value was stored: the
\* events of calls that overlap are not ordered like their stores.  Not owed
\* are the values of AddChannel, which emits nothing, and those that a call
\* had still to emit when a callback, the conversion or a type without an
\* emitter threw.
ToldPresentValues ==
  (\A t \in Threads : Idle(t)) =>
    \A s \in connected : \A d \in owed[s] :
      LET k == d[1]
          values == Told(s, k)
      IN  k \in DOMAIN fVarMap =>
            /\ fVarMap[k] \in Range(values)
            /\ k \notin crossed => Last(values) = fVarMap[k]
=============================================================================
