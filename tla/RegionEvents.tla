---------------------------- MODULE RegionEvents ----------------------------
(***************************************************************************)
(* What a subscriber to region events is promised, by either transport: a  *)
(* region is reported created, later destroyed, each at most once.  What   *)
(* the ZeroMQ transport has instead of a segment is reported local_only.   *)
(***************************************************************************)
EXTENDS Sequences

CONSTANTS Subscribers, Observable

VARIABLE told    \* per subscriber and region, the events of the callback

Init == told = [s \in Subscribers |-> [o \in Observable |-> <<>>]]

\* What may have been told of a region.
Stories ==
  {<<>>, <<"created">>, <<"created", "destroyed">>, <<"local_only">>}

\* The callback runs once.  Which event it brings follows from Stories.
Tell(s, o) ==
  /\ \E e \in {"created", "destroyed", "local_only"} :
       told' = [told EXCEPT ![s][o] = Append(@, e)]
  /\ told'[s][o] \in Stories

Next == \E s \in Subscribers, o \in Observable : Tell(s, o)

Spec == Init /\ [][Next]_told
=============================================================================
