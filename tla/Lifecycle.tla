----------------------------- MODULE Lifecycle ------------------------------
(***************************************************************************)
(* What the device promises to whoever watches it: its state starts at     *)
(* Idle, moves along the rows of the transition table and nowhere else,    *)
(* may fall to Error from every state, and never leaves Error.             *)
(***************************************************************************)
EXTENDS States

VARIABLE state

Init == state = "Idle"

Follow ==
  \E row \in TransitionTable :
    /\ state = row[1]
    /\ state' = row[3]

Fail ==
  /\ state # "Error"
  /\ state' = "Error"

Next == Follow \/ Fail

Spec == Init /\ [][Next]_state
=============================================================================
