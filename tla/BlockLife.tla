----------------------------- MODULE BlockLife ------------------------------
(***************************************************************************)
(* What the shmem transport promises for a block of an unmanaged region:   *)
(* the user puts it into a message, the message gives it back to the region*)
(* once nobody needs it, and the region's callback returns it to the user. *)
(***************************************************************************)
EXTENDS FiniteSets

CONSTANT Blocks
VARIABLE with   \* who has the block: the user, a message or the region

Init == with = [b \in Blocks |-> "user"]

Hand(B, from, to) ==
  /\ B # {}
  /\ \A b \in B : with[b] = from
  /\ with' = [b \in Blocks |-> IF b \in B THEN to ELSE with[b]]

Next ==
  \E B \in SUBSET Blocks :
    \/ Cardinality(B) = 1 /\ Hand(B, "user", "message")
    \/ Cardinality(B) = 1 /\ Hand(B, "message", "region")
    \/ Hand(B, "region", "user")

Spec == Init /\ [][Next]_with
=============================================================================
