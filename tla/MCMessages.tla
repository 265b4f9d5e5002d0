----------------------------- MODULE MCMessages -----------------------------
(* Two devices and a region.  OneSegment: both allocate in segment s1, the  *)
(* default of a session.  SegmentEach: every device has its own.            *)
EXTENDS Messages, TLC

CONSTANTS a1, a2, s1, s2

OneSegment == [a \in Actors |-> s1]
SegmentEach == a1 :> s1 @@ a2 :> s2

Symmetry ==
  Permutations(Msgs) \cup Permutations(Actors) \cup Permutations(Chunks)
=============================================================================
