----------------------------- MODULE MCControl ------------------------------
(* The builtin controller with device classes whose run loop polls, ends or *)
(* throws.                                                                   *)
EXTENDS Control

Polling == [dataCallbacks |-> FALSE, runEnds |-> FALSE,
            preRunReceives |-> FALSE, throws |-> FALSE]
Throwing == [Polling EXCEPT !.throws = TRUE, !.runEnds = TRUE]

MCKinds == {Throwing}
PollingOnly == {Polling}
=============================================================================
