------------------------------ MODULE MCDevice ------------------------------
(* Device with controllers that may request every transition but Auto, and *)
(* device classes that cover every way the run loop can end.               *)
EXTENDS Device

MCRequests == Transition \ {"Auto"}

Polling == [dataCallbacks |-> FALSE, runEnds |-> FALSE,
            preRunReceives |-> FALSE, throws |-> TRUE]
Callbacks == [Polling EXCEPT !.dataCallbacks = TRUE]
OneShot == [Polling EXCEPT !.runEnds = TRUE, !.throws = FALSE]
OneShotCallbacks == [OneShot EXCEPT !.dataCallbacks = TRUE]
PreRunReceiver == [Polling EXCEPT !.preRunReceives = TRUE, !.throws = FALSE]

MCKinds == {Polling, Callbacks, OneShot, OneShotCallbacks, PreRunReceiver}
QuietCallbacks == {[Callbacks EXCEPT !.throws = FALSE]}
Receivers == {PreRunReceiver}
=============================================================================
