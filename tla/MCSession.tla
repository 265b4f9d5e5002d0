------------------------------ MODULE MCSession ------------------------------
(* Three managers, two of them in one process, and two region ids, the second *)
(* of which CreateRegion counts.  Each scenario brings some of the dangers.    *)
EXTENDS Session

CONSTANTS d1, d2, d3, p1, p2

const_Managers == {d1, d2, d3}
const_ProcessOf == (d1 :> p1) @@ (d2 :> p1) @@ (d3 :> p2)

Quiet ==
  [devices |-> {d1, d3}, fNoCleanup |-> FALSE, autolaunch |-> FALSE, creates |-> 0,
   remove |-> TRUE, backed |-> {}, subscribers |-> {}, lookups |-> FALSE,
   crashes |-> 0, beats |-> 0, fails |-> FALSE,
   tools |-> FALSE, monitor |-> "none", keeper |-> {}]

const_Scenarios ==
  { \* three devices come, fail and go
    [Quiet EXCEPT !.devices = {d1, d2, d3}, !.fails = TRUE],
    \* constructors of devices and regions fail
    [Quiet EXCEPT !.creates = 1, !.subscribers = {d3}, !.fails = TRUE],
    \* a subscriber and regions that come and go
    [Quiet EXCEPT !.creates = 2, !.subscribers = {d3}],
    \* two managers of a process share a cache of regions
    [Quiet EXCEPT !.devices = {d1, d2}, !.creates = 1, !.lookups = TRUE],
    \* a region in a file, which is not registered
    [Quiet EXCEPT !.creates = 1, !.backed = {1}, !.subscribers = {d1}],
    \* a monitor watches, processes die
    [Quiet EXCEPT !.monitor = "monitor", !.crashes = 1, !.beats = 1],
    [Quiet EXCEPT !.devices = {d3}, !.monitor = "monitor", !.crashes = 2, !.beats = 1,
                  !.creates = 1, !.tools = TRUE],
    \* the devices start a monitor that ends with the session
    [Quiet EXCEPT !.autolaunch = TRUE, !.crashes = 1, !.beats = 1],
    \* the session belongs to a keep-alive process
    [Quiet EXCEPT !.keeper = {1}, !.fNoCleanup = TRUE, !.remove = FALSE,
                  !.creates = 1, !.subscribers = {d3}] }
=============================================================================
