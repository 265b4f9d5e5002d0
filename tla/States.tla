------------------------------- MODULE States -------------------------------
(***************************************************************************)
(* The vocabulary of the device state machine: the states and transitions  *)
(* of fairmq/States.h and the transition table that fairmq/StateMachine.cxx*)
(* hands to boost::msm.  The table has two orthogonal regions: the device  *)
(* states, and OK/ERROR, where ERROR is a terminate state.  A state machine*)
(* is therefore described by an active device state and by whether the OK  *)
(* region is still in OK.                                                  *)
(***************************************************************************)

\* States of the first region, the ones a handler may run in.
DeviceState ==
  {"Idle", "InitializingDevice", "Initialized", "Binding", "Bound",
   "Connecting", "DeviceReady", "InitializingTask", "Ready", "Running",
   "ResettingTask", "ResettingDevice", "Exiting"}

State == DeviceState \cup {"Ok", "Error"}

Transition ==
  {"Auto", "InitDevice", "CompleteInit", "Bind", "Connect", "InitTask", "Run",
   "Stop", "ResetTask", "ResetDevice", "End", "ErrorFound"}

\* Machine_::transition_table, the rows of the first region.
TransitionTable ==
  {<<"Idle",               "End",          "Exiting">>,
   <<"Idle",               "InitDevice",   "InitializingDevice">>,
   <<"InitializingDevice", "CompleteInit", "Initialized">>,
   <<"Initialized",        "Bind",         "Binding">>,
   <<"Initialized",        "ResetDevice",  "ResettingDevice">>,
   <<"Binding",            "Auto",         "Bound">>,
   <<"Bound",              "Connect",      "Connecting">>,
   <<"Bound",              "ResetDevice",  "ResettingDevice">>,
   <<"Connecting",         "Auto",         "DeviceReady">>,
   <<"DeviceReady",        "InitTask",     "InitializingTask">>,
   <<"DeviceReady",        "ResetDevice",  "ResettingDevice">>,
   <<"InitializingTask",   "Auto",         "Ready">>,
   <<"Ready",              "Run",          "Running">>,
   <<"Ready",              "ResetTask",    "ResettingTask">>,
   <<"Running",            "Stop",         "Ready">>,
   <<"ResettingTask",      "Auto",         "DeviceReady">>,
   <<"ResettingDevice",    "Auto",         "Idle">>}

\* The states whose handler ends by requesting the Auto transition itself.
AutoState ==
  {"Binding", "Connecting", "InitializingTask", "ResettingTask",
   "ResettingDevice"}

=============================================================================
