----------------------------- MODULE MCPipeline -----------------------------
(* Pipes that hold one message, and samplers that make two and one.         *)
EXTENDS Pipeline

const_MaxMade == [s1 |-> 2, s2 |-> 1]
const_Threads == {"s1", "s2", "w", "t1", "t2", "k1", "k2"}
const_Pipes == {"in1", "in2", "out1", "out2"}

Plain ==
  [kind |-> "proxy", transport |-> "zeromq", parts |-> 2, max |-> 0,
   timeout |-> -1, mishaps |-> 0, stops |-> {"w"}, refuses |-> FALSE,
   throws |-> FALSE, file |-> FALSE, maxFileSize |-> 0]

const_Scenes ==
  { Plain,
    \* multipart transfers are cut, in either transport
    [Plain EXCEPT !.kind = "pair", !.mishaps = 2, !.stops = {"s1", "k1"}],
    [Plain EXCEPT !.transport = "shmem", !.mishaps = 1],
    \* the limits of sampler and sink
    [Plain EXCEPT !.kind = "pair", !.parts = 1, !.max = 1, !.stops = {}],
    [Plain EXCEPT !.kind = "pair", !.file = TRUE, !.maxFileSize = 3, !.stops = {"k1"}],
    \* timeouts below, at and above the socket timeout, and none
    [Plain EXCEPT !.kind = "pair", !.timeout = 0, !.parts = 1, !.stops = {"s1", "k1"}],
    [Plain EXCEPT !.kind = "pair", !.timeout = 1, !.mishaps = 1, !.stops = {"k1"}],
    [Plain EXCEPT !.kind = "pair", !.timeout = 2, !.stops = {"s1"}],
    [Plain EXCEPT !.kind = "pair", !.timeout = 3, !.mishaps = 1, !.stops = {"s1"}],
    \* the other devices
    [Plain EXCEPT !.kind = "merger", !.transport = "shmem"],
    [Plain EXCEPT !.kind = "splitter"],
    [Plain EXCEPT !.kind = "multiplier"],
    [Plain EXCEPT !.kind = "inputs", !.transport = "shmem", !.refuses = TRUE,
                  !.throws = TRUE],
    [Plain EXCEPT !.kind = "transports", !.parts = 1, !.refuses = TRUE,
                  !.throws = TRUE, !.stops = {"t1"}],
    \* regions of the ZeroMQ transport
    [Plain EXCEPT !.kind = "regions", !.stops = {}] }
=============================================================================
