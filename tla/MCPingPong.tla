----------------------------- MODULE MCPingPong -----------------------------
(* Three threads; the network is full with two commands and two replies.   *)
EXTENDS PingPong

CONSTANTS w1, w2, w3

MCWorkers == {w1, w2, w3}
=============================================================================
