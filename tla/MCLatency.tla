----------------------------- MODULE MCLatency -----------------------------
(* Latency with the code's own constants, in units of three seconds.         *)
EXTENDS Latency
=============================================================================
