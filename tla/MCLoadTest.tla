----------------------------- MODULE MCLoadTest ------------------------------
(* Small instance of the load test service for TLC: three requests, an error *)
(* threshold of one, every second latency sampled.                           *)
EXTENDS LoadTest
=============================================================================
