---------------------------- MODULE MCStreamQueue ----------------------------
(* Model checking of the ring with three streams and two usable slots.      *)
EXTENDS StreamQueue
=============================================================================
