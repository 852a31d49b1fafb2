---------------------------- MODULE MCStreamPools ----------------------------
(* StreamPools for TLC: one host opens connections from two of its ports,   *)
(* which HashFlow files in one bin.                                         *)
EXTENDS StreamPools

MCHost == 1
MCTuples == {<<MCHost, sport>> : sport \in {1, 3}}

ASSUME BinIsShared == \A t, u \in MCTuples : HashFlow(t) = HashFlow(u)
==============================================================================
