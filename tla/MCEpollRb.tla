------------------------------ MODULE MCEpollRb ------------------------------
(* EpollRb for TLC.                                                         *)
EXTENDS EpollRb
=============================================================================
