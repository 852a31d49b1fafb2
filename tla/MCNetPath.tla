------------------------------ MODULE MCNetPath ------------------------------
(* NetPath for TLC.                                                         *)
EXTENDS NetPath
MCDests == {Self}
==============================================================================
