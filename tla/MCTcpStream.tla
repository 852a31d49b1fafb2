---------------------------- MODULE MCTcpStream ----------------------------
(* Model checking of one connection.                                       *)
EXTENDS TcpStream
=============================================================================
