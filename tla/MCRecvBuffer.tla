---------------------------- MODULE MCRecvBuffer ----------------------------
(* RecvBuffer on small buffers whose sequence numbers wrap.                 *)
EXTENDS RecvBuffer
=============================================================================
