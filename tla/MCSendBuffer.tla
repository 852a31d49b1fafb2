---------------------------- MODULE MCSendBuffer ----------------------------
(* SendBuffer on a buffer that the stream wraps several times.              *)
EXTENDS SendBuffer
=============================================================================
