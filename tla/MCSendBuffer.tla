---------------------------- MODULE MCSendBuffer ----------------------------
(* Small instances of SendBuffer for TLC. *)
EXTENDS SendBuffer
=============================================================================
