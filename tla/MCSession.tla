------------------------------ MODULE MCSession ------------------------------
(* Instances of Session for TLC; the .cfg files choose the bounds. *)
EXTENDS Session
=============================================================================
