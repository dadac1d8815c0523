-------------------------- MODULE MCCommandRegistry --------------------------
(* Instances of CommandRegistry for TLC; the .cfg files choose the bounds. *)
EXTENDS CommandRegistry
=============================================================================
