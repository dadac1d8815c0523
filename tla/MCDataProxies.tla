---------------------------- MODULE MCDataProxies ----------------------------
(***************************************************************************)
(* Instances of DataProxies for TLC; the .cfg file chooses the bounds.     *)
(* Sessions differ in nothing but their numbers, so that of each behaviour *)
(* and its images under permutations of the sessions one is enough: that   *)
(* in which session 1 creates the first command.                           *)
(***************************************************************************)
EXTENDS DataProxies

FirstBySessionOne == created = 0 /\ created' # 0 => cmd'[1].id = 1

MCNext == Next /\ FirstBySessionOne

MCSpec == Init /\ [][MCNext]_vars
=============================================================================
