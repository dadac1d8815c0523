------------------------------ MODULE MCPlugin ------------------------------
(* Two licences in two versions; the simulator is restarted once.  The      *)
(* licences are interchangeable for the invariants but not reduced by       *)
(* symmetry, as the run also checks liveness.                               *)
EXTENDS Plugin
=============================================================================
