--------------------------- MODULE MCHeldCommands ---------------------------
(* Instances of HeldCommands for TLC: two X-Plane commands and a request of  *)
(* each kind that the handlers treat differently.                            *)
EXTENDS HeldCommands

CMTR(entries, times, hold, holdFrames, interval, intervalFrames, monitor) ==
  [kind |-> "CMTR", entries |-> entries, times |-> times, hold |-> hold,
   holdFrames |-> holdFrames, interval |-> interval,
   intervalFrames |-> intervalFrames, monitor |-> monitor]

CMHD(entries) ==
  [CMTR(entries, 1, 0, TRUE, 1, TRUE, "none") EXCEPT !.kind = "CMHD"]

\* A hold, a command held twice by each of two rounds counted in frames, and a
\* trigger repeated in milliseconds until it is terminated.
MCRequests ==
  {CMHD(<<"a">>),
   CMTR(<<"a", "a">>, 2, 1, TRUE, 2, TRUE, "holdRelease"),
   CMTR(<<"b">>, Infinite, 0, TRUE, 2, FALSE, "cycle")}
=============================================================================
