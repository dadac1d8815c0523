----------------------------- MODULE ByteStream -----------------------------
(***************************************************************************)
(* What a connection's send path promises: a bounded first-in-first-out    *)
(* stream of bytes.  A message is taken whole or not at all, the socket    *)
(* takes any non-empty part of what is queued, and a closed connection     *)
(* transmits nothing any more (what is still queued is lost).              *)
(***************************************************************************)
EXTENDS Integers, Sequences

CONSTANT Capacity  \* bytes the stream can hold

VARIABLES queue,   \* bytes taken over and not transmitted yet
          wire,    \* bytes transmitted
          closed   \* connection is closed

Init == queue = << >> /\ wire = << >> /\ closed = FALSE

\* Bytes are numbered in the order in which they are taken over.
Fresh(n) == [k \in 1 .. n |-> Len(wire) + Len(queue) + k]

Accept ==
  \E n \in 0 .. Capacity - Len(queue) :
    queue' = queue \o Fresh(n) /\ UNCHANGED <<wire, closed>>

Transmit ==
  \E n \in 1 .. Len(queue) :
    /\ ~closed
    /\ wire' = wire \o SubSeq(queue, 1, n)
    /\ queue' = SubSeq(queue, n + 1, Len(queue))
    /\ UNCHANGED closed

Close == ~closed /\ closed' = TRUE /\ UNCHANGED <<queue, wire>>

Spec == Init /\ [][Accept \/ Transmit \/ Close]_<<queue, wire, closed>>

=============================================================================
