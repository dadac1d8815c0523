----------------------------- MODULE Occurrences -----------------------------
(***************************************************************************)
(* Where a character stands in a text, for the modules about text.         *)
(***************************************************************************)
EXTENDS Integers, Sequences

\* The positions of c among the first k characters of s, in order.
PositionsUpTo(s, c) ==
  LET at[k \in 0 .. Len(s)] ==
        IF k = 0 THEN << >> ELSE IF s[k] = c THEN Append(at[k - 1], k) ELSE at[k - 1]
  IN  at

\* The positions of c in s.
Positions(s, c) == PositionsUpTo(s, c)[Len(s)]
=============================================================================
