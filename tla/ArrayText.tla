------------------------------ MODULE ArrayText ------------------------------
(***************************************************************************)
(* Arrays as text (protocol.c): the number of items, then each item after  *)
(* a comma; a blob has one comma and two digits for each byte.  "A" stands *)
(* for the digits that only hexadecimal numbers have, "x" for characters   *)
(* that no number has; without a sign no length is negative.  A text is a  *)
(* whole string: where base values follow the array (DRMU), strpos finds   *)
(* their commas too; the last item ends at the same digit all the same,    *)
(* and an empty array is refused, as DRMU does anyway.                     *)
(***************************************************************************)
EXTENDS Occurrences

CONSTANT MaxText  \* bound: characters of a text

ASSUME ArrayTextAssumption == MaxText \in Nat

VARIABLE text     \* [kind, s, array] of the last array read, or NoText

Digits == <<"0", "1", "2", "3">>
DigitOf(n) == Digits[n + 1]
Numbers == 0 .. 3
TextCharacters == {Digits[k] : k \in DOMAIN Digits} \union {",", "A", "x"}
Bad == [ok |-> FALSE, items |-> << >>]

Texts == UNION {[1 .. n -> TextCharacters] : n \in 1 .. MaxText}

\* The number that the first k characters of s begin with, and whether it goes on.
AtoiStates(s) ==
  LET value[k \in 0 .. Len(s)] ==
        IF k = 0 THEN [n |-> 0, on |-> TRUE]
        ELSE IF value[k - 1].on /\ \E d \in Numbers : DigitOf(d) = s[k]
        THEN [n |-> 10 * value[k - 1].n + (CHOOSE d \in Numbers : DigitOf(d) = s[k]), on |-> TRUE]
        ELSE [value[k - 1] EXCEPT !.on = FALSE]
  IN  value

\* atoi of a piece of text: the number it begins with, or 0.
atoi(s) == AtoiStates(s)[Len(s)].n

\* Positions count from 1 here and from 0 in the code, so that a separator that
\* is missing is at 0 instead of -1.
FirstComma(commas) == IF commas = << >> THEN 0 ELSE commas[1]
Commas(s) == Positions(s, ",")

\* The first k items, one behind the other.
EncodedItems(kind, items) ==
  LET flat[k \in 0 .. Len(items)] ==
        IF k = 0 THEN << >>
        ELSE flat[k - 1] \o (IF kind = "blob" THEN items[k] ELSE <<",", DigitOf(items[k])>>)
  IN  flat

\* xprc_encode_array
xprc_encode_array(kind, items) ==
  IF items = << >> THEN <<"0">>
  ELSE <<DigitOf(Len(items))>> \o (IF kind = "blob" THEN <<",">> ELSE << >>)
         \o EncodedItems(kind, items)[Len(items)]

\* MUTANT of LengthMatches: only too few items are refused.
LengthAtMost(kind, s, length, commas) ==
  IF kind = "blob" THEN Len(s) - FirstComma(commas) = 2 * length
  ELSE length <= Len(commas)

\* Number of items against separators, or the length of a blob.
LengthMatches(kind, s, length, commas) ==
  IF kind = "blob" THEN Len(s) - FirstComma(commas) = 2 * length
  ELSE \/ length # 0 /\ length = Len(commas)
       \/ length = 0 /\ Len(commas) <= 1 /\ Len(s) <= 2

\* The items after the first comma, each up to the next one; an empty one is an
\* error, and so is a blob's byte that is no pair of digits.
Items(kind, s, length, commas) ==
  LET to(n) == IF n = Len(commas) THEN Len(s) ELSE commas[n + 1] - 1
      piece(n) == SubSeq(s, commas[n] + 1, to(n))
      pair(n) == SubSeq(s, FirstComma(commas) + 2 * n - 1, FirstComma(commas) + 2 * n)
      digit(c) == c \notin {",", "x"}
  IN  IF kind = "blob"
      THEN IF \A n \in 1 .. length : digit(pair(n)[1]) /\ digit(pair(n)[2])
           THEN [ok |-> TRUE, items |-> [n \in 1 .. length |-> pair(n)]] ELSE Bad
      ELSE IF \A n \in 1 .. length : piece(n) # << >>
           THEN [ok |-> TRUE, items |-> [n \in 1 .. length |-> atoi(piece(n))]] ELSE Bad

\* xprc_parse_array
xprc_parse_array(kind, s) ==
  LET commas == Commas(s)
      length == atoi(IF commas = << >> THEN s ELSE SubSeq(s, 1, commas[1] - 1))
  IN  IF s = << >> \/ s[1] = "," THEN Bad
      ELSE IF ~LengthMatches(kind, s, length, commas) THEN Bad
      ELSE IF length = 0 THEN [ok |-> TRUE, items |-> << >>]
      ELSE Items(kind, s, length, commas)

NoText == [kind |-> "int[]", s |-> << >>, array |-> Bad]

ArrayInit == text = NoText

ReadArray(kind, s) ==
  text = NoText /\ text' = [kind |-> kind, s |-> s, array |-> xprc_parse_array(kind, s)]
ForgetArray == text # NoText /\ text' = NoText

ArrayNext == ForgetArray \/ \E kind \in {"int[]", "blob"}, s \in Texts : ReadArray(kind, s)

ArraySpec == ArrayInit /\ [][ArrayNext]_text

-----------------------------------------------------------------------------
(* Properties. *)

\* A text is read as an array only if it announces as many items as it holds,
\* whatever separators are missing, doubled or left over; and what has been read
\* is read again from the text it is written as (xprc_parse_array,
\* xprc_encode_array), but for the empty blob, which is written without the comma
\* that reading it asks for (EmptyRoundTrip).
ArraysReadAsAnnounced ==
  LET a == text.array
      commas == Commas(text.s)
      announced == atoi(IF commas = << >> THEN text.s ELSE SubSeq(text.s, 1, commas[1] - 1))
      emptyBlob == text.kind = "blob" /\ a.items = << >>
      writable == text.kind = "blob" \/ \A n \in DOMAIN a.items : a.items[n] \in Numbers
  IN  /\ a.ok => /\ Len(a.items) = announced
                 /\ a.items # << >> =>
                      IF text.kind = "blob" THEN Len(text.s) = FirstComma(commas) + 2 * Len(a.items)
                      ELSE Len(commas) = Len(a.items)
      /\ a.ok /\ writable /\ Len(a.items) \in Numbers /\ ~emptyBlob =>
           xprc_parse_array(text.kind, xprc_encode_array(text.kind, a.items)) = a

\* What was written can be read.  TLC refutes it for the empty blob, see the
\* README.
EmptyRoundTrip ==
  xprc_parse_array("blob", xprc_encode_array("blob", << >>)) = [ok |-> TRUE, items |-> << >>]
=============================================================================
