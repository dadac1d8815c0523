------------------------------- MODULE Links -------------------------------
(***************************************************************************)
(* The items of a linked list in the order in which the loops over it find *)
(* them (lists.c).  Items are numbered, a link is a number, 0 is NULL.     *)
(***************************************************************************)
EXTENDS Integers, Sequences

\* The item reached from item i after k steps along link ("next" or "prev").
Walk(items, i, link) ==
  LET at[k \in 0 .. Len(items)] ==
        IF k = 0 THEN i ELSE IF at[k - 1] = 0 THEN 0 ELSE items[at[k - 1]][link]
  IN  at

\* How many items there are until NULL; a loop is followed for no longer than
\* there are items.
UntilNull(walk, n) == CHOOSE m \in 0 .. n : \A k \in 0 .. n - 1 : walk[k] # 0 <=> k < m

Follow(items, i, link) ==
  LET walk == Walk(items, i, link) IN [k \in 1 .. UntilNull(walk, Len(items)) |-> walk[k - 1]]
=============================================================================
