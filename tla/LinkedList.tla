----------------------------- MODULE LinkedList -----------------------------
(***************************************************************************)
(* The plain doubly linked list of lists.c and the sorted copy made of it. *)
(* Nodes are numbered as they are allocated, 0 is NULL.  The sort runs     *)
(* step by step on an array of the list's values, as sort_list_items_      *)
(* quicksort_internal does with a stack of its recursive calls.            *)
(***************************************************************************)
EXTENDS Links, FiniteSets

CONSTANTS
  Values,    \* numbers kept in the list, ordered by the comparator
  MaxNodes   \* bound: nodes allocated in one behaviour

ASSUME LinkedListAssumption == Values \subseteq Nat /\ MaxNodes \in Nat

VARIABLES
  linked,   \* [node, head, tail, size]
  mirror,   \* what a caller expects in the list: a sequence of values
  sort      \* [items, stack, i, j, pivot, pc]: copy_list_sorted

listVars == <<linked, mirror, sort>>

create_list == [node |-> << >>, head |-> 0, tail |-> 0, size |-> 0]
NoSort == [items |-> << >>, stack |-> << >>, i |-> 0, j |-> 0, pivot |-> 0, pc |-> "idle"]

ListInit == linked = create_list /\ mirror = << >> /\ sort = NoSort

Idle == sort.pc = "idle"

-----------------------------------------------------------------------------
(* The list. *)

list_append(l, v) ==
  LET n == Len(l.node) + 1
      old == IF l.tail = 0 THEN l.node ELSE [l.node EXCEPT ![l.tail].next = n]
  IN  [node |-> Append(old, [value |-> v, prev |-> l.tail, next |-> 0]),
       head |-> IF l.head = 0 THEN n ELSE l.head, tail |-> n, size |-> l.size + 1]

list_prepend(l, v) ==
  LET n == Len(l.node) + 1
      old == IF l.head = 0 THEN l.node ELSE [l.node EXCEPT ![l.head].prev = n]
  IN  [node |-> Append(old, [value |-> v, prev |-> 0, next |-> l.head]),
       head |-> n, tail |-> IF l.tail = 0 THEN n ELSE l.tail, size |-> l.size + 1]

\* MUTANT of list_delete_item: the end of the list is forgotten.
DeleteKeepsTail(l, n) ==
  LET d == l.node[n]
  IN  [node |-> [m \in DOMAIN l.node |->
                   [l.node[m] EXCEPT !.next = IF m = d.prev THEN d.next ELSE @,
                                     !.prev = IF m = d.next THEN d.prev ELSE @]],
       head |-> IF l.head = n THEN d.next ELSE l.head, tail |-> l.tail, size |-> l.size - 1]

list_delete_item(l, n) ==
  LET d == l.node[n]
  IN  [node |-> [m \in DOMAIN l.node |->
                   [l.node[m] EXCEPT !.next = IF m = d.prev THEN d.next ELSE @,
                                     !.prev = IF m = d.next THEN d.prev ELSE @]],
       head |-> IF l.head = n THEN d.next ELSE l.head,
       tail |-> IF l.tail = n THEN d.prev ELSE l.tail,
       size |-> l.size - 1]

\* The nodes from n on along link, in that order.
Chain(l, n, link) == Follow(l.node, n, link)

\* The first of some positions.
FirstOf(S) == CHOOSE k \in S : \A h \in S : k <= h

\* list_find, list_find_test: the first node whose value passes the test.
list_find(l, T) ==
  LET chain == Chain(l, l.head, "next")
      hits == {k \in DOMAIN chain : l.node[chain[k]].value \in T}
  IN  IF hits = {} THEN 0 ELSE chain[FirstOf(hits)]

\* list_delete_items_where remembers the next node before it deletes one.
DeletedUpTo(l, chain, T) ==
  LET rest[k \in 0 .. Len(chain)] ==
        IF k = 0 THEN l
        ELSE IF l.node[chain[k]].value \in T THEN list_delete_item(rest[k - 1], chain[k])
        ELSE rest[k - 1]
  IN  rest

list_delete_items_where(l, T) ==
  LET chain == Chain(l, l.head, "next") IN DeletedUpTo(l, chain, T)[Len(chain)]

AppendValue(v) ==
  /\ Idle /\ Len(linked.node) < MaxNodes
  /\ linked' = list_append(linked, v) /\ mirror' = Append(mirror, v)
  /\ UNCHANGED sort

PrependValue(v) ==
  /\ Idle /\ Len(linked.node) < MaxNodes
  /\ linked' = list_prepend(linked, v) /\ mirror' = <<v>> \o mirror
  /\ UNCHANGED sort

FirstIndex(v) == FirstOf({k \in DOMAIN mirror : mirror[k] = v})

\* The callers look a value up and delete the node found.
DeleteValue(v) ==
  LET n == list_find(linked, {v})
  IN  /\ Idle /\ n # 0
      /\ linked' = list_delete_item(linked, n)
      /\ mirror' = [k \in 1 .. Len(mirror) - 1 |->
                      IF k < FirstIndex(v) THEN mirror[k] ELSE mirror[k + 1]]
      /\ UNCHANGED sort

\* The first k of a sequence of values without those in T.
KeptUpTo(s, T) ==
  LET kept[k \in 0 .. Len(s)] ==
        IF k = 0 THEN << >> ELSE IF s[k] \in T THEN kept[k - 1] ELSE Append(kept[k - 1], s[k])
  IN  kept

DeleteWhere(T) ==
  /\ Idle
  /\ linked' = list_delete_items_where(linked, T)
  /\ mirror' = KeptUpTo(mirror, T)[Len(mirror)]
  /\ UNCHANGED sort

-----------------------------------------------------------------------------
(* copy_list_sorted: Hoare's partition on items[0 .. n - 1]; positions here  *)
(* count from 0 as well.                                                     *)

At(k) == sort.items[k + 1]

SortBegin ==
  LET chain == Chain(linked, linked.head, "next")
  IN  /\ Idle /\ linked.size > 0
      /\ sort' = [NoSort EXCEPT !.items = [k \in DOMAIN chain |-> linked.node[chain[k]].value],
                                !.stack = <<[lower |-> 0, upper |-> linked.size - 1]>>,
                                !.pc = "range"]
      /\ UNCHANGED <<linked, mirror>>

CurrentRange == Head(sort.stack)

\* A range of one item or less is sorted; the recursion ends with the stack.
SortRange ==
  /\ sort.pc = "range" /\ sort.stack # << >>
  /\ sort' = IF CurrentRange.lower >= CurrentRange.upper THEN [sort EXCEPT !.stack = Tail(@)]
             ELSE [sort EXCEPT !.pivot = At(CurrentRange.lower), !.i = CurrentRange.lower - 1,
                               !.j = CurrentRange.upper + 1, !.pc = "partition"]
  /\ UNCHANGED <<linked, mirror>>

\* Both inner loops stop at the latest at the pivot, or at an item that was
\* exchanged before.
FirstFrom(i) == CHOOSE k \in i + 1 .. Len(sort.items) - 1 :
  At(k) >= sort.pivot /\ \A h \in i + 1 .. k - 1 : At(h) < sort.pivot
LastBefore(j) == CHOOSE k \in 0 .. j - 1 :
  At(k) <= sort.pivot /\ \A h \in k + 1 .. j - 1 : At(h) > sort.pivot

SortPartition ==
  LET i == FirstFrom(sort.i)
      j == LastBefore(sort.j)
  IN  /\ sort.pc = "partition"
      /\ sort' = IF i >= j
                 THEN [sort EXCEPT !.pc = "range",
                                   !.stack = <<[lower |-> CurrentRange.lower, upper |-> j],
                                               [lower |-> j + 1, upper |-> CurrentRange.upper]>> \o Tail(@)]
                 ELSE [sort EXCEPT !.items = [@ EXCEPT ![i + 1] = At(j), ![j + 1] = At(i)],
                                   !.i = i, !.j = j]
      /\ UNCHANGED <<linked, mirror>>

SortEnd ==
  /\ sort.pc = "range" /\ sort.stack = << >>
  /\ sort' = NoSort
  /\ UNCHANGED <<linked, mirror>>

ListNext ==
  \/ \E v \in Values : AppendValue(v) \/ PrependValue(v) \/ DeleteValue(v)
  \/ \E T \in SUBSET Values : DeleteWhere(T)
  \/ SortBegin \/ SortRange \/ SortPartition \/ SortEnd

ListSpec == ListInit /\ [][ListNext]_listVars

-----------------------------------------------------------------------------
(* Properties. *)

Occurrences(s, v) == Cardinality({k \in DOMAIN s : s[k] = v})

\* Read in either direction the list holds what its callers have put into it,
\* and a sorted copy holds the same values in order when the sort is done; while
\* it runs, it neither loses nor doubles a value, and the ranges still to be
\* sorted stay inside the array (list_* operations, copy_list_sorted).
ListMatchesSequence ==
  LET chain == Chain(linked, linked.head, "next")
      back == Chain(linked, linked.tail, "prev")
      n == Len(mirror)
  IN  /\ linked.size = n /\ Len(chain) = n /\ Len(back) = n
      /\ \A k \in 1 .. n : linked.node[chain[k]].value = mirror[k] /\ back[n + 1 - k] = chain[k]
      /\ ~Idle =>
           /\ \A v \in Values : Occurrences(sort.items, v) = Occurrences(mirror, v)
           /\ sort.stack # << >> => 0 <= CurrentRange.lower /\ CurrentRange.upper < n
           /\ sort.stack = << >> => \A k \in 1 .. n - 1 : sort.items[k] <= sort.items[k + 1]
=============================================================================
