---------------------------- MODULE PreallocList ----------------------------
(***************************************************************************)
(* The preallocated list of lists.c as operators on a record: items are    *)
(* handed out one after the other and never moved or reused; deletion only *)
(* relinks the neighbours and marks the list dirty, and compaction copies  *)
(* what is left to new blocks.  Links are positions in items, 0 is NULL.   *)
(***************************************************************************)
EXTENDS Links

CONSTANT BlockSize  \* PREALLOC_LIST_BLOCK_SIZE

ASSUME BlockSizeAssumption == BlockSize \in Nat \ {0}

create_preallocated_list ==
  [items |-> << >>, first |-> 0, last |-> 0, size |-> 0, dirty |-> FALSE, blocks |-> 1]

\* The last block is full: the next item needs another one.
BlockFull(l) == Len(l.items) >= l.blocks * BlockSize

NewItem(l, v) == [in_use |-> TRUE, value |-> v, prev |-> l.last, next |-> 0]

\* The item that was last points to item i.
Linked(l, i) == IF l.last = 0 THEN l.items ELSE [l.items EXCEPT ![l.last].next = i]

prealloc_list_append(l, v) ==
  LET i == Len(l.items) + 1
  IN  [l EXCEPT !.items = Append(Linked(l, i), NewItem(l, v)),
                !.first = IF @ = 0 THEN i ELSE @,
                !.last = i,
                !.size = @ + 1,
                !.blocks = IF BlockFull(l) THEN @ + 1 ELSE @]

\* MUTANT of Unlinked: the deleted item loses its links as well.
UnlinkedCleared(l, i) ==
  LET d == l.items[i]
  IN  [j \in DOMAIN l.items |->
         [l.items[j] EXCEPT !.in_use = @ /\ j # i,
                            !.next = IF j = i THEN 0 ELSE IF j = d.prev THEN d.next ELSE @,
                            !.prev = IF j = i THEN 0 ELSE IF j = d.next THEN d.prev ELSE @]]

\* Its neighbours pass over a deleted item, which keeps its own links: whoever
\* stands at it goes on with the item after it.
Unlinked(l, i) ==
  LET d == l.items[i]
  IN  [j \in DOMAIN l.items |->
         [l.items[j] EXCEPT !.in_use = @ /\ j # i,
                            !.next = IF j = d.prev THEN d.next ELSE @,
                            !.prev = IF j = d.next THEN d.prev ELSE @]]

\* MUTANT of prealloc_list_delete_item: the end of the list stays at the deleted item.
DeletesKeepingLast(l, i) ==
  [l EXCEPT !.items = Unlinked(l, i),
            !.first = IF @ = i THEN l.items[i].next ELSE @,
            !.size = @ - 1,
            !.dirty = TRUE]

prealloc_list_delete_item(l, i) ==
  [l EXCEPT !.items = Unlinked(l, i),
            !.first = IF @ = i THEN l.items[i].next ELSE @,
            !.last = IF @ = i THEN l.items[i].prev ELSE @,
            !.size = @ - 1,
            !.dirty = TRUE]

\* The items reached from item i along link ("next" or "prev"), in that order.
Reached(l, i, link) == Follow(l.items, i, link)

ValuesFrom(l, i, link) ==
  LET chain == Reached(l, i, link) IN [k \in DOMAIN chain |-> l.items[chain[k]].value]

Contents(l) == ValuesFrom(l, l.first, "next")

\* The value is in the list: the item unschedule_task and others search for.
ItemOf(l, v) == CHOOSE i \in DOMAIN l.items : l.items[i].in_use /\ l.items[i].value = v
Holds(l, v) == \E i \in DOMAIN l.items : l.items[i].in_use /\ l.items[i].value = v

BlocksFor(n) == IF n = 0 THEN 1 ELSE (n + BlockSize - 1) \div BlockSize

\* prealloc_list_compact: nothing to do unless dirty; the new blocks replace the
\* old ones only after everything has been copied.
Compacted(l, values) ==
  LET n == Len(values)
  IN  [items |-> [k \in 1 .. n |-> [in_use |-> TRUE, value |-> values[k], prev |-> k - 1,
                                     next |-> IF k = n THEN 0 ELSE k + 1]],
       first |-> IF l.size > 0 THEN 1 ELSE l.first,
       last |-> IF l.size > 0 THEN n ELSE l.last,
       size |-> l.size, dirty |-> FALSE, blocks |-> BlocksFor(n)]
prealloc_list_compact(l) == IF l.dirty THEN Compacted(l, Contents(l)) ELSE l

\* What compaction and destruction find in deleted items: values whose
\* destruction was deferred.
DeferredValues(l) == {l.items[i].value : i \in {j \in DOMAIN l.items : ~l.items[j].in_use}}
=============================================================================
