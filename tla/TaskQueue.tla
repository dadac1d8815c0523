------------------------------ MODULE TaskQueue ------------------------------
(***************************************************************************)
(* The task schedule on its preallocated lists (task_schedule.c, lists.c): *)
(* one queue for each of X-Plane's phases; post-processing visits them     *)
(* all.  Session and the other modules see the schedule as an abstract     *)
(* sequence; here is why they may.                                         *)
(*                                                                         *)
(* All operations but destruction hold the schedule's mutex, so none falls *)
(* into a run; only the callbacks of a run change the queues meanwhile,    *)
(* and a command's callback unschedules no task but its own.               *)
(***************************************************************************)
EXTENDS PreallocList

CONSTANTS
  Tasks,         \* tasks that commands allocate and schedule
  QueueMayFail   \* allocation of blocks may fail

ASSUME TaskQueueAssumption == QueueMayFail \in BOOLEAN /\ 0 \notin Tasks

Phases == {"BEFORE_FLIGHT_MODEL", "AFTER_FLIGHT_MODEL"}
QueueOrder == <<"BEFORE_FLIGHT_MODEL", "AFTER_FLIGHT_MODEL">>

VARIABLES
  queues,       \* phase -> preallocated list
  allocated,    \* tasks that commands have allocated
  accepted,     \* tasks that were scheduled, and not unscheduled since
  taskRun,      \* [post, left, at, due]: queues still to visit, item in the first, tasks to be called
  destruction,  \* "no", "pending", "done" or "failed"
  leaked        \* tasks nobody has a reference to any more

queueVars == <<queues, allocated, accepted, taskRun, destruction, leaked>>

NoRun == [post |-> FALSE, left |-> << >>, at |-> 0, due |-> << >>]
Unlocked == taskRun = NoRun

\* create_task_schedule
QueueInit ==
  /\ queues = [p \in Phases |-> create_preallocated_list]
  /\ allocated = {} /\ accepted = {} /\ taskRun = NoRun /\ destruction = "no" /\ leaked = {}

\* schedule_task, for a task that was just allocated.  If the list cannot grow,
\* the command frees it again.
schedule_task(t, p) ==
  /\ Unlocked /\ destruction = "no" /\ t \notin allocated
  /\ allocated' = allocated \union {t}
  /\ accepted' = accepted \union {t}
  /\ queues' = [queues EXCEPT ![p] = prealloc_list_append(@, t)]
  /\ UNCHANGED <<taskRun, destruction, leaked>>

schedule_fails(t, p) ==
  /\ QueueMayFail /\ BlockFull(queues[p])
  /\ Unlocked /\ destruction = "no" /\ t \notin allocated
  /\ allocated' = allocated \union {t}
  /\ UNCHANGED <<queues, accepted, taskRun, destruction, leaked>>

Unscheduled(t, p) == [queues EXCEPT ![p] = prealloc_list_delete_item(@, ItemOf(@, t))]

\* unschedule_task by a thread that holds the schedule outside of a run.
unschedule_task(t, p) ==
  /\ Unlocked /\ destruction = "no" /\ Holds(queues[p], t)
  /\ queues' = Unscheduled(t, p)
  /\ accepted' = accepted \ {t}
  /\ UNCHANGED <<allocated, taskRun, destruction, leaked>>

\* run_tasks: lock the schedule and take the first item.
run_tasks(order) ==
  /\ Unlocked /\ destruction = "no"
  /\ taskRun' = [post |-> Len(order) > 1, left |-> order, at |-> queues[Head(order)].first,
                 due |-> IF Len(order) = 1 THEN Contents(queues[order[1]])
                         ELSE Contents(queues[order[1]]) \o Contents(queues[order[2]])]
  /\ UNCHANGED <<queues, allocated, accepted, destruction, leaked>>

run_phase == \E p \in Phases : run_tasks(<<p>>)
run_post_processing == run_tasks(QueueOrder)

Current == queues[Head(taskRun.left)]
Visiting == ~Unlocked /\ taskRun.at # 0

\* The callback returns; the next item is read from the list as it is now.
GoesOn(l) == [taskRun EXCEPT !.at = l.items[@].next, !.due = Tail(@)]

call_task ==
  /\ Visiting
  /\ taskRun' = GoesOn(Current)
  /\ UNCHANGED <<queues, allocated, accepted, destruction, leaked>>

\* The callback unschedules its own task: commands end in post-processing.
call_ending_task ==
  LET p == Head(taskRun.left)
  IN  /\ Visiting /\ taskRun.post
      /\ queues' = Unscheduled(Current.items[taskRun.at].value, p)
      /\ accepted' = accepted \ {Current.items[taskRun.at].value}
      /\ taskRun' = GoesOn(queues'[p])
      /\ UNCHANGED <<allocated, destruction, leaked>>

next_queue ==
  /\ ~Unlocked /\ taskRun.at = 0
  /\ taskRun' = IF Len(taskRun.left) = 1 THEN NoRun
                ELSE [taskRun EXCEPT !.left = Tail(@), !.at = queues[taskRun.left[2]].first]
  /\ UNCHANGED <<queues, allocated, accepted, destruction, leaked>>

\* clean_schedule compacts all queues for which it gets memory, without a
\* destructor: the tasks of deleted items are forgotten.
clean_schedule ==
  /\ Unlocked /\ destruction = "no"
  /\ \E done \in IF QueueMayFail THEN SUBSET Phases ELSE {Phases} :
       /\ queues' = [p \in Phases |-> IF p \in done THEN prealloc_list_compact(queues[p])
                                      ELSE queues[p]]
       /\ leaked' = leaked \union UNION {DeferredValues(queues[p]) : p \in done}
  /\ UNCHANGED <<allocated, accepted, taskRun, destruction>>

\* destroy_task_schedule turns everyone away ...
destruction_pending ==
  /\ Unlocked /\ destruction = "no" /\ destruction' = "pending"
  /\ UNCHANGED <<queues, allocated, accepted, taskRun, leaked>>

\* ... unschedules what is left, item by item, and destroys the queues: what
\* deleted items still refer to is freed.
Emptied(l, chain) ==
  LET rest[k \in 0 .. Len(chain)] ==
        IF k = 0 THEN l ELSE prealloc_list_delete_item(rest[k - 1], chain[k])
  IN  rest
AllUnscheduled(l) == LET chain == Reached(l, l.first, "next") IN Emptied(l, chain)[Len(chain)]

destroy_task_schedule ==
  /\ destruction = "pending" /\ Unlocked
  /\ queues' = [p \in Phases |-> AllUnscheduled(queues[p])]
  /\ accepted' = {}
  /\ destruction' = IF \A p \in Phases : queues'[p].size = 0 THEN "done" ELSE "failed"
  /\ UNCHANGED <<allocated, taskRun, leaked>>

QueueNext ==
  \/ \E t \in Tasks, p \in Phases : schedule_task(t, p) \/ schedule_fails(t, p) \/ unschedule_task(t, p)
  \/ run_phase \/ run_post_processing \/ call_task \/ call_ending_task \/ next_queue
  \/ clean_schedule \/ destruction_pending \/ destroy_task_schedule

QueueSpec == QueueInit /\ [][QueueNext]_queueVars

-----------------------------------------------------------------------------
(* Properties. *)

Sequence == INSTANCE TaskSequence WITH queue <- [p \in Phases |-> Contents(queues[p])]

\* The queues with their links, deleted items, blocks and compactions behave as
\* plain sequences of tasks (prealloc_list_append, prealloc_list_delete_item,
\* prealloc_list_compact).
QueueIsSequence == Sequence!Spec

\* Every run calls each task that is scheduled when it begins, once and in
\* order, whatever its callbacks unschedule meanwhile (run_tasks): the tasks a
\* run still has to call are those it will find.  Read backwards the list is
\* the same one, and its size is right, also for the end of destruction, which
\* relies on it (destroy_task_schedule).
RunCallsEachTask ==
  /\ \A p \in Phases :
       LET l == queues[p]
           chain == Reached(l, l.first, "next")
           back == Reached(l, l.last, "prev")
       IN  /\ l.size = Len(chain) /\ Len(back) = Len(chain)
           /\ \A k \in DOMAIN chain : back[Len(chain) + 1 - k] = chain[k]
           /\ Len(l.items) <= l.blocks * BlockSize
  /\ ~Unlocked =>
       taskRun.due = ValuesFrom(Current, taskRun.at, "next")
                     \o (IF Len(taskRun.left) = 1 THEN << >> ELSE Contents(queues[taskRun.left[2]]))
  /\ destruction # "failed"
=============================================================================
