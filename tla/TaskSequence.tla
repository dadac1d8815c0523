---------------------------- MODULE TaskSequence ----------------------------
(***************************************************************************)
(* What a task queue promises: tasks run in the order in which they were   *)
(* scheduled; one that is removed leaves the order of the others alone,    *)
(* and nothing else changes the queue.                                     *)
(***************************************************************************)
EXTENDS Integers, Sequences

CONSTANTS Tasks, Phases

VARIABLES
  queue,    \* phase -> sequence of tasks
  accepted  \* tasks the queue has promised to run

Init == queue = [p \in Phases |-> << >>] /\ accepted = {}

Without(q, i) == [k \in 1 .. Len(q) - 1 |-> IF k < i THEN q[k] ELSE q[k + 1]]

Schedule(t, p) ==
  /\ t \notin accepted /\ accepted' = accepted \union {t}
  /\ queue' = [queue EXCEPT ![p] = Append(@, t)]

Unschedule(t, p) ==
  /\ t \in accepted /\ accepted' = accepted \ {t}
  /\ \E i \in DOMAIN queue[p] :
       queue[p][i] = t /\ queue' = [queue EXCEPT ![p] = Without(@, i)]

\* The schedule is destroyed with all its tasks.
Destroy == queue' = [p \in Phases |-> << >>] /\ accepted' = {}

Next == Destroy \/ \E t \in Tasks, p \in Phases : Schedule(t, p) \/ Unschedule(t, p)

Spec == Init /\ [][Next]_<<queue, accepted>>
=============================================================================
