------------------------------- MODULE Session -------------------------------
(***************************************************************************)
(* One client session of the XPRC server: how requests, channels, commands *)
(* and scheduled tasks live and die under the plugin's four threads and    *)
(* four locks (server.c, session.c, channels.c, task_schedule.c, plugin.c  *)
(* and, for the command, command_drqv.c).                                  *)
(*                                                                         *)
(*   recv  the connection's receive thread: handle_request                 *)
(*   xp    X-Plane's main thread: the flight loop callbacks                *)
(*   post  the post-processing thread: tasks, server maintenance           *)
(*   net   the network maintenance thread: ends closing connections        *)
(*                                                                         *)
(* Locks are taken in the order flight loop, server, schedule, session.    *)
(* Payloads, timestamps and error wording are abstracted away; a message   *)
(* is what the client tells apart: does the channel go on, and does the    *)
(* message carry an ACK or ERR prefix.                                     *)
(***************************************************************************)
EXTENDS Integers, Sequences, SequencesExt, FiniteSets

CONSTANTS
  NumChannels,          \* channel ids 1 .. NumChannels, in table order
  MaxTimes,             \* bound: largest "times" option of a DRQV request
  MaintenanceInterval,  \* SERVER_MAINTENANCE_INTERVAL
  MaxInbox,             \* bound: requests on their way to the server
  MaxRequests,          \* bound: requests a client sends in one behaviour
  MayDisconnect,        \* the connection may be lost or closed at any time
  MaySendFail           \* send_to_network may refuse a message

ASSUME SessionAssumption ==
  /\ NumChannels \in Nat \ {0}
  /\ MaxTimes \in Nat \ {0}
  /\ MaintenanceInterval \in Nat \ {0}
  /\ MaxInbox \in Nat \ {0}
  /\ MaxRequests \in Nat
  /\ MayDisconnect \in BOOLEAN
  /\ MaySendFail \in BOOLEAN

VARIABLES
  flightLoop,  \* owner of flight_loop_mutex
  server,      \* owner of server->mutex
  schedule,    \* owner of task_schedule->mutex
  session,     \* [owner, depth] of session->mutex (recursive)
  life,        \* "live", "pending" (destruction_pending) or "freed"
  registered,  \* session is in server->sessions
  closing,     \* connection->closing
  chan,        \* channels table: id -> channel, or NoChannel
  cmd,         \* id -> the DRQV command of that channel, or NoCommand
  tasks,       \* the schedule's queue: ids of the commands' tasks, in order
  elapsed,     \* a millisecond has passed since the session's reference time
  recv,        \* receive thread: [pc, req, err]
  xp,          \* flight loop: [pc, todo]
  post,        \* post-processing: [pc, todo, cycles]
  net,         \* network maintenance: [pc, at]
  inbox,       \* requests the client has sent and recv has not read
  requests,    \* number of requests sent by the client
  view,        \* what the client knows of each channel
  caught,      \* history: channels destroy_session met without command_ref
  fault        \* a thread touched a session after it was freed

lockVars == <<flightLoop, server, schedule, session>>
sessionVars == <<life, registered, closing, chan, cmd, tasks>>
threadVars == <<recv, xp, post, net>>
clientVars == <<inbox, requests, view>>
vars == <<lockVars, sessionVars, elapsed, threadVars, clientVars, caught,
          fault>>

Channels == 1 .. NumChannels
Threads == {"recv", "xp", "post", "net"}
Free == "none"
Infinite == -1      \* INFINITE_REPETITION
NoChannel == [state |-> "none", doomed |-> FALSE]
NoCommand == [exists |-> FALSE, init |-> FALSE, failed |-> FALSE,
              fresh |-> FALSE, times |-> 0, task |-> FALSE, ref |-> FALSE]
NoRequest == [kind |-> "none", id |-> 0]
Requests == [kind : {"TERM", "DRQV", "instant", "invalid"}, id : Channels]
SendResults == IF MaySendFail THEN BOOLEAN ELSE {TRUE}

Init ==
  /\ flightLoop = Free /\ server = Free /\ schedule = Free
  /\ session = [owner |-> Free, depth |-> 0]
  /\ life = "live" /\ registered = TRUE /\ closing = FALSE
  /\ chan = [c \in Channels |-> NoChannel]
  /\ cmd = [c \in Channels |-> NoCommand]
  /\ tasks = << >>
  /\ elapsed \in BOOLEAN
  /\ recv = [pc |-> "idle", req |-> NoRequest, err |-> "none"]
  /\ xp = [pc |-> "frame", todo |-> << >>]
  /\ post = [pc |-> "wait", todo |-> << >>, cycles |-> MaintenanceInterval]
  /\ net = [pc |-> "watch", at |-> 0]
  /\ inbox = << >> /\ requests = 0
  /\ view = [c \in Channels |-> "closed"]
  /\ caught = {} /\ fault = FALSE

-----------------------------------------------------------------------------
(* Channel messages.  A channel end is [state, view, err]: the server's     *)
(* state of the channel, the client's view of it, the result of the call.   *)

\* The client's side: a request is answered by ACK or ERR, an open channel
\* goes on until a message ends it, and a closed channel must stay silent.
ClientSees(v, continues, prefixed) ==
  IF v = "open" \/ (v = "requested" /\ prefixed)
  THEN IF continues THEN "open" ELSE "closed"
  ELSE "confused"

End(c) == [state |-> chan[c].state, view |-> view[c], err |-> "none"]

\* MUTANT of Rejected: a closed channel is not checked for.
RejectedOpen(e, action) ==
  \/ e.state = "CONFIRMED" /\ action \in {"ACK_CONTINUE", "ACK_CLOSE"}
  \/ e.state = "INITIAL" /\ action = "CONTINUE"

\* What send_channel refuses (SESSION_ERROR_INVALID_CHANNEL_STATE).
Rejected(e, action) ==
  \/ e.state = "CLOSED"
  \/ e.state = "CONFIRMED" /\ action \in {"ACK_CONTINUE", "ACK_CLOSE"}
  \/ e.state = "INITIAL" /\ action = "CONTINUE"

\* The state moves on even if the network refused the message.
send_channel(e, action, payload, sent) ==
  LET continues == action \in {"CONTINUE", "ACK_CONTINUE"}
      prefixed == ~payload \/ e.state = "INITIAL" \/ action = "ERR"
  IN  IF Rejected(e, action)
      THEN [e EXCEPT !.err = "invalid"]
      ELSE [state |-> IF continues THEN "CONFIRMED" ELSE "CLOSED",
            view |-> IF sent THEN ClientSees(e.view, continues, prefixed)
                             ELSE e.view,
            err |-> IF sent THEN "none" ELSE "failed"]

\* The four calls take and release the session lock.  They fail without effect
\* while destruction is pending and on a channel that is not in the table.
Guarded(e, result) ==
  IF life # "live" \/ e.state = "none" THEN [e EXCEPT !.err = "failed"]
                                       ELSE result

error_channel(e, sent) == Guarded(e, send_channel(e, "ERR", TRUE, sent))

\* A failed send is followed by an attempt to send an error.
OrError(e, sent) ==
  IF e.err = "none" THEN e ELSE [error_channel(e, sent) EXCEPT !.err = e.err]

confirm_channel(e, s1, s2) ==
  Guarded(e, OrError(send_channel(e, "ACK_CONTINUE", FALSE, s1), s2))

continue_channel(e, s1, s2) ==
  Guarded(e, OrError(send_channel(e, "CONTINUE", TRUE, s1), s2))

finish_channel(e, payload, s1, s2) ==
  LET action == IF e.state = "INITIAL" THEN "ACK_CLOSE" ELSE "CLOSE"
  IN  Guarded(e, OrError(send_channel(e, action, payload, s1), s2))

\* The early return for a channel that is not in the table keeps the lock.
AfterCall(t, c) ==
  IF life = "live" /\ chan[c] = NoChannel
  THEN [owner |-> t, depth |-> session.depth + 1]
  ELSE session

\* lock_session by t: returns at once if destruction is pending, otherwise it
\* needs the mutex, which its owner may take again.
SessionLockReturns(t) == life = "pending" \/ session.owner \in {Free, t}

Released(lock) ==
  IF lock.depth <= 1 THEN [owner |-> Free, depth |-> 0]
                     ELSE [lock EXCEPT !.depth = @ - 1]

\* Store what a call left of channel c.
Store(c, e) ==
  /\ view' = [view EXCEPT ![c] = e.view]
  /\ chan' = [chan EXCEPT ![c].state = e.state]

-----------------------------------------------------------------------------
(* The DRQV command (command_drqv.c). *)

\* unschedule_task: the task's item leaves the queue.
Unscheduled(c) ==
  LET item == CHOOSE i \in 1 .. Len(tasks) : tasks[i] = c
  IN  IF c \in Range(tasks) THEN RemoveAt(tasks, item) ELSE tasks

\* MUTANT of request_channel_destruction: the request is lost.
DestructionForgotten(state) == [state |-> state, doomed |-> FALSE]

request_channel_destruction(state) == [state |-> state, doomed |-> TRUE]

\* The channel may have been closed before; the error is ignored.
CloseOnTerminate(e, s1, s2) == finish_channel(e, FALSE, s1, s2)

\* drqv_terminate by a thread that holds the schedule lock: close the channel
\* if it is open, drop the task, ask for the channel's destruction.
drqv_terminate(t, c, before, s1, s2) ==
  LET e == CloseOnTerminate(before, s1, s2)
  IN  /\ view' = [view EXCEPT ![c] = e.view]
      /\ chan' = [chan EXCEPT ![c] = request_channel_destruction(e.state)]
      /\ cmd' = [cmd EXCEPT ![c].task = FALSE]
      /\ tasks' = Unscheduled(c)
      /\ session' = AfterCall(t, c)

\* MUTANT of Sampled: repetitions are not counted.
SampledUncounted(k) == [k EXCEPT !.fresh = elapsed]

\* One sample: reset the timer, count the repetition, timestamp the data.
Sampled(k) ==
  CASE k.times > 0        -> [k EXCEPT !.times = @ - 1, !.fresh = elapsed]
    [] k.times = Infinite -> [k EXCEPT !.fresh = elapsed]
    [] OTHER              -> k

\* drqv_process_flightloop: found = all datarefs exist, due = the interval has
\* passed, read = X-Plane delivered consistent data.
drqv_process_flightloop(c, found, due, read, s1, s2) ==
  LET k == cmd[c]
      confirmed == IF k.init THEN End(c) ELSE confirm_channel(End(c), s1, s2)
      sampling == ~k.init \/ due
      counted == k.times # 0
      started == [k EXCEPT !.init = TRUE]
  IN  IF k.failed \/ life # "live"
      THEN UNCHANGED <<view, chan, cmd, session>>
      ELSE IF ~k.init /\ ~found
      THEN /\ Store(c, error_channel(End(c), s1))
           /\ cmd' = [cmd EXCEPT ![c].failed = TRUE]
           /\ session' = AfterCall("xp", c)
      ELSE IF sampling /\ counted /\ ~read
      THEN /\ Store(c, error_channel(confirmed, s2))
           /\ cmd' = [cmd EXCEPT ![c] = [Sampled(started) EXCEPT !.failed = TRUE]]
           /\ session' = AfterCall("xp", c)
      ELSE /\ Store(c, confirmed)
           /\ cmd' = [cmd EXCEPT ![c] = IF sampling THEN Sampled(started) ELSE k]
           /\ session' = IF k.init THEN session ELSE AfterCall("xp", c)

\* drqv_process_post: encoded = the values could be encoded.
drqv_process_post(c, encoded, s1, s2) ==
  LET k == cmd[c]
      e == continue_channel(End(c), s1, s2)
  IN  \/ /\ k.failed
         /\ drqv_terminate("post", c, End(c), s1, s2)
      \/ /\ ~k.failed
         /\ ~k.init \/ ~k.fresh
         /\ UNCHANGED <<view, chan, cmd, tasks, session>>
      \/ /\ ~k.failed /\ k.init /\ k.fresh
         /\ ~encoded
         /\ Store(c, error_channel(End(c), s1))
         /\ cmd' = [cmd EXCEPT ![c].failed = TRUE]
         /\ session' = AfterCall("post", c)
         /\ UNCHANGED tasks
      \/ /\ ~k.failed /\ k.init /\ k.fresh
         /\ encoded
         /\ k.times # 0
         /\ Store(c, IF e.err = "none" THEN e ELSE error_channel(e, s2))
         /\ cmd' = [cmd EXCEPT ![c].fresh = FALSE,
                               ![c].failed = (e.err # "none")]
         /\ session' = AfterCall("post", c)
         /\ UNCHANGED tasks
      \/ /\ ~k.failed /\ k.init /\ k.fresh
         /\ encoded
         /\ k.times = 0
         /\ drqv_terminate("post", c, finish_channel(End(c), TRUE, s1, s2), s1, s2)

-----------------------------------------------------------------------------
(* Memory.  A session or channel that is gone must not be used any more;    *)
(* what happens otherwise is undefined, so the model stops there.           *)

\* destroy_session_channel has met the channel recv is working on: without a
\* command_ref it frees the channel unless its command, called with NULL, is
\* one that reports an error; then the channel is leaked.
ChannelFreed ==
  /\ chan[recv.req.id] = NoChannel
  /\ \/ recv.pc = "create"
     \/ recv.pc = "settle" /\ recv.err # "failed" /\ ~cmd[recv.req.id].exists

TaskGone(todo) == todo # << >> /\ (life = "freed" \/ ~cmd[Head(todo)].exists)

UseAfterFree ==
  /\ ~fault
  /\ \/ recv.pc \notin {"idle", "exited"} /\ (life = "freed" \/ ChannelFreed)
     \/ xp.pc = "run" /\ TaskGone(xp.todo)
     \/ post.pc = "run" /\ TaskGone(post.todo)
  /\ fault' = TRUE
  /\ UNCHANGED <<lockVars, sessionVars, elapsed, threadVars, clientVars,
                 caught>>

-----------------------------------------------------------------------------
(* recv: run_receive_thread, on_line_received, handle_request. *)

RecvAt(pc) == recv.pc = pc /\ life # "freed" /\ ~ChannelFreed

RecvGo(pc) == recv' = [recv EXCEPT !.pc = pc]

\* A complete line arrives and is a well-formed request.
ReceiveLine ==
  /\ recv.pc = "idle"
  /\ ~closing
  /\ inbox # << >>
  /\ recv' = [pc |-> "line", req |-> Head(inbox), err |-> "none"]
  /\ inbox' = Tail(inbox)
  /\ UNCHANGED <<lockVars, sessionVars, elapsed, xp, post, net, requests, view,
                 caught, fault>>

\* handle_request locks the schedule first ...
RecvLockSchedule ==
  /\ RecvAt("line")
  /\ schedule = Free
  /\ schedule' = "recv"
  /\ RecvGo("locked")
  /\ UNCHANGED <<flightLoop, server, session, sessionVars, elapsed, xp, post,
                 net, clientVars, caught, fault>>

\* ... and then the session.
RecvLockSession ==
  /\ RecvAt("locked")
  /\ life = "live"
  /\ session.owner = Free
  /\ session' = [owner |-> "recv", depth |-> 1]
  /\ RecvGo("handle")
  /\ UNCHANGED <<flightLoop, server, schedule, sessionVars, elapsed, xp, post,
                 net, clientVars, caught, fault>>

\* If the session is being destroyed, handle_request closes the connection and
\* returns; the schedule stays locked.
RecvSessionGone ==
  /\ RecvAt("locked")
  /\ life = "pending"
  /\ closing' = TRUE
  /\ RecvGo("idle")
  /\ UNCHANGED <<lockVars, life, registered, chan, cmd, tasks, elapsed, xp,
                 post, net, clientVars, caught, fault>>

\* MUTANT of HandleTermination: the result of the lookup is not tested.
HandleTerminationUnfound ==
  LET c == recv.req.id
  IN  /\ RecvAt("handle")
      /\ recv.req.kind = "TERM"
      /\ \E s1, s2 \in SendResults :
           IF chan[c].state = "CLOSED" \/ chan[c].doomed
           THEN /\ closing' = (closing \/ ~s1)
                /\ UNCHANGED <<view, chan, cmd, tasks, session>>
           ELSE /\ drqv_terminate("recv", c, End(c), s1, s2)
                /\ UNCHANGED closing
      /\ RecvGo("unlock")
      /\ UNCHANGED <<flightLoop, server, schedule, life, registered, elapsed,
                     xp, post, net, inbox, requests, caught, fault>>

\* handle_termination_request; a reply that is refused closes the connection.
HandleTermination ==
  LET c == recv.req.id
  IN  /\ RecvAt("handle")
      /\ recv.req.kind = "TERM"
      /\ \E s1, s2 \in SendResults :
           IF chan[c].state \in {"none", "CLOSED"} \/ chan[c].doomed
           THEN /\ closing' = (closing \/ ~s1)
                /\ UNCHANGED <<view, chan, cmd, tasks, session>>
           ELSE /\ drqv_terminate("recv", c, End(c), s1, s2)
                /\ UNCHANGED closing
      /\ RecvGo("unlock")
      /\ UNCHANGED <<flightLoop, server, schedule, life, registered, elapsed,
                     xp, post, net, inbox, requests, caught, fault>>

\* destroy_channels_table has begun: the table refuses new channels.
TableDying == net.pc \notin {"watch", "pend", "table"}

\* handle_command_request up to put_channel: the id must be unused.
RegisterChannel ==
  LET c == recv.req.id
      refused == chan[c] # NoChannel \/ TableDying
  IN  /\ RecvAt("handle")
      /\ recv.req.kind # "TERM"
      /\ \E sent \in SendResults :
           IF refused
           THEN /\ view' = IF sent
                           THEN [view EXCEPT ![c] = ClientSees(@, FALSE, TRUE)]
                           ELSE view
                /\ closing' = (closing \/ ~sent)
                /\ RecvGo("unlock")
                /\ UNCHANGED chan
           ELSE /\ chan' = [chan EXCEPT ![c] =
                              [state |-> "INITIAL", doomed |-> FALSE]]
                /\ RecvGo("create")
                /\ UNCHANGED <<view, closing>>
      /\ UNCHANGED <<lockVars, life, registered, cmd, tasks, elapsed, xp, post,
                     net, inbox, requests, caught, fault>>

\* create_command finds the command and notes it in the channel; a request for
\* an unknown one is refused without it.
LookUpCommand ==
  /\ RecvAt("create")
  /\ \/ RecvGo("check")
     \/ /\ recv.req.kind = "invalid"
        /\ recv' = [recv EXCEPT !.pc = "settle", !.err = "unknown"]
  /\ UNCHANGED <<lockVars, sessionVars, elapsed, xp, post, net, clientVars,
                 caught, fault>>

\* The command rejects the request, with or without having told the client, or
\* it is an instant one, which may have answered.  A session that is being
\* destroyed has no time any more, so that DRQV rejects as well.
CreateWithoutTask ==
  LET c == recv.req.id
  IN  /\ RecvAt("check")
      /\ recv.req.kind # "DRQV" \/ life # "live"
      /\ \E told \in BOOLEAN, s1, s2 \in SendResults :
           Store(c, IF ~told THEN End(c)
                    ELSE IF recv.req.kind = "instant"
                         THEN finish_channel(End(c), TRUE, s1, s2)
                    ELSE error_channel(End(c), s1))
      /\ recv' = [recv EXCEPT !.pc = "settle",
                    !.err = IF recv.req.kind = "instant" THEN "none" ELSE "failed"]
      /\ UNCHANGED <<lockVars, life, registered, closing, cmd, tasks, elapsed,
                     xp, post, net, inbox, requests, caught, fault>>

\* drqv_create begins while the session is live ...
BeginDrqv ==
  /\ RecvAt("check")
  /\ recv.req.kind = "DRQV"
  /\ life = "live"
  /\ RecvGo("schedule")
  /\ UNCHANGED <<lockVars, sessionVars, elapsed, xp, post, net, clientVars,
                 caught, fault>>

\* MUTANT of Scheduled: the task never enters the queue.
NotScheduled(c) == tasks

\* schedule_task
Scheduled(c) == Append(tasks, c)

\* ... schedules the task, whatever has become of the session meanwhile ...
ScheduleDrqv ==
  LET c == recv.req.id
  IN  /\ RecvAt("schedule")
      /\ \E times \in (1 .. MaxTimes) \cup {Infinite} :
           cmd' = [cmd EXCEPT ![c] =
                     [NoCommand EXCEPT !.exists = TRUE, !.task = TRUE,
                                       !.times = times]]
      /\ tasks' = Scheduled(c)
      /\ RecvGo("store")
      /\ UNCHANGED <<lockVars, life, registered, closing, chan, elapsed, xp,
                     post, net, clientVars, caught, fault>>

\* ... and only then hands the command to the channel.
StoreCommand ==
  /\ RecvAt("store")
  /\ cmd' = [cmd EXCEPT ![recv.req.id].ref = TRUE]
  /\ RecvGo("settle")
  /\ UNCHANGED <<lockVars, life, registered, closing, chan, tasks, elapsed, xp,
                 post, net, clientVars, caught, fault>>

\* The end of handle_command_request.  A channel that has no command is closed
\* towards the client and taken out of the table.
SettleChannel ==
  LET c == recv.req.id
  IN  /\ RecvAt("settle")
      /\ \/ /\ cmd[c].exists
            /\ UNCHANGED <<view, chan, closing>>
         \/ /\ ~cmd[c].exists
            /\ \E s1, s2 \in SendResults :
                 LET e == IF recv.err = "none"
                          THEN finish_channel(End(c), FALSE, s1, s2)
                          ELSE error_channel(End(c), s1)
                 IN  /\ view' = [view EXCEPT ![c] = e.view]
                     /\ IF e.err = "failed"
                        THEN /\ closing' = TRUE
                             /\ chan' = [chan EXCEPT ![c].state = e.state]
                        ELSE /\ chan' = [chan EXCEPT ![c] = NoChannel]
                             /\ UNCHANGED closing
      /\ RecvGo("unlock")
      /\ UNCHANGED <<lockVars, life, registered, cmd, tasks, elapsed, xp, post,
                     net, inbox, requests, caught, fault>>

\* MUTANT of RecvUnlock: only the session is unlocked.
RecvUnlockSessionOnly ==
  /\ RecvAt("unlock")
  /\ session' = Released(session)
  /\ RecvGo("idle")
  /\ UNCHANGED <<flightLoop, server, schedule, sessionVars, elapsed, xp, post,
                 net, clientVars, caught, fault>>

RecvUnlock ==
  /\ RecvAt("unlock")
  /\ session' = Released(session)
  /\ schedule' = Free
  /\ RecvGo("idle")
  /\ UNCHANGED <<flightLoop, server, sessionVars, elapsed, xp, post, net,
                 clientVars, caught, fault>>

\* The receive thread leaves its loop once the connection is closing.
RecvExit ==
  /\ recv.pc = "idle"
  /\ closing
  /\ RecvGo("exited")
  /\ UNCHANGED <<lockVars, sessionVars, elapsed, xp, post, net, clientVars,
                 caught, fault>>

-----------------------------------------------------------------------------
(* xp: the flight loop callbacks; one queue stands for both phases. *)

FrameBegin ==
  /\ xp.pc = "frame"
  /\ flightLoop = Free
  /\ flightLoop' = "xp"
  /\ xp' = [xp EXCEPT !.pc = "want"]
  /\ UNCHANGED <<server, schedule, session, sessionVars, elapsed, recv, post,
                 net, clientVars, caught, fault>>

\* run_tasks
XpLockSchedule ==
  /\ xp.pc = "want"
  /\ schedule = Free
  /\ schedule' = "xp"
  /\ xp' = [pc |-> "run", todo |-> tasks]
  /\ UNCHANGED <<flightLoop, server, session, sessionVars, elapsed, recv, post,
                 net, clientVars, caught, fault>>

XpTask(due) ==
  /\ xp.pc = "run"
  /\ xp.todo # << >>
  /\ ~TaskGone(xp.todo)
  /\ SessionLockReturns("xp")
  /\ \E found, read \in BOOLEAN, s1, s2 \in SendResults :
       drqv_process_flightloop(Head(xp.todo), found, due, read, s1, s2)
  /\ xp' = [xp EXCEPT !.todo = Tail(@)]
  /\ UNCHANGED <<flightLoop, server, schedule, life, registered, closing,
                 tasks, elapsed, recv, post, net, inbox, requests, caught,
                 fault>>

XpUnlockSchedule ==
  /\ xp.pc = "run"
  /\ xp.todo = << >>
  /\ schedule' = Free
  /\ xp' = [xp EXCEPT !.pc = "end"]
  /\ UNCHANGED <<flightLoop, server, session, sessionVars, elapsed, recv, post,
                 net, clientVars, caught, fault>>

\* cnd_broadcast wakes post-processing if it waits; then the lock is released.
FrameEnd ==
  /\ xp.pc = "end"
  /\ flightLoop' = Free
  /\ xp' = [xp EXCEPT !.pc = "frame"]
  /\ post' = [post EXCEPT !.pc = IF @ = "wait" THEN "woken" ELSE @]
  /\ UNCHANGED <<server, schedule, session, sessionVars, elapsed, recv, net,
                 clientVars, caught, fault>>

-----------------------------------------------------------------------------
(* post: run_post_processing_thread *)

PostWake ==
  /\ post.pc = "woken"
  /\ flightLoop = Free
  /\ flightLoop' = "post"
  /\ post' = [post EXCEPT !.pc = "want"]
  /\ UNCHANGED <<server, schedule, session, sessionVars, elapsed, recv, xp,
                 net, clientVars, caught, fault>>

\* run_tasks_post_processing
PostLockSchedule ==
  /\ post.pc = "want"
  /\ schedule = Free
  /\ schedule' = "post"
  /\ post' = [post EXCEPT !.pc = "run", !.todo = tasks]
  /\ UNCHANGED <<flightLoop, server, session, sessionVars, elapsed, recv, xp,
                 net, clientVars, caught, fault>>

PostTask ==
  /\ post.pc = "run"
  /\ post.todo # << >>
  /\ ~TaskGone(post.todo)
  /\ SessionLockReturns("post")
  /\ \E encoded \in BOOLEAN, s1, s2 \in SendResults :
       drqv_process_post(Head(post.todo), encoded, s1, s2)
  /\ post' = [post EXCEPT !.todo = Tail(@)]
  /\ UNCHANGED <<flightLoop, server, schedule, life, registered, closing,
                 elapsed, recv, xp, net, inbox, requests, caught, fault>>

\* cycles_until_server_maintenance, decremented and reset.
CyclesLeft == IF post.cycles <= 1 THEN MaintenanceInterval ELSE post.cycles - 1

\* Unlock the schedule; every MaintenanceInterval cycles maintain the server,
\* otherwise wait for the next frame (cnd_wait releases the flight loop).
PostUnlockSchedule ==
  LET due == post.cycles <= 1
  IN  /\ post.pc = "run"
      /\ post.todo = << >>
      /\ schedule' = Free
      /\ post' = [pc |-> IF due THEN "maintain" ELSE "wait", todo |-> << >>,
                  cycles |-> CyclesLeft]
      /\ flightLoop' = IF due THEN flightLoop ELSE Free
      /\ UNCHANGED <<server, session, sessionVars, elapsed, recv, xp, net,
                     clientVars, caught, fault>>

\* maintain_server takes the server's mutex ...
PostLockServer ==
  /\ post.pc = "maintain"
  /\ server = Free
  /\ server' = "post"
  /\ post' = [post EXCEPT !.pc = "sessions"]
  /\ UNCHANGED <<flightLoop, schedule, session, sessionVars, elapsed, recv, xp,
                 net, clientVars, caught, fault>>

\* destroy_pending_channels: destroy the command, pop the channel.
Swept(table, commands) ==
  [chan |-> [c \in Channels |-> IF table[c].doomed THEN NoChannel ELSE table[c]],
   cmd |-> [c \in Channels |-> IF table[c].doomed THEN NoCommand ELSE commands[c]]]

\* ... locks each registered session and sweeps it.
PostMaintainSession ==
  /\ post.pc = "sessions"
  /\ registered => SessionLockReturns("post")
  /\ LET swept == Swept(chan, cmd)
     IN  IF registered /\ life = "live"
         THEN chan' = swept.chan /\ cmd' = swept.cmd
         ELSE UNCHANGED <<chan, cmd>>
  /\ server' = Free
  /\ flightLoop' = Free
  /\ post' = [post EXCEPT !.pc = "wait"]
  /\ UNCHANGED <<schedule, session, life, registered, closing, tasks, elapsed,
                 recv, xp, net, clientVars, caught, fault>>

-----------------------------------------------------------------------------
(* net: shutdown_network_connection for a closing connection. *)

\* on_connection_closing unregisters the session ...
NetUnregister ==
  /\ net.pc = "watch"
  /\ closing
  /\ server = Free
  /\ registered' = FALSE
  /\ net' = [net EXCEPT !.pc = "pend"]
  /\ UNCHANGED <<lockVars, life, closing, chan, cmd, tasks, elapsed, recv, xp,
                 post, clientVars, caught, fault>>

\* ... and destroy_session marks it; its lock_session fails at once.
NetPend ==
  /\ net.pc = "pend"
  /\ life' = "pending"
  /\ net' = [net EXCEPT !.pc = "table"]
  /\ UNCHANGED <<lockVars, registered, closing, chan, cmd, tasks, elapsed,
                 recv, xp, post, clientVars, caught, fault>>

NetBeginSweep ==
  /\ net.pc = "table"
  /\ net' = [pc |-> "sweep", at |-> 1]
  /\ UNCHANGED <<lockVars, sessionVars, elapsed, recv, xp, post, clientVars,
                 caught, fault>>

\* MUTANT of MustTerminate: the command is destroyed without termination.
NeverTerminate(c) == FALSE

MustTerminate(c) == cmd[c].ref /\ cmd[c].task /\ ~chan[c].doomed

\* destroy_session_channel for the next slot.  A command that still has a task
\* must be terminated, which needs the schedule; called with NULL, terminate
\* does nothing.
NetVisit ==
  LET c == net.at
  IN  /\ net.pc = "sweep"
      /\ c \in Channels
      /\ net' = IF chan[c] = NoChannel THEN [net EXCEPT !.at = @ + 1]
                ELSE [net EXCEPT !.pc = IF MustTerminate(c) THEN "unschedule"
                                                            ELSE "destroy"]
      /\ caught' = IF chan[c] = NoChannel \/ cmd[c].ref THEN caught
                                                        ELSE caught \cup {c}
      /\ UNCHANGED <<lockVars, sessionVars, elapsed, recv, xp, post,
                     clientVars, fault>>

\* The schedule lock is available: drop the task unless post-processing did so
\* in the meantime.
NetUnschedule ==
  /\ net.pc = "unschedule"
  /\ schedule = Free
  /\ tasks' = Unscheduled(net.at)
  /\ cmd' = [cmd EXCEPT ![net.at].task = FALSE]
  /\ net' = [net EXCEPT !.pc = "destroy"]
  /\ UNCHANGED <<lockVars, life, registered, closing, chan, elapsed, recv, xp,
                 post, clientVars, caught, fault>>

\* Destroy command and channel; command_ref is read again.
NetDestroy ==
  LET c == net.at
  IN  /\ net.pc = "destroy"
      /\ chan' = [chan EXCEPT ![c] = NoChannel]
      /\ cmd' = [cmd EXCEPT ![c] = IF @.ref THEN NoCommand ELSE @]
      /\ net' = [pc |-> "sweep", at |-> c + 1]
      /\ UNCHANGED <<lockVars, life, registered, closing, tasks, elapsed, recv,
                     xp, post, clientVars, caught, fault>>

NetFree ==
  /\ net.pc = "sweep"
  /\ net.at \notin Channels
  /\ life' = "freed"
  /\ net' = [net EXCEPT !.pc = "join"]
  /\ UNCHANGED <<lockVars, registered, closing, chan, cmd, tasks, elapsed,
                 recv, xp, post, clientVars, caught, fault>>

\* Only now the receive thread is joined.
NetJoin ==
  /\ net.pc = "join"
  /\ recv.pc = "exited"
  /\ net' = [net EXCEPT !.pc = "done"]
  /\ UNCHANGED <<lockVars, sessionVars, elapsed, recv, xp, post, clientVars,
                 caught, fault>>

-----------------------------------------------------------------------------
(* The client and the clock. *)

\* A client asks for a command on a channel it knows to be closed, and may
\* terminate a channel it has opened.
ClientRequest(r) ==
  /\ ~closing
  /\ requests < MaxRequests
  /\ Len(inbox) < MaxInbox
  /\ view[r.id] = IF r.kind = "TERM" THEN "open" ELSE "closed"
  /\ view' = IF r.kind = "TERM" THEN view
                                ELSE [view EXCEPT ![r.id] = "requested"]
  /\ inbox' = Append(inbox, r)
  /\ requests' = requests + 1
  /\ UNCHANGED <<lockVars, sessionVars, elapsed, threadVars, caught, fault>>

\* The peer goes away, sending fails or the server is stopped.
Disconnect ==
  /\ MayDisconnect
  /\ ~closing
  /\ closing' = TRUE
  /\ UNCHANGED <<lockVars, life, registered, chan, cmd, tasks, elapsed,
                 threadVars, clientVars, caught, fault>>

Tick ==
  /\ ~elapsed
  /\ elapsed' = TRUE
  /\ UNCHANGED <<lockVars, sessionVars, threadVars, clientVars, caught, fault>>

RecvNext ==
  \/ ReceiveLine \/ RecvLockSchedule \/ RecvLockSession \/ RecvSessionGone
  \/ HandleTermination \/ RegisterChannel \/ LookUpCommand
  \/ CreateWithoutTask \/ BeginDrqv \/ ScheduleDrqv \/ StoreCommand
  \/ SettleChannel \/ RecvUnlock \/ RecvExit

XpNext ==
  \/ FrameBegin \/ XpLockSchedule \/ \E due \in BOOLEAN : XpTask(due)
  \/ XpUnlockSchedule \/ FrameEnd

PostNext ==
  \/ PostWake \/ PostLockSchedule \/ PostTask \/ PostUnlockSchedule
  \/ PostLockServer \/ PostMaintainSession

NetNext ==
  \/ NetUnregister \/ NetPend \/ NetBeginSweep \/ NetVisit \/ NetUnschedule
  \/ NetDestroy \/ NetFree \/ NetJoin

Next ==
  \/ RecvNext \/ XpNext \/ PostNext \/ NetNext \/ UseAfterFree
  \/ \E r \in Requests : ClientRequest(r)
  \/ Disconnect \/ Tick

Spec == Init /\ [][Next]_vars

-----------------------------------------------------------------------------
ChannelRecords == [state : {"none", "INITIAL", "CONFIRMED", "CLOSED"},
                   doomed : BOOLEAN]
CommandRecords == [exists : BOOLEAN, init : BOOLEAN, failed : BOOLEAN,
                   fresh : BOOLEAN, times : Int, task : BOOLEAN,
                   ref : BOOLEAN]
RecvStates ==
  [pc : {"idle", "line", "locked", "handle", "create", "check", "schedule",
         "store", "settle", "unlock", "exited"},
   req : Requests \cup {NoRequest}, err : {"none", "failed", "unknown"}]
XpStates == [pc : {"frame", "want", "run", "end"}, todo : Seq(Channels)]
PostStates ==
  [pc : {"wait", "woken", "want", "run", "maintain", "sessions"},
   todo : Seq(Channels), cycles : 1 .. MaintenanceInterval]
NetStates ==
  [pc : {"watch", "pend", "table", "sweep", "unschedule", "destroy", "join",
         "done"},
   at : Nat]
Views == {"closed", "requested", "open", "confused"}

TypeOK ==
  /\ flightLoop \in {Free, "xp", "post"}
  /\ server \in {Free, "post"}
  /\ schedule \in {Free, "recv", "xp", "post"}
  /\ session \in [owner : Threads \cup {Free}, depth : Nat]
  /\ life \in {"live", "pending", "freed"}
  /\ registered \in BOOLEAN /\ closing \in BOOLEAN /\ elapsed \in BOOLEAN
  /\ chan \in [Channels -> ChannelRecords]
  /\ cmd \in [Channels -> CommandRecords]
  /\ tasks \in Seq(Channels)
  /\ recv \in RecvStates /\ xp \in XpStates
  /\ post \in PostStates /\ net \in NetStates
  /\ inbox \in Seq(Requests) /\ requests \in Nat
  /\ view \in [Channels -> Views]
  /\ caught \in SUBSET Channels /\ fault \in BOOLEAN

-----------------------------------------------------------------------------
(* Correctness. *)

\* Every thread keeps running; a mutex that is released again and again is not
\* withheld from one of its waiters for ever (strong fairness of the steps that
\* take one); an interval of a DRQV command comes to its end.
Fairness ==
  /\ WF_vars(RecvNext) /\ WF_vars(XpNext) /\ WF_vars(PostNext)
  /\ WF_vars(NetNext) /\ WF_vars(Tick) /\ WF_vars(UseAfterFree)
  /\ SF_vars(RecvLockSchedule) /\ SF_vars(PostWake)
  /\ SF_vars(NetUnregister) /\ SF_vars(NetUnschedule)
  /\ SF_vars(XpTask(TRUE))

FairSpec == Spec /\ Fairness

Protocol == INSTANCE ChannelProtocol
              WITH busy <- {c \in Channels : chan[c] # NoChannel}

\* Whatever the four threads do, the messages on a channel follow the protocol:
\* one ACK or ERR answers a request, nothing follows a closing message, and an
\* id is released only when the client knows the channel is closed (session.c,
\* handle_command_request, destroy_pending_channels).
FollowsChannelProtocol == Protocol!Spec

\* A scheduled task refers to a command, channel and session that still exist,
\* so run_tasks never calls into freed memory: not when maintenance sweeps a
\* terminated channel, and not when destroy_session meets a command that post-
\* processing is terminating.  Excepted are the channels in `caught', which
\* destroy_session met before drqv_create had stored its command (session.c:363
\* against command_drqv.c:581-595): there the task stays, see the README.
TaskOwnerExists ==
  \A c \in Range(tasks) \ caught :
    cmd[c].exists /\ cmd[c].task /\ chan[c] # NoChannel /\ life # "freed"

\* confirm/continue/finish/error_channel keep the session lock when they do not
\* find the channel; no command may get there, or the session is locked for
\* good (session.c).
SessionLockBalanced ==
  /\ session.owner # Free => session.owner = "recv" /\ session.depth = 1
  /\ session.owner = "recv" =>
       recv.pc \in {"handle", "create", "check", "schedule", "store", "settle",
                    "unlock"}

\* Every request is answered (handle_request and the threads behind it).
RequestAnswered ==
  \A c \in Channels :
    (view[c] = "requested") ~> (view[c] # "requested" \/ closing)

\* A channel the server has closed is destroyed by maintenance, so that the
\* client can use its id again.
ClosedChannelReleased ==
  \A c \in Channels : (chan[c].state = "CLOSED") ~> (chan[c] = NoChannel \/ fault)

\* The flight loop, X-Plane's main thread, always gets the schedule lock, as
\* long as no connection is lost (see the README for what happens then).
FlightLoopProceeds == (xp.pc = "want") ~> (xp.pc # "want" \/ fault)

Ended(c) == chan[c].state \notin {"INITIAL", "CONFIRMED"} \/ closing

\* Channels do not stay open for ever: TERM closes the channel it names
\* (handle_termination_request), and a DRQV request with a number of times
\* delivers its data and ends, even if post-processing misses frames
\* (drqv_process_flightloop, drqv_process_post).
ChannelEnds ==
  \A c \in Channels :
    /\ (view[c] = "open" /\ [kind |-> "TERM", id |-> c] \in Range(inbox))
         ~> (view[c] = "closed" \/ closing)
    /\ (elapsed /\ cmd[c].exists /\ ~cmd[c].init /\ cmd[c].times # Infinite)
         ~> Ended(c)

\* No thread uses a session or channel after destroy_session freed it: the
\* comment in destroy_session says all threads have noticed by then.
NoUseAfterFree == ~fault
=============================================================================
