--------------------------- MODULE CommandRegistry ---------------------------
(***************************************************************************)
(* X-Plane commands that a client provides (CMRG) and the registry of      *)
(* their proxies (command_cmrg.c, xpcommands.c; plugin.c, task_schedule.c, *)
(* server.c and session.c as far as they drive these).                     *)
(*                                                                         *)
(* A CMRG command owns a proxy: created by the receive thread, registered  *)
(* with X-Plane by the flight loop, dropped by whoever terminates the      *)
(* command, and unregistered and freed later by X-Plane's main thread.     *)
(* X-Plane may call the proxy's handler at any time in between, also after *)
(* command and session are gone.                                           *)
(*                                                                         *)
(* Instance p is the p-th CMRG command of the behaviour, together with its *)
(* proxy; a channel id may be used again by a later instance.  The calls   *)
(* on a channel take and release the session lock in one step, as nobody   *)
(* waits for another lock inside them; handle_request holds schedule and   *)
(* session lock throughout, which does not keep destroy_session away.      *)
(***************************************************************************)
EXTENDS Integers, FiniteSets

CONSTANTS
  NumChannels,   \* channel ids 1 .. NumChannels
  MaxInstances,  \* bound: CMRG commands created in one behaviour
  MaySendFail,   \* send_to_network may refuse a message
  MayDisconnect  \* the connection may be lost at any time

ASSUME CommandRegistryAssumption ==
  /\ NumChannels \in Nat \ {0}
  /\ MaxInstances \in Nat \ {0}
  /\ {MaySendFail, MayDisconnect} \subseteq BOOLEAN

VARIABLES
  flightLoop,  \* owner of flight_loop_mutex
  schedule,    \* owner of task_schedule->mutex
  session,     \* owner of session->mutex
  registry,    \* owner of registry->mutex
  closing,     \* connection->closing
  life,        \* session: "live", "pending" (destruction_pending) or "freed"
  chan,        \* channel id -> [state, doomed], or NoChannel
  cmd,         \* channel id -> its CMRG command, or NoCommand
  tasks,       \* channels whose command is scheduled
  proxy,       \* instance -> [state, ref]: its proxy; ref = xp_ref is set
  handlers,    \* X-Plane: instances whose handler is registered
  created,     \* number of instances created
  recv,        \* receive thread: [pc, at]; "line": read when closing began,
               \* "lost": returned with the schedule locked
  xp,          \* X-Plane's thread: [pc, todo, at, event]
  post,        \* post-processing: [pc, todo, at]
  net,         \* session destruction: [pc, at, seen]
  caught,      \* history: channels destroy_session met without command_ref
  orphans,     \* history: proxies whose command was freed without dropping them
  fault        \* a thread used a session, command or proxy that is gone

lockVars == <<flightLoop, schedule, session, registry>>
sessionVars == <<closing, life, chan, cmd, tasks>>
proxyVars == <<proxy, handlers, created>>
history == <<caught, orphans, fault>>
vars == <<lockVars, sessionVars, proxyVars, recv, xp, post, net, history>>

Channels == 1 .. NumChannels
Instances == 1 .. MaxInstances
Free == "none"
NoChannel == [state |-> "none", doomed |-> FALSE]
NoCommand == [id |-> 0, xpcmd |-> FALSE, init |-> FALSE, failed |-> FALSE,
              task |-> FALSE, ref |-> FALSE]
SendResults == IF MaySendFail THEN BOOLEAN ELSE {TRUE}

Init ==
  /\ flightLoop = Free /\ schedule = Free /\ session = Free /\ registry = Free
  /\ closing = FALSE /\ life = "live"
  /\ chan = [c \in Channels |-> NoChannel]
  /\ cmd = [c \in Channels |-> NoCommand]
  /\ tasks = {}
  /\ proxy = [p \in Instances |-> [state |-> "none", ref |-> FALSE]]
  /\ handlers = {} /\ created = 0
  /\ recv = [pc |-> "idle", at |-> 0]
  /\ xp = [pc |-> "frame", todo |-> {}, at |-> 0, event |-> 0]
  /\ post = [pc |-> "wait", todo |-> {}, at |-> 0]
  /\ net = [pc |-> "watch", at |-> 1, seen |-> 0]
  /\ caught = {} /\ orphans = {} /\ fault = FALSE

-----------------------------------------------------------------------------
(* Locks and channel calls. *)

\* lock_session fails at once while destruction is pending.
SessionReturns == life # "live" \/ session = Free

\* finish_channel and error_channel; s is the state of the channel.
Closed(s) == IF life = "live" THEN "CLOSED" ELSE s

\* confirm_channel and continue_channel succeed on a channel that is open.
Speaks(s, sent) == life = "live" /\ s # "CLOSED" /\ sent

-----------------------------------------------------------------------------
(* The registry (xpcommands.c). *)

\* MUTANT of drop_xpcommand: a proxy that waits for registration is kept.
DropRegistered(p) ==
  IF proxy[p].state = "REGISTERED" THEN [proxy EXCEPT ![p].state = "DROPPED"]
                                   ELSE proxy

\* drop_xpcommand: X-Plane's thread will unregister and free the proxy.
drop_xpcommand(p) ==
  IF proxy[p].state \in {"CREATED", "REGISTERED"}
  THEN [proxy EXCEPT ![p].state = "DROPPED"]
  ELSE proxy

Droppable(p) == proxy[p].state \in {"CREATED", "REGISTERED"}

\* The proxy of channel c's command is no longer in use.
Retired(c) == cmd[c].xpcmd => ~Droppable(cmd[c].id)

\* _unregister_destroy_xpcommand refuses a proxy that never got its reference.
Removable(p) == proxy[p].ref

\* MUTANT of Unregister: the proxies are freed, X-Plane is not told.
FreeOnly(S) ==
  /\ proxy' = [p \in Instances |->
                 IF p \in S THEN [state |-> "DESTROYED", ref |-> FALSE] ELSE proxy[p]]
  /\ UNCHANGED handlers

Unregister(S) ==
  /\ proxy' = [p \in Instances |->
                 IF p \in S THEN [state |-> "DESTROYED", ref |-> FALSE] ELSE proxy[p]]
  /\ handlers' = handlers \ S

\* MUTANT of Unregisterable: the loop ends at the first proxy it cannot remove.
UnregisterableUpToError ==
  LET dropped == {p \in Instances : proxy[p].state = "DROPPED"}
  IN  {p \in dropped : \A q \in dropped : q < p => Removable(q)} \cap
      {p \in dropped : Removable(p)}

\* What unregister_dropped_xpcommands removes.
Unregisterable ==
  {p \in Instances : proxy[p].state = "DROPPED" /\ Removable(p)}

-----------------------------------------------------------------------------
(* recv: handle_request, holding the schedule and the session. *)

\* handle_request takes both locks for a request; one that was read before the
\* connection is closing is handled all the same.
RecvBegin(pc, c) ==
  /\ recv.pc = "line" \/ (recv.pc = "idle" /\ ~closing)
  /\ life = "live"
  /\ schedule = Free /\ session = Free
  /\ schedule' = "recv" /\ session' = "recv"
  /\ recv' = [pc |-> pc, at |-> c]
  /\ UNCHANGED <<flightLoop, registry, sessionVars, proxyVars, xp, post, net,
                 history>>

\* lock_session fails: handle_request returns with the schedule locked.
RecvTooLate ==
  /\ recv.pc = "line" /\ life = "pending"
  /\ schedule = Free
  /\ schedule' = "recv"
  /\ recv' = [recv EXCEPT !.pc = "lost"]
  /\ UNCHANGED <<flightLoop, session, registry, sessionVars, proxyVars, xp, post,
                 net, history>>

RecvCreateBegin(c) ==
  /\ chan[c] = NoChannel /\ created < MaxInstances
  /\ RecvBegin("create", c)

\* handle_termination_request leaves a closed channel alone.
RecvTerminateBegin(c) ==
  /\ chan[c].state \in {"INITIAL", "CONFIRMED"} /\ ~chan[c].doomed
  /\ RecvBegin("terminate", c)

\* The line read last may be a request that is refused or is for another command;
\* earlier ones leave nothing behind.
RecvOtherBegin == recv.pc = "line" /\ RecvBegin("unlock", 0)

RecvAt(pc) == recv.pc = pc /\ life # "freed" /\ ~fault

\* put_channel; then cmrg_create accepts the request or not.
RecvPut ==
  /\ RecvAt("create")
  /\ net.pc \in {"watch", "table"}
  /\ chan' = [chan EXCEPT ![recv.at].state = "INITIAL"]
  /\ \E pc \in {"proxy", "fail"} : recv' = [recv EXCEPT !.pc = pc]
  /\ UNCHANGED <<lockVars, closing, life, cmd, tasks, proxyVars, xp, post, net,
                 history>>

\* put_channel refuses: the channels table is being destroyed.
RecvRefuse ==
  /\ RecvAt("create")
  /\ net.pc \notin {"watch", "table"}
  /\ recv' = [recv EXCEPT !.pc = "unlock"]
  /\ UNCHANGED <<lockVars, sessionVars, proxyVars, xp, post, net, history>>

NewCommand(p) == [NoCommand EXCEPT !.id = p, !.xpcmd = TRUE]

\* create_xpcommand needs the registry.
RecvCreateProxy ==
  LET p == created + 1
  IN  /\ RecvAt("proxy") /\ registry = Free
      /\ created' = p
      /\ proxy' = [proxy EXCEPT ![p].state = "CREATED"]
      /\ cmd' = [cmd EXCEPT ![recv.at] = NewCommand(p)]
      /\ recv' = [recv EXCEPT !.pc = "task"]
      /\ UNCHANGED <<lockVars, closing, life, chan, tasks, handlers, xp, post,
                     net, history>>

RecvSchedule ==
  /\ RecvAt("task")
  /\ cmd' = [cmd EXCEPT ![recv.at].task = TRUE]
  /\ tasks' = tasks \cup {recv.at}
  /\ recv' = [recv EXCEPT !.pc = "store"]
  /\ UNCHANGED <<lockVars, closing, life, chan, proxyVars, xp, post, net,
                 history>>

\* The task could not be created or scheduled: cmrg_destroy frees the command,
\* and nobody has the proxy any more.
RecvCreateFails ==
  /\ RecvAt("task")
  /\ cmd' = [cmd EXCEPT ![recv.at] = NoCommand]
  /\ orphans' = orphans \cup {cmd[recv.at].id}
  /\ recv' = [recv EXCEPT !.pc = "fail"]
  /\ UNCHANGED <<lockVars, closing, life, chan, tasks, proxyVars, xp, post, net,
                 caught, fault>>

\* Only now destroy_session could terminate and destroy the command.
RecvStoreCommand ==
  /\ RecvAt("store")
  /\ cmd' = [cmd EXCEPT ![recv.at].ref = TRUE]
  /\ recv' = [recv EXCEPT !.pc = "unlock"]
  /\ UNCHANGED <<lockVars, closing, life, chan, tasks, proxyVars, xp, post, net,
                 history>>

\* handle_command_request reports the error and removes the channel, or closes
\* the connection if it cannot be reported.
RecvFail ==
  /\ RecvAt("fail")
  /\ \E sent \in SendResults :
       IF life = "live" /\ sent
       THEN /\ chan' = [chan EXCEPT ![recv.at] = NoChannel]
            /\ UNCHANGED closing
       ELSE /\ chan' = [chan EXCEPT ![recv.at].state = Closed(@)]
            /\ closing' = TRUE
  /\ recv' = [recv EXCEPT !.pc = "unlock"]
  /\ UNCHANGED <<lockVars, life, cmd, tasks, proxyVars, xp, post, net, history>>

\* cmrg_terminate: close the channel, drop the proxy under the registry's lock,
\* unschedule; if that fails the connection is closed.
RecvTerminate ==
  LET c == recv.at
      k == cmd[c]
      ok == k.xpcmd => Droppable(k.id)
  IN  /\ RecvAt("terminate")
      /\ k.xpcmd => registry = Free
      /\ proxy' = IF k.xpcmd THEN drop_xpcommand(k.id) ELSE proxy
      /\ chan' = [chan EXCEPT ![c] = [state |-> Closed(@.state), doomed |-> ok]]
      /\ cmd' = [cmd EXCEPT ![c].task = (@ /\ ~ok)]
      /\ tasks' = IF ok THEN tasks \ {c} ELSE tasks
      /\ closing' = (closing \/ ~ok)
      /\ recv' = [recv EXCEPT !.pc = "unlock"]
      /\ UNCHANGED <<lockVars, life, handlers, created, xp, post, net, history>>

RecvUnlock ==
  /\ RecvAt("unlock")
  /\ schedule' = Free /\ session' = Free
  /\ recv' = [pc |-> "idle", at |-> 0]
  /\ UNCHANGED <<flightLoop, registry, sessionVars, proxyVars, xp, post, net,
                 history>>

-----------------------------------------------------------------------------
(* xp: X-Plane's main thread, flight loop callbacks and command handlers. *)

XpAt(pc) == xp.pc = pc /\ xp.event = 0

FrameBegin ==
  /\ XpAt("frame")
  /\ flightLoop = Free /\ schedule = Free
  /\ flightLoop' = "xp" /\ schedule' = "xp"
  /\ xp' = [xp EXCEPT !.pc = "run", !.todo = tasks]
  /\ UNCHANGED <<session, registry, sessionVars, proxyVars, recv, post, net,
                 history>>

\* register_xpcommand: X-Plane finds or creates the command, or refuses it.
XpRegister(c, accepted) ==
  LET p == cmd[c].id
      ok == accepted /\ proxy[p].state = "CREATED"
  IN  /\ XpAt("run") /\ c \in xp.todo /\ p # 0
      /\ ~cmd[c].init /\ ~cmd[c].failed
      /\ registry = Free
      /\ proxy' = IF ok THEN [proxy EXCEPT ![p] = [state |-> "REGISTERED", ref |-> TRUE]]
                        ELSE proxy
      /\ handlers' = IF ok THEN handlers \cup {p} ELSE handlers
      /\ xp' = [xp EXCEPT !.pc = IF ok THEN "confirm" ELSE "error", !.at = c,
                          !.todo = @ \ {c}]
      /\ UNCHANGED <<lockVars, sessionVars, created, recv, post, net, history>>

XpSkip(c) ==
  /\ XpAt("run") /\ c \in xp.todo
  /\ cmd[c].init \/ cmd[c].failed
  /\ xp' = [xp EXCEPT !.todo = @ \ {c}]
  /\ UNCHANGED <<lockVars, sessionVars, proxyVars, recv, post, net, history>>

\* confirm_channel; a failure has sent an error already.
XpConfirm ==
  LET c == xp.at
  IN  /\ XpAt("confirm") /\ SessionReturns /\ life # "freed" /\ ~fault
      /\ \E sent \in SendResults :
           IF Speaks(chan[c].state, sent)
           THEN /\ cmd' = [cmd EXCEPT ![c].init = TRUE]
                /\ chan' = [chan EXCEPT ![c].state = "CONFIRMED"]
                /\ xp' = [xp EXCEPT !.pc = "run"]
           ELSE /\ chan' = [chan EXCEPT ![c].state = Closed(@)]
                /\ xp' = [xp EXCEPT !.pc = "undo"]
                /\ UNCHANGED cmd
      /\ UNCHANGED <<lockVars, closing, life, tasks, proxyVars, recv, post, net,
                     history>>

\* unregister_destroy_xpcommand
XpUndo ==
  /\ XpAt("undo") /\ registry = Free /\ ~fault
  /\ Unregister({cmd[xp.at].id})
  /\ cmd' = [cmd EXCEPT ![xp.at].xpcmd = FALSE]
  /\ xp' = [xp EXCEPT !.pc = "error"]
  /\ UNCHANGED <<lockVars, closing, life, chan, tasks, created, recv, post, net,
                 history>>

XpError ==
  LET c == xp.at
  IN  /\ XpAt("error") /\ SessionReturns /\ life # "freed" /\ ~fault
      /\ chan' = [chan EXCEPT ![c].state = Closed(@)]
      /\ cmd' = [cmd EXCEPT ![c].failed = TRUE]
      /\ xp' = [xp EXCEPT !.pc = "run"]
      /\ UNCHANGED <<lockVars, closing, life, tasks, proxyVars, recv, post, net,
                     history>>

RunTasksEnd ==
  /\ XpAt("run") /\ xp.todo = {}
  /\ schedule' = Free
  /\ xp' = [xp EXCEPT !.pc = "after", !.at = 0]
  /\ UNCHANGED <<flightLoop, session, registry, sessionVars, proxyVars, recv,
                 post, net, history>>

\* The end of a frame; cnd_broadcast wakes post-processing if it waits.
FrameEnd ==
  /\ flightLoop' = Free
  /\ xp' = [xp EXCEPT !.pc = "frame"]
  /\ post' = [post EXCEPT !.pc = IF @ = "wait" THEN "woken" ELSE @]
  /\ UNCHANGED <<schedule, session, registry, sessionVars, created, recv, net,
                 history>>

PlainFrameEnd == XpAt("after") /\ FrameEnd /\ UNCHANGED <<proxy, handlers>>

\* Every XPREF_MAINTENANCE_INTERVAL frames dropped proxies are unregistered.
MaintenanceFrameEnd ==
  XpAt("after") /\ registry = Free /\ Unregister(Unregisterable) /\ FrameEnd

\* MUTANT of Invocable: dropped proxies still pass events on.
InvocableDropped(p) == proxy[p].state \in {"REGISTERED", "DROPPED"}

Invocable(p) == proxy[p].state = "REGISTERED"

\* Somebody uses the X-Plane command: between frames, or as a consequence of
\* another session's command inside a frame.  xp_command_handler locks the
\* registry and calls back only for a registered proxy.  (Without a callback,
\* and for an event the client does not monitor, nothing changes.)
HandlerBegin(p) ==
  /\ xp.pc \in {"frame", "run", "after"} /\ xp.event = 0
  /\ p \in handlers
  /\ registry = Free
  /\ Invocable(p)
  /\ registry' = "xp"
  /\ xp' = [xp EXCEPT !.event = p]
  /\ UNCHANGED <<flightLoop, schedule, session, sessionVars, proxyVars, recv,
                 post, net, history>>

Owner(p) == {c \in Channels : cmd[c].id = p}

\* cmrg_handle_event of a command that has failed ...
EventIgnored(c) ==
  /\ xp.event # 0 /\ c \in Owner(xp.event) /\ cmd[c].failed
  /\ registry' = Free
  /\ xp' = [xp EXCEPT !.event = 0]
  /\ UNCHANGED <<flightLoop, schedule, session, sessionVars, proxyVars, recv,
                 post, net, history>>

\* ... and of one that passes the event on, while the registry stays locked.
EventSent(c) ==
  /\ xp.event # 0 /\ c \in Owner(xp.event) /\ ~cmd[c].failed
  /\ SessionReturns
  /\ \E sent \in SendResults :
       LET ok == Speaks(chan[c].state, sent)
       IN  /\ chan' = [chan EXCEPT ![c].state = IF ok THEN @ ELSE Closed(@)]
           /\ cmd' = [cmd EXCEPT ![c].failed = ~ok]
  /\ registry' = Free
  /\ xp' = [xp EXCEPT !.event = 0]
  /\ UNCHANGED <<flightLoop, schedule, session, closing, life, tasks, proxyVars,
                 recv, post, net, history>>

-----------------------------------------------------------------------------
(* post: run_post_processing_thread *)

PostWake ==
  /\ post.pc = "woken"
  /\ flightLoop = Free /\ schedule = Free
  /\ flightLoop' = "post" /\ schedule' = "post"
  /\ post' = [pc |-> "run", todo |-> tasks, at |-> 0]
  /\ UNCHANGED <<session, registry, sessionVars, proxyVars, recv, xp, net, history>>

\* cmrg_process in post-processing terminates a failed command ...
MustEnd(k) == k.failed

PostSkip(c) ==
  /\ post.pc = "run" /\ c \in post.todo
  /\ cmd[c].id # 0 /\ ~MustEnd(cmd[c])
  /\ post' = [post EXCEPT !.todo = @ \ {c}]
  /\ UNCHANGED <<lockVars, sessionVars, proxyVars, recv, xp, net, history>>

\* ... closes its channel ...
PostClose(c) ==
  /\ post.pc = "run" /\ c \in post.todo
  /\ cmd[c].id # 0 /\ MustEnd(cmd[c]) /\ SessionReturns /\ life # "freed"
  /\ chan' = [chan EXCEPT ![c].state = Closed(@)]
  /\ post' = [pc |-> "drop", todo |-> post.todo \ {c}, at |-> c]
  /\ UNCHANGED <<lockVars, closing, life, cmd, tasks, proxyVars, recv, xp, net,
                 history>>

\* ... drops its proxy, if it has one that is not dropped yet ...
PostDrop ==
  LET k == cmd[post.at]
      ok == k.xpcmd => Droppable(k.id)
  IN  /\ post.pc = "drop" /\ ~fault
      /\ k.xpcmd => registry = Free
      /\ proxy' = IF k.xpcmd THEN drop_xpcommand(k.id) ELSE proxy
      /\ post' = [post EXCEPT !.pc = IF ok THEN "unschedule" ELSE "run"]
      /\ UNCHANGED <<lockVars, sessionVars, handlers, created, recv, xp, net, history>>

\* ... unschedules it and asks for the destruction of the channel, if there is
\* one.
PostUnschedule ==
  LET c == post.at
  IN  /\ post.pc = "unschedule" /\ life # "freed" /\ ~fault
      /\ chan' = [chan EXCEPT ![c].doomed = (chan[c] # NoChannel)]
      /\ cmd' = [cmd EXCEPT ![c].task = FALSE]
      /\ tasks' = tasks \ {c}
      /\ post' = [post EXCEPT !.pc = "run"]
      /\ UNCHANGED <<lockVars, closing, life, proxyVars, recv, xp, net, history>>

Destroy(S) ==
  /\ chan' = [c \in Channels |-> IF c \in S THEN NoChannel ELSE chan[c]]
  /\ cmd' = [c \in Channels |-> IF c \in S THEN NoCommand ELSE cmd[c]]

\* Unlock the schedule; in some cycles maintain_server locks the session and
\* destroys the channels whose destruction was requested.
PostEnd ==
  /\ post.pc = "run" /\ post.todo = {}
  /\ schedule' = Free /\ flightLoop' = Free
  /\ post' = [post EXCEPT !.pc = "wait", !.at = 0]
  /\ \/ /\ life = "live" /\ session = Free
        /\ Destroy({c \in Channels : chan[c].doomed})
     \/ UNCHANGED <<chan, cmd>>
  /\ UNCHANGED <<session, registry, closing, life, tasks, proxyVars, recv, xp,
                 net, history>>

-----------------------------------------------------------------------------
(* net: destroy_session for a closing connection; it takes no session lock. *)

NetPend ==
  /\ net.pc = "watch" /\ closing
  /\ life' = "pending"
  /\ net' = [net EXCEPT !.pc = "table"]
  /\ UNCHANGED <<lockVars, closing, chan, cmd, tasks, proxyVars, recv, xp, post,
                 history>>

\* destroy_channels_table: no channel can be added from now on.
NetBeginSweep ==
  /\ net.pc = "table"
  /\ net' = [net EXCEPT !.pc = "sweep"]
  /\ UNCHANGED <<lockVars, sessionVars, proxyVars, recv, xp, post, history>>

\* destroy_session_channel: a command that nobody has terminated is terminated
\* now; cmrg_terminate looks at its proxy without a lock.  Without command_ref
\* it does nothing.
NetVisit ==
  LET c == net.at
      here == chan[c] # NoChannel
  IN  /\ net.pc = "sweep" /\ c \in Channels
      /\ net' = [net EXCEPT !.pc = IF ~here THEN "next"
                                   ELSE IF chan[c].doomed \/ ~cmd[c].ref
                                   THEN "destroy"
                                   ELSE IF cmd[c].xpcmd THEN "drop"
                                   ELSE "unschedule",
                            !.seen = cmd[c].id]
      /\ caught' = IF here /\ ~cmd[c].ref THEN caught \cup {c} ELSE caught
      /\ UNCHANGED <<lockVars, sessionVars, proxyVars, recv, xp, post, orphans,
                     fault>>

NetDrop ==
  /\ net.pc = "drop" /\ registry = Free
  /\ proxy[net.seen].state # "DESTROYED"
  /\ proxy' = drop_xpcommand(net.seen)
  /\ net' = [net EXCEPT !.pc = IF Droppable(net.seen) THEN "unschedule" ELSE "destroy"]
  /\ UNCHANGED <<lockVars, sessionVars, handlers, created, recv, xp, post, history>>

\* A task that post-processing has dropped meanwhile cannot be unscheduled; the
\* warning about that names the proxy, which is NULL in this case.
WarnsWithoutProxy == net.pc = "unschedule" /\ ~cmd[net.at].task /\ ~cmd[net.at].xpcmd

NetUnschedule ==
  /\ net.pc = "unschedule" /\ schedule = Free /\ ~WarnsWithoutProxy
  /\ cmd' = [cmd EXCEPT ![net.at].task = FALSE]
  /\ tasks' = tasks \ {net.at}
  /\ net' = [net EXCEPT !.pc = "destroy"]
  /\ UNCHANGED <<lockVars, closing, life, chan, proxyVars, recv, xp, post, history>>

\* Another thread is inside the command that net is about to free.
Contended(c) ==
  \/ recv.pc = "terminate" /\ recv.at = c
  \/ xp.pc \in {"confirm", "undo", "error"} /\ xp.at = c
  \/ post.pc \in {"drop", "unschedule"} /\ post.at = c

\* The channel goes, and the command if command_ref, read again, is there by now.
NetDestroy ==
  LET c == net.at
  IN  /\ net.pc = "destroy" /\ ~Contended(c)
      /\ chan' = [chan EXCEPT ![c] = NoChannel]
      /\ cmd' = [cmd EXCEPT ![c] = IF @.ref THEN NoCommand ELSE @]
      /\ orphans' = IF c \in caught /\ cmd[c].ref /\ ~Retired(c)
                    THEN orphans \cup {cmd[c].id} ELSE orphans
      /\ net' = [net EXCEPT !.pc = "next", !.seen = 0]
      /\ UNCHANGED <<lockVars, closing, life, tasks, proxyVars, recv, xp, post,
                     caught, fault>>

NetNextChannel ==
  /\ net.pc = "next"
  /\ net' = [net EXCEPT !.pc = "sweep", !.at = @ + 1]
  /\ UNCHANGED <<lockVars, sessionVars, proxyVars, recv, xp, post, history>>

NetFree ==
  /\ net.pc = "sweep" /\ net.at \notin Channels
  /\ life' = "freed"
  /\ net' = [net EXCEPT !.pc = "done"]
  /\ UNCHANGED <<lockVars, closing, chan, cmd, tasks, proxyVars, recv, xp, post,
                 history>>

\* A command is freed under another thread, the proxy seen above has been freed
\* by X-Plane's thread, or there is none: undefined, so the model stops here.
NetUndefined ==
  /\ ~fault
  /\ \/ net.pc = "destroy" /\ Contended(net.at)
     \/ net.pc = "drop" /\ registry = Free /\ proxy[net.seen].state = "DESTROYED"
     \/ schedule = Free /\ WarnsWithoutProxy
  /\ fault' = TRUE
  /\ UNCHANGED <<lockVars, sessionVars, proxyVars, recv, xp, post, net, caught,
                 orphans>>

\* What destroy_session freed is used by a thread that it did not wait for: the
\* session by the receive thread, the channel while it has no command yet, and
\* session or command by a task that stayed scheduled.
UseAfterFree ==
  /\ ~fault
  /\ \/ recv.pc \notin {"idle", "lost"} /\ life = "freed"
     \/ recv.pc \in {"proxy", "fail"} /\ chan[recv.at] = NoChannel
     \/ xp.pc = "run" /\ \E c \in xp.todo : cmd[c].id = 0
     \/ xp.pc \in {"confirm", "error"} /\ life = "freed"
     \/ post.pc = "run" /\ \E c \in post.todo :
          cmd[c].id = 0 \/ (MustEnd(cmd[c]) /\ life = "freed")
     \/ post.pc = "unschedule" /\ life = "freed"
  /\ fault' = TRUE
  /\ UNCHANGED <<lockVars, sessionVars, proxyVars, recv, xp, post, net, caught,
                 orphans>>

\* The receive thread may just have completed a line.
Disconnect ==
  /\ MayDisconnect /\ ~closing
  /\ closing' = TRUE
  /\ recv' \in {recv} \cup
       (IF recv.pc = "idle" THEN {[recv EXCEPT !.pc = "line"]} ELSE {})
  /\ UNCHANGED <<lockVars, life, chan, cmd, tasks, proxyVars, xp, post, net,
                 history>>

RecvWork ==
  \/ RecvPut \/ RecvRefuse \/ RecvCreateProxy \/ RecvSchedule
  \/ RecvCreateFails \/ RecvStoreCommand \/ RecvFail \/ RecvTerminate
  \/ RecvUnlock

RecvNext ==
  \/ \E c \in Channels : RecvCreateBegin(c) \/ RecvTerminateBegin(c)
  \/ RecvOtherBegin \/ RecvTooLate \/ RecvWork

FrameNext ==
  \/ FrameBegin
  \/ \E c \in Channels : XpSkip(c) \/ \E ok \in BOOLEAN : XpRegister(c, ok)
  \/ XpConfirm \/ XpUndo \/ XpError \/ RunTasksEnd
  \/ PlainFrameEnd \/ MaintenanceFrameEnd

EventNext == \E c \in Channels : EventIgnored(c) \/ EventSent(c)

PostNext ==
  \/ PostWake \/ PostDrop \/ PostUnschedule \/ PostEnd
  \/ \E c \in Channels : PostSkip(c) \/ PostClose(c)

NetNext ==
  \/ NetPend \/ NetBeginSweep \/ NetVisit \/ NetDrop \/ NetUnschedule
  \/ NetDestroy \/ NetNextChannel \/ NetFree \/ NetUndefined

Next ==
  \/ RecvNext \/ FrameNext \/ EventNext \/ PostNext \/ NetNext \/ UseAfterFree
  \/ Disconnect
  \/ \E p \in Instances : HandlerBegin(p)

Spec == Init /\ [][Next]_vars

\* X-Plane goes on to draw frames however often commands are used, maintenance
\* comes every XPREF_MAINTENANCE_INTERVAL frames, every thread keeps running
\* and no waiter is kept from a mutex that is released again and again.
Fairness ==
  /\ SF_vars(FrameNext) /\ SF_vars(MaintenanceFrameEnd) /\ SF_vars(EventNext)
  /\ WF_vars(RecvWork) /\ SF_vars(RecvCreateProxy) /\ SF_vars(RecvTerminate)
  /\ WF_vars(UseAfterFree)
  /\ WF_vars(PostNext) /\ SF_vars(PostWake) /\ SF_vars(PostDrop)
  /\ WF_vars(NetNext) /\ SF_vars(NetDrop) /\ SF_vars(NetUnschedule)

FairSpec == Spec /\ Fairness

-----------------------------------------------------------------------------
\* Who holds which lock, by what the threads are doing.
LocksHeld ==
  /\ session = "recv" <=> recv.pc \notin {"idle", "line", "lost"}
  /\ registry = "xp" <=> xp.event # 0
  /\ schedule = "recv" <=> recv.pc \notin {"idle", "line"}
  /\ schedule = "xp" <=> xp.pc \in {"run", "confirm", "undo", "error"}
  /\ schedule = "post" <=> post.pc \in {"run", "drop", "unschedule"}

ChannelRecords ==
  [state : {"none", "INITIAL", "CONFIRMED", "CLOSED"}, doomed : BOOLEAN]
CommandRecords ==
  [id : 0 .. MaxInstances, xpcmd : BOOLEAN, init : BOOLEAN, failed : BOOLEAN,
   task : BOOLEAN, ref : BOOLEAN]
ProxyRecords ==
  [state : {"none", "CREATED", "REGISTERED", "DROPPED", "DESTROYED"}, ref : BOOLEAN]
RecvRecords ==
  [pc : {"idle", "line", "lost", "create", "proxy", "task", "store", "fail",
         "terminate", "unlock"},
   at : 0 .. NumChannels]
XpRecords ==
  [pc : {"frame", "run", "confirm", "undo", "error", "after"},
   todo : SUBSET Channels, at : 0 .. NumChannels, event : 0 .. MaxInstances]
PostRecords ==
  [pc : {"wait", "woken", "run", "drop", "unschedule"}, todo : SUBSET Channels,
   at : 0 .. NumChannels]
NetRecords ==
  [pc : {"watch", "table", "sweep", "drop", "unschedule", "destroy", "next", "done"},
   at : 1 .. NumChannels + 1, seen : 0 .. MaxInstances]

TypeOK ==
  /\ LocksHeld
  /\ flightLoop \in {Free, "xp", "post"}
  /\ schedule \in {Free, "recv", "xp", "post"}
  /\ session \in {Free, "recv"} /\ registry \in {Free, "xp"}
  /\ closing \in BOOLEAN /\ life \in {"live", "pending", "freed"}
  /\ chan \in [Channels -> ChannelRecords]
  /\ cmd \in [Channels -> CommandRecords]
  /\ tasks \subseteq Channels
  /\ proxy \in [Instances -> ProxyRecords]
  /\ handlers \subseteq Instances /\ created \in 0 .. MaxInstances
  /\ recv \in RecvRecords /\ xp \in XpRecords
  /\ post \in PostRecords /\ net \in NetRecords
  /\ caught \subseteq Channels /\ orphans \subseteq Instances
  /\ fault \in BOOLEAN

-----------------------------------------------------------------------------
(* Correctness. *)

\* X-Plane never calls a handler whose proxy has been freed: from registration
\* to deregistration the proxy exists (_unregister_destroy_xpcommand).
HandlerHasProxy ==
  \A p \in handlers : proxy[p].state \in {"REGISTERED", "DROPPED"} /\ proxy[p].ref

\* cmrg_handle_event is entered only for a command that exists, whoever may be
\* terminating and destroying commands meanwhile (xp_command_handler).
EventReachesCommand == xp.event # 0 => Owner(xp.event) # {}

\* Every proxy that is not dropped yet belongs to a command whose channel is in
\* the table, and which will drop it; otherwise it would keep its X-Plane command
\* for ever (cmrg_terminate, cmrg_destroy).  Excepted are the two ways in which
\* the code does leave a proxy behind: cmrg_create frees the command without it
\* if no task can be scheduled (command_cmrg.c:298-333), and destroy_session
\* meets the channel before command_ref is stored (line 322).
NoOrphanProxy ==
  \A p \in Instances : Droppable(p) =>
    \/ p \in orphans
    \/ \E c \in Channels : /\ cmd[c].id = p /\ cmd[c].xpcmd
                           /\ chan[c] # NoChannel \/ c \in caught

InstancesKnown ==
  /\ \A p \in Instances : p > created => proxy[p].state = "none"
  /\ \A p \in Instances : p <= created => proxy[p].state # "none"
  /\ handlers \subseteq 1 .. created
  /\ recv.pc \in {"create", "proxy"} => created < MaxInstances
  /\ \A c \in Channels : cmd[c].id <= created
  /\ \A c \in Channels : cmd[c].xpcmd => cmd[c].id # 0
  /\ \A c \in Channels : cmd[c].id # 0 /\ ~cmd[c].xpcmd =>
       proxy[cmd[c].id].state = "DESTROYED"
  /\ \A c, d \in Channels : cmd[c].id = cmd[d].id /\ cmd[c].id # 0 => c = d
  /\ \A p \in orphans : proxy[p].state = "CREATED"
  /\ \A c \in Channels : cmd[c].id \notin orphans

\* The receive thread is at work on a channel whose command is not stored yet.
Building == {"proxy", "task", "store", "fail"}

RecvAgrees ==
  /\ recv.pc \in Building \cup {"create", "terminate"} => recv.at \in Channels
  /\ recv.pc = "create" => chan[recv.at].state = "none"
  /\ recv.pc \in Building =>
       /\ ~chan[recv.at].doomed
       /\ chan[recv.at].state # "none" \/ recv.at \in caught
  /\ recv.pc \in {"proxy", "fail"} => cmd[recv.at].id = 0
  /\ recv.pc \in {"task", "store"} =>
       /\ cmd[recv.at].id # 0 /\ cmd[recv.at].xpcmd /\ ~cmd[recv.at].ref
       /\ proxy[cmd[recv.at].id].state = "CREATED"
  /\ recv.pc \in {"proxy", "task", "fail"} => recv.at \notin tasks
  /\ recv.pc = "terminate" => cmd[recv.at].ref /\ recv.at \notin caught

ChannelsAgree ==
  /\ \A c \in Channels : chan[c].state = "none" => chan[c] = NoChannel
  /\ \A c \in Channels : chan[c].doomed => Retired(c) /\ c \notin tasks
  /\ \A c \in Channels : cmd[c].ref => cmd[c].id # 0
  /\ \A c \in Channels \ caught :
       /\ chan[c].state = "none" => cmd[c].id = 0
       /\ chan[c].state # "none" /\ cmd[c].id = 0 =>
            \/ recv.pc \in Building /\ recv.at = c
            \/ chan[c].state = "CLOSED" \/ life # "live"
       /\ cmd[c].id # 0 /\ ~cmd[c].ref => recv.pc \in Building /\ recv.at = c

TasksAgree ==
  /\ \A c \in tasks \ caught : cmd[c].id # 0
  /\ xp.pc \in {"run", "confirm", "undo", "error"} => xp.todo \subseteq tasks
  /\ xp.pc \in {"confirm", "undo", "error"} =>
       xp.at \in tasks /\ cmd[xp.at].id # 0
  /\ post.pc \in {"run", "drop", "unschedule"} => post.todo \subseteq tasks
  /\ post.pc \in {"drop", "unschedule"} =>
       post.at \in tasks \ post.todo /\ cmd[post.at].id # 0
  /\ post.pc = "unschedule" => Retired(post.at)
  /\ \A c \in tasks : cmd[c].xpcmd /\ ~Droppable(cmd[c].id) =>
       \/ post.pc = "unschedule" /\ post.at = c
       \/ net.pc = "unschedule" /\ net.at = c

NetAgrees ==
  /\ life = "live" <=> net.pc = "watch"
  /\ net.pc \in {"watch", "table"} => caught = {}
  /\ net.pc \in {"drop", "unschedule", "destroy"} => net.at \in Channels
  /\ \A c \in caught :
       c < net.at \/ (c = net.at /\ net.pc \in {"destroy", "next"})
  /\ net.pc \in {"drop", "unschedule", "destroy"} /\ net.at \notin caught =>
       /\ net.seen = cmd[net.at].id
       /\ cmd[net.at].ref
  /\ net.pc = "next" => net.at \in Channels
  /\ net.pc \in {"unschedule", "destroy"} /\ net.at \notin caught =>
       Retired(net.at)
  /\ net.pc = "destroy" /\ net.at \notin caught =>
       net.at \notin tasks \/ (post.pc = "unschedule" /\ post.at = net.at)
  /\ \A c \in caught : cmd[c].xpcmd /\ proxy[cmd[c].id].state = "REGISTERED" =>
       xp.pc \in {"confirm", "undo"} /\ xp.at = c

EventRegistered == xp.event # 0 => proxy[xp.event].state = "REGISTERED"

IInv ==
  /\ TypeOK /\ HandlerHasProxy /\ NoOrphanProxy /\ InstancesKnown
  /\ RecvAgrees /\ ChannelsAgree /\ TasksAgree /\ NetAgrees /\ EventRegistered

\* recv holds the session and waits for the registry, which X-Plane's thread
\* holds while it waits for the session.
LockCycle ==
  /\ recv.pc \in {"proxy", "terminate"} /\ life = "live"
  /\ \E c \in Owner(xp.event) : xp.event # 0 /\ ~cmd[c].failed

\* A dropped proxy is taken out of X-Plane, also if others cannot be removed
\* (unregister_dropped_xpcommands).  Excepted are the two standstills of X-Plane's
\* thread, LockCycle and the schedule that handle_request leaves locked when a
\* request meets the session's destruction (server.c:130-134).
DroppedIsUnregistered ==
  \A p \in Instances :
    (p \in handlers /\ proxy[p].state = "DROPPED")
      ~> (p \notin handlers \/ LockCycle \/ recv.pc = "lost" \/ fault)

\* X-Plane's main thread and the receive thread never wait for each other: the
\* comment in handle_request says that all nest their locks in the same order.
NoLockCycle == ~LockCycle

\* A proxy can be dropped at any time and is then unregistered by maintenance
\* (the documentation in xpcommands.h): none is left that can never be removed.
\* TLC refutes it, see the README.
DroppedCanBeRemoved ==
  \A p \in Instances : proxy[p].state = "DROPPED" => Removable(p)
=============================================================================
