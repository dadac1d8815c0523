----------------------------- MODULE DataProxies -----------------------------
(***************************************************************************)
(* A dataref that clients provide to X-Plane (DRCI), its proxy and those   *)
(* who read and write it (dataproxy.c, command_drci.c; command_drmu.c,     *)
(* plugin.c, server.c and session.c as far as they drive these).           *)
(*                                                                         *)
(* The registry keeps one proxy per dataref name for good; sessions claim  *)
(* it one after the other.  Datarefs of different names share nothing but  *)
(* the registry's lock, so the model has one name.  Each session has one   *)
(* channel for a DRCI command and one DRMU command that updates the        *)
(* dataref.  Commands are numbered in the order of their creation; a proxy *)
(* may still refer to a command that has been freed.                       *)
(*                                                                         *)
(* command->mutex is held only within one step, and so is a session's      *)
(* mutex by the calls on a channel, with one exception: continue_channel   *)
(* does not unlock the session if it finds no channel.  A session is       *)
(* destroyed while its own receive thread is between two requests (see     *)
(* Session for the other case).                                            *)
(***************************************************************************)
EXTENDS Integers

CONSTANTS
  NumSessions,   \* sessions 1 .. NumSessions
  MaxCommands,   \* bound: DRCI commands created in one behaviour
  Permissions,   \* values of the option "writable" that clients use
  EchoModes,     \* values of the option "echo" that clients use
  MaySendFail,   \* send_to_network may refuse a message
  MayDisconnect  \* connections may be lost

ASSUME DataProxiesAssumption ==
  /\ NumSessions \in Nat \ {0} /\ MaxCommands \in Nat \ {0}
  /\ Permissions \subseteq {"SESSION", "XPRC", "ALL"}
  /\ EchoModes \subseteq {"none", "xplane", "other", "all"}
  /\ {MaySendFail, MayDisconnect} \subseteq BOOLEAN

VARIABLES
  schedule,  \* owner of task_schedule->mutex
  session,   \* session -> owner of session->mutex
  registry,  \* owner of registry->mutex
  life,      \* session -> "live", "closing", "pending" or "freed"
  chan,      \* session -> [state, doomed]: the channel of its DRCI command
  cmd,       \* session -> its DRCI command, or NoCommand
  created,   \* number of DRCI commands created
  update,    \* sessions with a scheduled DRMU command for the dataref
  proxy,     \* [state, ref, owner, permission]
  accessor,  \* X-Plane: number of data accessors registered for the dataref
  recv,      \* session -> its receive thread: [pc, op]
  xp,        \* X-Plane's thread: [pc, todo, at, op]
  post,      \* post-processing: [pc, todo, at]
  net,       \* session destruction: [pc, at]
  lost,      \* commands that were destroyed although their termination failed
  refused,   \* commands whose dataref X-Plane did not register
  fault      \* a thread used a command or session that is gone

lockVars == <<schedule, session, registry>>
commandVars == <<life, chan, cmd, created, update>>
proxyVars == <<proxy, accessor>>
history == <<lost, refused, fault>>
vars == <<lockVars, commandVars, proxyVars, recv, xp, post, net, history>>

Sessions == 1 .. NumSessions
Commands == 1 .. MaxCommands
XPlane == 0             \* source_session NULL
Free == 0               \* owner of a lock nobody holds
Recv(s) == s            \* threads, as owners of locks
XpThread == NumSessions + 1
PostThread == NumSessions + 2
NetThread == NumSessions + 3
Threads == 1 .. NumSessions + 3

NoCommand == [id |-> 0, permission |-> "SESSION", echo |-> "none", task |-> FALSE,
              proxy |-> FALSE, registered |-> FALSE, failed |-> FALSE]
NoChannel == [state |-> "none", doomed |-> FALSE]
NoOp == [ref |-> 0, owner |-> 0, src |-> 0, id |-> TRUE]
Inactive == [state |-> "INACTIVE", ref |-> 0, owner |-> 0, permission |-> "SESSION"]
SendResults == IF MaySendFail THEN BOOLEAN ELSE {TRUE}

Init ==
  /\ schedule = Free /\ session = [s \in Sessions |-> Free] /\ registry = Free
  /\ life = [s \in Sessions |-> "live"]
  /\ chan = [s \in Sessions |-> NoChannel] /\ cmd = [s \in Sessions |-> NoCommand]
  /\ created = 0 /\ update = {}
  /\ proxy = Inactive /\ accessor = 0
  /\ recv = [s \in Sessions |-> [pc |-> "idle", op |-> NoOp]]
  /\ xp = [pc |-> "idle", todo |-> {}, at |-> 0, op |-> NoOp]
  /\ post = [pc |-> "wait", todo |-> {}, at |-> 0]
  /\ net = [pc |-> "watch", at |-> 0]
  /\ lost = {} /\ refused = {} /\ fault = FALSE

-----------------------------------------------------------------------------
(* Locks and channel calls. *)

\* lock_session by thread t: the mutex is recursive, and fails at once while
\* the session's destruction is pending.
SessionReturns(t, s) == life[s] \in {"pending", "freed"} \/ session[s] \in {Free, t}

RegistryReturns(t) == registry \in {Free, t}

Lives(s) == life[s] \in {"live", "closing"}

\* finish_channel and error_channel
Closed(s) == IF Lives(s) THEN [chan EXCEPT ![s].state = "CLOSED"] ELSE chan

\* A command is alive as long as its channel has it.
Alive(n) == \E s \in Sessions : cmd[s].id = n

-----------------------------------------------------------------------------
(* The registry (dataproxy.c). *)

\* drop_dataproxy refuses a proxy that is not registered.
Droppable == proxy.state = "REGISTERED"
drop_dataproxy ==
  IF Droppable THEN [proxy EXCEPT !.state = "DROPPED", !.ref = 0, !.owner = 0] ELSE proxy

\* MUTANT of can_write: whoever has found the proxy may write.
CanWriteUnchecked(src) == proxy.state = "REGISTERED"

\* dataproxy_can_write
can_write(src) ==
  /\ proxy.state = "REGISTERED"
  /\ \/ proxy.permission = "ALL"
     \/ src # XPlane /\ (proxy.permission = "XPRC" \/ src = proxy.owner)

\* MUTANT of Unregistered: the accessor is left with X-Plane.
UnregisteredInName == accessor

\* XPLMUnregisterDataAccessor in unregister_dataproxy.
Unregistered == accessor - 1

\* reserve_dataproxy of session s: a dropped proxy is unregistered first.
Reservable == proxy.state \in {"INACTIVE", "DROPPED"}
reserve_dataproxy(s) ==
  /\ proxy' = IF Reservable
              THEN [state |-> "RESERVED", ref |-> cmd[s].id, owner |-> s,
                    permission |-> cmd[s].permission]
              ELSE proxy
  /\ accessor' = IF proxy.state = "DROPPED" THEN Unregistered ELSE accessor

\* register_dataproxy; X-Plane may refuse.
register_dataproxy(accepted) ==
  /\ proxy' = IF accepted THEN [proxy EXCEPT !.state = "REGISTERED"] ELSE proxy
  /\ accessor' = IF accepted THEN accessor + 1 ELSE accessor

\* unregister_dropped_dataproxies
unregister_dropped ==
  /\ proxy' = IF proxy.state = "DROPPED" THEN Inactive ELSE proxy
  /\ accessor' = IF proxy.state = "DROPPED" THEN Unregistered ELSE accessor

-----------------------------------------------------------------------------
(* Writing through the proxy: dataproxy_simple_set, dataproxy_array_update. *)

\* MUTANT of AfterCheck: the registry stays locked while the setter runs.
KeepsRegistry(t) == t

\* dataproxy_simple_set unlocks the registry before it calls the setter; DRMU
\* holds it once more around all its writes.
AfterCheck(t) == registry

\* What thread t has to do after the check, for a write by src: call the setter
\* with what it has read, or nothing.
Checked(src) ==
  IF can_write(src) THEN [ref |-> proxy.ref, owner |-> proxy.owner, src |-> src, id |-> TRUE] ELSE NoOp

\* should_echo
should_echo(k, s, src) ==
  \/ k.echo = "all"
  \/ k.echo = "other" /\ src # s
  \/ k.echo = "xplane" /\ src = XPlane

Echoes(op) == should_echo(cmd[op.owner], op.owner, op.src)

\* drci_simple_set reads the channel id under command->mutex; drci_terminate has
\* replaced it by BAD_CHANNEL_ID if it was faster.
Applied(op) == [op EXCEPT !.id = ~chan[op.owner].doomed]

\* continue_channel by drci_simple_set, after command->mutex was released: an
\* error is only logged, but it closes the channel ...
ChannelFound(op) == op.id /\ chan[op.owner] # NoChannel
EchoSent(op, sent) ==
  IF ~ChannelFound(op) \/ (Lives(op.owner) /\ chan[op.owner].state = "CONFIRMED" /\ sent)
  THEN chan ELSE Closed(op.owner)

\* ... and without a channel thread t keeps the session locked.
LockedAfterEcho(t, op) ==
  IF Lives(op.owner) /\ ~ChannelFound(op) THEN [session EXCEPT ![op.owner] = t] ELSE session

-----------------------------------------------------------------------------
(* recv: handle_request of session s, holding schedule and session. *)

LockSchedule(s) ==
  /\ recv[s].pc = "idle" /\ life[s] = "live" /\ schedule = Free
  /\ schedule' = Recv(s)
  /\ recv' = [recv EXCEPT ![s].pc = "locked"]
  /\ UNCHANGED <<session, registry, commandVars, proxyVars, xp, post, net, history>>

\* If the session's destruction has begun, lock_session fails and handle_request
\* returns; the schedule stays locked.
RequestTooLate(s) ==
  /\ recv[s].pc = "idle" /\ life[s] = "pending" /\ schedule = Free
  /\ schedule' = Recv(s)
  /\ UNCHANGED <<session, registry, commandVars, proxyVars, recv, xp, post, net, history>>

LockSession(s, pc) ==
  /\ recv[s].pc = "locked" /\ session[s] = Free
  /\ session' = [session EXCEPT ![s] = Recv(s)]
  /\ recv' = [recv EXCEPT ![s].pc = pc]
  /\ UNCHANGED <<schedule, registry, commandVars, proxyVars, xp, post, net, history>>

\* What the request asks for; handle_termination_request leaves a closed
\* channel alone, and others are none of this module's business.
HandleRequest(s) ==
  \/ chan[s] = NoChannel /\ created < MaxCommands /\ LockSession(s, "create")
  \/ chan[s].state \in {"INITIAL", "CONFIRMED"} /\ ~chan[s].doomed /\ LockSession(s, "terminate")
  \/ s \notin update /\ LockSession(s, "find")
  \/ LockSession(s, "unlock")

\* drci_create with valid options, and schedule_task.
drci_create(s, permission, echo) ==
  /\ recv[s].pc = "create"
  /\ created' = created + 1
  /\ cmd' = [cmd EXCEPT ![s] = [NoCommand EXCEPT !.id = created + 1, !.task = TRUE,
                                                 !.permission = permission, !.echo = echo]]
  /\ chan' = [chan EXCEPT ![s].state = "INITIAL"]
  /\ recv' = [recv EXCEPT ![s].pc = "unlock"]
  /\ UNCHANGED <<lockVars, life, update, proxyVars, xp, post, net, history>>

\* drci_terminate: finish_channel, unschedule, drop_dataproxy; on an error the
\* connection is closed.
RecvTerminate(s) ==
  LET ok == cmd[s].proxy => Droppable
  IN  /\ recv[s].pc = "terminate"
      /\ cmd[s].proxy => RegistryReturns(Recv(s))
      /\ proxy' = IF cmd[s].proxy THEN drop_dataproxy ELSE proxy
      /\ chan' = [chan EXCEPT ![s] = [state |-> "CLOSED", doomed |-> ok]]
      /\ cmd' = [cmd EXCEPT ![s].task = FALSE, ![s].proxy = @ /\ ~ok]
      /\ life' = [life EXCEPT ![s] = IF ok THEN @ ELSE "closing"]
      /\ recv' = [recv EXCEPT ![s].pc = "unlock"]
      /\ UNCHANGED <<lockVars, created, update, accessor, xp, post, net, history>>

\* drmu_create finds the proxy and asks whether the session may write; a
\* request that needs no schedule is completed at once.
drmu_create(s) ==
  /\ recv[s].pc = "find" /\ RegistryReturns(Recv(s))
  /\ \/ /\ can_write(s) /\ recv' = [recv EXCEPT ![s].pc = "write"]
        /\ UNCHANGED update
     \/ /\ can_write(s) /\ update' = update \union {s}
        /\ recv' = [recv EXCEPT ![s].pc = "unlock"]
     \/ /\ ~can_write(s) /\ recv' = [recv EXCEPT ![s].pc = "unlock"]
        /\ UNCHANGED update
  /\ UNCHANGED <<lockVars, life, chan, cmd, created, proxyVars, xp, post, net, history>>

\* complete_without_schedule locks the registry around its writes.
RecvWrite(s) ==
  LET op == Checked(s)
  IN  /\ recv[s].pc = "write" /\ RegistryReturns(Recv(s))
      /\ registry' = IF op = NoOp THEN Free ELSE Recv(s)
      /\ recv' = [recv EXCEPT ![s] = [pc |-> IF op = NoOp THEN "unlock" ELSE "apply", op |-> op]]
      /\ UNCHANGED <<schedule, session, commandVars, proxyVars, xp, post, net, history>>

RecvApply(s) ==
  LET op == recv[s].op
  IN  /\ recv[s].pc = "apply" /\ Alive(op.ref)
      /\ recv' = [recv EXCEPT ![s] = [pc |-> IF Echoes(op) THEN "echo" ELSE "written",
                                      op |-> Applied(op)]]
      /\ UNCHANGED <<lockVars, commandVars, proxyVars, xp, post, net, history>>

RecvEcho(s) ==
  LET op == recv[s].op
  IN  /\ recv[s].pc = "echo" /\ SessionReturns(Recv(s), op.owner)
      /\ \E sent \in SendResults : chan' = EchoSent(op, sent)
      /\ session' = LockedAfterEcho(Recv(s), op)
      /\ recv' = [recv EXCEPT ![s].pc = "written"]
      /\ UNCHANGED <<schedule, registry, life, cmd, created, update, proxyVars, xp, post, net, history>>

RecvWritten(s) ==
  /\ recv[s].pc = "written"
  /\ registry' = Free
  /\ recv' = [recv EXCEPT ![s] = [pc |-> "unlock", op |-> NoOp]]
  /\ UNCHANGED <<schedule, session, commandVars, proxyVars, xp, post, net, history>>

RecvUnlock(s) ==
  /\ recv[s].pc = "unlock"
  /\ schedule' = Free /\ session' = [session EXCEPT ![s] = Free]
  /\ recv' = [recv EXCEPT ![s].pc = "idle"]
  /\ UNCHANGED <<registry, commandVars, proxyVars, xp, post, net, history>>

Receive(s) ==
  \/ RequestTooLate(s) \/ HandleRequest(s)
  \/ \E p \in Permissions, e \in EchoModes : drci_create(s, p, e)
  \/ RecvTerminate(s) \/ drmu_create(s) \/ RecvWrite(s) \/ RecvApply(s)
  \/ RecvEcho(s) \/ RecvWritten(s) \/ RecvUnlock(s)

-----------------------------------------------------------------------------
(* xp: X-Plane's main thread. *)

\* A flight loop callback: run_tasks visits DRCI and DRMU commands.
FrameBegin ==
  /\ xp.pc = "idle" /\ schedule = Free
  /\ schedule' = XpThread
  /\ xp' = [xp EXCEPT !.pc = "run",
                      !.todo = {<<"drci", s>> : s \in {t \in Sessions : cmd[t].task}}
                               \union {<<"drmu", s>> : s \in update}]
  /\ UNCHANGED <<session, registry, commandVars, proxyVars, recv, post, net, history>>

Visit(kind, s, pc) ==
  /\ xp.pc = "run" /\ <<kind, s>> \in xp.todo
  /\ xp' = [xp EXCEPT !.pc = pc, !.at = s, !.todo = @ \ {<<kind, s>>}]

\* drci_process_flightloop of a command that has failed or is registered.
XpSkip(s) ==
  /\ Visit("drci", s, "run") /\ (cmd[s].failed \/ cmd[s].registered)
  /\ UNCHANGED <<lockVars, commandVars, proxyVars, recv, post, net, history>>

XpReserve(s) ==
  /\ ~cmd[s].failed /\ ~cmd[s].registered
  /\ RegistryReturns(XpThread)
  /\ Visit("drci", s, IF Reservable THEN "register" ELSE "error")
  /\ reserve_dataproxy(s)
  /\ cmd' = [cmd EXCEPT ![s].proxy = Reservable, ![s].failed = ~Reservable]
  /\ UNCHANGED <<lockVars, life, chan, created, update, recv, post, net, history>>

XpRegister(accepted) ==
  /\ xp.pc = "register" /\ RegistryReturns(XpThread)
  /\ register_dataproxy(accepted)
  /\ cmd' = [cmd EXCEPT ![xp.at].registered = accepted, ![xp.at].failed = ~accepted]
  /\ refused' = IF accepted THEN refused ELSE refused \union {cmd[xp.at].id}
  /\ xp' = [xp EXCEPT !.pc = IF accepted THEN "confirm" ELSE "error"]
  /\ UNCHANGED <<lockVars, life, chan, created, update, recv, post, net, lost, fault>>

XpConfirm ==
  LET s == xp.at
  IN  /\ xp.pc = "confirm" /\ SessionReturns(XpThread, s)
      /\ \E sent \in SendResults :
           LET ok == Lives(s) /\ chan[s].state = "INITIAL" /\ sent
           IN  /\ chan' = IF ok THEN [chan EXCEPT ![s].state = "CONFIRMED"] ELSE Closed(s)
               /\ cmd' = [cmd EXCEPT ![s].failed = ~ok]
      /\ xp' = [xp EXCEPT !.pc = "run"]
      /\ UNCHANGED <<lockVars, life, created, update, proxyVars, recv, post, net, history>>

XpError ==
  /\ xp.pc = "error" /\ SessionReturns(XpThread, xp.at)
  /\ chan' = Closed(xp.at)
  /\ xp' = [xp EXCEPT !.pc = "run"]
  /\ UNCHANGED <<lockVars, life, cmd, created, update, proxyVars, recv, post, net, history>>

\* drmu_process_flightloop locks the registry around its writes, too.
XpUpdate(s) ==
  LET op == Checked(s)
  IN  /\ RegistryReturns(XpThread)
      /\ xp.pc = "run" /\ <<"drmu", s>> \in xp.todo
      /\ xp' = [xp EXCEPT !.pc = IF op = NoOp THEN "run" ELSE "apply", !.op = op,
                          !.todo = @ \ {<<"drmu", s>>}]
      /\ registry' = IF op = NoOp THEN Free ELSE XpThread
      /\ UNCHANGED <<schedule, session, commandVars, proxyVars, recv, post, net, history>>

\* X-Plane or another plugin writes through the accessor (dataproxy_xp_set_...).
\* Reading is one step under the registry's lock that changes nothing.
XpSet ==
  LET op == Checked(XPlane)
  IN  /\ xp.pc = "idle" /\ accessor > 0 /\ registry = Free
      /\ op # NoOp
      /\ xp' = [xp EXCEPT !.pc = "apply", !.op = op]
      /\ registry' = AfterCheck(XpThread)
      /\ UNCHANGED <<schedule, session, commandVars, proxyVars, recv, post, net, history>>

XpApply ==
  /\ xp.pc = "apply" /\ Alive(xp.op.ref)
  /\ xp' = [xp EXCEPT !.pc = IF Echoes(xp.op) THEN "echo" ELSE "written", !.op = Applied(@)]
  /\ UNCHANGED <<lockVars, commandVars, proxyVars, recv, post, net, history>>

XpEcho ==
  /\ xp.pc = "echo" /\ life[xp.op.owner] # "freed" /\ SessionReturns(XpThread, xp.op.owner)
  /\ \E sent \in SendResults : chan' = EchoSent(xp.op, sent)
  /\ session' = LockedAfterEcho(XpThread, xp.op)
  /\ xp' = [xp EXCEPT !.pc = "written"]
  /\ UNCHANGED <<schedule, registry, life, cmd, created, update, proxyVars, recv, post, net, history>>

\* Back from the setter: to run_tasks, or to X-Plane.
XpWritten ==
  /\ xp.pc = "written"
  /\ registry' = IF registry = XpThread THEN Free ELSE registry
  /\ xp' = [xp EXCEPT !.pc = IF schedule = XpThread THEN "run" ELSE "idle", !.op = NoOp]
  /\ UNCHANGED <<schedule, session, commandVars, proxyVars, recv, post, net, history>>

\* End of a frame; post-processing is woken if it waits.
RunTasksEnd ==
  /\ xp.pc = "run" /\ xp.todo = {}
  /\ schedule' = Free
  /\ xp' = [xp EXCEPT !.pc = "after", !.at = 0]
  /\ UNCHANGED <<session, registry, commandVars, proxyVars, recv, post, net, history>>

FrameEnd ==
  /\ xp.pc = "after"
  /\ xp' = [xp EXCEPT !.pc = "idle"]
  /\ post' = [post EXCEPT !.pc = IF @ = "wait" THEN "woken" ELSE @]
  /\ UNCHANGED <<lockVars, commandVars, recv, net, history>>

PlainFrameEnd == FrameEnd /\ UNCHANGED proxyVars

\* Every XPREF_MAINTENANCE_INTERVAL frames.
MaintenanceFrameEnd == FrameEnd /\ RegistryReturns(XpThread) /\ unregister_dropped

-----------------------------------------------------------------------------
(* post: run_post_processing_thread *)

PostBegin ==
  /\ post.pc = "woken" /\ schedule = Free
  /\ schedule' = PostThread
  /\ post' = [pc |-> "run", todo |-> {s \in Sessions : cmd[s].task}, at |-> 0]
  /\ UNCHANGED <<session, registry, commandVars, proxyVars, recv, xp, net, history>>

\* drci_process_post: a registered command needs no task any more.
PostUnschedule(s) ==
  /\ post.pc = "run" /\ s \in post.todo /\ ~cmd[s].failed
  /\ cmd' = [cmd EXCEPT ![s].task = @ /\ ~cmd[s].registered]
  /\ post' = [post EXCEPT !.todo = @ \ {s}]
  /\ UNCHANGED <<lockVars, life, chan, created, update, proxyVars, recv, xp, net, history>>

\* A failed one is terminated: finish_channel, unschedule ...
PostTerminate(s) ==
  /\ post.pc = "run" /\ s \in post.todo /\ cmd[s].failed
  /\ SessionReturns(PostThread, s)
  /\ chan' = Closed(s)
  /\ cmd' = [cmd EXCEPT ![s].task = FALSE]
  /\ post' = [pc |-> "drop", todo |-> post.todo \ {s}, at |-> s]
  /\ UNCHANGED <<lockVars, life, created, update, proxyVars, recv, xp, net, history>>

\* ... drop the proxy, and ask for the channel's destruction.
PostDrop ==
  LET s == post.at
      ok == cmd[s].proxy => Droppable
  IN  /\ post.pc = "drop" /\ (cmd[s].proxy => RegistryReturns(PostThread))
      /\ proxy' = IF cmd[s].proxy THEN drop_dataproxy ELSE proxy
      /\ cmd' = [cmd EXCEPT ![s].proxy = @ /\ ~ok]
      /\ chan' = [chan EXCEPT ![s].doomed = ok]
      /\ post' = [post EXCEPT !.pc = "run", !.at = 0]
      /\ UNCHANGED <<lockVars, life, created, update, accessor, recv, xp, net, history>>

PostEnd ==
  /\ post.pc = "run" /\ post.todo = {}
  /\ schedule' = Free
  /\ post' = [post EXCEPT !.pc = "sweep"]
  /\ UNCHANGED <<session, registry, commandVars, proxyVars, recv, xp, net, history>>

\* maintain_server destroys the channels whose destruction was requested and
\* whose session it can lock; drci_destroy frees the command.
Swept == {s \in Sessions : chan[s].doomed /\ Lives(s)}

destroy_pending_channels ==
  /\ post.pc = "sweep" /\ \A s \in Sessions : SessionReturns(PostThread, s)
  /\ chan' = [s \in Sessions |-> IF s \in Swept THEN NoChannel ELSE chan[s]]
  /\ cmd' = [s \in Sessions |-> IF s \in Swept THEN NoCommand ELSE cmd[s]]
  /\ post' = [post EXCEPT !.pc = "wait"]
  /\ UNCHANGED <<lockVars, life, created, update, proxyVars, recv, xp, net, history>>

\* The DRMU command of session s ends and is unscheduled by its owner.
UpdateEnds(s) ==
  /\ s \in update /\ schedule = Free
  /\ update' = update \ {s}
  /\ UNCHANGED <<lockVars, life, chan, cmd, created, proxyVars, recv, xp, post, net, history>>

-----------------------------------------------------------------------------
(* net: destroy_session after a connection was lost or closed. *)

Disconnect(s) ==
  /\ MayDisconnect /\ life[s] = "live"
  /\ life' = [life EXCEPT ![s] = "closing"]
  /\ UNCHANGED <<lockVars, chan, cmd, created, update, proxyVars, recv, xp, post, net, history>>

NetAt(pc) == net.pc = pc
NetGoes(pc) == net' = [net EXCEPT !.pc = pc]

\* destroy_session_channel: drci_terminate looks at registration_task and waits
\* for the schedule.
NetVisit(s) ==
  /\ NetAt("watch") /\ life[s] = "closing" /\ recv[s].pc = "idle" /\ s \notin update
  /\ life' = [life EXCEPT ![s] = "pending"]
  /\ net' = [pc |-> IF chan[s] = NoChannel \/ chan[s].doomed THEN "destroy"
                    ELSE IF cmd[s].task THEN "unschedule" ELSE "drop",
             at |-> s]
  /\ UNCHANGED <<lockVars, chan, cmd, created, update, proxyVars, recv, xp, post, history>>

\* unschedule_task fails if post-processing was faster; the command is then
\* destroyed as it is.
NetUnschedule ==
  LET s == net.at
  IN  /\ NetAt("unschedule") /\ schedule = Free
      /\ cmd' = [cmd EXCEPT ![s].task = FALSE]
      /\ lost' = IF cmd[s].task THEN lost ELSE lost \union {cmd[s].id}
      /\ NetGoes(IF cmd[s].task THEN "drop" ELSE "destroy")
      /\ UNCHANGED <<lockVars, life, chan, created, update, proxyVars, recv, xp, post,
                     refused, fault>>

\* MUTANT of NetDrop: the proxy is left to maintenance.
NetDropsNothing ==
  /\ NetAt("drop") /\ NetGoes("destroy")
  /\ UNCHANGED <<lockVars, commandVars, proxyVars, recv, xp, post, history>>

NetDrop ==
  LET s == net.at
      ok == cmd[s].proxy => Droppable
  IN  /\ NetAt("drop") /\ (cmd[s].proxy => RegistryReturns(NetThread))
      /\ proxy' = IF cmd[s].proxy THEN drop_dataproxy ELSE proxy
      /\ cmd' = [cmd EXCEPT ![s].proxy = @ /\ ~ok]
      /\ lost' = IF ok THEN lost ELSE lost \union {cmd[s].id}
      /\ NetGoes("destroy")
      /\ UNCHANGED <<lockVars, life, chan, created, update, accessor, recv, xp, post,
                     refused, fault>>

\* Other threads that are still inside the command or its session.
InUse(s) ==
  \/ xp.pc \in {"register", "confirm", "error"} /\ xp.at = s
  \/ xp.pc \in {"apply", "echo"} /\ xp.op.owner = s
  \/ post.pc = "drop" /\ post.at = s
  \/ \E t \in Sessions : recv[t].pc \in {"apply", "echo"} /\ recv[t].op.owner = s

NetDestroy ==
  LET s == net.at
  IN  /\ NetAt("destroy") /\ ~InUse(s)
      /\ life' = [life EXCEPT ![s] = "freed"]
      /\ chan' = [chan EXCEPT ![s] = NoChannel] /\ cmd' = [cmd EXCEPT ![s] = NoCommand]
      /\ net' = [pc |-> "watch", at |-> 0]
      /\ UNCHANGED <<lockVars, created, update, proxyVars, recv, xp, post, history>>

\* Undefined behaviour, at which the model stops: a command or session is freed
\* under another thread, or a setter is called for a command that is gone.
Undefined ==
  /\ \/ NetAt("destroy") /\ InUse(net.at)
     \/ xp.pc = "apply" /\ ~Alive(xp.op.ref)
     \/ \E s \in Sessions : recv[s].pc = "apply" /\ ~Alive(recv[s].op.ref)
  /\ ~fault /\ fault' = TRUE
  /\ UNCHANGED <<lockVars, commandVars, proxyVars, recv, xp, post, net, lost, refused>>

FrameNext ==
  \/ FrameBegin \/ RunTasksEnd \/ XpConfirm \/ XpError
  \/ \E s \in Sessions : XpSkip(s) \/ XpReserve(s) \/ XpUpdate(s)
  \/ \E accepted \in BOOLEAN : XpRegister(accepted)
  \/ XpApply \/ XpEcho \/ XpWritten \/ PlainFrameEnd \/ MaintenanceFrameEnd

PostNext ==
  \/ PostBegin \/ PostDrop \/ PostEnd \/ destroy_pending_channels
  \/ \E s \in Sessions : PostUnschedule(s) \/ PostTerminate(s)

NetNext ==
  \/ \E s \in Sessions : NetVisit(s)
  \/ NetUnschedule \/ NetDrop \/ NetDestroy \/ Undefined

Next ==
  /\ ~fault
  /\ \/ FrameNext \/ XpSet \/ PostNext \/ NetNext
     \/ \E s \in Sessions : LockSchedule(s) \/ Receive(s) \/ Disconnect(s) \/ UpdateEnds(s)

Spec == Init /\ [][Next]_vars

-----------------------------------------------------------------------------
(* Properties. *)

Ids == 0 .. MaxCommands
Owners == 0 .. NumSessions
PermissionModes == {"SESSION", "XPRC", "ALL"}
CommandRecords == [id : Ids, permission : PermissionModes,
                   echo : {"none", "xplane", "other", "all"}, task : BOOLEAN,
                   proxy : BOOLEAN, registered : BOOLEAN, failed : BOOLEAN]
ChannelRecords == [state : {"none", "INITIAL", "CONFIRMED", "CLOSED"}, doomed : BOOLEAN]
ProxyRecords == [state : {"INACTIVE", "RESERVED", "REGISTERED", "DROPPED"}, ref : Ids,
                 owner : Owners, permission : PermissionModes]
Writes == [ref : Ids, owner : Owners, src : Owners, id : BOOLEAN]
RecvRecords == [pc : {"idle", "locked", "create", "terminate", "find", "write", "apply", "echo",
                      "written", "unlock"}, op : Writes]
XpRecords == [pc : {"idle", "run", "register", "confirm", "error", "apply", "echo", "written",
                    "after"},
              todo : SUBSET ({"drci", "drmu"} \X Sessions), at : Owners, op : Writes]
PostRecords == [pc : {"wait", "woken", "run", "drop", "sweep"}, todo : SUBSET Sessions,
                at : Owners]
NetRecords == [pc : {"watch", "unschedule", "drop", "destroy"}, at : Owners]

TypeOK ==
  /\ schedule \in Threads \union {Free} /\ registry \in Threads \union {Free}
  /\ session \in [Sessions -> Threads \union {Free}]
  /\ life \in [Sessions -> {"live", "closing", "pending", "freed"}]
  /\ chan \in [Sessions -> ChannelRecords] /\ cmd \in [Sessions -> CommandRecords]
  /\ created \in Ids /\ update \subseteq Sessions
  /\ proxy \in ProxyRecords /\ accessor \in Int
  /\ recv \in [Sessions -> RecvRecords] /\ xp \in XpRecords
  /\ post \in PostRecords /\ net \in NetRecords
  /\ lost \subseteq Commands /\ refused \subseteq Commands /\ fault \in BOOLEAN

\* While a dataref is claimed, and while a thread that holds the registry is
\* inside one of its operations, the command behind it exists: neither X-Plane
\* nor DRMU call into freed memory, and no name stays blocked by a command that
\* is gone (reserve_dataproxy to drop_dataproxy, dataproxy_simple_get, DRMU's
\* writes).  Commands that were destroyed although their termination failed
\* are the exception (destroy_session_channel).
ClaimHasCommand ==
  LET Reached(n) == Alive(n) \/ n \in lost
  IN  /\ proxy.state \in {"RESERVED", "REGISTERED"} => Reached(proxy.ref)
      /\ \A s \in Sessions : recv[s].pc \in {"apply", "echo"} => Reached(recv[s].op.ref)
      /\ xp.pc \in {"apply", "echo"} /\ registry = XpThread => Reached(xp.op.ref)

\* A value reaches a DRCI command only from a source that the option "writable"
\* of that command admits, however often the dataref has changed hands since
\* the writer found it (drmu_create, dataproxy_simple_set).
WritesPermitted ==
  LET Admits(op) ==
        \A s \in Sessions : cmd[s].id = op.ref =>
          \/ cmd[s].permission = "ALL" \/ op.src = s
          \/ cmd[s].permission = "XPRC" /\ op.src # XPlane
  IN  /\ \A s \in Sessions : recv[s].pc = "apply" => Admits(recv[s].op)
      /\ xp.pc = "apply" => Admits(xp.op)

\* X-Plane has exactly one accessor while the proxy is registered or waits to be
\* unregistered, and none otherwise, also if the dataref is claimed again
\* before maintenance comes by (reserve_dataproxy).
AccessorAccounted ==
  accessor = IF proxy.state \in {"REGISTERED", "DROPPED"} THEN 1 ELSE 0

\* Owners of the lock that a thread takes next.
SessionOwner(s) == IF life[s] \in {"pending", "freed"} THEN Free ELSE session[s]

WaitsFor(t) ==
  ( IF t \in Sessions THEN
      IF recv[t].pc = "locked" THEN {session[t]}
      ELSE IF recv[t].pc \in {"terminate", "find", "write"} THEN {registry}
      ELSE IF recv[t].pc = "echo" THEN {SessionOwner(recv[t].op.owner)} ELSE {}
    ELSE IF t = XpThread THEN
      IF xp.pc = "idle" THEN {schedule}
      ELSE IF xp.pc = "echo" THEN {SessionOwner(xp.op.owner)}
      ELSE IF xp.pc \in {"confirm", "error"} THEN {SessionOwner(xp.at)}
      ELSE IF xp.pc \in {"run", "register", "after"} THEN {registry} ELSE {}
    ELSE IF t = PostThread THEN
      IF post.pc = "woken" THEN {schedule}
      ELSE IF post.pc = "run" THEN {SessionOwner(s) : s \in post.todo}
      ELSE IF post.pc = "drop" THEN {registry}
      ELSE IF post.pc = "sweep" THEN {SessionOwner(s) : s \in Sessions} ELSE {}
    ELSE
      IF net.pc = "unschedule" THEN {schedule}
      ELSE IF net.pc = "drop" THEN {registry} ELSE {} ) \ {Free, t}

\* X-Plane's thread has come too late with a value it had checked: it kept the
\* lock of a session whose dataref was dropped in between.
SessionLeftLocked == \E s \in Sessions : session[s] = XpThread

\* No threads wait for each other in a circle, whatever they hold of schedule,
\* sessions and registry.  The setter is called without the registry for that
\* very reason (dataproxy_simple_set).
NoLockCycle ==
  SessionLeftLocked \/
    \A T \in SUBSET Threads : T # {} => \E t \in T : WaitsFor(t) \cap T = {}
=============================================================================
