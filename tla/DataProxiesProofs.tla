-------------------------- MODULE DataProxiesProofs --------------------------
(***************************************************************************)
(* Proofs about DataProxies, for any number of sessions and commands,      *)
(* whatever the permissions and echo modes, and whether or not messages    *)
(* can be sent and connections are lost.                                   *)
(*                                                                         *)
(* A dataref changes hands between sessions, and five kinds of threads     *)
(* look at it, most of them without holding the lock of the command behind *)
(* it.  The argument has three parts.  Locks: between two steps only their *)
(* proper users own them (ScheduleHeld, SessionsHeld, RegistryHeld), so    *)
(* nobody waits in a circle.  Lifetime: a command that is scheduled exists *)
(* (TasksAgree), and one that exists and has claimed the dataref cannot be *)
(* destroyed before it has dropped it or was given up (ChannelsAgree,      *)
(* ClaimKnown, ClaimsHeld, NetAgrees).  Permission: numbers of commands    *)
(* are never given twice (Numbered), so what a writer has checked stays    *)
(* true of the command it names, or that command is gone (WritersAgree).   *)
(* IInv, the conjunction, is kept by every action.                         *)
(***************************************************************************)
EXTENDS DataProxies, TLAPS

\* The dataref belongs to a command.
Claimed == proxy.state \in {"RESERVED", "REGISTERED"}

\* Who holds task_schedule->mutex.
ScheduleHeld ==
  /\ \A s \in Sessions : recv[s].pc # "idle" => schedule = s
  /\ xp.pc \in {"run", "register", "confirm", "error"} => schedule = XpThread
  /\ schedule = XpThread => xp.pc \notin {"idle", "after"}
  /\ post.pc \in {"run", "drop"} => schedule = PostThread
  /\ schedule # NetThread

\* Who holds session->mutex: its receive thread, or X-Plane's by mistake.
SessionsHeld ==
  \A s \in Sessions :
    /\ session[s] \in {Free, s, XpThread}
    /\ session[s] = s <=> recv[s].pc \notin {"idle", "locked"}

\* Who holds registry->mutex between two steps: writers only.
RegistryHeld ==
  /\ \A s \in Sessions : recv[s].pc \in {"apply", "echo", "written"} => registry = s
  /\ registry \in Sessions => recv[registry].pc \in {"apply", "echo", "written"}
  /\ registry = XpThread => xp.pc \in {"apply", "echo", "written"} /\ schedule = XpThread
  /\ registry \notin {PostThread, NetThread}

\* Commands are numbered as they are created, and each number is given once.
Numbered ==
  /\ \A s \in Sessions : cmd[s].id <= created /\ recv[s].op.ref <= created
  /\ \A s, t \in Sessions : cmd[s].id = cmd[t].id /\ cmd[s].id # 0 => s = t
  /\ proxy.ref <= created /\ xp.op.ref <= created

\* A session's channel and command come and go together; nothing is left to do
\* for a command whose channel is to be destroyed.
ChannelAgrees(s) ==
  /\ chan[s].state = "none" => chan[s] = NoChannel /\ cmd[s] = NoCommand
  /\ chan[s].state # "none" => cmd[s].id # 0
  /\ chan[s].doomed => ~cmd[s].task /\ ~cmd[s].proxy
  /\ ~Lives(s) => recv[s].pc = "idle"
  /\ recv[s].pc = "create" => chan[s].state = "none" /\ created < MaxCommands
  /\ recv[s].pc = "terminate" => chan[s].state # "none" /\ ~chan[s].doomed

ChannelsAgree == \A s \in Sessions : ChannelAgrees(s)

\* What run_tasks visits is still scheduled, and so exists.
TasksAgree ==
  /\ \A s \in Sessions : schedule = XpThread /\ <<"drci", s>> \in xp.todo => cmd[s].task
  /\ xp.pc \in {"register", "confirm", "error"} => xp.at \in Sessions /\ cmd[xp.at].task
  /\ xp.pc = "confirm" => cmd[xp.at].registered
  /\ xp.pc = "register" =>
       proxy.state = "RESERVED" /\ proxy.owner = xp.at /\ cmd[xp.at].proxy
  /\ post.pc \in {"run", "drop"} => \A s \in post.todo : cmd[s].task
  /\ post.pc = "drop" =>
       post.at \in Sessions /\ ~cmd[post.at].task /\ chan[post.at].state # "none"

\* The proxy knows the command that claims it, or that one was given up.
ClaimKnown ==
  Claimed =>
    /\ proxy.ref # 0 /\ proxy.owner \in Sessions
    /\ \A s \in Sessions : cmd[s].id = proxy.ref =>
         s = proxy.owner /\ cmd[s].proxy /\ cmd[s].permission = proxy.permission
    /\ \/ cmd[proxy.owner].id = proxy.ref
       \/ proxy.ref \in lost /\ life[proxy.owner] = "freed"

\* A command that says it has the proxy has claimed it, and once only.
Claims(s) ==
  cmd[s].proxy =>
    /\ Claimed /\ proxy.ref = cmd[s].id
    /\ cmd[s].failed \/ cmd[s].registered \/ (xp.pc = "register" /\ xp.at = s)

ClaimsHeld == \A s \in Sessions : Claims(s)

\* What the destruction of a session has established so far.
NetAgrees ==
  /\ net.pc # "watch" => net.at \in Sessions /\ life[net.at] = "pending"
  /\ net.pc \in {"unschedule", "drop"} => chan[net.at].state # "none"
  /\ net.pc \in {"drop", "destroy"} => ~cmd[net.at].task
  /\ net.pc = "destroy" /\ cmd[net.at].proxy => cmd[net.at].id \in lost

\* What a thread between check and setter has read is true as long as it holds
\* the registry.
WritersAgree ==
  /\ \A s \in Sessions : recv[s].pc \in {"apply", "echo"} =>
       /\ proxy.state = "REGISTERED"
       /\ proxy.ref = recv[s].op.ref /\ proxy.owner = recv[s].op.owner
       /\ recv[s].op.id
  /\ xp.pc \in {"apply", "echo"} => xp.op.ref # 0 /\ xp.op.owner \in Sessions
  /\ xp.pc \in {"apply", "echo"} /\ registry = XpThread =>
       proxy.state = "REGISTERED" /\ proxy.ref = xp.op.ref

\* The inductive invariant.
IInv ==
  /\ TypeOK /\ ScheduleHeld /\ SessionsHeld /\ RegistryHeld /\ Numbered
  /\ ChannelsAgree /\ TasksAgree /\ ClaimKnown /\ ClaimsHeld /\ NetAgrees /\ WritersAgree
  /\ WritesPermitted /\ AccessorAccounted

-----------------------------------------------------------------------------
(* What the proofs below keep needing. *)

\* Threads are told apart, and none of them is "nobody".
LEMMA ThreadsDiffer ==
  /\ \A s \in Sessions : /\ s \notin {XpThread, PostThread, NetThread, Free}
                         /\ s \in Threads /\ s \in Owners
  /\ Free \notin {XpThread, PostThread, NetThread} /\ XpThread \notin {PostThread, NetThread}
  /\ PostThread # NetThread /\ {XpThread, PostThread, NetThread} \subseteq Threads
  /\ 0 \in Owners /\ 0 \notin Sessions /\ 0 \in Ids /\ 0 \notin Commands /\ Free \notin Threads
  BY DataProxiesAssumption
  DEF Sessions, Threads, XpThread, PostThread, NetThread, Free, Owners, Ids, Commands

\* A receive thread goes on to its next step.
LEMMA RecvGoes ==
  ASSUME recv \in [Sessions -> RecvRecords], NEW s \in Sessions,
         NEW pc \in {"idle", "locked", "create", "terminate", "find", "write", "apply", "echo",
                     "written", "unlock"},
         recv' = [recv EXCEPT ![s].pc = pc]
  PROVE  /\ recv' \in [Sessions -> RecvRecords]
         /\ recv'[s].pc = pc /\ recv'[s].op = recv[s].op
         /\ \A t \in Sessions : t # s => recv'[t] = recv[t]
<1>1. [recv[s] EXCEPT !.pc = pc] \in RecvRecords
  BY DEF RecvRecords
<1> QED  BY <1>1 DEF RecvRecords

\* A receive thread goes on with another write.
LEMMA RecvWrites ==
  ASSUME recv \in [Sessions -> RecvRecords], NEW s \in Sessions, NEW r \in RecvRecords,
         recv' = [recv EXCEPT ![s] = r]
  PROVE  /\ recv' \in [Sessions -> RecvRecords] /\ recv'[s] = r
         /\ \A t \in Sessions : t # s => recv'[t] = recv[t]
  OBVIOUS

\* X-Plane's thread goes on to its next step.
LEMMA XpGoes ==
  ASSUME xp \in XpRecords,
         NEW pc \in {"idle", "run", "register", "confirm", "error", "apply", "echo", "written",
                     "after"},
         xp' = [xp EXCEPT !.pc = pc]
  PROVE  /\ xp' \in XpRecords
         /\ xp'.pc = pc /\ xp'.todo = xp.todo /\ xp'.at = xp.at /\ xp'.op = xp.op
  BY DEF XpRecords

\* Numbers of commands are numbers.
LEMMA CreatedNat ==
  ASSUME IInv
  PROVE  /\ created \in Nat /\ proxy.ref \in Nat /\ xp.op.ref \in Nat
         /\ \A s \in Sessions : cmd[s].id \in Nat /\ recv[s].op.ref \in Nat
  BY DataProxiesAssumption
  DEF IInv, TypeOK, Ids, ProxyRecords, CommandRecords, RecvRecords, XpRecords, Writes

\* A channel changes its state only.
LEMMA ChannelState ==
  ASSUME chan \in [Sessions -> ChannelRecords], NEW s \in Sessions,
         NEW state \in {"none", "INITIAL", "CONFIRMED", "CLOSED"},
         chan' = [chan EXCEPT ![s].state = state]
  PROVE  /\ chan' \in [Sessions -> ChannelRecords]
         /\ chan'[s].state = state /\ chan'[s].doomed = chan[s].doomed
         /\ \A t \in Sessions : t # s => chan'[t] = chan[t]
<1>1. [chan[s] EXCEPT !.state = state] \in ChannelRecords
  BY DEF ChannelRecords
<1> QED  BY <1>1 DEF ChannelRecords

\* A session is destroyed only while its receive thread is between two requests.
LEMMA NetElsewhere ==
  ASSUME IInv, NEW s \in Sessions, recv[s].pc # "idle"
  PROVE  Lives(s) /\ (net.pc # "watch" => net.at # s)
  BY DEF IInv, NetAgrees, ChannelsAgree, ChannelAgrees, Lives

\* The proxy knows its command as long as neither changes hands.
LEMMA ClaimKept ==
  ASSUME IInv, Claimed' => proxy' = proxy,
         \A t \in Sessions : /\ cmd'[t].id = cmd[t].id /\ cmd'[t].permission = cmd[t].permission
                             /\ Claimed' /\ cmd[t].proxy => cmd'[t].proxy
                             /\ life[t] = "freed" => life'[t] = "freed",
         lost \subseteq lost'
  PROVE  ClaimKnown'
<1> SUFFICES ASSUME Claimed' PROVE ClaimKnown'
  BY DEF ClaimKnown
<1>1. proxy' = proxy /\ Claimed
  BY DEF Claimed
<1>2. /\ proxy.ref # 0 /\ proxy.owner \in Sessions
      /\ \A s \in Sessions : cmd[s].id = proxy.ref =>
           s = proxy.owner /\ cmd[s].proxy /\ cmd[s].permission = proxy.permission
      /\ \/ cmd[proxy.owner].id = proxy.ref
         \/ proxy.ref \in lost /\ life[proxy.owner] = "freed"
  BY <1>1 DEF IInv, ClaimKnown
<1> QED  BY <1>1, <1>2 DEF ClaimKnown

\* The check of a write by src returns a write that is permitted, or nothing.
LEMMA CheckedWrite ==
  ASSUME IInv, NEW src \in Owners
  PROVE  /\ Checked(src) \in Writes /\ Checked(src).ref <= created
         /\ Checked(src) # NoOp =>
              /\ proxy.state = "REGISTERED" /\ proxy.ref # 0 /\ proxy.owner \in Sessions
              /\ Checked(src).ref = proxy.ref /\ Checked(src).owner = proxy.owner
              /\ Checked(src).src = src /\ Checked(src).id
              /\ \A t \in Sessions : cmd[t].id = proxy.ref =>
                   \/ cmd[t].permission = "ALL" \/ src = t
                   \/ cmd[t].permission = "XPRC" /\ src # XPlane
<1>1. NoOp \in Writes /\ NoOp.ref = 0
  BY ThreadsDiffer DEF NoOp, Writes
<1>2. [ref |-> proxy.ref, owner |-> proxy.owner, src |-> src, id |-> TRUE] \in Writes
  BY DEF IInv, TypeOK, ProxyRecords, Writes
<1>3. Checked(src) # NoOp =>
        /\ proxy.state = "REGISTERED"
        /\ Checked(src) = [ref |-> proxy.ref, owner |-> proxy.owner, src |-> src, id |-> TRUE]
        /\ \/ proxy.permission = "ALL"
           \/ src # XPlane /\ (proxy.permission = "XPRC" \/ src = proxy.owner)
  BY DEF Checked, can_write
<1>4. proxy.state = "REGISTERED" =>
        /\ proxy.ref # 0 /\ proxy.owner \in Sessions
        /\ \A t \in Sessions : cmd[t].id = proxy.ref =>
             t = proxy.owner /\ cmd[t].permission = proxy.permission
  BY DEF IInv, ClaimKnown, Claimed
<1>5. Checked(src) \in Writes /\ Checked(src).ref <= created
  BY <1>1, <1>2, CreatedNat DEF Checked, IInv, Numbered
<1> QED  BY <1>3, <1>4, <1>5

\* An echo closes a channel or leaves it as it is.
LEMMA EchoChannel ==
  ASSUME IInv, NEW op, op.owner \in Sessions, NEW sent \in BOOLEAN, chan' = EchoSent(op, sent)
  PROVE  /\ chan' \in [Sessions -> ChannelRecords]
         /\ \A t \in Sessions : /\ chan'[t].doomed = chan[t].doomed
                                /\ chan'[t].state = "none" <=> chan[t].state = "none"
                                /\ chan[t] = NoChannel => chan'[t] = NoChannel
<1>1. \/ chan' = chan
      \/ chan[op.owner] # NoChannel /\ chan' = [chan EXCEPT ![op.owner].state = "CLOSED"]
  BY DEF EchoSent, Closed, ChannelFound
<1>2. CASE chan' = chan
  BY <1>2 DEF IInv, TypeOK
<1>3. CASE chan[op.owner] # NoChannel /\ chan' = [chan EXCEPT ![op.owner].state = "CLOSED"]
  <2>1. chan[op.owner].state # "none"
    BY <1>3 DEF IInv, ChannelsAgree, ChannelAgrees
  <2> QED  BY <1>3, <2>1, ChannelState DEF IInv, TypeOK
<1> QED  BY <1>1, <1>2, <1>3

\* send_to_network succeeds or fails.
LEMMA SendResultsBoolean == SendResults \subseteq BOOLEAN
  BY DataProxiesAssumption DEF SendResults

\* The number of a command that exists is one that was given out.
LEMMA CommandNumber ==
  ASSUME IInv, NEW s \in Sessions, cmd[s].id # 0
  PROVE  cmd[s].id \in Commands
<1>1. cmd[s].id \in Ids
  BY DEF IInv, TypeOK, CommandRecords
<1> QED  BY <1>1, DataProxiesAssumption DEF Ids, Commands

\* A command is scheduled or unscheduled.
LEMMA CommandTask ==
  ASSUME cmd \in [Sessions -> CommandRecords], NEW s \in Sessions, NEW task \in BOOLEAN,
         cmd' = [cmd EXCEPT ![s].task = task]
  PROVE  /\ cmd' \in [Sessions -> CommandRecords] /\ cmd'[s].id = cmd[s].id
         /\ cmd'[s].permission = cmd[s].permission /\ cmd'[s].task = task
         /\ cmd'[s].proxy = cmd[s].proxy /\ cmd'[s].registered = cmd[s].registered
         /\ cmd'[s].failed = cmd[s].failed
         /\ \A t \in Sessions : t # s => cmd'[t] = cmd[t]
<1>1. [cmd[s] EXCEPT !.task = task] \in CommandRecords
  BY DEF CommandRecords
<1> QED  BY <1>1 DEF CommandRecords

\* A command gives up its proxy, or keeps it.
LEMMA CommandProxy ==
  ASSUME cmd \in [Sessions -> CommandRecords], NEW s \in Sessions, NEW has \in BOOLEAN,
         cmd' = [cmd EXCEPT ![s].proxy = has]
  PROVE  /\ cmd' \in [Sessions -> CommandRecords] /\ cmd'[s].id = cmd[s].id
         /\ cmd'[s].permission = cmd[s].permission /\ cmd'[s].task = cmd[s].task
         /\ cmd'[s].proxy = has /\ cmd'[s].registered = cmd[s].registered
         /\ cmd'[s].failed = cmd[s].failed
         /\ \A t \in Sessions : t # s => cmd'[t] = cmd[t]
<1>1. [cmd[s] EXCEPT !.proxy = has] \in CommandRecords
  BY DEF CommandRecords
<1> QED  BY <1>1 DEF CommandRecords

\* The destruction of a channel is requested, or not.
LEMMA ChannelDoomed ==
  ASSUME chan \in [Sessions -> ChannelRecords], NEW s \in Sessions, NEW ok \in BOOLEAN,
         chan' = [chan EXCEPT ![s].doomed = ok]
  PROVE  /\ chan' \in [Sessions -> ChannelRecords]
         /\ chan'[s].state = chan[s].state /\ chan'[s].doomed = ok
         /\ \A t \in Sessions : t # s => chan'[t] = chan[t]
<1>1. [chan[s] EXCEPT !.doomed = ok] \in ChannelRecords
  BY DEF ChannelRecords
<1> QED  BY <1>1 DEF ChannelRecords

\* A write on its way to a setter names a command.
LEMMA WriteHasCommand ==
  ASSUME IInv
  PROVE  /\ \A s \in Sessions : recv[s].pc = "apply" => recv[s].op.ref # 0
         /\ xp.pc = "apply" => xp.op.ref # 0
  BY DEF IInv, WritersAgree, ClaimKnown, Claimed

\* There are no other threads.
LEMMA ThreadCases == Threads = Sessions \union {XpThread, PostThread, NetThread}
  BY DataProxiesAssumption DEF Sessions, Threads, XpThread, PostThread, NetThread

-----------------------------------------------------------------------------
(* Steps of a receive thread. *)

\* Taking the schedule for a request keeps IInv.
LEMMA LockScheduleStep ==
  ASSUME IInv, NEW s \in Sessions, LockSchedule(s)
  PROVE  IInv'
<1>a. /\ recv[s].pc = "idle" /\ life[s] = "live" /\ schedule = Free /\ schedule' = s
      /\ recv' = [recv EXCEPT ![s].pc = "locked"]
      /\ UNCHANGED <<session, registry, commandVars, proxyVars, xp, post, net, history>>
  BY DEF LockSchedule, Recv
<1>u. /\ recv[s].pc = "idle" /\ life[s] = "live" /\ schedule = Free /\ schedule' = s
      /\ UNCHANGED <<session, registry, commandVars, proxyVars, xp, post, net, history>>
  BY <1>a
<1>b. /\ recv' \in [Sessions -> RecvRecords]
      /\ recv'[s].pc = "locked" /\ recv'[s].op = recv[s].op
      /\ \A t \in Sessions : t # s => recv'[t] = recv[t]
  BY <1>a, RecvGoes DEF IInv, TypeOK
<1>1. TypeOK'
  BY <1>u, <1>b, ThreadsDiffer DEF IInv, TypeOK, lockVars, commandVars, proxyVars,
    history
<1>2. ScheduleHeld'
  BY <1>u, <1>b, ThreadsDiffer, CreatedNat DEF IInv, ScheduleHeld, lockVars,
    commandVars, proxyVars, history
<1>3. SessionsHeld'
  BY <1>u, <1>b, ThreadsDiffer, CreatedNat DEF IInv, SessionsHeld, lockVars,
    commandVars, proxyVars, history
<1>4. RegistryHeld'
  BY <1>u, <1>b, ThreadsDiffer, CreatedNat DEF IInv, RegistryHeld, lockVars,
    commandVars, proxyVars, history
<1>5. Numbered'
  BY <1>u, <1>b, ThreadsDiffer, CreatedNat DEF IInv, Numbered, lockVars, commandVars,
    proxyVars, history
<1>6. ChannelsAgree'
  BY <1>u, <1>b, ThreadsDiffer, CreatedNat DEF IInv, ChannelsAgree, ChannelAgrees,
    Lives, lockVars, commandVars, proxyVars, history
<1>7. TasksAgree'
  BY <1>u, <1>b, ThreadsDiffer, CreatedNat DEF IInv, TasksAgree, ScheduleHeld, lockVars,
    commandVars, proxyVars, history
<1>8. WritersAgree'
  BY <1>u, <1>b, ThreadsDiffer, CreatedNat DEF IInv, WritersAgree, RegistryHeld,
    ScheduleHeld, lockVars, commandVars, proxyVars, history
<1>9. WritesPermitted'
  BY <1>u, <1>b, ThreadsDiffer, CreatedNat DEF IInv, WritesPermitted, lockVars,
    commandVars, proxyVars, history
<1>10. ClaimKnown' /\ ClaimsHeld' /\ NetAgrees' /\ AccessorAccounted'
  BY <1>u, <1>b DEF IInv, ClaimKnown, ClaimsHeld, NetAgrees, AccessorAccounted, Claimed,
    Claims, Claimed, lockVars, commandVars, proxyVars, history
<1> QED  BY <1>1, <1>2, <1>3, <1>4, <1>5, <1>6, <1>7, <1>8, <1>9, <1>10 DEF IInv

\* A request that meets the session's destruction keeps IInv.
LEMMA RequestTooLateStep ==
  ASSUME IInv, NEW s \in Sessions, RequestTooLate(s)
  PROVE  IInv'
<1>a. /\ schedule = Free /\ schedule' = s
      /\ UNCHANGED <<session, registry, commandVars, proxyVars, recv, xp, post, net, history>>
  BY DEF RequestTooLate, Recv
<1>1. TypeOK'
  BY <1>a, ThreadsDiffer DEF IInv, TypeOK, commandVars, proxyVars, history
<1>2. ScheduleHeld'
  BY <1>a, ThreadsDiffer DEF IInv, ScheduleHeld
<1>3. SessionsHeld' /\ RegistryHeld'
  BY <1>a, ThreadsDiffer DEF IInv, SessionsHeld, RegistryHeld, ScheduleHeld
<1>4. Numbered' /\ ChannelsAgree'
  BY <1>a DEF IInv, Numbered, ChannelsAgree, ChannelAgrees, Lives, commandVars, proxyVars,
    history
<1>5. TasksAgree'
  BY <1>a, ThreadsDiffer DEF IInv, TasksAgree, ScheduleHeld, commandVars, proxyVars, history
<1>6. WritersAgree'
  BY <1>a, ThreadsDiffer DEF IInv, WritersAgree, RegistryHeld, ScheduleHeld, commandVars,
    proxyVars, history
<1>7. WritesPermitted'
  BY <1>a DEF IInv, WritesPermitted, commandVars, proxyVars, history
<1>8. ClaimKnown' /\ ClaimsHeld' /\ NetAgrees' /\ AccessorAccounted'
  BY <1>a DEF IInv, ClaimKnown, ClaimsHeld, NetAgrees, AccessorAccounted, Claimed, Claims,
    commandVars, proxyVars, history
<1> QED  BY <1>1, <1>2, <1>3, <1>4, <1>5, <1>6, <1>7, <1>8 DEF IInv

\* Locking the session for a request keeps IInv.
LEMMA HandleRequestStep ==
  ASSUME IInv, NEW s \in Sessions, HandleRequest(s)
  PROVE  IInv'
<1>a. PICK pc \in {"create", "terminate", "find", "unlock"} :
        /\ recv[s].pc = "locked" /\ session[s] = Free
        /\ pc \in {"create", "terminate", "find", "unlock"}
        /\ pc = "create" => chan[s] = NoChannel /\ created < MaxCommands
        /\ pc = "terminate" => chan[s].state # "none" /\ ~chan[s].doomed
        /\ session' = [session EXCEPT ![s] = s]
        /\ recv' = [recv EXCEPT ![s].pc = pc]
        /\ UNCHANGED <<schedule, registry, commandVars, proxyVars, xp, post, net, history>>
  BY DEF HandleRequest, LockSession, Recv
<1>u. /\ recv[s].pc = "locked" /\ session[s] = Free
      /\ pc \in {"create", "terminate", "find", "unlock"}
      /\ pc = "create" => chan[s] = NoChannel /\ created < MaxCommands
      /\ pc = "terminate" => chan[s].state # "none" /\ ~chan[s].doomed
      /\ UNCHANGED <<schedule, registry, commandVars, proxyVars, xp, post, net, history>>
  BY <1>a
<1>b. /\ recv' \in [Sessions -> RecvRecords]
      /\ recv'[s].pc = pc /\ recv'[s].op = recv[s].op
      /\ \A t \in Sessions : t # s => recv'[t] = recv[t]
  BY <1>a, RecvGoes DEF IInv, TypeOK
<1>c. /\ session' \in [Sessions -> Threads \union {Free}] /\ session'[s] = s
      /\ \A t \in Sessions : t # s => session'[t] = session[t]
  BY <1>a, ThreadsDiffer DEF IInv, TypeOK
<1>1. TypeOK'
  BY <1>u, <1>b, <1>c, ThreadsDiffer DEF IInv, TypeOK, lockVars, commandVars, proxyVars,
    history
<1>2. ScheduleHeld'
  BY <1>u, <1>b, <1>c, ThreadsDiffer, CreatedNat DEF IInv, ScheduleHeld, lockVars,
    commandVars, proxyVars, history
<1>3. SessionsHeld'
  BY <1>u, <1>b, <1>c, ThreadsDiffer, CreatedNat DEF IInv, SessionsHeld, lockVars,
    commandVars, proxyVars, history
<1>4. RegistryHeld'
  BY <1>u, <1>b, <1>c, ThreadsDiffer, CreatedNat DEF IInv, RegistryHeld, lockVars,
    commandVars, proxyVars, history
<1>5. Numbered'
  BY <1>u, <1>b, <1>c, ThreadsDiffer, CreatedNat DEF IInv, Numbered, lockVars,
    commandVars, proxyVars, history
<1>6. ChannelsAgree'
  <2> SUFFICES ASSUME NEW t \in Sessions PROVE ChannelAgrees(t)'
    BY DEF ChannelsAgree
  <2>1. CASE t = s
    BY <2>1, <1>u, <1>b, <1>c DEF IInv, ChannelsAgree, ChannelAgrees, Lives,
      NoChannel, lockVars, commandVars, proxyVars, history
  <2>2. CASE t # s
    BY <2>2, <1>u, <1>b, <1>c DEF IInv, ChannelsAgree, ChannelAgrees, Lives, lockVars,
      commandVars, proxyVars, history
  <2> QED  BY <2>1, <2>2
<1>7. WritersAgree'
  BY <1>u, <1>b, <1>c, ThreadsDiffer, CreatedNat DEF IInv, WritersAgree, RegistryHeld,
    ScheduleHeld, lockVars, commandVars, proxyVars, history
<1>8. WritesPermitted'
  BY <1>u, <1>b, <1>c, ThreadsDiffer, CreatedNat DEF IInv, WritesPermitted, lockVars,
    commandVars, proxyVars, history
<1>9. /\ TasksAgree' /\ ClaimKnown' /\ ClaimsHeld' /\ NetAgrees'
      /\ AccessorAccounted'
  BY <1>u, <1>b, <1>c DEF IInv, TasksAgree, ClaimKnown, ClaimsHeld, NetAgrees,
    AccessorAccounted, ScheduleHeld, Claimed, Claims, Claimed, lockVars, commandVars,
    proxyVars, history
<1> QED  BY <1>1, <1>2, <1>3, <1>4, <1>5, <1>6, <1>7, <1>8, <1>9 DEF IInv

\* drci_create keeps IInv.
LEMMA DrciCreateStep ==
  ASSUME IInv, NEW s \in Sessions, NEW permission \in Permissions,
         NEW echo \in EchoModes, drci_create(s, permission, echo)
  PROVE  IInv'
<1>a. /\ recv[s].pc = "create" /\ created' = created + 1
      /\ cmd' = [cmd EXCEPT ![s] = [NoCommand EXCEPT !.id = created + 1, !.task = TRUE,
                                      !.permission = permission, !.echo = echo]]
      /\ chan' = [chan EXCEPT ![s].state = "INITIAL"]
      /\ recv' = [recv EXCEPT ![s].pc = "unlock"]
      /\ UNCHANGED <<lockVars, life, update, proxyVars, xp, post, net, history>>
  BY DEF drci_create
<1>u. /\ recv[s].pc = "create" /\ created' = created + 1
      /\ UNCHANGED <<lockVars, life, update, proxyVars, xp, post, net, history>>
  BY <1>a
<1>b. /\ recv' \in [Sessions -> RecvRecords]
      /\ recv'[s].pc = "unlock" /\ recv'[s].op = recv[s].op
      /\ \A t \in Sessions : t # s => recv'[t] = recv[t]
  BY <1>a, RecvGoes DEF IInv, TypeOK
<1>c. /\ created < MaxCommands /\ chan[s] = NoChannel /\ cmd[s].id = 0 /\ ~cmd[s].task
      /\ ~cmd[s].proxy
      /\ schedule = s
  BY <1>a DEF IInv, ChannelsAgree, ChannelAgrees, ScheduleHeld, NoCommand
<1>d. /\ cmd' \in [Sessions -> CommandRecords] /\ cmd'[s].id = created + 1
      /\ cmd'[s].task /\ ~cmd'[s].proxy
      /\ \A t \in Sessions : t # s => cmd'[t] = cmd[t]
  <2>1. created + 1 \in Ids
    BY <1>c, CreatedNat, DataProxiesAssumption DEF Ids
  <2>2. [NoCommand EXCEPT !.id = created + 1, !.task = TRUE, !.permission = permission,
                          !.echo = echo] \in CommandRecords
    BY <2>1, DataProxiesAssumption DEF NoCommand, CommandRecords, PermissionModes
  <2> QED  BY <1>a, <2>2 DEF IInv, TypeOK, NoCommand
<1>d1. ~chan[s].doomed
  BY <1>c DEF NoChannel
<1>e. /\ chan' \in [Sessions -> ChannelRecords] /\ chan'[s].state = "INITIAL" /\ ~chan'[s].doomed
      /\ \A t \in Sessions : t # s => chan'[t] = chan[t]
  BY <1>a, <1>d1, ChannelState DEF IInv, TypeOK
<1>f. created' \in Ids
  BY <1>u, <1>c, CreatedNat, DataProxiesAssumption DEF Ids
<1>g. Lives(s) /\ (net.pc # "watch" => net.at # s)
  BY <1>u, NetElsewhere
<1>1. TypeOK'
  BY <1>u, <1>b, <1>c, <1>d, <1>e, <1>f, <1>g DEF IInv, TypeOK, lockVars, commandVars,
    proxyVars, history
<1>2. ScheduleHeld'
  BY <1>u, <1>b, <1>c, <1>d, <1>e, <1>f, <1>g, ThreadsDiffer, CreatedNat DEF IInv,
    ScheduleHeld, lockVars, commandVars, proxyVars, history
<1>3. SessionsHeld'
  BY <1>u, <1>b, <1>c, <1>d, <1>e, <1>f, <1>g, ThreadsDiffer, CreatedNat DEF IInv,
    SessionsHeld, lockVars, commandVars, proxyVars, history
<1>4. RegistryHeld'
  BY <1>u, <1>b, <1>c, <1>d, <1>e, <1>f, <1>g, ThreadsDiffer, CreatedNat DEF IInv,
    RegistryHeld, lockVars, commandVars, proxyVars, history
<1>5. Numbered'
  BY <1>u, <1>b, <1>c, <1>d, <1>e, <1>f, <1>g, ThreadsDiffer, CreatedNat DEF IInv,
    Numbered, lockVars, commandVars, proxyVars, history
<1>6. ChannelsAgree'
  <2> SUFFICES ASSUME NEW t \in Sessions PROVE ChannelAgrees(t)'
    BY DEF ChannelsAgree
  <2>1. CASE t = s
    BY <2>1, <1>u, <1>b, <1>c, <1>d, <1>e, <1>f, <1>g, CreatedNat DEF IInv,
      ChannelsAgree, ChannelAgrees, Lives, lockVars, commandVars, proxyVars, history
  <2>2. CASE t # s
    BY <2>2, <1>u, <1>b, <1>c, <1>d, <1>e, <1>f, <1>g DEF IInv, ChannelsAgree,
      ChannelAgrees, Lives, ScheduleHeld, lockVars, commandVars, proxyVars, history
  <2> QED  BY <2>1, <2>2
<1>7. TasksAgree'
  BY <1>u, <1>b, <1>c, <1>d, <1>e, <1>f, <1>g, ThreadsDiffer, CreatedNat DEF IInv,
    TasksAgree, ScheduleHeld, lockVars, commandVars, proxyVars, history
<1>8. ClaimKnown'
  BY <1>u, <1>b, <1>c, <1>d, <1>e, <1>f, <1>g, ThreadsDiffer, CreatedNat DEF IInv,
    ClaimKnown, Claimed, Numbered, lockVars, commandVars, proxyVars, history
<1>9. ClaimsHeld'
  BY <1>u, <1>b, <1>c, <1>d, <1>e, <1>f, <1>g, ThreadsDiffer, CreatedNat DEF IInv,
    ClaimsHeld, Claims, Claimed, lockVars, commandVars, proxyVars, history
<1>10. NetAgrees'
  BY <1>u, <1>b, <1>c, <1>d, <1>e, <1>f, <1>g, ThreadsDiffer, CreatedNat DEF IInv,
    NetAgrees, lockVars, commandVars, proxyVars, history
<1>11. WritersAgree'
  BY <1>u, <1>b, <1>c, <1>d, <1>e, <1>f, <1>g, ThreadsDiffer, CreatedNat DEF IInv,
    WritersAgree, RegistryHeld, ScheduleHeld, lockVars, commandVars, proxyVars, history
<1>12. WritesPermitted'
  BY <1>u, <1>b, <1>c, <1>d, <1>e, <1>f, <1>g, ThreadsDiffer, CreatedNat DEF IInv,
    WritesPermitted, Numbered, WritersAgree, ClaimKnown, Claimed, lockVars, commandVars,
    proxyVars, history
<1>13. AccessorAccounted'
  BY <1>u, <1>b, <1>c, <1>d, <1>e, <1>f, <1>g DEF IInv, AccessorAccounted, lockVars,
    commandVars, proxyVars, history
<1> QED  BY <1>1, <1>2, <1>3, <1>4, <1>5, <1>6, <1>7, <1>8, <1>9, <1>10, <1>11, <1>12,
  <1>13 DEF IInv

\* drci_terminate by the receive thread keeps IInv.
LEMMA RecvTerminateStep ==
  ASSUME IInv, NEW s \in Sessions, RecvTerminate(s)
  PROVE  IInv'
<1>a. PICK ok \in BOOLEAN :
        /\ ok <=> (cmd[s].proxy => proxy.state = "REGISTERED")
        /\ recv[s].pc = "terminate" /\ (cmd[s].proxy => registry \in {Free, s})
        /\ proxy' = IF cmd[s].proxy /\ ok
                   THEN [proxy EXCEPT !.state = "DROPPED", !.ref = 0, !.owner = 0] ELSE proxy
        /\ chan' = [chan EXCEPT ![s] = [state |-> "CLOSED", doomed |-> ok]]
        /\ cmd' = [cmd EXCEPT ![s].task = FALSE, ![s].proxy = @ /\ ~ok]
        /\ life' = [life EXCEPT ![s] = IF ok THEN @ ELSE "closing"]
        /\ recv' = [recv EXCEPT ![s].pc = "unlock"]
        /\ UNCHANGED <<lockVars, created, update, accessor, xp, post, net, history>>
  BY DEF RecvTerminate, Recv, RegistryReturns, Droppable, drop_dataproxy
<1>u. /\ ok <=> (cmd[s].proxy => proxy.state = "REGISTERED")
      /\ recv[s].pc = "terminate" /\ (cmd[s].proxy => registry \in {Free, s})
      /\ UNCHANGED <<lockVars, created, update, accessor, xp, post, net, history>>
  BY <1>a
<1>b. /\ recv' \in [Sessions -> RecvRecords]
      /\ recv'[s].pc = "unlock" /\ recv'[s].op = recv[s].op
      /\ \A t \in Sessions : t # s => recv'[t] = recv[t]
  BY <1>a, RecvGoes DEF IInv, TypeOK
<1>c. schedule = s /\ cmd[s].id # 0 /\ Lives(s) /\ (net.pc # "watch" => net.at # s)
  BY <1>a, NetElsewhere DEF IInv, ScheduleHeld, ChannelsAgree, ChannelAgrees
<1>d. /\ cmd' \in [Sessions -> CommandRecords]
      /\ cmd'[s].id = cmd[s].id /\ cmd'[s].permission = cmd[s].permission /\ ~cmd'[s].task
      /\ cmd'[s].proxy = (cmd[s].proxy /\ ~ok) /\ cmd'[s].failed = cmd[s].failed
      /\ cmd'[s].registered = cmd[s].registered
      /\ \A t \in Sessions : t # s => cmd'[t] = cmd[t]
  <2>1. [cmd[s] EXCEPT !.task = FALSE, !.proxy = @ /\ ~ok] \in CommandRecords
    BY DEF IInv, TypeOK, CommandRecords
  <2>2. cmd' = [cmd EXCEPT ![s] = [cmd[s] EXCEPT !.task = FALSE, !.proxy = @ /\ ~ok]]
    BY <1>a DEF IInv, TypeOK
  <2> QED BY <1>a, <2>1, <2>2 DEF IInv, TypeOK, CommandRecords
<1>e. /\ chan' \in [Sessions -> ChannelRecords]
      /\ chan'[s].state = "CLOSED" /\ chan'[s].doomed = ok
      /\ \A t \in Sessions : t # s => chan'[t] = chan[t]
      /\ life' \in [Sessions -> {"live", "closing", "pending", "freed"}]
      /\ life'[s] \in {"live", "closing"} /\ life[s] # "freed"
      /\ \A t \in Sessions : t # s => life'[t] = life[t]
  BY <1>a, <1>c DEF IInv, TypeOK, ChannelRecords, Lives
<1>f. /\ proxy' \in ProxyRecords
      /\ cmd[s].proxy /\ ok => proxy'.state = "DROPPED" /\ proxy'.ref = 0
      /\ ~(cmd[s].proxy /\ ok) => proxy' = proxy
  BY <1>a, ThreadsDiffer DEF IInv, TypeOK, ProxyRecords
<1>1. TypeOK'
  BY <1>u, <1>b, <1>c, <1>d, <1>e, <1>f DEF IInv, TypeOK, lockVars, commandVars,
    proxyVars, history
<1>2. ScheduleHeld'
  BY <1>u, <1>b, <1>c, <1>d, <1>e, <1>f, ThreadsDiffer, CreatedNat DEF IInv,
    ScheduleHeld, lockVars, commandVars, proxyVars, history
<1>3. SessionsHeld'
  BY <1>u, <1>b, <1>c, <1>d, <1>e, <1>f, ThreadsDiffer, CreatedNat DEF IInv,
    SessionsHeld, lockVars, commandVars, proxyVars, history
<1>4. RegistryHeld'
  BY <1>u, <1>b, <1>c, <1>d, <1>e, <1>f, ThreadsDiffer, CreatedNat DEF IInv,
    RegistryHeld, lockVars, commandVars, proxyVars, history
<1>5. Numbered'
  BY <1>u, <1>b, <1>c, <1>d, <1>e, <1>f, ThreadsDiffer, CreatedNat DEF IInv, Numbered,
    lockVars, commandVars, proxyVars, history
<1>6. ChannelsAgree'
  <2> SUFFICES ASSUME NEW t \in Sessions PROVE ChannelAgrees(t)'
    BY DEF ChannelsAgree
  <2>1. CASE t = s
    BY <2>1, <1>u, <1>b, <1>c, <1>d, <1>e, <1>f DEF IInv, ChannelsAgree,
      ChannelAgrees, Lives, lockVars, commandVars, proxyVars, history
  <2>2. CASE t # s
    BY <2>2, <1>u, <1>b, <1>c, <1>d, <1>e, <1>f DEF IInv, ChannelsAgree,
      ChannelAgrees, Lives, lockVars, commandVars, proxyVars, history
  <2> QED  BY <2>1, <2>2
<1>7. TasksAgree'
  BY <1>u, <1>b, <1>c, <1>d, <1>e, <1>f, ThreadsDiffer, CreatedNat DEF IInv, TasksAgree,
    ScheduleHeld, lockVars, commandVars, proxyVars, history
<1>8. ClaimKnown'
  BY <1>u, <1>d, <1>e, <1>f, ClaimKept DEF Claimed, history
<1>9. ClaimsHeld'
  <2> SUFFICES ASSUME NEW t \in Sessions PROVE Claims(t)'
    BY DEF ClaimsHeld
  <2>1. CASE t = s
    BY <2>1, <1>u, <1>b, <1>c, <1>d, <1>e, <1>f DEF IInv, ClaimsHeld, Claims, Claimed,
      lockVars, commandVars, proxyVars, history
  <2>2. CASE t # s
    BY <2>2, <1>u, <1>b, <1>c, <1>d, <1>e, <1>f DEF IInv, ClaimsHeld, Claims, Claimed,
      Numbered, lockVars, commandVars, proxyVars, history
  <2> QED  BY <2>1, <2>2
<1>10. NetAgrees'
  BY <1>u, <1>b, <1>c, <1>d, <1>e, <1>f, ThreadsDiffer, CreatedNat DEF IInv, NetAgrees,
    lockVars, commandVars, proxyVars, history
<1>11. WritersAgree'
  BY <1>u, <1>b, <1>c, <1>d, <1>e, <1>f, ThreadsDiffer, CreatedNat DEF IInv,
    WritersAgree, RegistryHeld, ScheduleHeld, lockVars, commandVars, proxyVars, history
<1>12. WritesPermitted'
  BY <1>u, <1>b, <1>c, <1>d, <1>e, <1>f, ThreadsDiffer, CreatedNat DEF IInv,
    WritesPermitted, lockVars, commandVars, proxyVars, history
<1>13. AccessorAccounted'
  BY <1>u, <1>b, <1>c, <1>d, <1>e, <1>f, ThreadsDiffer, CreatedNat DEF IInv,
    AccessorAccounted, lockVars, commandVars, proxyVars, history
<1> QED  BY <1>1, <1>2, <1>3, <1>4, <1>5, <1>6, <1>7, <1>8, <1>9, <1>10, <1>11, <1>12,
  <1>13 DEF IInv

\* drmu_create keeps IInv.
LEMMA DrmuCreateStep ==
  ASSUME IInv, NEW s \in Sessions, drmu_create(s)
  PROVE  IInv'
<1>a. PICK pc \in {"write", "unlock"} :
        /\ recv[s].pc = "find" /\ pc \in {"write", "unlock"} /\ update' \subseteq Sessions
        /\ recv' = [recv EXCEPT ![s].pc = pc]
        /\ UNCHANGED <<lockVars, life, chan, cmd, created, proxyVars, xp, post, net, history>>
  BY DEF drmu_create, IInv, TypeOK
<1>u. /\ recv[s].pc = "find" /\ pc \in {"write", "unlock"} /\ update' \subseteq Sessions
      /\ UNCHANGED <<lockVars, life, chan, cmd, created, proxyVars, xp, post, net, history>>
  BY <1>a
<1>b. /\ recv' \in [Sessions -> RecvRecords]
      /\ recv'[s].pc = pc /\ recv'[s].op = recv[s].op
      /\ \A t \in Sessions : t # s => recv'[t] = recv[t]
  BY <1>a, RecvGoes DEF IInv, TypeOK
<1>1. TypeOK'
  BY <1>u, <1>b DEF IInv, TypeOK, lockVars, commandVars, proxyVars, history
<1>2. ScheduleHeld'
  BY <1>u, <1>b, ThreadsDiffer, CreatedNat DEF IInv, ScheduleHeld, lockVars,
    commandVars, proxyVars, history
<1>3. SessionsHeld'
  BY <1>u, <1>b, ThreadsDiffer, CreatedNat DEF IInv, SessionsHeld, lockVars,
    commandVars, proxyVars, history
<1>4. RegistryHeld'
  BY <1>u, <1>b, ThreadsDiffer, CreatedNat DEF IInv, RegistryHeld, lockVars,
    commandVars, proxyVars, history
<1>5. Numbered'
  BY <1>u, <1>b, ThreadsDiffer, CreatedNat DEF IInv, Numbered, lockVars, commandVars,
    proxyVars, history
<1>6. ChannelsAgree'
  BY <1>u, <1>b, ThreadsDiffer, CreatedNat DEF IInv, ChannelsAgree, ChannelAgrees,
    Lives, lockVars, commandVars, proxyVars, history
<1>7. WritersAgree'
  BY <1>u, <1>b, ThreadsDiffer, CreatedNat DEF IInv, WritersAgree, RegistryHeld,
    ScheduleHeld, lockVars, commandVars, proxyVars, history
<1>8. WritesPermitted'
  BY <1>u, <1>b, ThreadsDiffer, CreatedNat DEF IInv, WritesPermitted, lockVars,
    commandVars, proxyVars, history
<1>9. /\ TasksAgree' /\ ClaimKnown' /\ ClaimsHeld' /\ NetAgrees'
      /\ AccessorAccounted'
  BY <1>u, <1>b DEF IInv, TasksAgree, ClaimKnown, ClaimsHeld, NetAgrees,
    AccessorAccounted, ScheduleHeld, Claimed, Claims, Claimed, lockVars, commandVars,
    proxyVars, history
<1> QED  BY <1>1, <1>2, <1>3, <1>4, <1>5, <1>6, <1>7, <1>8, <1>9 DEF IInv

\* Checking the permission of a write keeps IInv.
LEMMA RecvWriteStep ==
  ASSUME IInv, NEW s \in Sessions, RecvWrite(s)
  PROVE  IInv'
<1>a. /\ recv[s].pc = "write" /\ registry \in {Free, s}
      /\ registry' = IF Checked(s) = NoOp THEN Free ELSE s
      /\ recv' = [recv EXCEPT ![s] = [pc |-> IF Checked(s) = NoOp THEN "unlock" ELSE "apply",
           op |-> Checked(s)]]
      /\ UNCHANGED <<schedule, session, commandVars, proxyVars, xp, post, net, history>>
  BY DEF RecvWrite, RegistryReturns, Recv
<1>u. /\ recv[s].pc = "write" /\ registry \in {Free, s}
      /\ registry' = IF Checked(s) = NoOp THEN Free ELSE s
      /\ UNCHANGED <<schedule, session, commandVars, proxyVars, xp, post, net, history>>
  BY <1>a
<1>b. /\ Checked(s) \in Writes /\ Checked(s).ref <= created
      /\ Checked(s) # NoOp =>
           /\ proxy.state = "REGISTERED"
           /\ Checked(s).ref = proxy.ref /\ Checked(s).owner = proxy.owner /\ Checked(s).id
           /\ \A t \in Sessions : cmd[t].id = Checked(s).ref =>
                \/ cmd[t].permission = "ALL" \/ Checked(s).src = t
                \/ cmd[t].permission = "XPRC" /\ Checked(s).src # XPlane
  BY CheckedWrite, ThreadsDiffer
<1>d. /\ recv' \in [Sessions -> RecvRecords] /\ recv'[s].op = Checked(s)
      /\ recv'[s].pc = (IF Checked(s) = NoOp THEN "unlock" ELSE "apply")
      /\ \A t \in Sessions : t # s => recv'[t] = recv[t]
  <2>1. [pc |-> IF Checked(s) = NoOp THEN "unlock" ELSE "apply",
      op |-> Checked(s)] \in RecvRecords
    BY <1>b DEF RecvRecords
  <2> QED  BY <1>a, <2>1, RecvWrites DEF IInv, TypeOK
<1>1. TypeOK'
  BY <1>u, <1>b, <1>d, ThreadsDiffer DEF IInv, TypeOK, lockVars, commandVars, proxyVars,
    history
<1>2. ScheduleHeld'
  BY <1>u, <1>b, <1>d, ThreadsDiffer, CreatedNat DEF IInv, ScheduleHeld, lockVars,
    commandVars, proxyVars, history
<1>3. SessionsHeld'
  BY <1>u, <1>b, <1>d, ThreadsDiffer, CreatedNat DEF IInv, SessionsHeld, lockVars,
    commandVars, proxyVars, history
<1>4. RegistryHeld'
  BY <1>u, <1>b, <1>d, ThreadsDiffer, CreatedNat DEF IInv, RegistryHeld, lockVars,
    commandVars, proxyVars, history
<1>5. Numbered'
  BY <1>u, <1>b, <1>d, ThreadsDiffer, CreatedNat DEF IInv, Numbered, lockVars,
    commandVars, proxyVars, history
<1>6. ChannelsAgree'
  BY <1>u, <1>b, <1>d, ThreadsDiffer, CreatedNat DEF IInv, ChannelsAgree, ChannelAgrees,
    Lives, lockVars, commandVars, proxyVars, history
<1>7. WritersAgree'
  BY <1>u, <1>b, <1>d, ThreadsDiffer, CreatedNat DEF IInv, WritersAgree, RegistryHeld,
    ScheduleHeld, lockVars, commandVars, proxyVars, history
<1>8. WritesPermitted'
  BY <1>u, <1>b, <1>d, ThreadsDiffer, CreatedNat DEF IInv, WritesPermitted, lockVars,
    commandVars, proxyVars, history
<1>9. /\ TasksAgree' /\ ClaimKnown' /\ ClaimsHeld' /\ NetAgrees'
      /\ AccessorAccounted'
  BY <1>u, <1>b, <1>d DEF IInv, TasksAgree, ClaimKnown, ClaimsHeld, NetAgrees,
    AccessorAccounted, ScheduleHeld, Claimed, Claims, Claimed, lockVars, commandVars,
    proxyVars, history
<1> QED  BY <1>1, <1>2, <1>3, <1>4, <1>5, <1>6, <1>7, <1>8, <1>9 DEF IInv

\* The setter called for a DRMU request keeps IInv: its command is alive and not doomed.
LEMMA RecvApplyStep ==
  ASSUME IInv, NEW s \in Sessions, RecvApply(s)
  PROVE  IInv'
<1>a. /\ recv[s].pc = "apply" /\ Alive(recv[s].op.ref)
      /\ recv' = [recv EXCEPT ![s] = [pc |-> IF Echoes(recv[s].op) THEN "echo" ELSE "written",
                                  op |-> Applied(recv[s].op)]]
      /\ UNCHANGED <<lockVars, commandVars, proxyVars, xp, post, net, history>>
  BY DEF RecvApply
<1>u. /\ recv[s].pc = "apply" /\ Alive(recv[s].op.ref)
      /\ UNCHANGED <<lockVars, commandVars, proxyVars, xp, post, net, history>>
  BY <1>a
<1>b. /\ proxy.state = "REGISTERED" /\ proxy.ref = recv[s].op.ref
      /\ proxy.owner = recv[s].op.owner
      /\ registry = s
  BY <1>u DEF IInv, WritersAgree, RegistryHeld
<1>c. recv[s].op.owner \in Sessions /\ ~chan[recv[s].op.owner].doomed
  <2>1. PICK t \in Sessions : cmd[t].id = proxy.ref
    BY <1>u, <1>b DEF Alive
  <2>2. t = proxy.owner /\ cmd[t].proxy
    BY <2>1, <1>b DEF IInv, ClaimKnown, Claimed
  <2> QED  BY <2>2, <1>b DEF IInv, ChannelsAgree, ChannelAgrees
<1>d. recv[s].op \in Writes
  BY DEF IInv, TypeOK, RecvRecords
<1>e. /\ Applied(recv[s].op) \in Writes /\ Applied(recv[s].op).id
      /\ Applied(recv[s].op).ref = recv[s].op.ref /\ Applied(recv[s].op).owner = recv[s].op.owner
  BY <1>c, <1>d DEF Applied, Writes
<1>f. /\ recv' \in [Sessions -> RecvRecords] /\ recv'[s].op = Applied(recv[s].op)
      /\ recv'[s].pc \in {"echo", "written"}
      /\ \A t \in Sessions : t # s => recv'[t] = recv[t]
  <2>1. [pc |-> IF Echoes(recv[s].op) THEN "echo" ELSE "written", op |-> Applied(recv[s].op)]
          \in RecvRecords
    BY <1>e DEF RecvRecords
  <2> QED  BY <1>a, <2>1, RecvWrites DEF IInv, TypeOK
<1>1. TypeOK'
  BY <1>u, <1>b, <1>c, <1>d, <1>e, <1>f DEF IInv, TypeOK, lockVars, commandVars,
    proxyVars, history
<1>2. ScheduleHeld'
  BY <1>u, <1>b, <1>c, <1>d, <1>e, <1>f, ThreadsDiffer, CreatedNat DEF IInv,
    ScheduleHeld, lockVars, commandVars, proxyVars, history
<1>3. SessionsHeld'
  BY <1>u, <1>b, <1>c, <1>d, <1>e, <1>f, ThreadsDiffer, CreatedNat DEF IInv,
    SessionsHeld, lockVars, commandVars, proxyVars, history
<1>4. RegistryHeld'
  BY <1>u, <1>b, <1>c, <1>d, <1>e, <1>f, ThreadsDiffer, CreatedNat DEF IInv,
    RegistryHeld, lockVars, commandVars, proxyVars, history
<1>5. Numbered'
  BY <1>u, <1>b, <1>c, <1>d, <1>e, <1>f, ThreadsDiffer, CreatedNat DEF IInv, Numbered,
    lockVars, commandVars, proxyVars, history
<1>6. ChannelsAgree'
  BY <1>u, <1>b, <1>c, <1>d, <1>e, <1>f, ThreadsDiffer, CreatedNat DEF IInv,
    ChannelsAgree, ChannelAgrees, Lives, lockVars, commandVars, proxyVars, history
<1>7. WritersAgree'
  BY <1>u, <1>b, <1>c, <1>d, <1>e, <1>f, ThreadsDiffer, CreatedNat DEF IInv,
    WritersAgree, RegistryHeld, ScheduleHeld, lockVars, commandVars, proxyVars, history
<1>8. WritesPermitted'
  BY <1>u, <1>b, <1>c, <1>d, <1>e, <1>f, ThreadsDiffer, CreatedNat DEF IInv,
    WritesPermitted, lockVars, commandVars, proxyVars, history
<1>9. /\ TasksAgree' /\ ClaimKnown' /\ ClaimsHeld' /\ NetAgrees'
      /\ AccessorAccounted'
  BY <1>u, <1>b, <1>c, <1>d, <1>e, <1>f DEF IInv, TasksAgree, ClaimKnown, ClaimsHeld,
    NetAgrees, AccessorAccounted, ScheduleHeld, Claimed, Claims, Claimed, lockVars,
    commandVars, proxyVars, history
<1> QED  BY <1>1, <1>2, <1>3, <1>4, <1>5, <1>6, <1>7, <1>8, <1>9 DEF IInv

\* An echo by a receive thread keeps IInv: it leaves no session locked.
LEMMA RecvEchoStep ==
  ASSUME IInv, NEW s \in Sessions, RecvEcho(s)
  PROVE  IInv'
<1>a. PICK sent \in SendResults :
        /\ recv[s].pc = "echo" /\ SessionReturns(s, recv[s].op.owner)
        /\ chan' = EchoSent(recv[s].op, sent)
        /\ session' = LockedAfterEcho(s, recv[s].op)
        /\ recv' = [recv EXCEPT ![s].pc = "written"]
        /\ UNCHANGED <<schedule, registry, life, cmd, created, update, proxyVars, xp, post,
             net, history>>
  BY DEF RecvEcho, Recv
<1>u. /\ recv[s].pc = "echo" /\ SessionReturns(s, recv[s].op.owner)
      /\ UNCHANGED <<schedule, registry, life, cmd, created, update, proxyVars, xp, post,
           net, history>>
  BY <1>a
<1>b. /\ recv' \in [Sessions -> RecvRecords]
      /\ recv'[s].pc = "written" /\ recv'[s].op = recv[s].op
      /\ \A t \in Sessions : t # s => recv'[t] = recv[t]
  BY <1>a, RecvGoes DEF IInv, TypeOK
<1>c. recv[s].op.owner \in Sessions /\ registry = s /\ schedule = s /\ session[s] = s
  BY <1>u DEF IInv, WritersAgree, RegistryHeld, ScheduleHeld, SessionsHeld, ClaimKnown, Claimed
<1>d. Lives(recv[s].op.owner) => ChannelFound(recv[s].op)
  <2> SUFFICES ASSUME Lives(recv[s].op.owner) PROVE ChannelFound(recv[s].op)
    OBVIOUS
  <2>1. /\ proxy.state = "REGISTERED" /\ proxy.owner = recv[s].op.owner /\ recv[s].op.id
    BY <1>u DEF IInv, WritersAgree
  <2>2. cmd[proxy.owner].id = proxy.ref /\ proxy.ref # 0
    BY <2>1 DEF IInv, ClaimKnown, Claimed, Lives
  <2>3. chan[proxy.owner].state # "none"
    BY <2>1, <2>2, <1>c DEF IInv, ChannelsAgree, ChannelAgrees, NoCommand
  <2> QED  BY <2>1, <2>3 DEF ChannelFound, NoChannel
<1>e. session' = session
  BY <1>a, <1>d DEF LockedAfterEcho
<1>f. /\ chan' \in [Sessions -> ChannelRecords]
      /\ \A t \in Sessions : /\ chan'[t].doomed = chan[t].doomed
                             /\ chan'[t].state = "none" <=> chan[t].state = "none"
                             /\ chan[t] = NoChannel => chan'[t] = NoChannel
  BY <1>a, <1>c, EchoChannel, SendResultsBoolean
<1>1. TypeOK'
  BY <1>u, <1>b, <1>c, <1>d, <1>e, <1>f DEF IInv, TypeOK, lockVars, commandVars,
    proxyVars, history
<1>2. ScheduleHeld'
  BY <1>u, <1>b, <1>c, <1>d, <1>e, <1>f, ThreadsDiffer, CreatedNat DEF IInv,
    ScheduleHeld, lockVars, commandVars, proxyVars, history
<1>3. SessionsHeld'
  BY <1>u, <1>b, <1>c, <1>d, <1>e, <1>f, ThreadsDiffer, CreatedNat DEF IInv,
    SessionsHeld, lockVars, commandVars, proxyVars, history
<1>4. RegistryHeld'
  BY <1>u, <1>b, <1>c, <1>d, <1>e, <1>f, ThreadsDiffer, CreatedNat DEF IInv,
    RegistryHeld, lockVars, commandVars, proxyVars, history
<1>5. Numbered'
  BY <1>u, <1>b, <1>c, <1>d, <1>e, <1>f, ThreadsDiffer, CreatedNat DEF IInv, Numbered,
    lockVars, commandVars, proxyVars, history
<1>6. ChannelsAgree'
  <2> SUFFICES ASSUME NEW t \in Sessions PROVE ChannelAgrees(t)'
    BY DEF ChannelsAgree
  <2>1. CASE t = s
    BY <2>1, <1>u, <1>b, <1>c, <1>d, <1>e, <1>f DEF IInv, ChannelsAgree,
      ChannelAgrees, Lives, lockVars, commandVars, proxyVars, history
  <2>2. CASE t # s
    BY <2>2, <1>u, <1>b, <1>c, <1>d, <1>e, <1>f DEF IInv, ChannelsAgree,
      ChannelAgrees, Lives, lockVars, commandVars, proxyVars, history
  <2> QED  BY <2>1, <2>2
<1>7. TasksAgree'
  BY <1>u, <1>b, <1>c, <1>d, <1>e, <1>f, ThreadsDiffer, CreatedNat DEF IInv, TasksAgree,
    ScheduleHeld, lockVars, commandVars, proxyVars, history
<1>8. NetAgrees'
  BY <1>u, <1>b, <1>c, <1>d, <1>e, <1>f, ThreadsDiffer, CreatedNat DEF IInv, NetAgrees,
    lockVars, commandVars, proxyVars, history
<1>9. WritersAgree'
  BY <1>u, <1>b, <1>c, <1>d, <1>e, <1>f, ThreadsDiffer, CreatedNat DEF IInv,
    WritersAgree, RegistryHeld, ScheduleHeld, lockVars, commandVars, proxyVars, history
<1>10. WritesPermitted'
  BY <1>u, <1>b, <1>c, <1>d, <1>e, <1>f, ThreadsDiffer, CreatedNat DEF IInv,
    WritesPermitted, lockVars, commandVars, proxyVars, history
<1>11. ClaimKnown' /\ ClaimsHeld' /\ AccessorAccounted'
  BY <1>u, <1>b, <1>c, <1>d, <1>e, <1>f DEF IInv, ClaimKnown, ClaimsHeld,
    AccessorAccounted, Claimed, Claims, Claimed, lockVars, commandVars, proxyVars,
    history
<1> QED  BY <1>1, <1>2, <1>3, <1>4, <1>5, <1>6, <1>7, <1>8, <1>9, <1>10, <1>11 DEF IInv

\* The end of a write keeps IInv.
LEMMA RecvWrittenStep ==
  ASSUME IInv, NEW s \in Sessions, RecvWritten(s)
  PROVE  IInv'
<1>a. /\ recv[s].pc = "written" /\ registry' = Free
      /\ recv' = [recv EXCEPT ![s] = [pc |-> "unlock", op |-> NoOp]]
      /\ UNCHANGED <<schedule, session, commandVars, proxyVars, xp, post, net, history>>
  BY DEF RecvWritten
<1>u. /\ recv[s].pc = "written" /\ registry' = Free
      /\ UNCHANGED <<schedule, session, commandVars, proxyVars, xp, post, net, history>>
  BY <1>a
<1>b. [pc |-> "unlock", op |-> NoOp] \in RecvRecords /\ NoOp.ref = 0
  BY ThreadsDiffer DEF RecvRecords, NoOp, Writes
<1>c. /\ recv' \in [Sessions -> RecvRecords] /\ recv'[s].pc = "unlock" /\ recv'[s].op.ref = 0
      /\ \A t \in Sessions : t # s => recv'[t] = recv[t]
  BY <1>a, <1>b, RecvWrites DEF IInv, TypeOK
<1>d. registry = s
  BY <1>u DEF IInv, RegistryHeld
<1>1. TypeOK'
  BY <1>u, <1>b, <1>c, <1>d, ThreadsDiffer DEF IInv, TypeOK, lockVars, commandVars,
    proxyVars, history
<1>2. ScheduleHeld'
  BY <1>u, <1>b, <1>c, <1>d, ThreadsDiffer, CreatedNat DEF IInv, ScheduleHeld, lockVars,
    commandVars, proxyVars, history
<1>3. SessionsHeld'
  BY <1>u, <1>b, <1>c, <1>d, ThreadsDiffer, CreatedNat DEF IInv, SessionsHeld, lockVars,
    commandVars, proxyVars, history
<1>4. RegistryHeld'
  BY <1>u, <1>b, <1>c, <1>d, ThreadsDiffer, CreatedNat DEF IInv, RegistryHeld, lockVars,
    commandVars, proxyVars, history
<1>5. Numbered'
  BY <1>u, <1>b, <1>c, <1>d, ThreadsDiffer, CreatedNat DEF IInv, Numbered, lockVars,
    commandVars, proxyVars, history
<1>6. ChannelsAgree'
  BY <1>u, <1>b, <1>c, <1>d, ThreadsDiffer, CreatedNat DEF IInv, ChannelsAgree,
    ChannelAgrees, Lives, lockVars, commandVars, proxyVars, history
<1>7. WritersAgree'
  BY <1>u, <1>b, <1>c, <1>d, ThreadsDiffer, CreatedNat DEF IInv, WritersAgree,
    RegistryHeld, ScheduleHeld, lockVars, commandVars, proxyVars, history
<1>8. WritesPermitted'
  BY <1>u, <1>b, <1>c, <1>d, ThreadsDiffer, CreatedNat DEF IInv, WritesPermitted,
    lockVars, commandVars, proxyVars, history
<1>9. /\ TasksAgree' /\ ClaimKnown' /\ ClaimsHeld' /\ NetAgrees'
      /\ AccessorAccounted'
  BY <1>u, <1>b, <1>c, <1>d DEF IInv, TasksAgree, ClaimKnown, ClaimsHeld, NetAgrees,
    AccessorAccounted, ScheduleHeld, Claimed, Claims, Claimed, lockVars, commandVars,
    proxyVars, history
<1> QED  BY <1>1, <1>2, <1>3, <1>4, <1>5, <1>6, <1>7, <1>8, <1>9 DEF IInv

\* The end of a request keeps IInv.
LEMMA RecvUnlockStep ==
  ASSUME IInv, NEW s \in Sessions, RecvUnlock(s)
  PROVE  IInv'
<1>a. /\ recv[s].pc = "unlock" /\ schedule' = Free
      /\ session' = [session EXCEPT ![s] = Free]
      /\ recv' = [recv EXCEPT ![s].pc = "idle"]
      /\ UNCHANGED <<registry, commandVars, proxyVars, xp, post, net, history>>
  BY DEF RecvUnlock
<1>u. /\ recv[s].pc = "unlock" /\ schedule' = Free
      /\ UNCHANGED <<registry, commandVars, proxyVars, xp, post, net, history>>
  BY <1>a
<1>b. /\ recv' \in [Sessions -> RecvRecords]
      /\ recv'[s].pc = "idle" /\ recv'[s].op = recv[s].op
      /\ \A t \in Sessions : t # s => recv'[t] = recv[t]
  BY <1>a, RecvGoes DEF IInv, TypeOK
<1>c. /\ session' \in [Sessions -> Threads \union {Free}] /\ session'[s] = Free
      /\ \A t \in Sessions : t # s => session'[t] = session[t]
  BY <1>a DEF IInv, TypeOK
<1>d. schedule = s
  BY <1>u DEF IInv, ScheduleHeld
<1>1. TypeOK'
  BY <1>u, <1>b, <1>c, <1>d, ThreadsDiffer DEF IInv, TypeOK, lockVars, commandVars,
    proxyVars, history
<1>2. ScheduleHeld'
  BY <1>u, <1>b, <1>c, <1>d, ThreadsDiffer, CreatedNat DEF IInv, ScheduleHeld, lockVars,
    commandVars, proxyVars, history
<1>3. SessionsHeld'
  BY <1>u, <1>b, <1>c, <1>d, ThreadsDiffer, CreatedNat DEF IInv, SessionsHeld, lockVars,
    commandVars, proxyVars, history
<1>4. RegistryHeld'
  BY <1>u, <1>b, <1>c, <1>d, ThreadsDiffer, CreatedNat DEF IInv, RegistryHeld, lockVars,
    commandVars, proxyVars, history
<1>5. Numbered'
  BY <1>u, <1>b, <1>c, <1>d, ThreadsDiffer, CreatedNat DEF IInv, Numbered, lockVars,
    commandVars, proxyVars, history
<1>6. ChannelsAgree'
  BY <1>u, <1>b, <1>c, <1>d, ThreadsDiffer, CreatedNat DEF IInv, ChannelsAgree,
    ChannelAgrees, Lives, lockVars, commandVars, proxyVars, history
<1>7. TasksAgree'
  BY <1>u, <1>b, <1>c, <1>d, ThreadsDiffer, CreatedNat DEF IInv, TasksAgree,
    ScheduleHeld, lockVars, commandVars, proxyVars, history
<1>8. WritersAgree'
  BY <1>u, <1>b, <1>c, <1>d, ThreadsDiffer, CreatedNat DEF IInv, WritersAgree,
    RegistryHeld, ScheduleHeld, lockVars, commandVars, proxyVars, history
<1>9. WritesPermitted'
  BY <1>u, <1>b, <1>c, <1>d, ThreadsDiffer, CreatedNat DEF IInv, WritesPermitted,
    lockVars, commandVars, proxyVars, history
<1>10. ClaimKnown' /\ ClaimsHeld' /\ NetAgrees' /\ AccessorAccounted'
  BY <1>u, <1>b, <1>c, <1>d DEF IInv, ClaimKnown, ClaimsHeld, NetAgrees,
    AccessorAccounted, Claimed, Claims, Claimed, lockVars, commandVars, proxyVars,
    history
<1> QED  BY <1>1, <1>2, <1>3, <1>4, <1>5, <1>6, <1>7, <1>8, <1>9, <1>10 DEF IInv

-----------------------------------------------------------------------------
(* Steps of X-Plane's thread. *)

\* The beginning of a frame keeps IInv.
LEMMA FrameBeginStep ==
  ASSUME IInv, FrameBegin
  PROVE  IInv'
<1>a. /\ xp.pc = "idle" /\ schedule = Free /\ schedule' = XpThread
      /\ xp' = [xp EXCEPT !.pc = "run",
                       !.todo = {<<"drci", s>> : s \in {t \in Sessions : cmd[t].task}}
                                \union {<<"drmu", s>> : s \in update}]
      /\ UNCHANGED <<session, registry, commandVars, proxyVars, recv, post, net, history>>
  BY DEF FrameBegin
<1>u. /\ xp.pc = "idle" /\ schedule = Free /\ schedule' = XpThread
      /\ UNCHANGED <<session, registry, commandVars, proxyVars, recv, post, net, history>>
  BY <1>a
<1>b. /\ xp' \in XpRecords /\ xp'.pc = "run" /\ xp'.at = xp.at /\ xp'.op = xp.op
      /\ xp'.todo = {<<"drci", s>> : s \in {t \in Sessions : cmd[t].task}}
                      \union {<<"drmu", s>> : s \in update}
  <2>1. {<<"drci", s>> : s \in {t \in Sessions : cmd[t].task}} \union {<<"drmu",
      s>> : s \in update}
          \in SUBSET ({"drci", "drmu"} \X Sessions)
    BY DEF IInv, TypeOK
  <2> QED  BY <1>a, <2>1 DEF IInv, TypeOK, XpRecords
<1>1. TypeOK'
  BY <1>u, <1>b, ThreadsDiffer DEF IInv, TypeOK, lockVars, commandVars, proxyVars,
    history
<1>2. ScheduleHeld'
  BY <1>u, <1>b, ThreadsDiffer, CreatedNat DEF IInv, ScheduleHeld, lockVars,
    commandVars, proxyVars, history
<1>3. RegistryHeld'
  BY <1>u, <1>b, ThreadsDiffer, CreatedNat DEF IInv, RegistryHeld, lockVars,
    commandVars, proxyVars, history
<1>4. Numbered'
  BY <1>u, <1>b, ThreadsDiffer, CreatedNat DEF IInv, Numbered, lockVars, commandVars,
    proxyVars, history
<1>5. TasksAgree'
  BY <1>u, <1>b, ThreadsDiffer, CreatedNat DEF IInv, TasksAgree, ScheduleHeld, lockVars,
    commandVars, proxyVars, history
<1>6. ClaimsHeld'
  BY <1>u, <1>b, ThreadsDiffer, CreatedNat DEF IInv, ClaimsHeld, Claims, Claimed,
    lockVars, commandVars, proxyVars, history
<1>7. WritersAgree'
  BY <1>u, <1>b, ThreadsDiffer, CreatedNat DEF IInv, WritersAgree, RegistryHeld,
    ScheduleHeld, lockVars, commandVars, proxyVars, history
<1>8. WritesPermitted'
  BY <1>u, <1>b, ThreadsDiffer, CreatedNat DEF IInv, WritesPermitted, lockVars,
    commandVars, proxyVars, history
<1>9. /\ SessionsHeld' /\ ChannelsAgree' /\ ClaimKnown' /\ NetAgrees'
      /\ AccessorAccounted'
  BY <1>u, <1>b DEF IInv, SessionsHeld, ChannelsAgree, ClaimKnown, NetAgrees,
    AccessorAccounted, ChannelAgrees, Lives, Claimed, lockVars, commandVars, proxyVars,
    history
<1> QED  BY <1>1, <1>2, <1>3, <1>4, <1>5, <1>6, <1>7, <1>8, <1>9 DEF IInv

\* A command with nothing to do in the flight loop keeps IInv.
LEMMA XpSkipStep ==
  ASSUME IInv, NEW s \in Sessions, XpSkip(s)
  PROVE  IInv'
<1>a. /\ xp.pc = "run" /\ <<"drci", s>> \in xp.todo
      /\ xp' = [xp EXCEPT !.pc = "run", !.at = s, !.todo = @ \ {<<"drci", s>>}]
      /\ UNCHANGED <<lockVars, commandVars, proxyVars, recv, post, net, history>>
  BY DEF XpSkip, Visit
<1>u. /\ xp.pc = "run" /\ <<"drci", s>> \in xp.todo
      /\ UNCHANGED <<lockVars, commandVars, proxyVars, recv, post, net, history>>
  BY <1>a
<1>b. /\ xp' \in XpRecords /\ xp'.pc = "run" /\ xp'.at = s /\ xp'.op = xp.op
      /\ xp'.todo = xp.todo \ {<<"drci", s>>}
  BY <1>a, ThreadsDiffer DEF IInv, TypeOK, XpRecords
<1>1. TypeOK'
  BY <1>u, <1>b DEF IInv, TypeOK, lockVars, commandVars, proxyVars, history
<1>2. ScheduleHeld'
  BY <1>u, <1>b, ThreadsDiffer, CreatedNat DEF IInv, ScheduleHeld, lockVars,
    commandVars, proxyVars, history
<1>3. RegistryHeld'
  BY <1>u, <1>b, ThreadsDiffer, CreatedNat DEF IInv, RegistryHeld, lockVars,
    commandVars, proxyVars, history
<1>4. Numbered'
  BY <1>u, <1>b, ThreadsDiffer, CreatedNat DEF IInv, Numbered, lockVars, commandVars,
    proxyVars, history
<1>5. TasksAgree'
  BY <1>u, <1>b, ThreadsDiffer, CreatedNat DEF IInv, TasksAgree, ScheduleHeld, lockVars,
    commandVars, proxyVars, history
<1>6. ClaimsHeld'
  BY <1>u, <1>b, ThreadsDiffer, CreatedNat DEF IInv, ClaimsHeld, Claims, Claimed,
    lockVars, commandVars, proxyVars, history
<1>7. WritersAgree'
  BY <1>u, <1>b, ThreadsDiffer, CreatedNat DEF IInv, WritersAgree, RegistryHeld,
    ScheduleHeld, lockVars, commandVars, proxyVars, history
<1>8. WritesPermitted'
  BY <1>u, <1>b, ThreadsDiffer, CreatedNat DEF IInv, WritesPermitted, lockVars,
    commandVars, proxyVars, history
<1>9. /\ SessionsHeld' /\ ChannelsAgree' /\ ClaimKnown' /\ NetAgrees'
      /\ AccessorAccounted'
  BY <1>u, <1>b DEF IInv, SessionsHeld, ChannelsAgree, ClaimKnown, NetAgrees,
    AccessorAccounted, ChannelAgrees, Lives, Claimed, lockVars, commandVars, proxyVars,
    history
<1> QED  BY <1>1, <1>2, <1>3, <1>4, <1>5, <1>6, <1>7, <1>8, <1>9 DEF IInv

\* reserve_dataproxy keeps IInv.
LEMMA XpReserveStep ==
  ASSUME IInv, NEW s \in Sessions, XpReserve(s)
  PROVE  IInv'
<1>a. /\ xp.pc = "run" /\ <<"drci", s>> \in xp.todo /\ ~cmd[s].failed /\ ~cmd[s].registered
      /\ registry \in {Free, XpThread} /\ (Reservable <=> proxy.state \in {"INACTIVE",
           "DROPPED"})
      /\ accessor' = IF proxy.state = "DROPPED" THEN accessor - 1 ELSE accessor
      /\ xp' = [xp EXCEPT !.pc = IF Reservable THEN "register" ELSE "error", !.at = s,
                       !.todo = @ \ {<<"drci", s>>}]
      /\ proxy' = IF Reservable THEN [state |-> "RESERVED", ref |-> cmd[s].id, owner |-> s,
                             permission |-> cmd[s].permission] ELSE proxy
      /\ cmd' = [cmd EXCEPT ![s].proxy = Reservable, ![s].failed = ~Reservable]
      /\ UNCHANGED <<lockVars, life, chan, created, update, recv, post, net, history>>
  BY DEF XpReserve, Visit, RegistryReturns, reserve_dataproxy, Unregistered, Reservable
<1>u. /\ xp.pc = "run" /\ <<"drci", s>> \in xp.todo /\ ~cmd[s].failed /\ ~cmd[s].registered
      /\ registry \in {Free, XpThread} /\ (Reservable <=> proxy.state \in {"INACTIVE",
           "DROPPED"})
      /\ accessor' = IF proxy.state = "DROPPED" THEN accessor - 1 ELSE accessor
      /\ UNCHANGED <<lockVars, life, chan, created, update, recv, post, net, history>>
  BY <1>a
<1>b. /\ xp' \in XpRecords /\ xp'.pc = (IF Reservable THEN "register" ELSE "error")
      /\ xp'.at = s /\ xp'.op = xp.op
      /\ xp'.todo = xp.todo \ {<<"drci", s>>}
  BY <1>a, ThreadsDiffer DEF IInv, TypeOK, XpRecords
<1>c. schedule = XpThread /\ cmd[s].task /\ cmd[s].id # 0 /\ ~chan[s].doomed /\ ~cmd[s].proxy
      /\ chan[s].state # "none"
  <2>1. schedule = XpThread /\ cmd[s].task
    BY <1>u DEF IInv, ScheduleHeld, TasksAgree
  <2> QED  BY <1>u, <2>1 DEF IInv, ChannelsAgree, ChannelAgrees, NoCommand, ClaimsHeld, Claims
<1>d. /\ cmd' \in [Sessions -> CommandRecords] /\ cmd'[s].id = cmd[s].id
      /\ cmd'[s].permission = cmd[s].permission /\ cmd'[s].task = cmd[s].task
      /\ cmd'[s].proxy = Reservable /\ cmd'[s].failed = ~Reservable
      /\ \A t \in Sessions : t # s => cmd'[t] = cmd[t]
  <2>1. [cmd[s] EXCEPT !.proxy = Reservable, !.failed = ~Reservable] \in CommandRecords
    <3>1. Reservable \in BOOLEAN
      BY DEF Reservable
    <3> QED  BY <3>1, ZenonT(60) DEF IInv, TypeOK, CommandRecords
  <2>2. cmd' = [cmd EXCEPT ![s] = [cmd[s] EXCEPT !.proxy = Reservable, !.failed = ~Reservable]]
    BY <1>a DEF IInv, TypeOK
  <2> QED BY <2>1, <2>2 DEF IInv, TypeOK, CommandRecords
<1>e. /\ proxy' \in ProxyRecords
      /\ Reservable => /\ proxy'.state = "RESERVED" /\ proxy'.ref = cmd[s].id /\ proxy'.owner = s
                 /\ proxy'.permission = cmd[s].permission
      /\ ~Reservable => proxy' = proxy
  BY <1>a, ThreadsDiffer DEF IInv, TypeOK, ProxyRecords, CommandRecords
<1>1. TypeOK'
  BY <1>u, <1>b, <1>c, <1>d, <1>e DEF IInv, TypeOK, lockVars, commandVars, proxyVars,
    history
<1>2. ScheduleHeld'
  BY <1>u, <1>b, <1>c, <1>d, <1>e, ThreadsDiffer, CreatedNat DEF IInv, ScheduleHeld,
    lockVars, commandVars, proxyVars, history
<1>3. RegistryHeld'
  BY <1>u, <1>b, <1>c, <1>d, <1>e, ThreadsDiffer, CreatedNat DEF IInv, RegistryHeld,
    lockVars, commandVars, proxyVars, history
<1>4. Numbered'
  BY <1>u, <1>b, <1>c, <1>d, <1>e, ThreadsDiffer, CreatedNat DEF IInv, Numbered,
    lockVars, commandVars, proxyVars, history
<1>5. ChannelsAgree'
  <2> SUFFICES ASSUME NEW t \in Sessions PROVE ChannelAgrees(t)'
    BY DEF ChannelsAgree
  <2>1. CASE t = s
    BY <2>1, <1>u, <1>b, <1>c, <1>d, <1>e DEF IInv, ChannelsAgree, ChannelAgrees,
      Lives, lockVars, commandVars, proxyVars, history
  <2>2. CASE t # s
    BY <2>2, <1>u, <1>b, <1>c, <1>d, <1>e DEF IInv, ChannelsAgree, ChannelAgrees,
      Lives, lockVars, commandVars, proxyVars, history
  <2> QED  BY <2>1, <2>2
<1>6. TasksAgree'
  BY <1>u, <1>b, <1>c, <1>d, <1>e, ThreadsDiffer, CreatedNat DEF IInv, TasksAgree,
    ScheduleHeld, lockVars, commandVars, proxyVars, history
<1>7. ClaimKnown'
  <2>1. CASE Reservable
    BY <2>1, <1>c, <1>d, <1>e, ThreadsDiffer DEF IInv, Numbered, ClaimKnown
  <2>2. CASE ~Reservable
    BY <2>2, <1>u, <1>c, <1>d, <1>e, ClaimKept DEF Claimed, history, commandVars
  <2> QED  BY <2>1, <2>2
<1>8. ClaimsHeld'
  BY <1>u, <1>b, <1>c, <1>d, <1>e, ThreadsDiffer, CreatedNat DEF IInv, ClaimsHeld,
    Claims, Claimed, lockVars, commandVars, proxyVars, history
<1>9. NetAgrees'
  BY <1>u, <1>b, <1>c, <1>d, <1>e, ThreadsDiffer, CreatedNat DEF IInv, NetAgrees,
    lockVars, commandVars, proxyVars, history
<1>10. WritersAgree'
  BY <1>u, <1>b, <1>c, <1>d, <1>e, ThreadsDiffer, CreatedNat DEF IInv, WritersAgree,
    RegistryHeld, ScheduleHeld, lockVars, commandVars, proxyVars, history
<1>11. WritesPermitted'
  BY <1>u, <1>b, <1>c, <1>d, <1>e, ThreadsDiffer, CreatedNat DEF IInv, WritesPermitted,
    lockVars, commandVars, proxyVars, history
<1>12. AccessorAccounted'
  BY <1>u, <1>b, <1>c, <1>d, <1>e, ThreadsDiffer, CreatedNat DEF IInv,
    AccessorAccounted, lockVars, commandVars, proxyVars, history
<1>13. SessionsHeld'
  BY <1>u, <1>b, <1>c, <1>d, <1>e DEF IInv, SessionsHeld, lockVars, commandVars,
    proxyVars, history
<1> QED  BY <1>1, <1>2, <1>3, <1>4, <1>5, <1>6, <1>7, <1>8, <1>9, <1>10, <1>11, <1>12,
  <1>13 DEF IInv

\* register_dataproxy keeps IInv, also if X-Plane refuses.
LEMMA XpRegisterStep ==
  ASSUME IInv, NEW accepted \in BOOLEAN, XpRegister(accepted)
  PROVE  IInv'
<1>a. /\ xp.pc = "register" /\ registry \in {Free, XpThread}
      /\ accessor' = IF accepted THEN accessor + 1 ELSE accessor
      /\ refused' = IF accepted THEN refused ELSE refused \union {cmd[xp.at].id}
      /\ xp' = [xp EXCEPT !.pc = IF accepted THEN "confirm" ELSE "error"]
      /\ proxy' = IF accepted THEN [proxy EXCEPT !.state = "REGISTERED"] ELSE proxy
      /\ cmd' = [cmd EXCEPT ![xp.at].registered = accepted, ![xp.at].failed = ~accepted]
      /\ UNCHANGED <<lockVars, life, chan, created, update, recv, post, net, lost, fault>>
  BY DEF XpRegister, RegistryReturns, register_dataproxy
<1>u. /\ xp.pc = "register" /\ registry \in {Free, XpThread}
      /\ accessor' = IF accepted THEN accessor + 1 ELSE accessor
      /\ refused' = IF accepted THEN refused ELSE refused \union {cmd[xp.at].id}
      /\ UNCHANGED <<lockVars, life, chan, created, update, recv, post, net, lost, fault>>
  BY <1>a
<1>b. /\ xp' \in XpRecords
      /\ xp'.pc = (IF accepted THEN "confirm" ELSE "error") /\ xp'.todo = xp.todo
      /\ xp'.at = xp.at /\ xp'.op = xp.op
  BY <1>a, XpGoes DEF IInv, TypeOK
<1>c. /\ schedule = XpThread /\ xp.at \in Sessions /\ cmd[xp.at].task /\ cmd[xp.at].proxy
      /\ proxy.state = "RESERVED" /\ cmd[xp.at].id # 0 /\ ~chan[xp.at].doomed
      /\ chan[xp.at].state # "none"
  BY <1>u DEF IInv, ScheduleHeld, TasksAgree, ChannelsAgree, ChannelAgrees, NoCommand
<1>d. /\ cmd' \in [Sessions -> CommandRecords] /\ cmd'[xp.at].id = cmd[xp.at].id
      /\ cmd'[xp.at].permission = cmd[xp.at].permission /\ cmd'[xp.at].task /\ cmd'[xp.at].proxy
      /\ cmd'[xp.at].registered = accepted /\ cmd'[xp.at].failed = ~accepted
      /\ \A t \in Sessions : t # xp.at => cmd'[t] = cmd[t]
  <2>1. [cmd[xp.at] EXCEPT !.registered = accepted, !.failed = ~accepted] \in CommandRecords
    BY <1>c, ZenonT(60) DEF IInv, TypeOK, CommandRecords
  <2>2. cmd' = [cmd EXCEPT ![xp.at] = [cmd[xp.at] EXCEPT !.registered = accepted,
                                                         !.failed = ~accepted]]
    BY <1>a, <1>c DEF IInv, TypeOK
  <2> QED BY <1>c, <2>1, <2>2 DEF IInv, TypeOK, CommandRecords
<1>e. /\ proxy' \in ProxyRecords /\ proxy'.ref = proxy.ref /\ proxy'.owner = proxy.owner
      /\ proxy'.permission = proxy.permission
      /\ proxy'.state = IF accepted THEN "REGISTERED" ELSE "RESERVED"
  BY <1>a, <1>c DEF IInv, TypeOK, ProxyRecords
<1>f. refused' \subseteq Commands
  BY <1>u, <1>c, CommandNumber DEF IInv, TypeOK
<1>1. TypeOK'
  BY <1>u, <1>b, <1>c, <1>d, <1>e, <1>f DEF IInv, TypeOK, lockVars, commandVars,
    proxyVars, history
<1>2. ScheduleHeld'
  BY <1>u, <1>b, <1>c, <1>d, <1>e, <1>f, ThreadsDiffer, CreatedNat DEF IInv,
    ScheduleHeld, lockVars, commandVars, proxyVars, history
<1>3. RegistryHeld'
  BY <1>u, <1>b, <1>c, <1>d, <1>e, <1>f, ThreadsDiffer, CreatedNat DEF IInv,
    RegistryHeld, lockVars, commandVars, proxyVars, history
<1>4. Numbered'
  BY <1>u, <1>b, <1>c, <1>d, <1>e, <1>f, ThreadsDiffer, CreatedNat DEF IInv, Numbered,
    lockVars, commandVars, proxyVars, history
<1>5. ChannelsAgree'
  <2> SUFFICES ASSUME NEW t \in Sessions PROVE ChannelAgrees(t)'
    BY DEF ChannelsAgree
  <2>1. CASE t = xp.at
    BY <2>1, <1>u, <1>b, <1>c, <1>d, <1>e, <1>f DEF IInv, ChannelsAgree,
      ChannelAgrees, Lives, lockVars, commandVars, proxyVars, history
  <2>2. CASE t # xp.at
    BY <2>2, <1>u, <1>b, <1>c, <1>d, <1>e, <1>f DEF IInv, ChannelsAgree,
      ChannelAgrees, Lives, lockVars, commandVars, proxyVars, history
  <2> QED  BY <2>1, <2>2
<1>6. TasksAgree'
  BY <1>u, <1>b, <1>c, <1>d, <1>e, <1>f, ThreadsDiffer, CreatedNat DEF IInv, TasksAgree,
    ScheduleHeld, lockVars, commandVars, proxyVars, history
<1>7. ClaimKnown'
  BY <1>u, <1>b, <1>c, <1>d, <1>e, <1>f, ThreadsDiffer, CreatedNat DEF IInv, ClaimKnown,
    Claimed, lockVars, commandVars, proxyVars, history
<1>8. ClaimsHeld'
  BY <1>u, <1>b, <1>c, <1>d, <1>e, <1>f, ThreadsDiffer, CreatedNat, ZenonT(60) DEF IInv, ClaimsHeld,
    Claims, Claimed, lockVars, commandVars, proxyVars, history
<1>9. NetAgrees'
  BY <1>u, <1>b, <1>c, <1>d, <1>e, <1>f, ThreadsDiffer, CreatedNat DEF IInv, NetAgrees,
    lockVars, commandVars, proxyVars, history
<1>10. WritersAgree'
  BY <1>u, <1>b, <1>c, <1>d, <1>e, <1>f, ThreadsDiffer, CreatedNat DEF IInv,
    WritersAgree, RegistryHeld, ScheduleHeld, lockVars, commandVars, proxyVars, history
<1>11. WritesPermitted'
  BY <1>u, <1>b, <1>c, <1>d, <1>e, <1>f, ThreadsDiffer, CreatedNat DEF IInv,
    WritesPermitted, lockVars, commandVars, proxyVars, history
<1>12. AccessorAccounted'
  BY <1>u, <1>b, <1>c, <1>d, <1>e, <1>f, ThreadsDiffer, CreatedNat DEF IInv,
    AccessorAccounted, lockVars, commandVars, proxyVars, history
<1>13. SessionsHeld'
  BY <1>u, <1>b, <1>c, <1>d, <1>e, <1>f DEF IInv, SessionsHeld, lockVars, commandVars,
    proxyVars, history
<1> QED  BY <1>1, <1>2, <1>3, <1>4, <1>5, <1>6, <1>7, <1>8, <1>9, <1>10, <1>11, <1>12,
  <1>13 DEF IInv

\* Confirming the channel of a registered dataref keeps IInv.
LEMMA XpConfirmStep ==
  ASSUME IInv, XpConfirm
  PROVE  IInv'
<1>a. PICK failed \in BOOLEAN :
        /\ xp.pc = "confirm"
        /\ \/ chan' = [chan EXCEPT ![xp.at].state = "CONFIRMED"]
           \/ chan' = [chan EXCEPT ![xp.at].state = "CLOSED"] \/ chan' = chan
        /\ cmd' = [cmd EXCEPT ![xp.at].failed = failed]
        /\ xp' = [xp EXCEPT !.pc = "run"]
        /\ UNCHANGED <<lockVars, life, created, update, proxyVars, recv, post, net, history>>
  BY SendResultsBoolean DEF XpConfirm, Closed, Lives
<1>u. /\ xp.pc = "confirm"
      /\ UNCHANGED <<lockVars, life, created, update, proxyVars, recv, post, net, history>>
  BY <1>a
<1>b. /\ xp' \in XpRecords
      /\ xp'.pc = "run" /\ xp'.todo = xp.todo /\ xp'.at = xp.at /\ xp'.op = xp.op
  BY <1>a, XpGoes DEF IInv, TypeOK
<1>c. /\ schedule = XpThread /\ xp.at \in Sessions /\ cmd[xp.at].task
      /\ chan[xp.at].state # "none" /\ ~chan[xp.at].doomed /\ cmd[xp.at].id # 0
      /\ cmd[xp.at].registered
  BY <1>u DEF IInv, ScheduleHeld, TasksAgree, ChannelsAgree, ChannelAgrees, NoCommand
<1>d. /\ cmd' \in [Sessions -> CommandRecords] /\ cmd'[xp.at].id = cmd[xp.at].id
      /\ cmd'[xp.at].permission = cmd[xp.at].permission /\ cmd'[xp.at].task
      /\ cmd'[xp.at].proxy = cmd[xp.at].proxy /\ cmd'[xp.at].registered = cmd[xp.at].registered
      /\ \A t \in Sessions : t # xp.at => cmd'[t] = cmd[t]
  <2>1. [cmd[xp.at] EXCEPT !.failed = failed] \in CommandRecords
    BY <1>c DEF IInv, TypeOK, CommandRecords
  <2>2. cmd' = [cmd EXCEPT ![xp.at] = [cmd[xp.at] EXCEPT !.failed = failed]]
    BY <1>a, <1>c DEF IInv, TypeOK
  <2> QED BY <1>c, <2>1, <2>2 DEF IInv, TypeOK, CommandRecords
<1>e. /\ chan' \in [Sessions -> ChannelRecords]
      /\ chan'[xp.at].state # "none" /\ chan'[xp.at].doomed = chan[xp.at].doomed
      /\ \A t \in Sessions : t # xp.at => chan'[t] = chan[t]
  BY <1>a, <1>c, ChannelState DEF IInv, TypeOK
<1>1. TypeOK'
  BY <1>u, <1>b, <1>c, <1>d, <1>e DEF IInv, TypeOK, lockVars, commandVars, proxyVars,
    history
<1>2. ScheduleHeld'
  BY <1>u, <1>b, <1>c, <1>d, <1>e, ThreadsDiffer, CreatedNat DEF IInv, ScheduleHeld,
    lockVars, commandVars, proxyVars, history
<1>3. RegistryHeld'
  BY <1>u, <1>b, <1>c, <1>d, <1>e, ThreadsDiffer, CreatedNat DEF IInv, RegistryHeld,
    lockVars, commandVars, proxyVars, history
<1>4. Numbered'
  BY <1>u, <1>b, <1>c, <1>d, <1>e, ThreadsDiffer, CreatedNat DEF IInv, Numbered,
    lockVars, commandVars, proxyVars, history
<1>5. ChannelsAgree'
  <2> SUFFICES ASSUME NEW t \in Sessions PROVE ChannelAgrees(t)'
    BY DEF ChannelsAgree
  <2>1. CASE t = xp.at
    BY <2>1, <1>u, <1>b, <1>c, <1>d, <1>e DEF IInv, ChannelsAgree, ChannelAgrees,
      Lives, lockVars, commandVars, proxyVars, history
  <2>2. CASE t # xp.at
    BY <2>2, <1>u, <1>b, <1>c, <1>d, <1>e DEF IInv, ChannelsAgree, ChannelAgrees,
      Lives, lockVars, commandVars, proxyVars, history
  <2> QED  BY <2>1, <2>2
<1>6. TasksAgree'
  BY <1>u, <1>b, <1>c, <1>d, <1>e, ThreadsDiffer, CreatedNat DEF IInv, TasksAgree,
    ScheduleHeld, lockVars, commandVars, proxyVars, history
<1>7. ClaimKnown'
  BY <1>u, <1>c, <1>d, ClaimKept DEF Claimed, proxyVars, history
<1>8. ClaimsHeld'
  <2> SUFFICES ASSUME NEW t \in Sessions PROVE Claims(t)'
    BY DEF ClaimsHeld
  <2>1. CASE t = xp.at
    BY <2>1, <1>u, <1>b, <1>c, <1>d, <1>e DEF IInv, ClaimsHeld, Claims, Claimed,
      lockVars, commandVars, proxyVars, history
  <2>2. CASE t # xp.at
    BY <2>2, <1>u, <1>b, <1>c, <1>d, <1>e DEF IInv, ClaimsHeld, Claims, Claimed,
      lockVars, commandVars, proxyVars, history
  <2> QED  BY <2>1, <2>2
<1>9. NetAgrees'
  BY <1>u, <1>b, <1>c, <1>d, <1>e, ThreadsDiffer, CreatedNat DEF IInv, NetAgrees,
    lockVars, commandVars, proxyVars, history
<1>10. WritersAgree'
  BY <1>u, <1>b, <1>c, <1>d, <1>e, ThreadsDiffer, CreatedNat DEF IInv, WritersAgree,
    RegistryHeld, ScheduleHeld, lockVars, commandVars, proxyVars, history
<1>11. WritesPermitted'
  BY <1>u, <1>b, <1>c, <1>d, <1>e, ThreadsDiffer, CreatedNat DEF IInv, WritesPermitted,
    lockVars, commandVars, proxyVars, history
<1>12. SessionsHeld' /\ AccessorAccounted'
  BY <1>u, <1>b, <1>c, <1>d, <1>e DEF IInv, SessionsHeld, AccessorAccounted, lockVars,
    commandVars, proxyVars, history
<1> QED  BY <1>1, <1>2, <1>3, <1>4, <1>5, <1>6, <1>7, <1>8, <1>9, <1>10, <1>11, <1>12 DEF
  IInv

\* Closing the channel of a failed command keeps IInv.
LEMMA XpErrorStep ==
  ASSUME IInv, XpError
  PROVE  IInv'
<1>a. /\ xp.pc = "error"
      /\ chan' = [chan EXCEPT ![xp.at].state = "CLOSED"] \/ chan' = chan
      /\ xp' = [xp EXCEPT !.pc = "run"]
      /\ UNCHANGED <<lockVars, life, cmd, created, update, proxyVars, recv, post, net, history>>
  BY DEF XpError, Closed
<1>u. /\ xp.pc = "error"
      /\ UNCHANGED <<lockVars, life, cmd, created, update, proxyVars, recv, post, net, history>>
  BY <1>a
<1>b. /\ xp' \in XpRecords
      /\ xp'.pc = "run" /\ xp'.todo = xp.todo /\ xp'.at = xp.at /\ xp'.op = xp.op
  BY <1>a, XpGoes DEF IInv, TypeOK
<1>c. /\ schedule = XpThread /\ xp.at \in Sessions /\ cmd[xp.at].task
      /\ chan[xp.at].state # "none" /\ ~chan[xp.at].doomed /\ cmd[xp.at].id # 0
  BY <1>u DEF IInv, ScheduleHeld, TasksAgree, ChannelsAgree, ChannelAgrees, NoCommand
<1>e. /\ chan' \in [Sessions -> ChannelRecords]
      /\ chan'[xp.at].state # "none" /\ chan'[xp.at].doomed = chan[xp.at].doomed
      /\ \A t \in Sessions : t # xp.at => chan'[t] = chan[t]
  BY <1>a, <1>c, ChannelState DEF IInv, TypeOK
<1>1. TypeOK'
  BY <1>u, <1>b, <1>c, <1>e DEF IInv, TypeOK, lockVars, commandVars, proxyVars, history
<1>2. ScheduleHeld'
  BY <1>u, <1>b, <1>c, <1>e, ThreadsDiffer, CreatedNat DEF IInv, ScheduleHeld, lockVars,
    commandVars, proxyVars, history
<1>3. RegistryHeld'
  BY <1>u, <1>b, <1>c, <1>e, ThreadsDiffer, CreatedNat DEF IInv, RegistryHeld, lockVars,
    commandVars, proxyVars, history
<1>4. Numbered'
  BY <1>u, <1>b, <1>c, <1>e, ThreadsDiffer, CreatedNat DEF IInv, Numbered, lockVars,
    commandVars, proxyVars, history
<1>5. ChannelsAgree'
  <2> SUFFICES ASSUME NEW t \in Sessions PROVE ChannelAgrees(t)'
    BY DEF ChannelsAgree
  <2>1. CASE t = xp.at
    BY <2>1, <1>u, <1>b, <1>c, <1>e DEF IInv, ChannelsAgree, ChannelAgrees, Lives,
      lockVars, commandVars, proxyVars, history
  <2>2. CASE t # xp.at
    BY <2>2, <1>u, <1>b, <1>c, <1>e DEF IInv, ChannelsAgree, ChannelAgrees, Lives,
      lockVars, commandVars, proxyVars, history
  <2> QED  BY <2>1, <2>2
<1>6. TasksAgree'
  BY <1>u, <1>b, <1>c, <1>e, ThreadsDiffer, CreatedNat DEF IInv, TasksAgree,
    ScheduleHeld, lockVars, commandVars, proxyVars, history
<1>7. ClaimsHeld'
  BY <1>u, <1>b, <1>c, <1>e, ThreadsDiffer, CreatedNat DEF IInv, ClaimsHeld, Claims,
    Claimed, lockVars, commandVars, proxyVars, history
<1>8. NetAgrees'
  BY <1>u, <1>b, <1>c, <1>e, ThreadsDiffer, CreatedNat DEF IInv, NetAgrees, lockVars,
    commandVars, proxyVars, history
<1>9. WritersAgree'
  BY <1>u, <1>b, <1>c, <1>e, ThreadsDiffer, CreatedNat DEF IInv, WritersAgree,
    RegistryHeld, ScheduleHeld, lockVars, commandVars, proxyVars, history
<1>10. WritesPermitted'
  BY <1>u, <1>b, <1>c, <1>e, ThreadsDiffer, CreatedNat DEF IInv, WritesPermitted,
    lockVars, commandVars, proxyVars, history
<1>11. SessionsHeld' /\ ClaimKnown' /\ AccessorAccounted'
  BY <1>u, <1>b, <1>c, <1>e DEF IInv, SessionsHeld, ClaimKnown, AccessorAccounted,
    Claimed, lockVars, commandVars, proxyVars, history
<1> QED  BY <1>1, <1>2, <1>3, <1>4, <1>5, <1>6, <1>7, <1>8, <1>9, <1>10, <1>11 DEF IInv

\* Checking the permission of a scheduled write keeps IInv.
LEMMA XpUpdateStep ==
  ASSUME IInv, NEW s \in Sessions, XpUpdate(s)
  PROVE  IInv'
<1>a. /\ xp.pc = "run" /\ registry \in {Free, XpThread}
      /\ registry' = IF Checked(s) = NoOp THEN Free ELSE XpThread
      /\ xp' = [xp EXCEPT !.pc = IF Checked(s) = NoOp THEN "run" ELSE "apply", !.op = Checked(s),
                       !.todo = @ \ {<<"drmu", s>>}]
      /\ UNCHANGED <<schedule, session, commandVars, proxyVars, recv, post, net, history>>
  BY DEF XpUpdate, RegistryReturns
<1>u. /\ xp.pc = "run" /\ registry \in {Free, XpThread}
      /\ registry' = IF Checked(s) = NoOp THEN Free ELSE XpThread
      /\ UNCHANGED <<schedule, session, commandVars, proxyVars, recv, post, net, history>>
  BY <1>a
<1>b. /\ xp' \in XpRecords /\ xp'.at = xp.at /\ xp'.op = Checked(s)
      /\ xp'.pc = (IF Checked(s) = NoOp THEN "run" ELSE "apply")
      /\ xp'.todo = xp.todo \ {<<"drmu", s>>}
  BY <1>a, CheckedWrite, ThreadsDiffer DEF IInv, TypeOK, XpRecords
<1>c. /\ xp'.op.ref <= created
      /\ xp'.pc = "apply" =>
           /\ proxy.state = "REGISTERED" /\ xp'.op.ref = proxy.ref /\ xp'.op.ref # 0
           /\ xp'.op.owner \in Sessions
           /\ \A t \in Sessions : cmd[t].id = xp'.op.ref =>
                \/ cmd[t].permission = "ALL" \/ xp'.op.src = t
                \/ cmd[t].permission = "XPRC" /\ xp'.op.src # XPlane
  BY <1>b, CheckedWrite, ThreadsDiffer
<1>d. schedule = XpThread
  BY <1>u DEF IInv, ScheduleHeld
<1>1. TypeOK'
  BY <1>u, <1>b, <1>c, <1>d, ThreadsDiffer DEF IInv, TypeOK, lockVars, commandVars,
    proxyVars, history
<1>2. ScheduleHeld'
  BY <1>u, <1>b, <1>c, <1>d, ThreadsDiffer, CreatedNat DEF IInv, ScheduleHeld, lockVars,
    commandVars, proxyVars, history
<1>3. RegistryHeld'
  BY <1>u, <1>b, <1>c, <1>d, ThreadsDiffer, CreatedNat DEF IInv, RegistryHeld, lockVars,
    commandVars, proxyVars, history
<1>4. Numbered'
  BY <1>u, <1>b, <1>c, <1>d, ThreadsDiffer, CreatedNat DEF IInv, Numbered, lockVars,
    commandVars, proxyVars, history
<1>5. TasksAgree'
  BY <1>u, <1>b, <1>c, <1>d, ThreadsDiffer, CreatedNat DEF IInv, TasksAgree,
    ScheduleHeld, lockVars, commandVars, proxyVars, history
<1>6. ClaimsHeld'
  BY <1>u, <1>b, <1>c, <1>d, ThreadsDiffer, CreatedNat DEF IInv, ClaimsHeld, Claims,
    Claimed, lockVars, commandVars, proxyVars, history
<1>7. WritersAgree'
  BY <1>u, <1>b, <1>c, <1>d, ThreadsDiffer, CreatedNat DEF IInv, WritersAgree,
    RegistryHeld, ScheduleHeld, lockVars, commandVars, proxyVars, history
<1>8. WritesPermitted'
  BY <1>u, <1>b, <1>c, <1>d, ThreadsDiffer, CreatedNat DEF IInv, WritesPermitted,
    lockVars, commandVars, proxyVars, history
<1>9. /\ SessionsHeld' /\ ChannelsAgree' /\ ClaimKnown' /\ NetAgrees'
      /\ AccessorAccounted'
  BY <1>u, <1>b, <1>c, <1>d DEF IInv, SessionsHeld, ChannelsAgree, ClaimKnown,
    NetAgrees, AccessorAccounted, ChannelAgrees, Lives, Claimed, lockVars, commandVars,
    proxyVars, history
<1> QED  BY <1>1, <1>2, <1>3, <1>4, <1>5, <1>6, <1>7, <1>8, <1>9 DEF IInv

\* A write by X-Plane passes the check and keeps IInv.
LEMMA XpSetStep ==
  ASSUME IInv, XpSet
  PROVE  IInv'
<1>a. /\ xp.pc = "idle" /\ registry = Free /\ Checked(XPlane) # NoOp
      /\ xp' = [xp EXCEPT !.pc = "apply", !.op = Checked(XPlane)]
      /\ UNCHANGED <<schedule, session, registry, commandVars, proxyVars, recv, post, net,
           history>>
  BY DEF XpSet, AfterCheck
<1>u. /\ xp.pc = "idle" /\ registry = Free /\ Checked(XPlane) # NoOp
      /\ UNCHANGED <<schedule, session, registry, commandVars, proxyVars, recv, post, net,
           history>>
  BY <1>a
<1>b. /\ xp' \in XpRecords /\ xp'.at = xp.at /\ xp'.op = Checked(XPlane)
      /\ xp'.pc = "apply" /\ xp'.todo = xp.todo
  BY <1>a, CheckedWrite, ThreadsDiffer DEF IInv, TypeOK, XpRecords, XPlane
<1>c. /\ xp'.op.ref <= created
      /\ xp'.pc = "apply" =>
           /\ proxy.state = "REGISTERED" /\ xp'.op.ref = proxy.ref /\ xp'.op.ref # 0
           /\ xp'.op.owner \in Sessions
           /\ \A t \in Sessions : cmd[t].id = xp'.op.ref =>
                \/ cmd[t].permission = "ALL" \/ xp'.op.src = t
                \/ cmd[t].permission = "XPRC" /\ xp'.op.src # XPlane
  BY <1>u, <1>b, CheckedWrite, ThreadsDiffer DEF XPlane
<1>1. TypeOK'
  BY <1>u, <1>b, <1>c DEF IInv, TypeOK, lockVars, commandVars, proxyVars, history
<1>2. ScheduleHeld'
  BY <1>u, <1>b, <1>c, ThreadsDiffer, CreatedNat DEF IInv, ScheduleHeld, lockVars,
    commandVars, proxyVars, history
<1>3. RegistryHeld'
  BY <1>u, <1>b, <1>c, ThreadsDiffer, CreatedNat DEF IInv, RegistryHeld, lockVars,
    commandVars, proxyVars, history
<1>4. Numbered'
  BY <1>u, <1>b, <1>c, ThreadsDiffer, CreatedNat DEF IInv, Numbered, lockVars,
    commandVars, proxyVars, history
<1>5. TasksAgree'
  BY <1>u, <1>b, <1>c, ThreadsDiffer, CreatedNat DEF IInv, TasksAgree, ScheduleHeld,
    lockVars, commandVars, proxyVars, history
<1>6. ClaimsHeld'
  BY <1>u, <1>b, <1>c, ThreadsDiffer, CreatedNat DEF IInv, ClaimsHeld, Claims, Claimed,
    lockVars, commandVars, proxyVars, history
<1>7. WritersAgree'
  BY <1>u, <1>b, <1>c, ThreadsDiffer, CreatedNat DEF IInv, WritersAgree, RegistryHeld,
    ScheduleHeld, lockVars, commandVars, proxyVars, history
<1>8. WritesPermitted'
  BY <1>u, <1>b, <1>c, ThreadsDiffer, CreatedNat DEF IInv, WritesPermitted, lockVars,
    commandVars, proxyVars, history
<1>9. /\ SessionsHeld' /\ ChannelsAgree' /\ ClaimKnown' /\ NetAgrees'
      /\ AccessorAccounted'
  BY <1>u, <1>b, <1>c DEF IInv, SessionsHeld, ChannelsAgree, ClaimKnown, NetAgrees,
    AccessorAccounted, ChannelAgrees, Lives, Claimed, lockVars, commandVars, proxyVars,
    history
<1> QED  BY <1>1, <1>2, <1>3, <1>4, <1>5, <1>6, <1>7, <1>8, <1>9 DEF IInv

\* The setter called for a write of the flight loop or of X-Plane keeps IInv.
LEMMA XpApplyStep ==
  ASSUME IInv, XpApply
  PROVE  IInv'
<1>a. /\ xp.pc = "apply"
      /\ xp' = [xp EXCEPT !.pc = IF Echoes(xp.op) THEN "echo" ELSE "written",
           !.op = Applied(xp.op)]
      /\ UNCHANGED <<lockVars, commandVars, proxyVars, recv, post, net, history>>
  BY DEF XpApply
<1>u. /\ xp.pc = "apply"
      /\ UNCHANGED <<lockVars, commandVars, proxyVars, recv, post, net, history>>
  BY <1>a
<1>b. xp.op \in Writes /\ xp.op.owner \in Sessions /\ chan[xp.op.owner].doomed \in BOOLEAN
  BY <1>u DEF IInv, TypeOK, XpRecords, WritersAgree, ChannelRecords
<1>c. /\ Applied(xp.op) \in Writes /\ Applied(xp.op).ref = xp.op.ref
      /\ Applied(xp.op).owner = xp.op.owner
  BY <1>b DEF Applied, Writes
<1>d. /\ xp' \in XpRecords /\ xp'.pc \in {"echo", "written"} /\ xp'.at = xp.at
      /\ xp'.todo = xp.todo
      /\ xp'.op.ref = xp.op.ref /\ xp'.op.owner = xp.op.owner
  BY <1>a, <1>c DEF IInv, TypeOK, XpRecords
<1>1. TypeOK'
  BY <1>u, <1>b, <1>c, <1>d DEF IInv, TypeOK, lockVars, commandVars, proxyVars, history
<1>2. ScheduleHeld'
  BY <1>u, <1>b, <1>c, <1>d, ThreadsDiffer, CreatedNat DEF IInv, ScheduleHeld, lockVars,
    commandVars, proxyVars, history
<1>3. RegistryHeld'
  BY <1>u, <1>b, <1>c, <1>d, ThreadsDiffer, CreatedNat DEF IInv, RegistryHeld, lockVars,
    commandVars, proxyVars, history
<1>4. Numbered'
  BY <1>u, <1>b, <1>c, <1>d, ThreadsDiffer, CreatedNat DEF IInv, Numbered, lockVars,
    commandVars, proxyVars, history
<1>5. TasksAgree'
  BY <1>u, <1>b, <1>c, <1>d, ThreadsDiffer, CreatedNat DEF IInv, TasksAgree,
    ScheduleHeld, lockVars, commandVars, proxyVars, history
<1>6. ClaimsHeld'
  BY <1>u, <1>b, <1>c, <1>d, ThreadsDiffer, CreatedNat DEF IInv, ClaimsHeld, Claims,
    Claimed, lockVars, commandVars, proxyVars, history
<1>7. WritersAgree'
  BY <1>u, <1>b, <1>c, <1>d, ThreadsDiffer, CreatedNat DEF IInv, WritersAgree,
    RegistryHeld, ScheduleHeld, lockVars, commandVars, proxyVars, history
<1>8. WritesPermitted'
  BY <1>u, <1>b, <1>c, <1>d, ThreadsDiffer, CreatedNat DEF IInv, WritesPermitted,
    lockVars, commandVars, proxyVars, history
<1>9. /\ SessionsHeld' /\ ChannelsAgree' /\ ClaimKnown' /\ NetAgrees'
      /\ AccessorAccounted'
  BY <1>u, <1>b, <1>c, <1>d DEF IInv, SessionsHeld, ChannelsAgree, ClaimKnown,
    NetAgrees, AccessorAccounted, ChannelAgrees, Lives, Claimed, lockVars, commandVars,
    proxyVars, history
<1> QED  BY <1>1, <1>2, <1>3, <1>4, <1>5, <1>6, <1>7, <1>8, <1>9 DEF IInv

\* An echo by X-Plane's thread keeps IInv, though it may leave a session locked.
LEMMA XpEchoStep ==
  ASSUME IInv, XpEcho
  PROVE  IInv'
<1>a. PICK sent \in SendResults :
        /\ xp.pc = "echo" /\ SessionReturns(XpThread, xp.op.owner)
        /\ chan' = EchoSent(xp.op, sent)
        /\ session' = LockedAfterEcho(XpThread, xp.op)
        /\ xp' = [xp EXCEPT !.pc = "written"]
        /\ UNCHANGED <<schedule, registry, life, cmd, created, update, proxyVars, recv, post,
             net, history>>
  BY DEF XpEcho
<1>u. /\ xp.pc = "echo" /\ SessionReturns(XpThread, xp.op.owner)
      /\ UNCHANGED <<schedule, registry, life, cmd, created, update, proxyVars, recv, post,
           net, history>>
  BY <1>a
<1>b. /\ xp' \in XpRecords
      /\ xp'.pc = "written" /\ xp'.todo = xp.todo /\ xp'.at = xp.at /\ xp'.op = xp.op
  BY <1>a, XpGoes DEF IInv, TypeOK
<1>c. xp.op.owner \in Sessions
  BY <1>u DEF IInv, WritersAgree
<1>d. /\ session' \in [Sessions -> Threads \union {Free}]
      /\ \A t \in Sessions : \/ session'[t] = session[t]
                             \/ session[t] \in {Free, XpThread} /\ session'[t] = XpThread
  BY <1>a, <1>c, ThreadsDiffer DEF IInv, TypeOK, LockedAfterEcho, SessionReturns, Lives
<1>e. /\ chan' \in [Sessions -> ChannelRecords]
      /\ \A t \in Sessions : /\ chan'[t].doomed = chan[t].doomed
                             /\ chan'[t].state = "none" <=> chan[t].state = "none"
                             /\ chan[t] = NoChannel => chan'[t] = NoChannel
  BY <1>a, <1>c, EchoChannel, SendResultsBoolean
<1>1. TypeOK'
  BY <1>u, <1>b, <1>c, <1>d, <1>e DEF IInv, TypeOK, lockVars, commandVars, proxyVars,
    history
<1>2. ScheduleHeld'
  BY <1>u, <1>b, <1>c, <1>d, <1>e, ThreadsDiffer, CreatedNat DEF IInv, ScheduleHeld,
    lockVars, commandVars, proxyVars, history
<1>3. SessionsHeld'
  BY <1>u, <1>b, <1>c, <1>d, <1>e, ThreadsDiffer, CreatedNat DEF IInv, SessionsHeld,
    lockVars, commandVars, proxyVars, history
<1>4. RegistryHeld'
  BY <1>u, <1>b, <1>c, <1>d, <1>e, ThreadsDiffer, CreatedNat DEF IInv, RegistryHeld,
    lockVars, commandVars, proxyVars, history
<1>5. Numbered'
  BY <1>u, <1>b, <1>c, <1>d, <1>e, ThreadsDiffer, CreatedNat DEF IInv, Numbered,
    lockVars, commandVars, proxyVars, history
<1>6. ChannelsAgree'
  BY <1>u, <1>b, <1>c, <1>d, <1>e, ThreadsDiffer, CreatedNat DEF IInv, ChannelsAgree,
    ChannelAgrees, Lives, lockVars, commandVars, proxyVars, history
<1>7. TasksAgree'
  BY <1>u, <1>b, <1>c, <1>d, <1>e, ThreadsDiffer, CreatedNat DEF IInv, TasksAgree,
    ScheduleHeld, lockVars, commandVars, proxyVars, history
<1>8. ClaimsHeld'
  BY <1>u, <1>b, <1>c, <1>d, <1>e, ThreadsDiffer, CreatedNat DEF IInv, ClaimsHeld,
    Claims, Claimed, lockVars, commandVars, proxyVars, history
<1>9. NetAgrees'
  BY <1>u, <1>b, <1>c, <1>d, <1>e, ThreadsDiffer, CreatedNat DEF IInv, NetAgrees,
    lockVars, commandVars, proxyVars, history
<1>10. WritersAgree'
  BY <1>u, <1>b, <1>c, <1>d, <1>e, ThreadsDiffer, CreatedNat DEF IInv, WritersAgree,
    RegistryHeld, ScheduleHeld, lockVars, commandVars, proxyVars, history
<1>11. WritesPermitted'
  BY <1>u, <1>b, <1>c, <1>d, <1>e, ThreadsDiffer, CreatedNat DEF IInv, WritesPermitted,
    lockVars, commandVars, proxyVars, history
<1>12. ClaimKnown' /\ AccessorAccounted'
  BY <1>u, <1>b, <1>c, <1>d, <1>e DEF IInv, ClaimKnown, AccessorAccounted, Claimed,
    lockVars, commandVars, proxyVars, history
<1> QED  BY <1>1, <1>2, <1>3, <1>4, <1>5, <1>6, <1>7, <1>8, <1>9, <1>10, <1>11, <1>12 DEF
  IInv

\* The return from a setter keeps IInv.
LEMMA XpWrittenStep ==
  ASSUME IInv, XpWritten
  PROVE  IInv'
<1>a. /\ xp.pc = "written" /\ registry' = IF registry = XpThread THEN Free ELSE registry
      /\ xp' = [xp EXCEPT !.pc = IF schedule = XpThread THEN "run" ELSE "idle", !.op = NoOp]
      /\ UNCHANGED <<schedule, session, commandVars, proxyVars, recv, post, net, history>>
  BY DEF XpWritten
<1>u. /\ xp.pc = "written" /\ registry' = IF registry = XpThread THEN Free ELSE registry
      /\ UNCHANGED <<schedule, session, commandVars, proxyVars, recv, post, net, history>>
  BY <1>a
<1>b. NoOp \in Writes /\ NoOp.ref = 0
  BY ThreadsDiffer DEF NoOp, Writes
<1>c. /\ xp' \in XpRecords /\ xp'.at = xp.at /\ xp'.todo = xp.todo /\ xp'.op.ref = 0
      /\ xp'.pc = IF schedule = XpThread THEN "run" ELSE "idle"
  BY <1>a, <1>b DEF IInv, TypeOK, XpRecords
<1>1. TypeOK'
  BY <1>u, <1>b, <1>c, ThreadsDiffer DEF IInv, TypeOK, lockVars, commandVars, proxyVars,
    history
<1>2. ScheduleHeld'
  BY <1>u, <1>b, <1>c, ThreadsDiffer, CreatedNat DEF IInv, ScheduleHeld, lockVars,
    commandVars, proxyVars, history
<1>3. RegistryHeld'
  BY <1>u, <1>b, <1>c, ThreadsDiffer, CreatedNat DEF IInv, RegistryHeld, lockVars,
    commandVars, proxyVars, history
<1>4. Numbered'
  BY <1>u, <1>b, <1>c, ThreadsDiffer, CreatedNat DEF IInv, Numbered, lockVars,
    commandVars, proxyVars, history
<1>5. TasksAgree'
  BY <1>u, <1>b, <1>c, ThreadsDiffer, CreatedNat DEF IInv, TasksAgree, ScheduleHeld,
    lockVars, commandVars, proxyVars, history
<1>6. ClaimsHeld'
  BY <1>u, <1>b, <1>c, ThreadsDiffer, CreatedNat DEF IInv, ClaimsHeld, Claims, Claimed,
    lockVars, commandVars, proxyVars, history
<1>7. WritersAgree'
  BY <1>u, <1>b, <1>c, ThreadsDiffer, CreatedNat DEF IInv, WritersAgree, RegistryHeld,
    ScheduleHeld, lockVars, commandVars, proxyVars, history
<1>8. WritesPermitted'
  BY <1>u, <1>b, <1>c, ThreadsDiffer, CreatedNat DEF IInv, WritesPermitted, lockVars,
    commandVars, proxyVars, history
<1>9. /\ SessionsHeld' /\ ChannelsAgree' /\ ClaimKnown' /\ NetAgrees'
      /\ AccessorAccounted'
  BY <1>u, <1>b, <1>c DEF IInv, SessionsHeld, ChannelsAgree, ClaimKnown, NetAgrees,
    AccessorAccounted, ChannelAgrees, Lives, Claimed, lockVars, commandVars, proxyVars,
    history
<1> QED  BY <1>1, <1>2, <1>3, <1>4, <1>5, <1>6, <1>7, <1>8, <1>9 DEF IInv

\* The end of run_tasks keeps IInv.
LEMMA RunTasksEndStep ==
  ASSUME IInv, RunTasksEnd
  PROVE  IInv'
<1>a. /\ xp.pc = "run" /\ schedule' = Free
      /\ xp' = [xp EXCEPT !.pc = "after", !.at = 0]
      /\ UNCHANGED <<session, registry, commandVars, proxyVars, recv, post, net, history>>
  BY DEF RunTasksEnd
<1>u. /\ xp.pc = "run" /\ schedule' = Free
      /\ UNCHANGED <<session, registry, commandVars, proxyVars, recv, post, net, history>>
  BY <1>a
<1>b. /\ xp' \in XpRecords /\ xp'.at = 0 /\ xp'.todo = xp.todo /\ xp'.op = xp.op
      /\ xp'.pc = "after"
  BY <1>a, ThreadsDiffer DEF IInv, TypeOK, XpRecords
<1>c. schedule = XpThread
  BY <1>u DEF IInv, ScheduleHeld
<1>1. TypeOK'
  BY <1>u, <1>b, <1>c DEF IInv, TypeOK, lockVars, commandVars, proxyVars, history
<1>2. ScheduleHeld'
  BY <1>u, <1>b, <1>c, ThreadsDiffer, CreatedNat DEF IInv, ScheduleHeld, lockVars,
    commandVars, proxyVars, history
<1>3. RegistryHeld'
  BY <1>u, <1>b, <1>c, ThreadsDiffer, CreatedNat DEF IInv, RegistryHeld, lockVars,
    commandVars, proxyVars, history
<1>4. Numbered'
  BY <1>u, <1>b, <1>c, ThreadsDiffer, CreatedNat DEF IInv, Numbered, lockVars,
    commandVars, proxyVars, history
<1>5. TasksAgree'
  BY <1>u, <1>b, <1>c, ThreadsDiffer, CreatedNat DEF IInv, TasksAgree, ScheduleHeld,
    lockVars, commandVars, proxyVars, history
<1>6. ClaimsHeld'
  BY <1>u, <1>b, <1>c, ThreadsDiffer, CreatedNat DEF IInv, ClaimsHeld, Claims, Claimed,
    lockVars, commandVars, proxyVars, history
<1>7. WritersAgree'
  BY <1>u, <1>b, <1>c, ThreadsDiffer, CreatedNat DEF IInv, WritersAgree, RegistryHeld,
    ScheduleHeld, lockVars, commandVars, proxyVars, history
<1>8. WritesPermitted'
  BY <1>u, <1>b, <1>c, ThreadsDiffer, CreatedNat DEF IInv, WritesPermitted, lockVars,
    commandVars, proxyVars, history
<1>9. /\ SessionsHeld' /\ ChannelsAgree' /\ ClaimKnown' /\ NetAgrees'
      /\ AccessorAccounted'
  BY <1>u, <1>b, <1>c DEF IInv, SessionsHeld, ChannelsAgree, ClaimKnown, NetAgrees,
    AccessorAccounted, ChannelAgrees, Lives, Claimed, lockVars, commandVars, proxyVars,
    history
<1> QED  BY <1>1, <1>2, <1>3, <1>4, <1>5, <1>6, <1>7, <1>8, <1>9 DEF IInv

\* The end of a frame keeps IInv, with or without maintenance.
LEMMA FrameEndStep ==
  ASSUME IInv, PlainFrameEnd \/ MaintenanceFrameEnd
  PROVE  IInv'
<1>a. /\ xp.pc = "after"
      /\ \/ UNCHANGED proxyVars
         \/ /\ proxy.state = "DROPPED" /\ registry \in {Free, XpThread}
            /\ proxy' = Inactive /\ accessor' = accessor - 1
      /\ xp' = [xp EXCEPT !.pc = "idle"]
      /\ post' = [post EXCEPT !.pc = IF @ = "wait" THEN "woken" ELSE @]
      /\ UNCHANGED <<lockVars, commandVars, recv, net, history>>
  BY DEF PlainFrameEnd, MaintenanceFrameEnd, FrameEnd, RegistryReturns, unregister_dropped,
      Unregistered, proxyVars
<1>u. /\ xp.pc = "after"
      /\ \/ UNCHANGED proxyVars
         \/ /\ proxy.state = "DROPPED" /\ registry \in {Free, XpThread}
            /\ proxy' = Inactive /\ accessor' = accessor - 1
      /\ UNCHANGED <<lockVars, commandVars, recv, net, history>>
  BY <1>a
<1>b. /\ xp' \in XpRecords
      /\ xp'.pc = "idle" /\ xp'.todo = xp.todo /\ xp'.at = xp.at /\ xp'.op = xp.op
  BY <1>a, XpGoes DEF IInv, TypeOK
<1>c. /\ post' \in PostRecords /\ post'.todo = post.todo /\ post'.at = post.at
      /\ post'.pc = post.pc \/ post'.pc = "woken" 
  BY <1>a DEF IInv, TypeOK, PostRecords
<1>d. /\ proxy' \in ProxyRecords /\ accessor' \in Int
      /\ \/ UNCHANGED proxyVars
         \/ /\ proxy.state = "DROPPED" /\ proxy'.state = "INACTIVE" /\ proxy'.ref = 0
            /\ accessor' = accessor - 1
  BY <1>u, ThreadsDiffer DEF IInv, TypeOK, proxyVars, Inactive, ProxyRecords, PermissionModes
<1>1. TypeOK'
  BY <1>u, <1>b, <1>c, <1>d DEF IInv, TypeOK, lockVars, commandVars, proxyVars, history
<1>2. ScheduleHeld'
  BY <1>u, <1>b, <1>c, <1>d, ThreadsDiffer, CreatedNat DEF IInv, ScheduleHeld, lockVars,
    commandVars, proxyVars, history
<1>3. RegistryHeld'
  BY <1>u, <1>b, <1>c, <1>d, ThreadsDiffer, CreatedNat DEF IInv, RegistryHeld, lockVars,
    commandVars, proxyVars, history
<1>4. Numbered'
  BY <1>u, <1>b, <1>c, <1>d, ThreadsDiffer, CreatedNat DEF IInv, Numbered, lockVars,
    commandVars, proxyVars, history
<1>5. TasksAgree'
  BY <1>u, <1>b, <1>c, <1>d, ThreadsDiffer, CreatedNat DEF IInv, TasksAgree,
    ScheduleHeld, lockVars, commandVars, proxyVars, history
<1>6. ClaimKnown'
  BY <1>u, <1>b, <1>c, <1>d, ThreadsDiffer, CreatedNat DEF IInv, ClaimKnown, Claimed,
    lockVars, commandVars, proxyVars, history
<1>7. ClaimsHeld'
  BY <1>u, <1>b, <1>c, <1>d, ThreadsDiffer, CreatedNat DEF IInv, ClaimsHeld, Claims,
    Claimed, lockVars, commandVars, proxyVars, history
<1>8. WritersAgree'
  BY <1>u, <1>b, <1>c, <1>d, ThreadsDiffer, CreatedNat DEF IInv, WritersAgree,
    RegistryHeld, ScheduleHeld, lockVars, commandVars, proxyVars, history
<1>9. WritesPermitted'
  BY <1>u, <1>b, <1>c, <1>d, ThreadsDiffer, CreatedNat DEF IInv, WritesPermitted,
    lockVars, commandVars, proxyVars, history
<1>10. AccessorAccounted'
  BY <1>u, <1>b, <1>c, <1>d, ThreadsDiffer, CreatedNat DEF IInv, AccessorAccounted,
    lockVars, commandVars, proxyVars, history
<1>11. SessionsHeld' /\ ChannelsAgree' /\ NetAgrees'
  BY <1>u, <1>b, <1>c, <1>d DEF IInv, SessionsHeld, ChannelsAgree, NetAgrees,
    ChannelAgrees, Lives, lockVars, commandVars, proxyVars, history
<1> QED  BY <1>1, <1>2, <1>3, <1>4, <1>5, <1>6, <1>7, <1>8, <1>9, <1>10, <1>11 DEF IInv

-----------------------------------------------------------------------------
(* Steps of post-processing. *)

\* The beginning of post-processing keeps IInv.
LEMMA PostBeginStep ==
  ASSUME IInv, PostBegin
  PROVE  IInv'
<1>a. /\ post.pc = "woken" /\ schedule = Free /\ schedule' = PostThread
      /\ post' = [pc |-> "run", todo |-> {s \in Sessions : cmd[s].task}, at |-> 0]
      /\ UNCHANGED <<session, registry, commandVars, proxyVars, recv, xp, net, history>>
  BY DEF PostBegin
<1>u. /\ post.pc = "woken" /\ schedule = Free /\ schedule' = PostThread
      /\ post' = [pc |-> "run", todo |-> {s \in Sessions : cmd[s].task}, at |-> 0]
      /\ UNCHANGED <<session, registry, commandVars, proxyVars, recv, xp, net, history>>
  BY <1>a
<1>b. post' \in PostRecords
  BY <1>u, ThreadsDiffer DEF PostRecords
<1>1. TypeOK'
  BY <1>u, <1>b, ThreadsDiffer DEF IInv, TypeOK, lockVars, commandVars, proxyVars,
    history
<1>2. ScheduleHeld'
  BY <1>u, <1>b, ThreadsDiffer, CreatedNat DEF IInv, ScheduleHeld, lockVars,
    commandVars, proxyVars, history
<1>3. RegistryHeld'
  BY <1>u, <1>b, ThreadsDiffer, CreatedNat DEF IInv, RegistryHeld, lockVars,
    commandVars, proxyVars, history
<1>4. TasksAgree'
  BY <1>u, <1>b, ThreadsDiffer, CreatedNat DEF IInv, TasksAgree, ScheduleHeld, lockVars,
    commandVars, proxyVars, history
<1>5. /\ SessionsHeld' /\ Numbered' /\ ChannelsAgree' /\ ClaimKnown'
      /\ ClaimsHeld' /\ NetAgrees' /\ WritersAgree' /\ WritesPermitted'
      /\ AccessorAccounted'
  BY <1>u, <1>b DEF IInv, SessionsHeld, Numbered, ChannelsAgree, ClaimKnown, ClaimsHeld,
    NetAgrees, WritersAgree, WritesPermitted, AccessorAccounted, ChannelAgrees, Lives,
    Claimed, Claims, Claimed, RegistryHeld, ScheduleHeld, lockVars, commandVars,
    proxyVars, history
<1> QED  BY <1>1, <1>2, <1>3, <1>4, <1>5 DEF IInv

\* Unscheduling a registered command keeps IInv.
LEMMA PostUnscheduleStep ==
  ASSUME IInv, NEW s \in Sessions, PostUnschedule(s)
  PROVE  IInv'
<1>a. PICK task \in BOOLEAN :
        /\ post.pc = "run" /\ s \in post.todo
        /\ cmd' = [cmd EXCEPT ![s].task = task]
        /\ post' = [post EXCEPT !.todo = @ \ {s}]
        /\ UNCHANGED <<lockVars, life, chan, created, update, proxyVars, recv, xp, net, history>>
  BY DEF PostUnschedule, IInv, TypeOK, CommandRecords
<1>u. /\ post.pc = "run" /\ s \in post.todo
      /\ UNCHANGED <<lockVars, life, chan, created, update, proxyVars, recv, xp, net, history>>
  BY <1>a
<1>b. /\ post' \in PostRecords /\ post'.pc = "run" /\ post'.todo = post.todo \ {s}
      /\ post'.at = post.at
  BY <1>a DEF IInv, TypeOK, PostRecords
<1>c. /\ schedule = PostThread /\ cmd[s].task /\ chan[s].state # "none" /\ ~chan[s].doomed
      /\ (net.pc \in {"drop", "destroy"} => net.at # s) /\ post.todo \subseteq Sessions
      /\ xp.pc \notin {"run", "register", "confirm", "error"}
  BY <1>u, ThreadsDiffer
  DEF IInv, TypeOK, PostRecords, ScheduleHeld, TasksAgree, ChannelsAgree, ChannelAgrees,
      NoCommand,
    NetAgrees
<1>d. /\ cmd' \in [Sessions -> CommandRecords] /\ cmd'[s].id = cmd[s].id
      /\ cmd'[s].permission = cmd[s].permission /\ cmd'[s].proxy = cmd[s].proxy
      /\ cmd'[s].registered = cmd[s].registered /\ cmd'[s].failed = cmd[s].failed
      /\ \A t \in Sessions : t # s => cmd'[t] = cmd[t]
  BY <1>a, CommandTask DEF IInv, TypeOK
<1>1. TypeOK'
  BY <1>u, <1>b, <1>c, <1>d DEF IInv, TypeOK, lockVars, commandVars, proxyVars, history
<1>2. ScheduleHeld'
  BY <1>u, <1>b, <1>c, <1>d, ThreadsDiffer, CreatedNat DEF IInv, ScheduleHeld, lockVars,
    commandVars, proxyVars, history
<1>3. Numbered'
  BY <1>u, <1>b, <1>c, <1>d, ThreadsDiffer, CreatedNat DEF IInv, Numbered, lockVars,
    commandVars, proxyVars, history
<1>4. ChannelsAgree'
  <2> SUFFICES ASSUME NEW t \in Sessions PROVE ChannelAgrees(t)'
    BY DEF ChannelsAgree
  <2>1. CASE t = s
    BY <2>1, <1>u, <1>b, <1>c, <1>d DEF IInv, ChannelsAgree, ChannelAgrees, Lives,
      lockVars, commandVars, proxyVars, history
  <2>2. CASE t # s
    BY <2>2, <1>u, <1>b, <1>c, <1>d DEF IInv, ChannelsAgree, ChannelAgrees, Lives,
      lockVars, commandVars, proxyVars, history
  <2> QED  BY <2>1, <2>2
<1>5. TasksAgree'
  BY <1>u, <1>b, <1>c, <1>d, ThreadsDiffer, CreatedNat DEF IInv, TasksAgree,
    ScheduleHeld, lockVars, commandVars, proxyVars, history
<1>6. ClaimKnown'
  BY <1>u, <1>d, ClaimKept DEF Claimed, proxyVars, history
<1>7. ClaimsHeld'
  <2> SUFFICES ASSUME NEW t \in Sessions PROVE Claims(t)'
    BY DEF ClaimsHeld
  <2>1. CASE t = s
    BY <2>1, <1>u, <1>b, <1>c, <1>d DEF IInv, ClaimsHeld, Claims, Claimed, lockVars,
      commandVars, proxyVars, history
  <2>2. CASE t # s
    BY <2>2, <1>u, <1>b, <1>c, <1>d DEF IInv, ClaimsHeld, Claims, Claimed, lockVars,
      commandVars, proxyVars, history
  <2> QED  BY <2>1, <2>2
<1>8. NetAgrees'
  BY <1>u, <1>b, <1>c, <1>d, ThreadsDiffer, CreatedNat DEF IInv, NetAgrees, lockVars,
    commandVars, proxyVars, history
<1>9. WritesPermitted'
  BY <1>u, <1>b, <1>c, <1>d, ThreadsDiffer, CreatedNat DEF IInv, WritesPermitted,
    lockVars, commandVars, proxyVars, history
<1>10. SessionsHeld' /\ RegistryHeld' /\ WritersAgree' /\ AccessorAccounted'
  BY <1>u, <1>b, <1>c, <1>d DEF IInv, SessionsHeld, RegistryHeld, WritersAgree,
    AccessorAccounted, RegistryHeld, ScheduleHeld, lockVars, commandVars, proxyVars,
    history
<1> QED  BY <1>1, <1>2, <1>3, <1>4, <1>5, <1>6, <1>7, <1>8, <1>9, <1>10 DEF IInv

\* Closing a failed command and dropping its task keeps IInv.
LEMMA PostTerminateStep ==
  ASSUME IInv, NEW s \in Sessions, PostTerminate(s)
  PROVE  IInv'
<1>a. /\ post.pc = "run" /\ s \in post.todo
      /\ post' = [pc |-> "drop", todo |-> post.todo \ {s}, at |-> s]
      /\ cmd' = [cmd EXCEPT ![s].task = FALSE]
      /\ chan' = [chan EXCEPT ![s].state = "CLOSED"] \/ chan' = chan
      /\ UNCHANGED <<lockVars, life, created, update, proxyVars, recv, xp, net, history>>
  BY DEF PostTerminate, Closed
<1>u. /\ post.pc = "run" /\ s \in post.todo
      /\ post' = [pc |-> "drop", todo |-> post.todo \ {s}, at |-> s]
      /\ UNCHANGED <<lockVars, life, created, update, proxyVars, recv, xp, net, history>>
  BY <1>a
<1>b. post' \in PostRecords
  BY <1>u, ThreadsDiffer DEF IInv, TypeOK, PostRecords
<1>c. /\ schedule = PostThread /\ cmd[s].task /\ chan[s].state # "none" /\ ~chan[s].doomed
      /\ cmd[s].id # 0
      /\ (net.pc \in {"drop", "destroy"} => net.at # s) /\ post.todo \subseteq Sessions
      /\ xp.pc \notin {"run", "register", "confirm", "error"}
  BY <1>u, ThreadsDiffer
  DEF IInv, TypeOK, PostRecords, ScheduleHeld, TasksAgree, ChannelsAgree, ChannelAgrees,
      NoCommand,
    NetAgrees
<1>d. /\ cmd' \in [Sessions -> CommandRecords] /\ cmd'[s].id = cmd[s].id /\ ~cmd'[s].task
      /\ cmd'[s].permission = cmd[s].permission /\ cmd'[s].proxy = cmd[s].proxy
      /\ cmd'[s].registered = cmd[s].registered /\ cmd'[s].failed = cmd[s].failed
      /\ \A t \in Sessions : t # s => cmd'[t] = cmd[t]
  BY <1>a, CommandTask DEF IInv, TypeOK
<1>e. /\ chan' \in [Sessions -> ChannelRecords]
      /\ chan'[s].state # "none" /\ chan'[s].doomed = chan[s].doomed
      /\ \A t \in Sessions : t # s => chan'[t] = chan[t]
  BY <1>a, <1>c, ChannelState DEF IInv, TypeOK
<1>1. TypeOK'
  BY <1>u, <1>b, <1>c, <1>d, <1>e DEF IInv, TypeOK, lockVars, commandVars, proxyVars,
    history
<1>2. ScheduleHeld'
  BY <1>u, <1>b, <1>c, <1>d, <1>e, ThreadsDiffer, CreatedNat DEF IInv, ScheduleHeld,
    lockVars, commandVars, proxyVars, history
<1>3. Numbered'
  BY <1>u, <1>b, <1>c, <1>d, <1>e, ThreadsDiffer, CreatedNat DEF IInv, Numbered,
    lockVars, commandVars, proxyVars, history
<1>4. ChannelsAgree'
  <2> SUFFICES ASSUME NEW t \in Sessions PROVE ChannelAgrees(t)'
    BY DEF ChannelsAgree
  <2>1. CASE t = s
    BY <2>1, <1>u, <1>b, <1>c, <1>d, <1>e DEF IInv, ChannelsAgree, ChannelAgrees,
      Lives, lockVars, commandVars, proxyVars, history
  <2>2. CASE t # s
    BY <2>2, <1>u, <1>b, <1>c, <1>d, <1>e DEF IInv, ChannelsAgree, ChannelAgrees,
      Lives, lockVars, commandVars, proxyVars, history
  <2> QED  BY <2>1, <2>2
<1>5. TasksAgree'
  BY <1>u, <1>b, <1>c, <1>d, <1>e, ThreadsDiffer, CreatedNat DEF IInv, TasksAgree,
    ScheduleHeld, lockVars, commandVars, proxyVars, history
<1>6. ClaimKnown'
  BY <1>u, <1>d, ClaimKept DEF Claimed, proxyVars, history
<1>7. ClaimsHeld'
  <2> SUFFICES ASSUME NEW t \in Sessions PROVE Claims(t)'
    BY DEF ClaimsHeld
  <2>1. CASE t = s
    BY <2>1, <1>u, <1>b, <1>c, <1>d, <1>e DEF IInv, ClaimsHeld, Claims, Claimed,
      lockVars, commandVars, proxyVars, history
  <2>2. CASE t # s
    BY <2>2, <1>u, <1>b, <1>c, <1>d, <1>e DEF IInv, ClaimsHeld, Claims, Claimed,
      lockVars, commandVars, proxyVars, history
  <2> QED  BY <2>1, <2>2
<1>8. NetAgrees'
  BY <1>u, <1>b, <1>c, <1>d, <1>e, ThreadsDiffer, CreatedNat DEF IInv, NetAgrees,
    lockVars, commandVars, proxyVars, history
<1>9. WritesPermitted'
  BY <1>u, <1>b, <1>c, <1>d, <1>e, ThreadsDiffer, CreatedNat DEF IInv, WritesPermitted,
    lockVars, commandVars, proxyVars, history
<1>10. SessionsHeld' /\ RegistryHeld' /\ WritersAgree' /\ AccessorAccounted'
  BY <1>u, <1>b, <1>c, <1>d, <1>e DEF IInv, SessionsHeld, RegistryHeld, WritersAgree,
    AccessorAccounted, RegistryHeld, ScheduleHeld, lockVars, commandVars, proxyVars,
    history
<1> QED  BY <1>1, <1>2, <1>3, <1>4, <1>5, <1>6, <1>7, <1>8, <1>9, <1>10 DEF IInv

\* Dropping the proxy of a failed command keeps IInv.
LEMMA PostDropStep ==
  ASSUME IInv, PostDrop
  PROVE  IInv'
<1>a. PICK ok \in BOOLEAN :
        /\ post.pc = "drop" /\ (cmd[post.at].proxy => registry \in {Free, PostThread})
        /\ ok <=> (cmd[post.at].proxy => proxy.state = "REGISTERED")
        /\ proxy' = IF cmd[post.at].proxy /\ ok
                   THEN [proxy EXCEPT !.state = "DROPPED", !.ref = 0, !.owner = 0] ELSE proxy
        /\ cmd' = [cmd EXCEPT ![post.at].proxy = cmd[post.at].proxy /\ ~ok]
        /\ chan' = [chan EXCEPT ![post.at].doomed = ok]
        /\ post' = [post EXCEPT !.pc = "run", !.at = 0]
        /\ UNCHANGED <<lockVars, life, created, update, accessor, recv, xp, net, history>>
  BY DEF PostDrop, RegistryReturns, Droppable, drop_dataproxy
<1>u. /\ post.pc = "drop" /\ (cmd[post.at].proxy => registry \in {Free, PostThread})
      /\ ok <=> (cmd[post.at].proxy => proxy.state = "REGISTERED")
      /\ UNCHANGED <<lockVars, life, created, update, accessor, recv, xp, net, history>>
  BY <1>a
<1>b. /\ post' \in PostRecords /\ post'.pc = "run" /\ post'.todo = post.todo /\ post'.at = 0
  BY <1>a, ThreadsDiffer DEF IInv, TypeOK, PostRecords
<1>c. /\ schedule = PostThread /\ post.at \in Sessions /\ ~cmd[post.at].task
      /\ chan[post.at].state # "none" /\ cmd[post.at].id # 0 /\ post.todo \subseteq Sessions
      /\ xp.pc \notin {"run", "register", "confirm", "error"} /\ recv[post.at].pc = "idle"
  BY <1>u, ThreadsDiffer
  DEF IInv, TypeOK, PostRecords, ScheduleHeld, TasksAgree, ChannelsAgree, ChannelAgrees
<1>d. /\ cmd' \in [Sessions -> CommandRecords] /\ cmd'[post.at].id = cmd[post.at].id
      /\ cmd'[post.at].permission = cmd[post.at].permission
      /\ cmd'[post.at].task = cmd[post.at].task
      /\ cmd'[post.at].proxy = (cmd[post.at].proxy /\ ~ok)
      /\ cmd'[post.at].failed = cmd[post.at].failed
      /\ cmd'[post.at].registered = cmd[post.at].registered
      /\ \A t \in Sessions : t # post.at => cmd'[t] = cmd[t]
  <2> DEFINE has == cmd[post.at].proxy /\ ~ok
  <2>1. has \in BOOLEAN /\ cmd' = [cmd EXCEPT ![post.at].proxy = has]
    BY <1>a
  <2> HIDE DEF has
  <2>2. /\ cmd' \in [Sessions -> CommandRecords] /\ cmd'[post.at].id = cmd[post.at].id
        /\ cmd'[post.at].permission = cmd[post.at].permission
        /\ cmd'[post.at].task = cmd[post.at].task
        /\ cmd'[post.at].proxy = has /\ cmd'[post.at].failed = cmd[post.at].failed
        /\ cmd'[post.at].registered = cmd[post.at].registered
        /\ \A t \in Sessions : t # post.at => cmd'[t] = cmd[t]
    BY <1>c, <2>1, CommandProxy DEF IInv, TypeOK
  <2> QED  BY <2>2 DEF has
<1>e. /\ proxy' \in ProxyRecords
      /\ cmd[post.at].proxy /\ ok => proxy'.state = "DROPPED" /\ proxy'.ref = 0
      /\ ~(cmd[post.at].proxy /\ ok) => proxy' = proxy
  BY <1>a, <1>c, ThreadsDiffer DEF IInv, TypeOK, ProxyRecords
<1>f. /\ chan' \in [Sessions -> ChannelRecords]
      /\ chan'[post.at].state # "none" /\ chan'[post.at].doomed = ok
      /\ \A t \in Sessions : t # post.at => chan'[t] = chan[t]
  BY <1>a, <1>c, ChannelDoomed DEF IInv, TypeOK
<1>1. TypeOK'
  BY <1>u, <1>b, <1>c, <1>d, <1>e, <1>f DEF IInv, TypeOK, lockVars, commandVars,
    proxyVars, history
<1>2. ScheduleHeld'
  BY <1>u, <1>b, <1>c, <1>d, <1>e, <1>f, ThreadsDiffer, CreatedNat DEF IInv,
    ScheduleHeld, lockVars, commandVars, proxyVars, history
<1>3. Numbered'
  BY <1>u, <1>b, <1>c, <1>d, <1>e, <1>f, ThreadsDiffer, CreatedNat DEF IInv, Numbered,
    lockVars, commandVars, proxyVars, history
<1>4. ChannelsAgree'
  <2> SUFFICES ASSUME NEW t \in Sessions PROVE ChannelAgrees(t)'
    BY DEF ChannelsAgree
  <2>1. CASE t = post.at
    BY <2>1, <1>u, <1>b, <1>c, <1>d, <1>e, <1>f DEF IInv, ChannelsAgree,
      ChannelAgrees, Lives, lockVars, commandVars, proxyVars, history
  <2>2. CASE t # post.at
    BY <2>2, <1>u, <1>b, <1>c, <1>d, <1>e, <1>f DEF IInv, ChannelsAgree,
      ChannelAgrees, Lives, lockVars, commandVars, proxyVars, history
  <2> QED  BY <2>1, <2>2
<1>5. TasksAgree'
  BY <1>u, <1>b, <1>c, <1>d, <1>e, <1>f, ThreadsDiffer, CreatedNat DEF IInv, TasksAgree,
    ScheduleHeld, lockVars, commandVars, proxyVars, history
<1>6. ClaimKnown'
  BY <1>u, <1>c, <1>d, <1>e, ClaimKept DEF Claimed, proxyVars, history
<1>7. ClaimsHeld'
  <2> SUFFICES ASSUME NEW t \in Sessions PROVE Claims(t)'
    BY DEF ClaimsHeld
  <2>1. CASE t = post.at
    BY <2>1, <1>u, <1>b, <1>c, <1>d, <1>e, <1>f DEF IInv, ClaimsHeld, Claims, Claimed,
      lockVars, commandVars, proxyVars, history
  <2>2. CASE t # post.at
    BY <2>2, <1>u, <1>b, <1>c, <1>d, <1>e, <1>f DEF IInv, ClaimsHeld, Claims, Claimed,
      Numbered, lockVars, commandVars, proxyVars, history
  <2> QED  BY <2>1, <2>2
<1>8. NetAgrees'
  BY <1>u, <1>b, <1>c, <1>d, <1>e, <1>f, ThreadsDiffer, CreatedNat DEF IInv, NetAgrees,
    lockVars, commandVars, proxyVars, history
<1>9. WritersAgree'
  BY <1>u, <1>b, <1>c, <1>d, <1>e, <1>f, ThreadsDiffer, CreatedNat DEF IInv,
    WritersAgree, RegistryHeld, ScheduleHeld, lockVars, commandVars, proxyVars, history
<1>10. WritesPermitted'
  BY <1>u, <1>b, <1>c, <1>d, <1>e, <1>f, ThreadsDiffer, CreatedNat DEF IInv,
    WritesPermitted, lockVars, commandVars, proxyVars, history
<1>11. AccessorAccounted'
  BY <1>u, <1>b, <1>c, <1>d, <1>e, <1>f, ThreadsDiffer, CreatedNat DEF IInv,
    AccessorAccounted, lockVars, commandVars, proxyVars, history
<1>12. SessionsHeld' /\ RegistryHeld'
  BY <1>u, <1>b, <1>c, <1>d, <1>e, <1>f DEF IInv, SessionsHeld, RegistryHeld, lockVars,
    commandVars, proxyVars, history
<1> QED  BY <1>1, <1>2, <1>3, <1>4, <1>5, <1>6, <1>7, <1>8, <1>9, <1>10, <1>11, <1>12 DEF
  IInv

\* The end of the tasks of post-processing keeps IInv.
LEMMA PostEndStep ==
  ASSUME IInv, PostEnd
  PROVE  IInv'
<1>a. /\ post.pc = "run" /\ schedule' = Free
      /\ post' = [post EXCEPT !.pc = "sweep"]
      /\ UNCHANGED <<session, registry, commandVars, proxyVars, recv, xp, net, history>>
  BY DEF PostEnd
<1>u. /\ post.pc = "run" /\ schedule' = Free
      /\ UNCHANGED <<session, registry, commandVars, proxyVars, recv, xp, net, history>>
  BY <1>a
<1>b. post' \in PostRecords /\ post'.pc = "sweep"
  BY <1>a DEF IInv, TypeOK, PostRecords
<1>c. schedule = PostThread
  BY <1>u DEF IInv, ScheduleHeld
<1>1. TypeOK'
  BY <1>u, <1>b, <1>c DEF IInv, TypeOK, lockVars, commandVars, proxyVars, history
<1>2. ScheduleHeld'
  BY <1>u, <1>b, <1>c, ThreadsDiffer, CreatedNat DEF IInv, ScheduleHeld, lockVars,
    commandVars, proxyVars, history
<1>3. RegistryHeld'
  BY <1>u, <1>b, <1>c, ThreadsDiffer, CreatedNat DEF IInv, RegistryHeld, lockVars,
    commandVars, proxyVars, history
<1>4. TasksAgree'
  BY <1>u, <1>b, <1>c, ThreadsDiffer, CreatedNat DEF IInv, TasksAgree, ScheduleHeld,
    lockVars, commandVars, proxyVars, history
<1>5. /\ SessionsHeld' /\ Numbered' /\ ChannelsAgree' /\ ClaimKnown'
      /\ ClaimsHeld' /\ NetAgrees' /\ WritersAgree' /\ WritesPermitted'
      /\ AccessorAccounted'
  BY <1>u, <1>b, <1>c DEF IInv, SessionsHeld, Numbered, ChannelsAgree, ClaimKnown,
    ClaimsHeld, NetAgrees, WritersAgree, WritesPermitted, AccessorAccounted,
    ChannelAgrees, Lives, Claimed, Claims, Claimed, RegistryHeld, ScheduleHeld,
    lockVars, commandVars, proxyVars, history
<1> QED  BY <1>1, <1>2, <1>3, <1>4, <1>5 DEF IInv

\* destroy_pending_channels keeps IInv: it destroys no command that still has the proxy.
LEMMA SweepStep ==
  ASSUME IInv, destroy_pending_channels
  PROVE  IInv'
<1>a. /\ post.pc = "sweep"
      /\ chan' = [s \in Sessions |-> IF s \in Swept THEN NoChannel ELSE chan[s]]
      /\ cmd' = [s \in Sessions |-> IF s \in Swept THEN NoCommand ELSE cmd[s]]
      /\ post' = [post EXCEPT !.pc = "wait"]
      /\ UNCHANGED <<lockVars, life, created, update, proxyVars, recv, xp, net, history>>
  BY DEF destroy_pending_channels
<1>u. /\ post.pc = "sweep"
      /\ UNCHANGED <<lockVars, life, created, update, proxyVars, recv, xp, net, history>>
  BY <1>a
<1>b. post' \in PostRecords /\ post'.pc = "wait"
  BY <1>a DEF IInv, TypeOK, PostRecords
<1>c. NoChannel \in ChannelRecords /\ NoCommand \in CommandRecords
  BY ThreadsDiffer DEF NoChannel, NoCommand, ChannelRecords, CommandRecords, PermissionModes
<1>d. /\ chan' \in [Sessions -> ChannelRecords] /\ cmd' \in [Sessions -> CommandRecords]
      /\ \A t \in Swept : chan'[t] = NoChannel /\ cmd'[t] = NoCommand
      /\ \A t \in Sessions : t \notin Swept => chan'[t] = chan[t] /\ cmd'[t] = cmd[t]
  BY <1>a, <1>c DEF IInv, TypeOK, Swept
<1>e. /\ Swept \subseteq Sessions
      /\ \A t \in Swept : /\ Lives(t) /\ ~cmd[t].task /\ ~cmd[t].proxy
                          /\ recv[t].pc # "terminate"
                          /\ net.pc # "watch" => net.at # t
  BY DEF Swept, IInv, ChannelsAgree, ChannelAgrees, NetAgrees, Lives
<1>f. /\ NoCommand.id = 0 /\ ~NoCommand.task /\ ~NoCommand.proxy
      /\ NoChannel.state = "none" /\ ~NoChannel.doomed
  BY DEF NoCommand, NoChannel
<1>1. TypeOK'
  BY <1>u, <1>b, <1>c, <1>d, <1>e, <1>f DEF IInv, TypeOK, lockVars, commandVars,
    proxyVars, history
<1>2. ScheduleHeld'
  BY <1>u, <1>b, <1>c, <1>d, <1>e, <1>f, ThreadsDiffer, CreatedNat DEF IInv,
    ScheduleHeld, lockVars, commandVars, proxyVars, history
<1>3. Numbered'
  BY <1>u, <1>b, <1>c, <1>d, <1>e, <1>f, ThreadsDiffer, CreatedNat DEF IInv, Numbered,
    lockVars, commandVars, proxyVars, history
<1>4. ChannelsAgree'
  <2> SUFFICES ASSUME NEW t \in Sessions PROVE ChannelAgrees(t)'
    BY DEF ChannelsAgree
  <2>1. CASE t \in Swept
    BY <2>1, <1>u, <1>d, <1>e, <1>f DEF IInv, ChannelsAgree, ChannelAgrees, Lives
  <2>2. CASE t \notin Swept
    BY <2>2, <1>u, <1>d DEF IInv, ChannelsAgree, ChannelAgrees, Lives
  <2> QED  BY <2>1, <2>2
<1>5. TasksAgree'
  BY <1>u, <1>b, <1>c, <1>d, <1>e, <1>f, ThreadsDiffer, CreatedNat DEF IInv, TasksAgree,
    ScheduleHeld, lockVars, commandVars, proxyVars, history
<1>6. ClaimKnown'
  BY <1>u, <1>b, <1>c, <1>d, <1>e, <1>f, ThreadsDiffer, CreatedNat DEF IInv, ClaimKnown,
    Claimed, lockVars, commandVars, proxyVars, history
<1>7. ClaimsHeld'
  BY <1>u, <1>b, <1>c, <1>d, <1>e, <1>f, ThreadsDiffer, CreatedNat DEF IInv, ClaimsHeld,
    Claims, Claimed, lockVars, commandVars, proxyVars, history
<1>8. NetAgrees'
  BY <1>u, <1>b, <1>c, <1>d, <1>e, <1>f, ThreadsDiffer, CreatedNat DEF IInv, NetAgrees,
    lockVars, commandVars, proxyVars, history
<1>9. WritesPermitted'
  BY <1>u, <1>b, <1>c, <1>d, <1>e, <1>f, ThreadsDiffer, CreatedNat, WriteHasCommand DEF
    IInv, WritesPermitted, lockVars, commandVars, proxyVars, history
<1>10. SessionsHeld' /\ RegistryHeld' /\ WritersAgree' /\ AccessorAccounted'
  BY <1>u, <1>b, <1>c, <1>d, <1>e, <1>f DEF IInv, SessionsHeld, RegistryHeld,
    WritersAgree, AccessorAccounted, RegistryHeld, ScheduleHeld, lockVars, commandVars,
    proxyVars, history
<1> QED  BY <1>1, <1>2, <1>3, <1>4, <1>5, <1>6, <1>7, <1>8, <1>9, <1>10 DEF IInv

\* The end of a DRMU command keeps IInv.
LEMMA UpdateEndsStep ==
  ASSUME IInv, NEW s \in Sessions, UpdateEnds(s)
  PROVE  IInv'
<1>a. /\ update' \subseteq update
      /\ UNCHANGED <<lockVars, life, chan, cmd, created, proxyVars, recv, xp, post, net,
           history>>
  BY DEF UpdateEnds
<1>u. /\ update' \subseteq update
      /\ UNCHANGED <<lockVars, life, chan, cmd, created, proxyVars, recv, xp, post, net,
           history>>
  BY <1>a
<1>1. TypeOK'
  BY <1>u DEF IInv, TypeOK, lockVars, commandVars, proxyVars, history
<1>2. /\ ScheduleHeld' /\ SessionsHeld' /\ RegistryHeld' /\ Numbered'
      /\ ChannelsAgree' /\ TasksAgree' /\ ClaimKnown' /\ ClaimsHeld'
      /\ NetAgrees' /\ WritersAgree' /\ WritesPermitted' /\ AccessorAccounted'
  BY <1>u DEF IInv, ScheduleHeld, SessionsHeld, RegistryHeld, Numbered, ChannelsAgree,
    TasksAgree, ClaimKnown, ClaimsHeld, NetAgrees, WritersAgree, WritesPermitted,
    AccessorAccounted, ChannelAgrees, Lives, ScheduleHeld, Claimed, Claims, Claimed,
    RegistryHeld, ScheduleHeld, lockVars, commandVars, proxyVars, history
<1> QED  BY <1>1, <1>2 DEF IInv

-----------------------------------------------------------------------------
(* Steps of the destruction of a session. *)

\* The loss of a connection keeps IInv.
LEMMA DisconnectStep ==
  ASSUME IInv, NEW s \in Sessions, Disconnect(s)
  PROVE  IInv'
<1>a. /\ life[s] = "live"
      /\ life' = [life EXCEPT ![s] = "closing"]
      /\ UNCHANGED <<lockVars, chan, cmd, created, update, proxyVars, recv, xp, post, net,
           history>>
  BY DEF Disconnect
<1>u. /\ life[s] = "live"
      /\ UNCHANGED <<lockVars, chan, cmd, created, update, proxyVars, recv, xp, post, net,
           history>>
  BY <1>a
<1>b. /\ life' \in [Sessions -> {"live", "closing", "pending", "freed"}] /\ life'[s] = "closing"
      /\ \A t \in Sessions : t # s => life'[t] = life[t]
  BY <1>a DEF IInv, TypeOK
<1>1. TypeOK'
  BY <1>u, <1>b DEF IInv, TypeOK, lockVars, commandVars, proxyVars, history
<1>2. ChannelsAgree'
  BY <1>u, <1>b, ThreadsDiffer, CreatedNat DEF IInv, ChannelsAgree, ChannelAgrees,
    Lives, lockVars, commandVars, proxyVars, history
<1>3. ClaimKnown'
  BY <1>u, <1>b, ThreadsDiffer, CreatedNat DEF IInv, ClaimKnown, Claimed, lockVars,
    commandVars, proxyVars, history
<1>4. NetAgrees'
  BY <1>u, <1>b, ThreadsDiffer, CreatedNat DEF IInv, NetAgrees, lockVars, commandVars,
    proxyVars, history
<1>5. /\ ScheduleHeld' /\ SessionsHeld' /\ RegistryHeld' /\ Numbered'
      /\ TasksAgree' /\ ClaimsHeld' /\ WritersAgree' /\ WritesPermitted'
      /\ AccessorAccounted'
  BY <1>u, <1>b DEF IInv, ScheduleHeld, SessionsHeld, RegistryHeld, Numbered,
    TasksAgree, ClaimsHeld, WritersAgree, WritesPermitted, AccessorAccounted,
    ScheduleHeld, Claims, Claimed, RegistryHeld, ScheduleHeld, lockVars, commandVars,
    proxyVars, history
<1> QED  BY <1>1, <1>2, <1>3, <1>4, <1>5 DEF IInv

\* Beginning to destroy a session keeps IInv.
LEMMA NetVisitStep ==
  ASSUME IInv, NEW s \in Sessions, NetVisit(s)
  PROVE  IInv'
<1>a. /\ net.pc = "watch" /\ life[s] = "closing" /\ recv[s].pc = "idle"
      /\ net' = [pc |-> IF chan[s] = NoChannel \/ chan[s].doomed THEN "destroy"
                        ELSE IF cmd[s].task THEN "unschedule" ELSE "drop", at |-> s]
      /\ life' = [life EXCEPT ![s] = "pending"]
      /\ UNCHANGED <<lockVars, chan, cmd, created, update, proxyVars, recv, xp, post, history>>
  BY DEF NetVisit, NetAt
<1>u. /\ net.pc = "watch" /\ life[s] = "closing" /\ recv[s].pc = "idle"
      /\ net' = [pc |-> IF chan[s] = NoChannel \/ chan[s].doomed THEN "destroy"
                        ELSE IF cmd[s].task THEN "unschedule" ELSE "drop", at |-> s]
      /\ UNCHANGED <<lockVars, chan, cmd, created, update, proxyVars, recv, xp, post, history>>
  BY <1>a
<1>b. /\ life' \in [Sessions -> {"live", "closing", "pending", "freed"}] /\ life'[s] = "pending"
      /\ \A t \in Sessions : t # s => life'[t] = life[t]
  BY <1>a DEF IInv, TypeOK
<1>c. net' \in NetRecords
  BY <1>u, ThreadsDiffer DEF NetRecords
<1>d. /\ net'.pc \in {"unschedule", "drop"} => chan[s].state # "none"
      /\ net'.pc \in {"drop", "destroy"} => ~cmd[s].task
      /\ net'.pc = "destroy" => ~cmd[s].proxy
  BY <1>u DEF IInv, ChannelsAgree, ChannelAgrees, NoCommand, NoChannel
<1>1. TypeOK'
  BY <1>u, <1>b, <1>c, <1>d DEF IInv, TypeOK, lockVars, commandVars, proxyVars, history
<1>2. ChannelsAgree'
  BY <1>u, <1>b, <1>c, <1>d, ThreadsDiffer, CreatedNat DEF IInv, ChannelsAgree,
    ChannelAgrees, Lives, lockVars, commandVars, proxyVars, history
<1>3. ClaimKnown'
  BY <1>u, <1>b, <1>c, <1>d, ThreadsDiffer, CreatedNat DEF IInv, ClaimKnown, Claimed,
    lockVars, commandVars, proxyVars, history
<1>4. NetAgrees'
  BY <1>u, <1>b, <1>c, <1>d, ThreadsDiffer, CreatedNat DEF IInv, NetAgrees, lockVars,
    commandVars, proxyVars, history
<1>5. /\ ScheduleHeld' /\ SessionsHeld' /\ RegistryHeld' /\ Numbered'
      /\ TasksAgree' /\ ClaimsHeld' /\ WritersAgree' /\ WritesPermitted'
      /\ AccessorAccounted'
  BY <1>u, <1>b, <1>c, <1>d DEF IInv, ScheduleHeld, SessionsHeld, RegistryHeld,
    Numbered, TasksAgree, ClaimsHeld, WritersAgree, WritesPermitted, AccessorAccounted,
    ScheduleHeld, Claims, Claimed, RegistryHeld, ScheduleHeld, lockVars, commandVars,
    proxyVars, history
<1> QED  BY <1>1, <1>2, <1>3, <1>4, <1>5 DEF IInv

\* Unscheduling a command with its session keeps IInv.
LEMMA NetUnscheduleStep ==
  ASSUME IInv, NetUnschedule
  PROVE  IInv'
<1>a. /\ net.pc = "unschedule" /\ schedule = Free
      /\ lost' = IF cmd[net.at].task THEN lost ELSE lost \union {cmd[net.at].id}
      /\ cmd' = [cmd EXCEPT ![net.at].task = FALSE]
      /\ net' = [net EXCEPT !.pc = IF cmd[net.at].task THEN "drop" ELSE "destroy"]
      /\ UNCHANGED <<lockVars, life, chan, created, update, proxyVars, recv, xp, post,
           refused, fault>>
  BY DEF NetUnschedule, NetAt, NetGoes
<1>u. /\ net.pc = "unschedule" /\ schedule = Free
      /\ lost' = IF cmd[net.at].task THEN lost ELSE lost \union {cmd[net.at].id}
      /\ UNCHANGED <<lockVars, life, chan, created, update, proxyVars, recv, xp, post,
           refused, fault>>
  BY <1>a
<1>b. /\ net' \in NetRecords /\ net'.at = net.at
      /\ net'.pc = IF cmd[net.at].task THEN "drop" ELSE "destroy"
  BY <1>a DEF IInv, TypeOK, NetRecords
<1>c. /\ net.at \in Sessions /\ life[net.at] = "pending" /\ chan[net.at].state # "none"
      /\ cmd[net.at].id # 0
      /\ xp.pc \notin {"run", "register", "confirm", "error"} /\ post.pc \notin {"run", "drop"}
  BY <1>u, ThreadsDiffer DEF IInv, NetAgrees, ChannelsAgree, ChannelAgrees, ScheduleHeld
<1>d. /\ cmd' \in [Sessions -> CommandRecords] /\ cmd'[net.at].id = cmd[net.at].id
      /\ ~cmd'[net.at].task
      /\ cmd'[net.at].permission = cmd[net.at].permission
      /\ cmd'[net.at].proxy = cmd[net.at].proxy
      /\ cmd'[net.at].registered = cmd[net.at].registered
      /\ cmd'[net.at].failed = cmd[net.at].failed
      /\ \A t \in Sessions : t # net.at => cmd'[t] = cmd[t]
  BY <1>a, <1>c, CommandTask DEF IInv, TypeOK
<1>e. lost' \subseteq Commands /\ lost \subseteq lost'
  BY <1>u, <1>c, CommandNumber DEF IInv, TypeOK
<1>1. TypeOK'
  BY <1>u, <1>b, <1>c, <1>d, <1>e DEF IInv, TypeOK, lockVars, commandVars, proxyVars,
    history
<1>2. Numbered'
  BY <1>u, <1>b, <1>c, <1>d, <1>e, ThreadsDiffer, CreatedNat DEF IInv, Numbered,
    lockVars, commandVars, proxyVars, history
<1>3. ChannelsAgree'
  <2> SUFFICES ASSUME NEW t \in Sessions PROVE ChannelAgrees(t)'
    BY DEF ChannelsAgree
  <2>1. CASE t = net.at
    BY <2>1, <1>u, <1>b, <1>c, <1>d, <1>e DEF IInv, ChannelsAgree, ChannelAgrees,
      Lives, lockVars, commandVars, proxyVars, history
  <2>2. CASE t # net.at
    BY <2>2, <1>u, <1>b, <1>c, <1>d, <1>e DEF IInv, ChannelsAgree, ChannelAgrees,
      Lives, lockVars, commandVars, proxyVars, history
  <2> QED  BY <2>1, <2>2
<1>4. TasksAgree'
  BY <1>u, <1>b, <1>c, <1>d, <1>e, ThreadsDiffer, CreatedNat DEF IInv, TasksAgree,
    ScheduleHeld, lockVars, commandVars, proxyVars, history
<1>5. ClaimKnown'
  BY <1>u, <1>c, <1>d, <1>e, ClaimKept DEF Claimed, proxyVars
<1>6. ClaimsHeld'
  <2> SUFFICES ASSUME NEW t \in Sessions PROVE Claims(t)'
    BY DEF ClaimsHeld
  <2>1. CASE t = net.at
    BY <2>1, <1>u, <1>b, <1>c, <1>d, <1>e DEF IInv, ClaimsHeld, Claims, Claimed,
      lockVars, commandVars, proxyVars, history
  <2>2. CASE t # net.at
    BY <2>2, <1>u, <1>b, <1>c, <1>d, <1>e DEF IInv, ClaimsHeld, Claims, Claimed,
      lockVars, commandVars, proxyVars, history
  <2> QED  BY <2>1, <2>2
<1>7. NetAgrees'
  BY <1>u, <1>b, <1>c, <1>d, <1>e, ThreadsDiffer, CreatedNat DEF IInv, NetAgrees,
    lockVars, commandVars, proxyVars, history
<1>8. WritesPermitted'
  BY <1>u, <1>b, <1>c, <1>d, <1>e, ThreadsDiffer, CreatedNat DEF IInv, WritesPermitted,
    lockVars, commandVars, proxyVars, history
<1>9. /\ ScheduleHeld' /\ SessionsHeld' /\ RegistryHeld' /\ WritersAgree'
      /\ AccessorAccounted'
  BY <1>u, <1>b, <1>c, <1>d, <1>e DEF IInv, ScheduleHeld, SessionsHeld, RegistryHeld,
    WritersAgree, AccessorAccounted, RegistryHeld, ScheduleHeld, lockVars, commandVars,
    proxyVars, history
<1> QED  BY <1>1, <1>2, <1>3, <1>4, <1>5, <1>6, <1>7, <1>8, <1>9 DEF IInv

\* Dropping the proxy of a session keeps IInv.
LEMMA NetDropStep ==
  ASSUME IInv, NetDrop
  PROVE  IInv'
<1>a. PICK ok \in BOOLEAN :
        /\ net.pc = "drop" /\ (cmd[net.at].proxy => registry \in {Free, NetThread})
        /\ ok <=> (cmd[net.at].proxy => proxy.state = "REGISTERED")
        /\ lost' = IF ok THEN lost ELSE lost \union {cmd[net.at].id}
        /\ proxy' = IF cmd[net.at].proxy /\ ok
                   THEN [proxy EXCEPT !.state = "DROPPED", !.ref = 0, !.owner = 0] ELSE proxy
        /\ cmd' = [cmd EXCEPT ![net.at].proxy = cmd[net.at].proxy /\ ~ok]
        /\ net' = [net EXCEPT !.pc = "destroy"]
        /\ UNCHANGED <<lockVars, life, chan, created, update, accessor, recv, xp, post,
             refused, fault>>
  BY DEF NetDrop, NetAt, NetGoes, RegistryReturns, Droppable, drop_dataproxy
<1>u. /\ net.pc = "drop" /\ (cmd[net.at].proxy => registry \in {Free, NetThread})
      /\ ok <=> (cmd[net.at].proxy => proxy.state = "REGISTERED")
      /\ lost' = IF ok THEN lost ELSE lost \union {cmd[net.at].id}
      /\ UNCHANGED <<lockVars, life, chan, created, update, accessor, recv, xp, post,
           refused, fault>>
  BY <1>a
<1>b. /\ net' \in NetRecords /\ net'.pc = "destroy" /\ net'.at = net.at
  BY <1>a DEF IInv, TypeOK, NetRecords
<1>c. /\ net.at \in Sessions /\ ~cmd[net.at].task /\ life[net.at] = "pending"
      /\ chan[net.at].state # "none" /\ cmd[net.at].id # 0 /\ recv[net.at].pc = "idle"
      /\ (xp.pc \in {"register", "confirm", "error"} => xp.at # net.at)
      /\ post.todo \subseteq Sessions
  BY <1>u DEF IInv, TypeOK, PostRecords, NetAgrees, TasksAgree, ChannelsAgree, ChannelAgrees,
      Lives
<1>d. /\ cmd' \in [Sessions -> CommandRecords] /\ cmd'[net.at].id = cmd[net.at].id
      /\ cmd'[net.at].permission = cmd[net.at].permission /\ cmd'[net.at].task = cmd[net.at].task
      /\ cmd'[net.at].proxy = (cmd[net.at].proxy /\ ~ok)
      /\ cmd'[net.at].failed = cmd[net.at].failed
      /\ cmd'[net.at].registered = cmd[net.at].registered
      /\ \A t \in Sessions : t # net.at => cmd'[t] = cmd[t]
  <2> DEFINE has == cmd[net.at].proxy /\ ~ok
  <2>1. has \in BOOLEAN /\ cmd' = [cmd EXCEPT ![net.at].proxy = has]
    BY <1>a
  <2> HIDE DEF has
  <2>2. /\ cmd' \in [Sessions -> CommandRecords] /\ cmd'[net.at].id = cmd[net.at].id
        /\ cmd'[net.at].permission = cmd[net.at].permission
        /\ cmd'[net.at].task = cmd[net.at].task
        /\ cmd'[net.at].proxy = has /\ cmd'[net.at].failed = cmd[net.at].failed
        /\ cmd'[net.at].registered = cmd[net.at].registered
        /\ \A t \in Sessions : t # net.at => cmd'[t] = cmd[t]
    BY <1>c, <2>1, CommandProxy DEF IInv, TypeOK
  <2> QED  BY <2>2 DEF has
<1>e. /\ proxy' \in ProxyRecords
      /\ cmd[net.at].proxy /\ ok => proxy'.state = "DROPPED" /\ proxy'.ref = 0
      /\ ~(cmd[net.at].proxy /\ ok) => proxy' = proxy
  BY <1>a, <1>c, ThreadsDiffer DEF IInv, TypeOK, ProxyRecords
<1>f. lost' \subseteq Commands /\ lost \subseteq lost'
  BY <1>u, <1>c, CommandNumber DEF IInv, TypeOK
<1>1. TypeOK'
  BY <1>u, <1>b, <1>c, <1>d, <1>e, <1>f DEF IInv, TypeOK, lockVars, commandVars,
    proxyVars, history
<1>2. Numbered'
  BY <1>u, <1>b, <1>c, <1>d, <1>e, <1>f, ThreadsDiffer, CreatedNat DEF IInv, Numbered,
    lockVars, commandVars, proxyVars, history
<1>3. ChannelsAgree'
  <2> SUFFICES ASSUME NEW t \in Sessions PROVE ChannelAgrees(t)'
    BY DEF ChannelsAgree
  <2>1. CASE t = net.at
    BY <2>1, <1>u, <1>b, <1>c, <1>d, <1>e, <1>f DEF IInv, ChannelsAgree,
      ChannelAgrees, Lives, lockVars, commandVars, proxyVars, history
  <2>2. CASE t # net.at
    BY <2>2, <1>u, <1>b, <1>c, <1>d, <1>e, <1>f DEF IInv, ChannelsAgree,
      ChannelAgrees, Lives, lockVars, commandVars, proxyVars, history
  <2> QED  BY <2>1, <2>2
<1>4. TasksAgree'
  BY <1>u, <1>b, <1>c, <1>d, <1>e, <1>f, ThreadsDiffer, CreatedNat DEF IInv, TasksAgree,
    ScheduleHeld, lockVars, commandVars, proxyVars, history
<1>5. ClaimKnown'
  BY <1>u, <1>c, <1>d, <1>e, <1>f, ClaimKept DEF Claimed, proxyVars
<1>6. ClaimsHeld'
  <2> SUFFICES ASSUME NEW t \in Sessions PROVE Claims(t)'
    BY DEF ClaimsHeld
  <2>1. CASE t = net.at
    BY <2>1, <1>u, <1>b, <1>c, <1>d, <1>e, <1>f DEF IInv, ClaimsHeld, Claims, Claimed,
      lockVars, commandVars, proxyVars, history
  <2>2. CASE t # net.at
    BY <2>2, <1>u, <1>b, <1>c, <1>d, <1>e, <1>f DEF IInv, ClaimsHeld, Claims, Claimed,
      Numbered, lockVars, commandVars, proxyVars, history
  <2> QED  BY <2>1, <2>2
<1>7. NetAgrees'
  BY <1>u, <1>b, <1>c, <1>d, <1>e, <1>f, ThreadsDiffer, CreatedNat DEF IInv, NetAgrees,
    lockVars, commandVars, proxyVars, history
<1>8. WritersAgree'
  BY <1>u, <1>b, <1>c, <1>d, <1>e, <1>f, ThreadsDiffer, CreatedNat DEF IInv,
    WritersAgree, RegistryHeld, ScheduleHeld, lockVars, commandVars, proxyVars, history
<1>9. WritesPermitted'
  BY <1>u, <1>b, <1>c, <1>d, <1>e, <1>f, ThreadsDiffer, CreatedNat DEF IInv,
    WritesPermitted, lockVars, commandVars, proxyVars, history
<1>10. AccessorAccounted'
  BY <1>u, <1>b, <1>c, <1>d, <1>e, <1>f, ThreadsDiffer, CreatedNat DEF IInv,
    AccessorAccounted, lockVars, commandVars, proxyVars, history
<1>11. ScheduleHeld' /\ SessionsHeld' /\ RegistryHeld'
  BY <1>u, <1>b, <1>c, <1>d, <1>e, <1>f DEF IInv, ScheduleHeld, SessionsHeld,
    RegistryHeld, lockVars, commandVars, proxyVars, history
<1> QED  BY <1>1, <1>2, <1>3, <1>4, <1>5, <1>6, <1>7, <1>8, <1>9, <1>10, <1>11 DEF IInv

\* Freeing a session and its command keeps IInv: no task is left, and a claim only as lost.
LEMMA NetDestroyStep ==
  ASSUME IInv, NetDestroy
  PROVE  IInv'
<1>a. /\ net.pc = "destroy" /\ ~InUse(net.at) /\ net' = [pc |-> "watch", at |-> 0]
      /\ life' = [life EXCEPT ![net.at] = "freed"]
      /\ chan' = [chan EXCEPT ![net.at] = NoChannel]
      /\ cmd' = [cmd EXCEPT ![net.at] = NoCommand]
      /\ UNCHANGED <<lockVars, created, update, proxyVars, recv, xp, post, history>>
  BY DEF NetDestroy, NetAt
<1>u. /\ net.pc = "destroy" /\ ~InUse(net.at) /\ net' = [pc |-> "watch", at |-> 0]
      /\ UNCHANGED <<lockVars, created, update, proxyVars, recv, xp, post, history>>
  BY <1>a
<1>b. /\ net.at \in Sessions /\ life[net.at] = "pending" /\ ~cmd[net.at].task
      /\ cmd[net.at].proxy => cmd[net.at].id \in lost
      /\ post.pc = "drop" => post.at # net.at
      /\ recv[net.at].pc = "idle"
      /\ xp.pc \in {"register", "confirm", "error"} => xp.at # net.at
      /\ post.todo \subseteq Sessions
  BY <1>u DEF IInv, TypeOK, PostRecords, NetAgrees, ChannelsAgree, ChannelAgrees, Lives, InUse
<1>c. NoChannel \in ChannelRecords /\ NoCommand \in CommandRecords
  BY ThreadsDiffer DEF NoChannel, NoCommand, ChannelRecords, CommandRecords, PermissionModes
<1>d. /\ chan' \in [Sessions -> ChannelRecords] /\ cmd' \in [Sessions -> CommandRecords]
      /\ life' \in [Sessions -> {"live", "closing", "pending", "freed"}]
      /\ chan'[net.at] = NoChannel /\ cmd'[net.at] = NoCommand /\ life'[net.at] = "freed"
      /\ \A t \in Sessions : t # net.at =>
           chan'[t] = chan[t] /\ cmd'[t] = cmd[t] /\ life'[t] = life[t]
  BY <1>a, <1>b, <1>c DEF IInv, TypeOK
<1>e. net' \in NetRecords
  BY <1>u, ThreadsDiffer DEF NetRecords
<1>f. /\ NoCommand.id = 0 /\ ~NoCommand.task /\ ~NoCommand.proxy
      /\ NoChannel.state = "none" /\ ~NoChannel.doomed
  BY DEF NoCommand, NoChannel
<1>1. TypeOK'
  BY <1>u, <1>b, <1>c, <1>d, <1>e, <1>f DEF IInv, TypeOK, lockVars, commandVars,
    proxyVars, history
<1>2. Numbered'
  BY <1>u, <1>b, <1>c, <1>d, <1>e, <1>f, ThreadsDiffer, CreatedNat DEF IInv, Numbered,
    lockVars, commandVars, proxyVars, history
<1>3. ChannelsAgree'
  <2> SUFFICES ASSUME NEW t \in Sessions PROVE ChannelAgrees(t)'
    BY DEF ChannelsAgree
  <2>1. CASE t = net.at
    BY <2>1, <1>u, <1>b, <1>c, <1>d, <1>e, <1>f DEF IInv, ChannelsAgree,
      ChannelAgrees, Lives, lockVars, commandVars, proxyVars, history
  <2>2. CASE t # net.at
    BY <2>2, <1>u, <1>b, <1>c, <1>d, <1>e, <1>f DEF IInv, ChannelsAgree,
      ChannelAgrees, Lives, lockVars, commandVars, proxyVars, history
  <2> QED  BY <2>1, <2>2
<1>4. TasksAgree'
  BY <1>u, <1>b, <1>c, <1>d, <1>e, <1>f, ThreadsDiffer, CreatedNat DEF IInv, TasksAgree,
    ScheduleHeld, lockVars, commandVars, proxyVars, history
<1>5. ClaimKnown'
  BY <1>u, <1>b, <1>c, <1>d, <1>e, <1>f, ThreadsDiffer, CreatedNat DEF IInv, ClaimKnown,
    Claimed, lockVars, commandVars, proxyVars, history
<1>6. ClaimsHeld'
  <2> SUFFICES ASSUME NEW t \in Sessions PROVE Claims(t)'
    BY DEF ClaimsHeld
  <2>1. CASE t = net.at
    BY <2>1, <1>u, <1>b, <1>c, <1>d, <1>e, <1>f DEF IInv, ClaimsHeld, Claims, Claimed,
      lockVars, commandVars, proxyVars, history
  <2>2. CASE t # net.at
    BY <2>2, <1>u, <1>b, <1>c, <1>d, <1>e, <1>f DEF IInv, ClaimsHeld, Claims, Claimed,
      lockVars, commandVars, proxyVars, history
  <2> QED  BY <2>1, <2>2
<1>7. NetAgrees'
  BY <1>u, <1>b, <1>c, <1>d, <1>e, <1>f, ThreadsDiffer, CreatedNat DEF IInv, NetAgrees,
    lockVars, commandVars, proxyVars, history
<1>8. WritesPermitted'
  BY <1>u, <1>b, <1>c, <1>d, <1>e, <1>f, ThreadsDiffer, CreatedNat, WriteHasCommand DEF
    IInv, WritesPermitted, lockVars, commandVars, proxyVars, history
<1>9. /\ ScheduleHeld' /\ SessionsHeld' /\ RegistryHeld' /\ WritersAgree'
      /\ AccessorAccounted'
  BY <1>u, <1>b, <1>c, <1>d, <1>e, <1>f DEF IInv, ScheduleHeld, SessionsHeld,
    RegistryHeld, WritersAgree, AccessorAccounted, RegistryHeld, ScheduleHeld, lockVars,
    commandVars, proxyVars, history
<1> QED  BY <1>1, <1>2, <1>3, <1>4, <1>5, <1>6, <1>7, <1>8, <1>9 DEF IInv

\* A step into undefined behaviour changes nothing but fault.
LEMMA UndefinedStep ==
  ASSUME IInv, Undefined
  PROVE  IInv'
<1>a. /\ fault' = TRUE
      /\ UNCHANGED <<lockVars, commandVars, proxyVars, recv, xp, post, net, lost, refused>>
  BY DEF Undefined
<1>u. /\ fault' = TRUE
      /\ UNCHANGED <<lockVars, commandVars, proxyVars, recv, xp, post, net, lost, refused>>
  BY <1>a
<1>1. TypeOK'
  BY <1>u DEF IInv, TypeOK, lockVars, commandVars, proxyVars, history
<1>2. /\ ScheduleHeld' /\ SessionsHeld' /\ RegistryHeld' /\ Numbered'
      /\ ChannelsAgree' /\ TasksAgree' /\ ClaimKnown' /\ ClaimsHeld'
      /\ NetAgrees' /\ WritersAgree' /\ WritesPermitted' /\ AccessorAccounted'
  BY <1>u DEF IInv, ScheduleHeld, SessionsHeld, RegistryHeld, Numbered, ChannelsAgree,
    TasksAgree, ClaimKnown, ClaimsHeld, NetAgrees, WritersAgree, WritesPermitted,
    AccessorAccounted, ChannelAgrees, Lives, ScheduleHeld, Claimed, Claims, Claimed,
    RegistryHeld, ScheduleHeld, lockVars, commandVars, proxyVars, history
<1> QED  BY <1>1, <1>2 DEF IInv

-----------------------------------------------------------------------------
(* The theorems. *)

\* In the initial state nobody holds a lock and nothing is claimed.
LEMMA InitEstablishes == Init => IInv
<1> SUFFICES ASSUME Init PROVE IInv
  OBVIOUS
<1>1. /\ NoOp \in Writes /\ NoOp.ref = 0 /\ NoChannel \in ChannelRecords
      /\ NoCommand \in CommandRecords /\ Inactive \in ProxyRecords
  BY ThreadsDiffer DEF NoOp, Writes, NoChannel, ChannelRecords, NoCommand, CommandRecords,
    Inactive, ProxyRecords, PermissionModes
<1>2. /\ NoCommand.id = 0 /\ ~NoCommand.task /\ ~NoCommand.proxy
      /\ NoChannel.state = "none" /\ ~NoChannel.doomed
      /\ Inactive.state = "INACTIVE" /\ Inactive.ref = 0
  BY DEF NoCommand, NoChannel, Inactive
<1>3. TypeOK
  <2>1. recv \in [Sessions -> RecvRecords]
    BY <1>1 DEF Init, RecvRecords
  <2>2. xp \in XpRecords /\ post \in PostRecords /\ net \in NetRecords
    BY <1>1, ThreadsDiffer DEF Init, XpRecords, PostRecords, NetRecords
  <2>3. /\ session \in [Sessions -> Threads \union {Free}]
        /\ life \in [Sessions -> {"live", "closing", "pending", "freed"}]
    BY DEF Init
  <2>4. chan \in [Sessions -> ChannelRecords] /\ cmd \in [Sessions -> CommandRecords]
    BY <1>1 DEF Init
  <2>5. /\ schedule \in Threads \union {Free} /\ registry \in Threads \union {Free}
        /\ created \in Ids /\ update \subseteq Sessions /\ proxy \in ProxyRecords
        /\ accessor \in Int /\ lost \subseteq Commands /\ refused \subseteq Commands
    <3>1. /\ schedule = Free /\ registry = Free /\ created = 0 /\ update = {}
          /\ proxy = Inactive /\ accessor = 0 /\ lost = {} /\ refused = {}
      BY DEF Init
    <3> QED  BY <1>1, <3>1, ThreadsDiffer
  <2>6. fault \in BOOLEAN
    BY DEF Init
  <2> QED  BY <2>1, <2>2, <2>3, <2>4, <2>5, <2>6 DEF TypeOK
<1>4. ScheduleHeld /\ SessionsHeld /\ RegistryHeld
  BY ThreadsDiffer DEF Init, ScheduleHeld, SessionsHeld, RegistryHeld
<1>5. Numbered
  BY <1>1, <1>2 DEF Init, Numbered
<1>6. ChannelsAgree
  BY <1>2 DEF Init, ChannelsAgree, ChannelAgrees
<1>7. TasksAgree /\ ClaimKnown /\ ClaimsHeld /\ NetAgrees
  BY <1>2, ThreadsDiffer DEF Init, TasksAgree, ClaimKnown, ClaimsHeld, Claims, Claimed, NetAgrees
<1>8. WritersAgree /\ WritesPermitted /\ AccessorAccounted
  BY <1>2 DEF Init, WritersAgree, WritesPermitted, AccessorAccounted
<1> QED  BY <1>3, <1>4, <1>5, <1>6, <1>7, <1>8 DEF IInv

\* Every step keeps IInv.
LEMMA NextPreserves == IInv /\ [Next]_vars => IInv'
<1> SUFFICES ASSUME IInv, [Next]_vars PROVE IInv'
  OBVIOUS
<1>1. CASE UNCHANGED vars
  BY <1>1 DEF vars, lockVars, commandVars, proxyVars, history, IInv, TypeOK, ScheduleHeld,
    SessionsHeld, RegistryHeld, Numbered, ChannelsAgree, ChannelAgrees, Lives, TasksAgree,
    ClaimKnown, ClaimsHeld, Claims, Claimed, NetAgrees, WritersAgree, WritesPermitted,
    AccessorAccounted
<1>2. CASE FrameNext
  BY <1>2, FrameBeginStep, RunTasksEndStep, XpConfirmStep, XpErrorStep, XpSkipStep,
      XpReserveStep,
    XpUpdateStep, XpRegisterStep, XpApplyStep, XpEchoStep, XpWrittenStep, FrameEndStep
  DEF FrameNext
<1>3. CASE PostNext
  BY <1>3, PostBeginStep, PostDropStep, PostEndStep, SweepStep, PostUnscheduleStep,
    PostTerminateStep
  DEF PostNext
<1>4. CASE NetNext
  BY <1>4, NetVisitStep, NetUnscheduleStep, NetDropStep, NetDestroyStep,
      UndefinedStep DEF NetNext
<1>5. CASE XpSet
  BY <1>5, XpSetStep
<1>6. ASSUME NEW s \in Sessions, LockSchedule(s) \/ Receive(s) \/ Disconnect(s) \/ UpdateEnds(s)
      PROVE  IInv'
  BY <1>6, LockScheduleStep, RequestTooLateStep, HandleRequestStep, DrciCreateStep, RecvTerminateStep,
      DrmuCreateStep,
    RecvWriteStep, RecvApplyStep, RecvEchoStep, RecvWrittenStep, RecvUnlockStep, DisconnectStep,
    UpdateEndsStep
  DEF Receive
<1> QED  BY <1>1, <1>2, <1>3, <1>4, <1>5, <1>6 DEF Next

\* Locks, tasks, channels, commands and the proxy always agree.
THEOREM DataProxiesInvariant == Spec => []IInv
<1>1. Init => IInv
  BY InitEstablishes
<1>2. IInv /\ [Next]_vars => IInv'
  BY NextPreserves
<1> QED  BY <1>1, <1>2, PTL DEF Spec

\* Every variable has its type.
THEOREM DataProxiesTypeCorrect == Spec => []TypeOK
<1>1. IInv => TypeOK
  BY DEF IInv
<1> QED  BY <1>1, DataProxiesInvariant, PTL

\* A claimed dataref has a command behind it, and so has every write that is
\* under way with the registry locked.
THEOREM ClaimsHaveCommands == Spec => []ClaimHasCommand
<1>1. ASSUME IInv PROVE ClaimHasCommand
  <2>1. Claimed => Alive(proxy.ref) \/ proxy.ref \in lost
    BY <1>1 DEF IInv, ClaimKnown, Alive
  <2>2. \A s \in Sessions : recv[s].pc \in {"apply", "echo"} =>
          Claimed /\ proxy.ref = recv[s].op.ref
    BY <1>1 DEF IInv, WritersAgree, Claimed
  <2>3. xp.pc \in {"apply", "echo"} /\ registry = XpThread => Claimed /\ proxy.ref = xp.op.ref
    BY <1>1 DEF IInv, WritersAgree, Claimed
  <2> QED  BY <2>1, <2>2, <2>3 DEF ClaimHasCommand, Claimed
<1> QED  BY <1>1, DataProxiesInvariant, PTL

\* No command receives a value from a source it does not admit.
THEOREM WritesArePermitted == Spec => []WritesPermitted
<1>1. IInv => WritesPermitted
  BY DEF IInv
<1> QED  BY <1>1, DataProxiesInvariant, PTL

\* X-Plane's accessors are those of the proxy, never one too many or too few.
THEOREM AccessorsAccounted == Spec => []AccessorAccounted
<1>1. IInv => AccessorAccounted
  BY DEF IInv
<1> QED  BY <1>1, DataProxiesInvariant, PTL

-----------------------------------------------------------------------------
(* No deadlock among the three kinds of locks. *)

\* A receive thread never waits for another thread's lock once it has the
\* schedule: sessions and the registry are used under the schedule only, but
\* for X-Plane's own writes, which leave the registry before they go on.
LEMMA ReceiversDoNotWait ==
  ASSUME IInv, ~SessionLeftLocked, NEW s \in Sessions
  PROVE  WaitsFor(s) = {}
<1>1. recv[s].pc # "idle" => schedule = s
  BY DEF IInv, ScheduleHeld
<1>2. recv[s].pc # "idle" => registry \in {Free, s}
  <2>1. registry \in Sessions => schedule = registry
    BY DEF IInv, RegistryHeld, ScheduleHeld
  <2>2. registry = XpThread => schedule = XpThread
    BY DEF IInv, RegistryHeld
  <2>3. registry \in Sessions \union {Free, XpThread}
    BY ThreadCases DEF IInv, TypeOK, RegistryHeld
  <2> QED  BY <1>1, <2>1, <2>2, <2>3, ThreadsDiffer
<1>3. \A t \in Sessions : session[t] \in {Free, t}
  BY DEF IInv, SessionsHeld, SessionLeftLocked
<1>4. recv[s].pc # "idle" => \A t \in Sessions : session[t] \in {Free, s}
  BY <1>1, <1>3, ThreadsDiffer DEF IInv, SessionsHeld, ScheduleHeld
<1>5. recv[s].pc = "echo" => recv[s].op.owner \in Sessions
  BY DEF IInv, WritersAgree, ClaimKnown, Claimed
<1> QED  BY <1>2, <1>4, <1>5 DEF WaitsFor, SessionOwner

\* Post-processing waits for nobody while it has the schedule, and never for
\* itself, the destruction of a session or an idle thread.
LEMMA PostWaits ==
  ASSUME IInv, ~SessionLeftLocked
  PROVE  /\ WaitsFor(PostThread) \subseteq Sessions \union {XpThread}
         /\ schedule = PostThread => WaitsFor(PostThread) = {}
<1>1. /\ schedule \in Sessions \union {Free, XpThread, PostThread}
      /\ registry \in Sessions \union {Free, XpThread}
  BY ThreadCases DEF IInv, TypeOK, ScheduleHeld, RegistryHeld
<1>2. \A t \in Sessions : SessionOwner(t) \in {Free, t}
  BY DEF IInv, SessionsHeld, SessionLeftLocked, SessionOwner
<1>3. post.todo \subseteq Sessions
  BY DEF IInv, TypeOK, PostRecords
<1>4. PostThread \notin Sessions /\ PostThread # XpThread
  BY ThreadsDiffer
<1>5. WaitsFor(PostThread) \subseteq Sessions \union {XpThread}
  BY <1>1, <1>2, <1>3, <1>4 DEF WaitsFor
<1>6. ASSUME schedule = PostThread PROVE WaitsFor(PostThread) = {}
  <2>1. \A t \in Sessions : SessionOwner(t) = Free
    BY <1>2, <1>6, ThreadsDiffer DEF IInv, SessionsHeld, ScheduleHeld, SessionOwner
  <2>2. registry = Free
    BY <1>1, <1>6, ThreadsDiffer DEF IInv, RegistryHeld, ScheduleHeld
  <2> QED  BY <1>3, <1>4, <1>6, <2>1, <2>2 DEF WaitsFor
<1> QED  BY <1>5, <1>6

\* X-Plane's thread waits for receive threads, or for post-processing at the
\* beginning of a frame.
LEMMA XpWaits ==
  ASSUME IInv, ~SessionLeftLocked
  PROVE  /\ WaitsFor(XpThread) \subseteq Sessions \union {PostThread}
         /\ PostThread \in WaitsFor(XpThread) => schedule = PostThread
<1>1. /\ schedule \in Sessions \union {Free, XpThread, PostThread}
      /\ registry \in Sessions \union {Free, XpThread}
  BY ThreadCases DEF IInv, TypeOK, ScheduleHeld, RegistryHeld
<1>2. \A t \in Sessions : SessionOwner(t) \in {Free, t}
  BY DEF IInv, SessionsHeld, SessionLeftLocked, SessionOwner
<1>3. /\ xp.pc = "echo" => xp.op.owner \in Sessions
      /\ xp.pc \in {"confirm", "error"} => xp.at \in Sessions
  BY DEF IInv, WritersAgree, TasksAgree
<1>4. XpThread \notin Sessions /\ PostThread \notin Sessions /\ PostThread # Free
  BY ThreadsDiffer
<1> QED  BY <1>1, <1>2, <1>3, <1>4 DEF WaitsFor

\* Threads never wait for each other in a circle: a receive thread in a set of
\* waiting threads waits for none of them, post-processing with the schedule
\* for nobody, X-Plane's thread for post-processing only if that has the
\* schedule, and nobody waits for the destruction of a session.
THEOREM NoLockCycles == Spec => []NoLockCycle
<1>1. ASSUME IInv PROVE NoLockCycle
  <2> SUFFICES ASSUME ~SessionLeftLocked, NEW T \in SUBSET Threads, T # {}
               PROVE  \E t \in T : WaitsFor(t) \cap T = {}
    BY DEF NoLockCycle
  <2>1. CASE \E t \in T : t \in Sessions
    BY <2>1, <1>1, ReceiversDoNotWait
  <2>2. CASE /\ \A t \in T : t \notin Sessions
             /\ PostThread \in T /\ (schedule = PostThread \/ XpThread \notin T)
    BY <2>2, <1>1, PostWaits
  <2>3. CASE /\ \A t \in T : t \notin Sessions
             /\ XpThread \in T /\ ~(schedule = PostThread /\ PostThread \in T)
    BY <2>3, <1>1, XpWaits
  <2>4. CASE T = {NetThread}
    <3>1. NetThread \notin WaitsFor(NetThread)
      BY ThreadsDiffer DEF WaitsFor
    <3> QED  BY <2>4, <3>1
  <2> QED  BY <2>1, <2>2, <2>3, <2>4, ThreadCases
<1> QED  BY <1>1, DataProxiesInvariant, PTL
=============================================================================
