------------------------- MODULE CommandRegistryProofs -------------------------
(***************************************************************************)
(* Proofs about CommandRegistry, for any number of channels and proxies    *)
(* and whether or not messages can be sent.                                *)
(*                                                                         *)
(* A handler must never outlive its proxy, yet the proxy's life is decided *)
(* by four threads under three different mutexes.  The argument is one of  *)
(* ownership.  A proxy that can still be dropped belongs to exactly one    *)
(* command that has its pointer (NoOrphanProxy, InstancesKnown), unless it *)
(* is one of the orphans: their command was freed while it was being       *)
(* created, so they were never registered and have no handler.  Any other  *)
(* command is destroyed only once its proxy is no longer droppable         *)
(* (ChannelsAgree, TasksAgree, NetAgrees, all through Retired); so the     *)
(* proxy outlives the command, and only X-Plane's thread frees it, together*)
(* with the handler.  RecvAgrees says how far the receive thread has built *)
(* the command, which destroy_session may meet half-built (caught).  IInv, *)
(* the conjunction, is kept by every action.                               *)
(***************************************************************************)
EXTENDS CommandRegistry, TLAPS

\* The bounds of channels and proxies, with 0 for none of them.
LEMMA Ranges ==
  /\ 0 \in 0 .. NumChannels /\ 0 \in 0 .. MaxInstances
  /\ \A c \in Channels : c \in 0 .. NumChannels /\ c \in 1 .. NumChannels + 1
  /\ \A p \in Instances : p \in 0 .. MaxInstances
  BY CommandRegistryAssumption DEF Channels, Instances

\* Replacing, closing or marking one channel gives channels again.
LEMMA ChannelUpdate ==
  ASSUME chan \in [Channels -> ChannelRecords], NEW c \in Channels,
         NEW v \in ChannelRecords
  PROVE  [chan EXCEPT ![c] = v] \in [Channels -> ChannelRecords]
  OBVIOUS

\* A channel stays a channel in any of its states (channels.c).
LEMMA ChannelState ==
  ASSUME chan \in [Channels -> ChannelRecords], NEW c \in Channels,
         NEW s \in {"none", "INITIAL", "CONFIRMED", "CLOSED"}
  PROVE  [chan EXCEPT ![c].state = s] \in [Channels -> ChannelRecords]
<1>1. [chan[c] EXCEPT !.state = s] \in ChannelRecords
  BY Zenon DEF ChannelRecords
<1> QED  BY <1>1

\* A channel stays a channel when it is closed (close_channel).
LEMMA ChannelClosed ==
  ASSUME chan \in [Channels -> ChannelRecords], NEW c \in Channels
  PROVE  [chan EXCEPT ![c].state = Closed(@)] \in [Channels -> ChannelRecords]
<1>1. Closed(chan[c].state) \in {"none", "INITIAL", "CONFIRMED", "CLOSED"}
  BY DEF Closed, ChannelRecords
<1> QED  BY <1>1, ChannelState

\* A channel stays a channel when its destruction is requested.
LEMMA ChannelDoomed ==
  ASSUME chan \in [Channels -> ChannelRecords], NEW c \in Channels, NEW b \in BOOLEAN
  PROVE  [chan EXCEPT ![c].doomed = b] \in [Channels -> ChannelRecords]
<1>1. [chan[c] EXCEPT !.doomed = b] \in ChannelRecords
  BY Zenon DEF ChannelRecords
<1> QED  BY <1>1

\* Setting one flag of a cmrg command gives a command again (command_cmrg.c).
LEMMA CommandField ==
  ASSUME cmd \in [Channels -> CommandRecords], NEW c \in Channels, NEW b \in BOOLEAN
  PROVE  /\ [cmd EXCEPT ![c].xpcmd = b] \in [Channels -> CommandRecords]
         /\ [cmd EXCEPT ![c].init = b] \in [Channels -> CommandRecords]
         /\ [cmd EXCEPT ![c].failed = b] \in [Channels -> CommandRecords]
         /\ [cmd EXCEPT ![c].task = b] \in [Channels -> CommandRecords]
         /\ [cmd EXCEPT ![c].ref = b] \in [Channels -> CommandRecords]
<1>1. [cmd[c] EXCEPT !.xpcmd = b] \in CommandRecords  BY Zenon DEF CommandRecords
<1>2. [cmd[c] EXCEPT !.init = b] \in CommandRecords  BY Zenon DEF CommandRecords
<1>3. [cmd[c] EXCEPT !.failed = b] \in CommandRecords  BY Zenon DEF CommandRecords
<1>4. [cmd[c] EXCEPT !.task = b] \in CommandRecords  BY Zenon DEF CommandRecords
<1>5. [cmd[c] EXCEPT !.ref = b] \in CommandRecords  BY Zenon DEF CommandRecords
<1> QED  BY <1>1, <1>2, <1>3, <1>4, <1>5

\* A proxy stays a proxy in any of its states (xpcommand_t).
LEMMA ProxyState ==
  ASSUME proxy \in [Instances -> ProxyRecords], NEW p \in Instances,
         NEW s \in {"none", "CREATED", "REGISTERED", "DROPPED", "DESTROYED"}
  PROVE  [proxy EXCEPT ![p].state = s] \in [Instances -> ProxyRecords]
<1>1. [proxy[p] EXCEPT !.state = s] \in ProxyRecords
  BY Zenon DEF ProxyRecords
<1> QED  BY <1>1

\* drop_xpcommand leaves a proxy a proxy.
LEMMA ProxyDropped ==
  ASSUME proxy \in [Instances -> ProxyRecords], NEW p \in Instances
  PROVE  drop_xpcommand(p) \in [Instances -> ProxyRecords]
  BY ProxyState DEF drop_xpcommand

\* A command that exists, or has its xpcmd pointer, has had a proxy.
LEMMA ProxyOfCommand ==
  ASSUME IInv, NEW c \in Channels, cmd[c].xpcmd \/ cmd[c].id # 0
  PROVE  cmd[c].id \in Instances
<1>1. cmd[c].id \in 0 .. MaxInstances /\ cmd[c].id # 0
  BY DEF IInv, TypeOK, CommandRecords, InstancesKnown
<1> QED  BY <1>1, CommandRegistryAssumption DEF Instances

\* What most steps leave as it is: which channels exist and are to be destroyed,
\* and whose proxies their commands own.
ChannelsStay ==
  /\ chan' \in [Channels -> ChannelRecords]
  /\ \A c \in Channels : chan'[c].state = "none" <=> chan[c].state = "none"
  /\ \A c \in Channels : chan'[c].state = "none" => chan'[c] = NoChannel

\* ... and only the channels of commands change their state.
OpenChannelsStay ==
  /\ ChannelsStay
  /\ \A c \in Channels : chan'[c].doomed = chan[c].doomed
  /\ \A c \in Channels : cmd[c].id = 0 => chan'[c] = chan[c]

CommandsStay ==
  /\ cmd' \in [Channels -> CommandRecords]
  /\ \A c \in Channels : /\ cmd'[c].id = cmd[c].id /\ cmd'[c].xpcmd = cmd[c].xpcmd
                         /\ cmd'[c].ref = cmd[c].ref

ProxiesOnlyDrop(p) ==
  /\ proxy' \in [Instances -> ProxyRecords]
  /\ \A q \in Instances : proxy'[q].state = "none" <=> proxy[q].state = "none"
  /\ \A q \in Instances : proxy[q].state = "DESTROYED" => proxy'[q] = proxy[q]
  /\ \A q \in Instances : proxy[q].state \in {"REGISTERED", "DROPPED"} =>
                           proxy'[q].state \in {"REGISTERED", "DROPPED"}
  /\ \A q \in Instances : proxy'[q].ref = proxy[q].ref
  /\ \A q \in Instances : q # p => proxy'[q] = proxy[q]
  /\ proxy'[p].state \notin {"CREATED", "REGISTERED"}

\* drop_xpcommand makes p no longer droppable, does not bring back what is
\* destroyed and leaves all other proxies alone.
LEMMA Dropping ==
  ASSUME proxy \in [Instances -> ProxyRecords], NEW p \in Instances,
         proxy' = drop_xpcommand(p)
  PROVE  ProxiesOnlyDrop(p)
<1>1. CASE Droppable(p)
  <2>1. proxy' = [proxy EXCEPT ![p].state = "DROPPED"]
    BY <1>1 DEF drop_xpcommand, Droppable
  <2>2. proxy' \in [Instances -> ProxyRecords]
    BY <2>1, ProxyState
  <2>3. proxy'[p].state = "DROPPED" /\ proxy'[p].ref = proxy[p].ref
    BY <2>1 DEF ProxyRecords
  <2>4. \A q \in Instances : q # p => proxy'[q] = proxy[q]
    BY <2>1
  <2> QED  BY <1>1, <2>2, <2>3, <2>4 DEF ProxiesOnlyDrop, Droppable
<1>2. CASE ~Droppable(p)
  BY <1>2 DEF ProxiesOnlyDrop, drop_xpcommand, Droppable, ProxyRecords
<1> QED  BY <1>1, <1>2

\* While the session lives nothing is destroyed: the channel of an existing
\* command is in the table, and closing it leaves it there.
LEMMA OpenStates ==
  ASSUME IInv, NEW c \in Channels, cmd[c].id # 0
  PROVE  /\ life = "live" => chan[c].state \in {"INITIAL", "CONFIRMED", "CLOSED"}
         /\ Closed(chan[c].state) \in {"none", "INITIAL", "CONFIRMED", "CLOSED"}
         /\ Closed(chan[c].state) = "none" <=> chan[c].state = "none"
<1>1. life = "live" => caught = {}
  BY DEF IInv, NetAgrees
<1>2. life = "live" => chan[c].state # "none"
  BY <1>1 DEF IInv, ChannelsAgree
<1>3. chan[c].state \in {"none", "INITIAL", "CONFIRMED", "CLOSED"}
  BY DEF IInv, TypeOK, ChannelRecords
<1> QED  BY <1>2, <1>3 DEF Closed

\* Confirming, closing or failing the channel of a command neither creates nor
\* destroys a channel.
LEMMA StateChanges ==
  ASSUME IInv, NEW c \in Channels, cmd[c].id # 0,
         NEW s \in {"none", "INITIAL", "CONFIRMED", "CLOSED"},
         s = "none" <=> chan[c].state = "none",
         chan' = [chan EXCEPT ![c].state = s]
  PROVE  OpenChannelsStay
<1>1. chan' \in [Channels -> ChannelRecords]
  BY ChannelState DEF IInv, TypeOK
<1>2. \A d \in Channels : d # c => chan'[d] = chan[d]
  BY DEF IInv, TypeOK
<1>3. chan'[c].state = s /\ chan'[c].doomed = chan[c].doomed
  BY DEF IInv, TypeOK, ChannelRecords
<1>4. \A d \in Channels : chan[d].state = "none" => chan[d] = NoChannel
  BY DEF IInv, ChannelsAgree
<1>5. chan'[c].state = "none" => chan'[c] = NoChannel
  <2>1. HAVE chan'[c].state = "none"
  <2>2. chan[c] = NoChannel /\ chan'[c] = [chan[c] EXCEPT !.state = "none"]
    BY <1>3, <1>4, <2>1 DEF IInv, TypeOK
  <2> QED  BY <2>2 DEF NoChannel
<1> QED  BY <1>1, <1>2, <1>3, <1>4, <1>5 DEF ChannelsStay, OpenChannelsStay

\* Setting a flag other than xpcmd does not change who owns which proxy.
LEMMA FieldChanges ==
  ASSUME IInv, NEW c \in Channels, NEW b \in BOOLEAN,
         \/ cmd' = [cmd EXCEPT ![c].init = b]
         \/ cmd' = [cmd EXCEPT ![c].failed = b]
         \/ cmd' = [cmd EXCEPT ![c].task = b]
  PROVE  CommandsStay
<1>1. cmd' \in [Channels -> CommandRecords]
  <2>1. cmd \in [Channels -> CommandRecords]  BY DEF IInv, TypeOK
  <2>2. /\ [cmd EXCEPT ![c].init = b] \in [Channels -> CommandRecords]
        /\ [cmd EXCEPT ![c].failed = b] \in [Channels -> CommandRecords]
        /\ [cmd EXCEPT ![c].task = b] \in [Channels -> CommandRecords]
    BY <2>1, CommandField
  <2> QED  BY <2>2
<1>2. \A d \in Channels : /\ cmd'[d].id = cmd[d].id /\ cmd'[d].xpcmd = cmd[d].xpcmd
                          /\ cmd'[d].ref = cmd[d].ref
  BY DEF IInv, TypeOK, CommandRecords
<1> QED  BY <1>1, <1>2 DEF CommandsStay

\* After cmrg_terminate has dropped the proxy of channel c's command, every
\* handler still has its proxy and every droppable proxy its command.
LEMMA AfterDrop ==
  ASSUME IInv, CommandsStay, UNCHANGED <<handlers, created, caught, orphans>>,
         \A d \in Channels : chan'[d] = NoChannel => chan[d] = NoChannel,
         NEW c \in Channels,
         \/ proxy' = proxy
         \/ cmd[c].id \in Instances /\ ProxiesOnlyDrop(cmd[c].id)
  PROVE  /\ proxy' \in [Instances -> ProxyRecords]
         /\ HandlerHasProxy' /\ NoOrphanProxy'
         /\ recv'.pc \notin {"create", "proxy"} => InstancesKnown'
         /\ \A d \in Channels : Retired(d) => Retired(d)'
         /\ \A d \in Channels : d # c => (Retired(d)' <=> Retired(d))
         /\ \A q \in Instances : q # cmd[c].id => proxy'[q] = proxy[q]
<1>1. /\ proxy' \in [Instances -> ProxyRecords]
      /\ \A q \in Instances : proxy'[q].state = "none" <=> proxy[q].state = "none"
      /\ \A q \in Instances : proxy[q].state = "DESTROYED" => proxy'[q] = proxy[q]
      /\ \A q \in Instances : proxy[q].state \in {"REGISTERED", "DROPPED"} =>
                               proxy'[q].state \in {"REGISTERED", "DROPPED"}
      /\ \A q \in Instances : proxy'[q].ref = proxy[q].ref
      /\ \A q \in Instances : q # cmd[c].id => proxy'[q] = proxy[q]
      /\ proxy' = proxy \/ proxy'[cmd[c].id].state \notin {"CREATED", "REGISTERED"}
  BY DEF IInv, TypeOK, ProxiesOnlyDrop
<1>2. \A q \in Instances : Droppable(q)' => Droppable(q)
  BY <1>1 DEF Droppable
<1>3. \A d \in Channels : cmd'[d].id = cmd[d].id /\ cmd'[d].xpcmd = cmd[d].xpcmd
  BY DEF CommandsStay
<1>4. HandlerHasProxy'
  BY <1>1 DEF IInv, TypeOK, HandlerHasProxy
<1>5. NoOrphanProxy'
  BY <1>2, <1>3 DEF IInv, NoOrphanProxy
<1>6. recv'.pc \notin {"create", "proxy"} => InstancesKnown'
  <2>1. orphans \subseteq Instances /\ cmd[c].id \notin orphans
    BY DEF IInv, TypeOK, InstancesKnown
  <2>2. \A p \in orphans' : proxy'[p].state = "CREATED"
    BY <1>1, <2>1 DEF IInv, InstancesKnown
  <2>3. \A d \in Channels : cmd'[d].id # 0 /\ ~cmd'[d].xpcmd =>
                            proxy'[cmd'[d].id].state = "DESTROYED"
    BY <1>1, <1>3, ProxyOfCommand DEF IInv, InstancesKnown
  <2> QED  BY <1>1, <1>3, <2>2, <2>3 DEF IInv, InstancesKnown
<1>7. \A d \in Channels : Retired(d) => Retired(d)'
  BY <1>2, <1>3, ProxyOfCommand DEF Retired
<1>8. ASSUME NEW d \in Channels, d # c  PROVE Retired(d)' <=> Retired(d)
  <2>1. CASE cmd[d].xpcmd
    <3>1. cmd[d].id \in Instances /\ cmd[d].id # cmd[c].id
      BY <1>8, <2>1, ProxyOfCommand DEF IInv, InstancesKnown
    <3> QED  BY <1>1, <1>3, <3>1 DEF Retired, Droppable
  <2>2. CASE ~cmd[d].xpcmd
    BY <1>3, <2>2 DEF Retired
  <2> QED  BY <2>1, <2>2
<1> QED  BY <1>1, <1>4, <1>5, <1>6, <1>7, <1>8

\* A step that changes only channel states and flags of commands keeps the parts
\* of the invariant that relate commands, channels and proxies.
LEMMA OnlyStates ==
  ASSUME IInv, CommandsStay, OpenChannelsStay,
         UNCHANGED <<proxy, handlers, created, tasks, recv, life, caught, orphans>>
  PROVE  /\ HandlerHasProxy' /\ NoOrphanProxy' /\ InstancesKnown'
         /\ RecvAgrees' /\ ChannelsAgree'
         /\ \A d \in Channels : Retired(d)' <=> Retired(d)
<1>1. \A d \in Channels : /\ cmd'[d].id = cmd[d].id /\ cmd'[d].xpcmd = cmd[d].xpcmd
                          /\ cmd'[d].ref = cmd[d].ref
  BY DEF CommandsStay
<1>2. HandlerHasProxy'
  BY DEF IInv, HandlerHasProxy
<1>3. NoOrphanProxy'
  <2>1. \A d \in Channels : chan'[d] = NoChannel => chan[d] = NoChannel
    BY DEF IInv, ChannelsAgree, OpenChannelsStay, ChannelsStay, NoChannel
  <2> QED  BY <1>1, <2>1 DEF IInv, NoOrphanProxy, Droppable
<1>4. InstancesKnown'
  BY <1>1 DEF IInv, InstancesKnown
<1>5. \A d \in Channels : Retired(d)' <=> Retired(d)
  BY <1>1 DEF Retired, Droppable
<1>6. RecvAgrees'
  BY <1>1 DEF IInv, RecvAgrees, Building, OpenChannelsStay, ChannelsStay
<1>7. ChannelsAgree'
  BY <1>1, <1>5 DEF IInv, ChannelsAgree, OpenChannelsStay, ChannelsStay
<1> QED  BY <1>2, <1>3, <1>4, <1>5, <1>6, <1>7

\* Destroying the channels S and their commands leaves no proxy without its
\* command, if they no longer use their proxies or these are known as orphans.
LEMMA Destroying ==
  ASSUME IInv, NEW S \in SUBSET Channels, NEW lost \in SUBSET Instances,
         \A c \in S : Retired(c) \/ cmd[c].id \in lost,
         \A p \in lost : /\ proxy[p].state = "CREATED"
                         /\ \E c \in S : cmd[c].id = p,
         orphans' = orphans \cup lost,
         \A c \in Channels : c \notin S => chan'[c] = chan[c],
         cmd' = [c \in Channels |-> IF c \in S THEN NoCommand ELSE cmd[c]],
         recv' = recv \/ recv'.pc \notin {"create", "proxy"},
         UNCHANGED <<proxy, handlers, created, caught>>
  PROVE  /\ cmd' \in [Channels -> CommandRecords]
         /\ HandlerHasProxy' /\ NoOrphanProxy' /\ InstancesKnown'
         /\ \A c \in Channels : c \notin S =>
              cmd'[c] = cmd[c] /\ chan'[c] = chan[c] /\ (Retired(c)' <=> Retired(c))
         /\ \A c \in S : cmd'[c].id = 0 /\ ~cmd'[c].xpcmd /\ ~cmd'[c].ref /\ Retired(c)'
<1>1. NoCommand \in CommandRecords
  BY Ranges DEF NoCommand, CommandRecords
<1>2. /\ \A c \in Channels : c \notin S => cmd'[c] = cmd[c] /\ chan'[c] = chan[c]
      /\ \A c \in S : cmd'[c].id = 0 /\ ~cmd'[c].xpcmd /\ ~cmd'[c].ref
  BY DEF NoCommand
<1>3. cmd' \in [Channels -> CommandRecords]
  BY <1>1 DEF IInv, TypeOK
<1>4. HandlerHasProxy'
  BY DEF IInv, HandlerHasProxy
<1>5. NoOrphanProxy'
  <2> SUFFICES ASSUME NEW p \in Instances, Droppable(p), p \notin orphans \cup lost
               PROVE  \E c \in Channels : /\ cmd'[c].id = p /\ cmd'[c].xpcmd
                                          /\ chan'[c] # NoChannel \/ c \in caught
    BY DEF NoOrphanProxy, Droppable
  <2>1. PICK c \in Channels : /\ cmd[c].id = p /\ cmd[c].xpcmd
                              /\ chan[c] # NoChannel \/ c \in caught
    BY DEF IInv, NoOrphanProxy
  <2>2. c \notin S
    BY <2>1 DEF Retired
  <2> QED  BY <1>2, <2>1, <2>2
<1>6. InstancesKnown'
  <2>1. created \in Nat
    BY CommandRegistryAssumption DEF IInv, TypeOK
  <2>2. \A c \in Channels : cmd'[c].id <= created
    <3>1. \A c \in S : cmd'[c].id <= created
      BY <1>2, <2>1
    <3>2. \A c \in Channels : c \notin S => cmd'[c].id <= created
      BY <1>2 DEF IInv, InstancesKnown
    <3> QED  BY <3>1, <3>2
  <2>3. \A c \in Channels : cmd'[c].xpcmd => cmd'[c].id # 0
    BY <1>2 DEF IInv, InstancesKnown
  <2>4. \A c \in Channels : cmd'[c].id # 0 /\ ~cmd'[c].xpcmd =>
                            proxy'[cmd'[c].id].state = "DESTROYED"
    BY <1>2 DEF IInv, InstancesKnown
  <2>5. \A c, d \in Channels : cmd'[c].id = cmd'[d].id /\ cmd'[c].id # 0 => c = d
    <3>1. \A c \in Channels : cmd'[c].id # 0 => c \notin S /\ cmd'[c] = cmd[c]
      BY <1>2
    <3> QED  BY <3>1 DEF IInv, InstancesKnown
  <2>6. \A p \in orphans' : proxy'[p].state = "CREATED"
    BY DEF IInv, InstancesKnown
  <2>7. \A c \in Channels : cmd'[c].id \notin orphans'
    <3>1. 0 \notin Instances
      BY CommandRegistryAssumption DEF Instances
    <3>2. \A c \in Channels : cmd'[c].id # 0 => c \notin S /\ cmd'[c] = cmd[c]
      BY <1>2
    <3>3. \A c \in Channels : cmd'[c].id # 0 => cmd[c].id \notin lost
      BY <3>2 DEF IInv, InstancesKnown
    <3>4. orphans' \subseteq Instances
      BY DEF IInv, TypeOK
    <3> QED  BY <3>1, <3>2, <3>3, <3>4 DEF IInv, InstancesKnown
  <2> QED  BY <2>2, <2>3, <2>4, <2>5, <2>6, <2>7 DEF IInv, InstancesKnown
<1>7. \A c \in Channels : c \notin S => (Retired(c)' <=> Retired(c))
  BY <1>2 DEF Retired, Droppable
<1>8. \A c \in S : Retired(c)'
  BY <1>2 DEF Retired
<1> QED  BY <1>2, <1>3, <1>4, <1>5, <1>6, <1>7, <1>8

\* The receive thread handles no request while another holds the schedule.
LEMMA RecvIdle ==
  ASSUME IInv, schedule \in {"xp", "post"}
  PROVE  recv.pc \in {"idle", "line"}
  BY DEF IInv, TypeOK, LocksHeld

\* Then RecvAgrees says nothing of what the other does.
LEMMA RecvAgreesIdle ==
  ASSUME IInv, schedule \in {"xp", "post"}, UNCHANGED recv
  PROVE  RecvAgrees'
  BY RecvIdle DEF RecvAgrees, Building

\* Taking the locks for a new CMRG request keeps IInv.
LEMMA RecvCreateBeginStep ==
  ASSUME IInv, NEW c \in Channels, RecvCreateBegin(c)
  PROVE  IInv'
<1>1. TypeOK'
  <2>1. LocksHeld'
    BY DEF IInv, TypeOK, LocksHeld, RecvRecords, RecvCreateBegin, RecvBegin,
      lockVars, sessionVars, proxyVars, history, Free
  <2>2. recv' \in RecvRecords
    BY Ranges DEF IInv, TypeOK, RecvRecords, RecvCreateBegin, RecvBegin,
      lockVars, sessionVars, proxyVars, history
  <2> QED
    BY <2>1, <2>2 DEF IInv, TypeOK, RecvCreateBegin, RecvBegin, lockVars,
      sessionVars, proxyVars, history, Free
<1>2. InstancesKnown'
  BY DEF IInv, InstancesKnown, TypeOK, RecvRecords, RecvCreateBegin, RecvBegin,
    lockVars, sessionVars, proxyVars, history
<1>3. RecvAgrees' /\ ChannelsAgree'
  BY DEF IInv, RecvAgrees, Building, ChannelsAgree, Retired, Droppable, TypeOK,
      RecvRecords,
    RecvCreateBegin, RecvBegin, lockVars, sessionVars, proxyVars, history, NoChannel,
    NoCommand
<1>4. HandlerHasProxy' /\ NoOrphanProxy' /\ TasksAgree' /\ NetAgrees' /\
  EventRegistered'
  BY DEF IInv, HandlerHasProxy, NoOrphanProxy, TasksAgree, NetAgrees,
    EventRegistered, Droppable, Retired, RecvCreateBegin, RecvBegin, lockVars,
    sessionVars, proxyVars, history
<1> QED
  BY <1>1, <1>2, <1>3, <1>4 DEF IInv

\* Taking the locks to terminate a channel keeps IInv.
LEMMA RecvTerminateBeginStep ==
  ASSUME IInv, NEW c \in Channels, RecvTerminateBegin(c)
  PROVE  IInv'
<1>1. TypeOK'
  <2>1. LocksHeld'
    BY DEF IInv, TypeOK, LocksHeld, RecvRecords, RecvTerminateBegin, RecvBegin,
      lockVars, sessionVars, proxyVars, history, Free
  <2>2. recv' \in RecvRecords
    BY Ranges DEF IInv, TypeOK, RecvRecords, RecvTerminateBegin, RecvBegin,
      lockVars, sessionVars, proxyVars, history
  <2> QED
    BY <2>1, <2>2 DEF IInv, TypeOK, RecvTerminateBegin, RecvBegin, lockVars,
      sessionVars, proxyVars, history, Free
<1>2. InstancesKnown'
  BY DEF IInv, InstancesKnown, TypeOK, RecvRecords, RecvTerminateBegin,
    RecvBegin, lockVars, sessionVars, proxyVars, history
<1>3. RecvAgrees' /\ ChannelsAgree'
  <2>1. /\ recv.pc \in {"idle", "line"} /\ life = "live"
        /\ recv' = [pc |-> "terminate", at |-> c]
        /\ chan[c].state \in {"INITIAL", "CONFIRMED"} /\ ~chan[c].doomed
        /\ UNCHANGED <<sessionVars, proxyVars, history>>
    BY DEF RecvTerminateBegin, RecvBegin
  <2>2. caught = {}
    BY <2>1 DEF IInv, NetAgrees
  <2>3. cmd[c].ref
    BY <2>1, <2>2 DEF IInv, ChannelsAgree, Building
  <2>4. RecvAgrees'
    BY <2>1, <2>2, <2>3 DEF RecvAgrees, Building, sessionVars, history
  <2>5. \A d \in Channels : Retired(d)' <=> Retired(d)
    BY <2>1 DEF Retired, Droppable, sessionVars, proxyVars
  <2>6. ChannelsAgree'
    BY <2>1, <2>2, <2>5 DEF IInv, ChannelsAgree, Building, sessionVars, history
  <2> QED  BY <2>4, <2>6
<1>4. HandlerHasProxy' /\ NoOrphanProxy' /\ TasksAgree' /\ NetAgrees' /\
  EventRegistered'
  BY DEF IInv, HandlerHasProxy, NoOrphanProxy, TasksAgree, NetAgrees,
    EventRegistered, Droppable, Retired, RecvTerminateBegin, RecvBegin,
    lockVars, sessionVars, proxyVars, history
<1> QED
  BY <1>1, <1>2, <1>3, <1>4 DEF IInv

\* Taking the locks for a request that leaves nothing behind keeps IInv.
LEMMA RecvOtherBeginStep ==
  ASSUME IInv, RecvOtherBegin
  PROVE  IInv'
<1>1. TypeOK'
  <2>1. LocksHeld'
    BY DEF IInv, TypeOK, LocksHeld, RecvRecords, RecvOtherBegin, RecvBegin, Free
  <2>2. recv' \in RecvRecords
    BY Ranges DEF IInv, TypeOK, RecvRecords, RecvOtherBegin, RecvBegin
  <2> QED
    BY <2>1, <2>2 DEF IInv, TypeOK, RecvOtherBegin, RecvBegin, sessionVars,
      proxyVars, history, Free
<1>2. InstancesKnown'
  BY DEF IInv, InstancesKnown, RecvOtherBegin, RecvBegin, sessionVars, proxyVars,
    history
<1>3. RecvAgrees' /\ ChannelsAgree'
  BY DEF IInv, RecvAgrees, Building, ChannelsAgree, Retired, Droppable,
    RecvOtherBegin, RecvBegin, sessionVars, proxyVars, history
<1>4. HandlerHasProxy' /\ NoOrphanProxy' /\ TasksAgree' /\ NetAgrees' /\
  EventRegistered'
  BY DEF IInv, HandlerHasProxy, NoOrphanProxy, TasksAgree, NetAgrees,
    EventRegistered, Droppable, Retired, RecvOtherBegin, RecvBegin, sessionVars,
    proxyVars, history
<1> QED
  BY <1>1, <1>2, <1>3, <1>4 DEF IInv

\* The return with the schedule locked keeps IInv.
LEMMA RecvTooLateStep ==
  ASSUME IInv, RecvTooLate
  PROVE  IInv'
<1>a. recv'.pc = "lost" /\ recv.pc = "line"
  BY DEF IInv, TypeOK, RecvRecords, RecvTooLate
<1>1. TypeOK'
  <2>1. LocksHeld'
    BY <1>a DEF IInv, TypeOK, LocksHeld, RecvTooLate, Free
  <2>2. recv' \in RecvRecords
    BY DEF IInv, TypeOK, RecvRecords, RecvTooLate
  <2> QED
    BY <2>1, <2>2 DEF IInv, TypeOK, RecvTooLate, sessionVars, proxyVars, history,
      Free
<1>2. InstancesKnown'
  BY <1>a DEF IInv, InstancesKnown, RecvTooLate, sessionVars, proxyVars, history
<1>3. RecvAgrees' /\ ChannelsAgree'
  BY <1>a DEF IInv, RecvAgrees, Building, ChannelsAgree, Retired, Droppable,
    RecvTooLate, sessionVars, proxyVars, history
<1>4. HandlerHasProxy' /\ NoOrphanProxy' /\ TasksAgree' /\ NetAgrees' /\
  EventRegistered'
  BY DEF IInv, HandlerHasProxy, NoOrphanProxy, TasksAgree, NetAgrees,
    EventRegistered, Droppable, Retired, RecvTooLate, sessionVars, proxyVars,
    history
<1> QED
  BY <1>1, <1>2, <1>3, <1>4 DEF IInv

\* put_channel keeps IInv: the channels table is not being destroyed yet.
LEMMA RecvPutStep ==
  ASSUME IInv, RecvPut
  PROVE  IInv'
<1>a. /\ recv.pc = "create" /\ recv.at \in Channels /\ caught = {}
      /\ chan[recv.at].state = "none"
  BY DEF IInv, RecvAgrees, NetAgrees, RecvPut, RecvAt
<1>b. PICK c \in Channels : c = recv.at
  BY <1>a
<1>c. cmd[c].id = 0 /\ c \notin tasks /\ chan[c] = NoChannel /\ created < MaxInstances
  BY <1>a, <1>b DEF IInv, ChannelsAgree, TasksAgree, InstancesKnown
<1>d. PICK pc \in {"proxy", "fail"} : recv' = [recv EXCEPT !.pc = pc]
  BY DEF RecvPut
<1>e. recv'.pc = pc /\ recv'.at = c /\ recv' \in RecvRecords
  BY <1>b, <1>d DEF IInv, TypeOK, RecvRecords
<1>f. /\ chan' = [chan EXCEPT ![c].state = "INITIAL"]
      /\ UNCHANGED <<lockVars, closing, life, cmd, tasks, proxyVars, xp, post, net, history>>
  BY <1>b DEF RecvPut
<1>g. /\ chan' \in [Channels -> ChannelRecords]
      /\ chan'[c].state = "INITIAL" /\ ~chan'[c].doomed
      /\ \A d \in Channels : d # c => chan'[d] = chan[d]
  <2>1. chan' \in [Channels -> ChannelRecords]
    BY <1>f, ChannelState DEF IInv, TypeOK
  <2> QED  BY <1>c, <1>f, <2>1 DEF IInv, TypeOK, NoChannel
<1>h. \A d \in Channels : Retired(d)' <=> Retired(d)
  BY <1>f DEF Retired, Droppable, proxyVars
<1>1. TypeOK'
  <2>1. LocksHeld'
    BY <1>a, <1>e, <1>f DEF IInv, TypeOK, LocksHeld, lockVars
  <2> QED
    BY <1>e, <1>f, <1>g, <2>1 DEF IInv, TypeOK, lockVars, proxyVars, history
<1>2. HandlerHasProxy' /\ EventRegistered'
  BY <1>f DEF IInv, HandlerHasProxy, EventRegistered, proxyVars
<1>3. NoOrphanProxy'
  <2>1. \A d \in Channels : chan'[d] = NoChannel => chan[d] = NoChannel
    BY <1>c, <1>g
  <2> QED  BY <1>f, <2>1 DEF IInv, NoOrphanProxy, Droppable, proxyVars, history
<1>4. InstancesKnown'
  BY <1>c, <1>e, <1>f DEF IInv, InstancesKnown, proxyVars, history
<1>5. RecvAgrees'
  BY <1>c, <1>e, <1>f, <1>g DEF RecvAgrees, Building, proxyVars, history
<1>6. ChannelsAgree'
  BY <1>a, <1>b, <1>c, <1>e, <1>f, <1>g, <1>h
  DEF IInv, ChannelsAgree, Building, NoChannel, history
<1>7. TasksAgree' /\ NetAgrees'
  BY <1>f, <1>h DEF IInv, TasksAgree, NetAgrees, Retired, Droppable, proxyVars, history
<1> QED
  BY <1>1, <1>2, <1>3, <1>4, <1>5, <1>6, <1>7 DEF IInv

\* create_xpcommand keeps IInv: the command being built owns the new proxy.
LEMMA RecvCreateProxyStep ==
  ASSUME IInv, RecvCreateProxy
  PROVE  IInv'
<1>a. /\ recv.pc = "proxy" /\ recv.at \in Channels /\ cmd[recv.at].id = 0
      /\ recv.at \notin tasks
      /\ created \in Nat /\ created < MaxInstances
  BY DEF IInv, TypeOK, RecvAgrees, Building, InstancesKnown, RecvCreateProxy, RecvAt
<1>b. created + 1 \in Instances /\ proxy[created + 1].state = "none"
  BY <1>a, CommandRegistryAssumption DEF IInv, InstancesKnown, Instances
<1>c. PICK c \in Channels, p \in Instances : c = recv.at /\ p = created + 1
  BY <1>a, <1>b
<1>d. /\ proxy' = [proxy EXCEPT ![p].state = "CREATED"]
      /\ cmd' = [cmd EXCEPT ![c] = NewCommand(p)]
      /\ created' = p
      /\ recv' = [recv EXCEPT !.pc = "task"]
      /\ UNCHANGED <<lockVars, closing, life, chan, tasks, handlers, xp, post, net, history>>
  BY <1>c DEF RecvCreateProxy
<1>e. NewCommand(p) \in CommandRecords
  BY <1>c, Ranges DEF NewCommand, NoCommand, CommandRecords
<1>f. /\ proxy'[p].state = "CREATED"
      /\ \A q \in Instances : q # p => proxy'[q] = proxy[q]
      /\ cmd'[c].id = p /\ cmd'[c].xpcmd /\ ~cmd'[c].ref
      /\ \A x \in Channels : x # c => cmd'[x] = cmd[x]
  BY <1>d DEF IInv, TypeOK, ProxyRecords, NewCommand, NoCommand
<1>g. /\ p \in Nat /\ p > 0 /\ \A x \in Channels : cmd[x].id # p
      /\ p \notin orphans
  <2>1. \A x \in Channels : cmd[x].id # p
    BY <1>a, <1>c, CommandRegistryAssumption DEF IInv, TypeOK, CommandRecords,
        InstancesKnown
  <2>2. p \notin orphans
    BY <1>b, <1>c DEF IInv, InstancesKnown
  <2> QED  BY <1>a, <1>c, <2>1, <2>2
<1>h. recv'.pc = "task" /\ recv'.at = c
  BY <1>c, <1>d DEF IInv, TypeOK, RecvRecords
<1>i. ASSUME NEW x \in Channels, x # c
      PROVE  /\ cmd'[x] = cmd[x] /\ (Retired(x)' <=> Retired(x))
             /\ cmd[x].xpcmd => proxy'[cmd[x].id] = proxy[cmd[x].id]
  <2>1. cmd'[x] = cmd[x] /\ (cmd[x].xpcmd => proxy'[cmd[x].id] = proxy[cmd[x].id])
    BY <1>i, <1>f, <1>g, ProxyOfCommand
  <2> QED  BY <2>1 DEF Retired, Droppable
<1>1. TypeOK'
  <2>1. LocksHeld'
    BY <1>a, <1>d, <1>h DEF IInv, TypeOK, LocksHeld, lockVars
  <2>2. proxy' \in [Instances -> ProxyRecords]
    BY <1>d, ProxyState DEF IInv, TypeOK
  <2>3. cmd' \in [Channels -> CommandRecords]
    BY <1>d, <1>e DEF IInv, TypeOK
  <2>4. recv' \in RecvRecords
    BY <1>d DEF IInv, TypeOK, RecvRecords
  <2>5. created' \in 0 .. MaxInstances
    BY <1>d, Ranges
  <2> QED
    BY <1>d, <2>1, <2>2, <2>3, <2>4, <2>5 DEF IInv, TypeOK, lockVars, history
<1>2. HandlerHasProxy'
  <2>1. p \notin handlers
    BY <1>b, <1>c DEF IInv, HandlerHasProxy
  <2> QED  BY <1>d, <1>f, <2>1 DEF IInv, TypeOK, HandlerHasProxy
<1>3. NoOrphanProxy'
  <2> SUFFICES ASSUME NEW q \in Instances, Droppable(q)', q \notin orphans
               PROVE  \E x \in Channels : /\ cmd'[x].id = q /\ cmd'[x].xpcmd
                                          /\ chan[x] # NoChannel \/ x \in caught
    BY <1>d DEF NoOrphanProxy, history
  <2>1. CASE q = p
    <3>1. chan[c] # NoChannel \/ c \in caught
      BY <1>a, <1>c DEF IInv, RecvAgrees, Building, NoChannel
    <3> QED  BY <2>1, <3>1, <1>f
  <2>2. CASE q # p
    <3>1. PICK x \in Channels : /\ cmd[x].id = q /\ cmd[x].xpcmd
                                /\ chan[x] # NoChannel \/ x \in caught
      BY <2>2, <1>f DEF IInv, NoOrphanProxy, Droppable
    <3>2. x # c /\ cmd'[x] = cmd[x]
      BY <3>1, <1>a, <1>c, <1>f, CommandRegistryAssumption DEF Instances
    <3> QED  BY <3>1, <3>2
  <2> QED  BY <2>1, <2>2
<1>4. InstancesKnown'
  <2>1. /\ \A q \in Instances : q > p => proxy'[q].state = "none"
        /\ \A q \in Instances : q <= p => proxy'[q].state # "none"
    BY <1>a, <1>c, <1>f DEF IInv, InstancesKnown, Instances
  <2>2. \A x \in Channels : cmd'[x].id <= p
    BY <1>a, <1>c, <1>f, <1>g DEF IInv, TypeOK, CommandRecords, InstancesKnown
  <2>3. handlers \subseteq 1 .. p
    BY <1>a, <1>c DEF IInv, InstancesKnown
  <2>4. /\ \A x \in Channels : cmd'[x].xpcmd => cmd'[x].id # 0
        /\ \A x, y \in Channels : cmd'[x].id = cmd'[y].id /\ cmd'[x].id # 0 => x = y
        /\ \A x \in Channels : cmd'[x].id \notin orphans
    BY <1>f, <1>g DEF IInv, InstancesKnown
  <2>5. \A x \in Channels : cmd'[x].id # 0 /\ ~cmd'[x].xpcmd =>
                            proxy'[cmd'[x].id].state = "DESTROYED"
    <3> SUFFICES ASSUME NEW x \in Channels, cmd'[x].id # 0, ~cmd'[x].xpcmd
                 PROVE  proxy'[cmd'[x].id].state = "DESTROYED"
      OBVIOUS
    <3>1. x # c /\ cmd'[x] = cmd[x]
      BY <1>f
    <3>2. cmd[x].id \in Instances /\ cmd[x].id # p
      BY <1>g, <3>1, ProxyOfCommand
    <3> QED  BY <1>f, <3>1, <3>2 DEF IInv, InstancesKnown
  <2>6. \A q \in orphans : proxy'[q].state = "CREATED"
    BY <1>f, <1>g DEF IInv, TypeOK, InstancesKnown
  <2> QED
    BY <1>d, <1>h, <2>1, <2>2, <2>3, <2>4, <2>5, <2>6 DEF InstancesKnown, history
<1>5. RecvAgrees'
  <2>1. ~chan[c].doomed /\ (chan[c].state # "none" \/ c \in caught)
    BY <1>a, <1>c DEF IInv, RecvAgrees, Building
  <2>2. chan' = chan /\ tasks' = tasks /\ caught' = caught
    BY <1>d DEF history
  <2> QED
    BY <1>a, <1>c, <1>f, <1>g, <1>h, <2>1, <2>2 DEF RecvAgrees, Building
<1>6. ChannelsAgree'
  <2>1. \A x \in Channels : chan'[x] = chan[x] /\ life' = life /\ caught' = caught
    BY <1>d DEF history
  <2>2. c \in Channels /\ (chan[c].state # "none" \/ c \in caught) /\ ~chan[c].doomed
    BY <1>a, <1>c DEF IInv, RecvAgrees, Building
  <2> QED
    BY <1>a, <1>c, <1>d, <1>f, <1>g, <1>h, <1>i, <2>1, <2>2
    DEF IInv, ChannelsAgree, Building
<1>7. TasksAgree'
  <2>1. c \notin tasks
    BY <1>a, <1>c
  <2>2. tasks \subseteq Channels
    BY DEF IInv, TypeOK
  <2>3. \A x \in tasks : x # c /\ cmd'[x] = cmd[x]
    BY <1>f, <2>1, <2>2
  <2>4. schedule = "recv"
    BY <1>a DEF IInv, TypeOK, LocksHeld
  <2>5. \A x \in tasks : cmd[x].xpcmd => proxy'[cmd[x].id] = proxy[cmd[x].id]
    BY <1>i, <2>2, <2>3
  <2> QED
    BY <1>d, <2>2, <2>3, <2>4, <2>5
    DEF IInv, TypeOK, LocksHeld, TasksAgree, Retired, Droppable, history
<1>8. NetAgrees'
  <2>1. \A x \in Channels : x = c => ~cmd[x].ref
    BY <1>a, <1>c DEF IInv, ChannelsAgree
  <2> QED
    BY <1>d, <1>f, <1>i, <2>1 DEF IInv, NetAgrees, history
<1>9. EventRegistered'
  BY <1>b, <1>c, <1>d, <1>f, CommandRegistryAssumption
  DEF IInv, TypeOK, XpRecords, EventRegistered, Instances
<1> QED
  BY <1>1, <1>2, <1>3, <1>4, <1>5, <1>6, <1>7, <1>8, <1>9 DEF IInv

\* schedule_task keeps IInv.
LEMMA RecvScheduleStep ==
  ASSUME IInv, RecvSchedule
  PROVE  IInv'
<1>a. /\ recv.pc = "task" /\ recv.at \in Channels /\ schedule = "recv"
      /\ cmd[recv.at].id # 0 /\ cmd[recv.at].xpcmd /\ ~cmd[recv.at].ref
      /\ proxy[cmd[recv.at].id].state = "CREATED"
  BY DEF IInv, TypeOK, LocksHeld, RecvAgrees, Building, RecvSchedule, RecvAt
<1>b. PICK c \in Channels : c = recv.at
  BY <1>a
<1>c. /\ cmd' = [cmd EXCEPT ![c].task = TRUE]
      /\ tasks' = tasks \cup {c}
      /\ recv' = [recv EXCEPT !.pc = "store"]
      /\ UNCHANGED <<lockVars, closing, life, chan, proxyVars, xp, post, net, history>>
  BY <1>b DEF RecvSchedule
<1>d. CommandsStay
  BY <1>c, FieldChanges
<1>e. \A d \in Channels : Retired(d)' <=> Retired(d)
  BY <1>c, <1>d DEF CommandsStay, Retired, Droppable, proxyVars
<1>f. recv'.pc = "store" /\ recv'.at = c
  BY <1>b, <1>c DEF IInv, TypeOK, RecvRecords
<1>1. TypeOK'
  <2>1. LocksHeld'
    BY <1>a, <1>c, <1>f DEF IInv, TypeOK, LocksHeld, lockVars
  <2>2. cmd' \in [Channels -> CommandRecords]
    BY <1>d DEF CommandsStay
  <2>3. recv' \in RecvRecords
    BY <1>c DEF IInv, TypeOK, RecvRecords
  <2> QED
    BY <1>c, <2>1, <2>2, <2>3 DEF IInv, TypeOK, lockVars, proxyVars, history
<1>2. HandlerHasProxy' /\ EventRegistered'
  BY <1>c DEF IInv, HandlerHasProxy, EventRegistered, proxyVars
<1>3. NoOrphanProxy' /\ InstancesKnown'
  BY <1>c, <1>d, <1>f DEF IInv, NoOrphanProxy, InstancesKnown, Droppable, CommandsStay,
    proxyVars, history
<1>4. RecvAgrees'
  <2>1. ~chan[c].doomed /\ (chan[c].state # "none" \/ c \in caught)
    BY <1>a, <1>b DEF IInv, RecvAgrees, Building
  <2> QED
    BY <1>a, <1>b, <1>c, <1>d, <1>f, <2>1
    DEF RecvAgrees, Building, CommandsStay, proxyVars, history
<1>5. ChannelsAgree'
  <2>1. ~Retired(c)
    BY <1>a, <1>b DEF Retired, Droppable
  <2> QED
    BY <1>a, <1>b, <1>c, <1>d, <1>e, <1>f, <2>1
    DEF IInv, ChannelsAgree, Building, CommandsStay, history
<1>6. TasksAgree'
  BY <1>a, <1>b, <1>c, <1>d, <1>e
  DEF IInv, TypeOK, LocksHeld, TasksAgree, Retired, Droppable, CommandsStay,
      proxyVars, history
<1>7. NetAgrees'
  BY <1>a, <1>b, <1>c, <1>d, <1>e DEF IInv, NetAgrees, CommandsStay, proxyVars, history
<1> QED
  BY <1>1, <1>2, <1>3, <1>4, <1>5, <1>6, <1>7 DEF IInv

\* cmrg_destroy in cmrg_create keeps IInv: its proxy is an orphan from now on.
LEMMA RecvCreateFailsStep ==
  ASSUME IInv, RecvCreateFails
  PROVE  IInv'
<1>a. /\ recv.pc = "task" /\ recv.at \in Channels /\ schedule = "recv"
      /\ cmd[recv.at].id # 0 /\ cmd[recv.at].xpcmd /\ ~cmd[recv.at].ref
      /\ proxy[cmd[recv.at].id].state = "CREATED" /\ recv.at \notin tasks
  BY DEF IInv, TypeOK, LocksHeld, RecvAgrees, Building, RecvCreateFails, RecvAt
<1>b. PICK c \in Channels, p \in Instances : c = recv.at /\ p = cmd[c].id
  BY <1>a, ProxyOfCommand
<1>c. PICK S \in SUBSET Channels, lost \in SUBSET Instances : S = {c} /\ lost = {p}
  OBVIOUS
<1>d. /\ cmd' = [d \in Channels |-> IF d \in S THEN NoCommand ELSE cmd[d]]
      /\ orphans' = orphans \cup lost
      /\ recv' = [recv EXCEPT !.pc = "fail"]
      /\ UNCHANGED <<lockVars, closing, life, chan, tasks, proxyVars, xp, post, net,
                     caught, fault>>
  BY <1>b, <1>c DEF RecvCreateFails, IInv, TypeOK
<1>e. recv'.pc = "fail" /\ recv'.at = c
  BY <1>b, <1>d DEF IInv, TypeOK, RecvRecords
<1>f. /\ cmd' \in [Channels -> CommandRecords]
      /\ HandlerHasProxy' /\ NoOrphanProxy' /\ InstancesKnown'
      /\ \A d \in Channels : d \notin S =>
           cmd'[d] = cmd[d] /\ chan'[d] = chan[d] /\ (Retired(d)' <=> Retired(d))
      /\ \A d \in S : cmd'[d].id = 0 /\ ~cmd'[d].xpcmd /\ ~cmd'[d].ref /\ Retired(d)'
  <2>1. \A d \in S : Retired(d) \/ cmd[d].id \in lost
    BY <1>b, <1>c
  <2>2. \A q \in lost : proxy[q].state = "CREATED" /\ \E d \in S : cmd[d].id = q
    BY <1>a, <1>b, <1>c
  <2>3. \A d \in Channels : d \notin S => chan'[d] = chan[d]
    BY <1>d
  <2>4. recv'.pc \notin {"create", "proxy"}
    BY <1>e
  <2>5. UNCHANGED <<proxy, handlers, created, caught>>
    BY <1>d DEF proxyVars
  <2>6. /\ orphans' = orphans \cup lost
        /\ cmd' = [d \in Channels |-> IF d \in S THEN NoCommand ELSE cmd[d]]
    BY <1>d
  <2> QED  BY ONLY IInv, <2>1, <2>2, <2>3, <2>4, <2>5, <2>6, Destroying
<1>1. TypeOK'
  <2>1. LocksHeld'
    BY <1>a, <1>d, <1>e DEF IInv, TypeOK, LocksHeld, lockVars
  <2>2. recv' \in RecvRecords
    BY <1>d DEF IInv, TypeOK, RecvRecords
  <2> QED
    BY <1>d, <1>f, <2>1, <2>2 DEF IInv, TypeOK, lockVars, proxyVars
<1>2. HandlerHasProxy' /\ NoOrphanProxy' /\ InstancesKnown'
  BY <1>f
<1>3. EventRegistered'
  BY <1>d DEF IInv, EventRegistered, proxyVars
<1>4. RecvAgrees'
  <2>1. ~chan[c].doomed /\ (chan[c].state # "none" \/ c \in caught)
    BY <1>a, <1>b DEF IInv, RecvAgrees, Building
  <2>2. chan' = chan /\ tasks' = tasks /\ caught' = caught /\ c \in S
    BY <1>c, <1>d
  <2> QED
    BY <1>a, <1>b, <1>e, <1>f, <2>1, <2>2 DEF RecvAgrees, Building
<1>5. ChannelsAgree'
  BY <1>a, <1>b, <1>c, <1>d, <1>e, <1>f DEF IInv, ChannelsAgree, Building
<1>6. TasksAgree'
  <2>1. tasks \subseteq Channels /\ \A d \in tasks : d \notin S
    BY <1>a, <1>b, <1>c DEF IInv, TypeOK
  <2> QED
    BY <1>a, <1>d, <1>f, <2>1
    DEF IInv, TypeOK, LocksHeld, TasksAgree, Retired, Droppable, proxyVars
<1>7. NetAgrees'
  <2>1. /\ UNCHANGED <<proxy, tasks, xp, post, net, life, caught>>
        /\ c \in S /\ \A d \in Channels : d # c => d \notin S
    BY <1>c, <1>d DEF proxyVars
  <2>2. \A d \in caught : cmd'[d].xpcmd /\ proxy[cmd'[d].id].state = "REGISTERED" =>
                           xp.pc \in {"confirm", "undo"} /\ xp.at = d
    <3>1. \A d \in caught : cmd'[d].xpcmd => d # c /\ cmd'[d] = cmd[d]
      BY <1>f, <2>1 DEF IInv, TypeOK
    <3> QED  BY <3>1 DEF IInv, NetAgrees
  <2>3. net.pc \in {"drop", "unschedule", "destroy"} /\ net.at \notin caught =>
          net.at \in Channels /\ net.at # c
    BY <1>a, <1>b DEF IInv, NetAgrees
  <2> QED
    BY <1>f, <2>1, <2>2, <2>3 DEF IInv, NetAgrees
<1> QED
  BY <1>1, <1>2, <1>3, <1>4, <1>5, <1>6, <1>7 DEF IInv

\* *command_ref = command keeps IInv.
LEMMA RecvStoreCommandStep ==
  ASSUME IInv, RecvStoreCommand
  PROVE  IInv'
<1>a. /\ recv.pc = "store" /\ recv.at \in Channels /\ schedule = "recv"
      /\ cmd[recv.at].id # 0 /\ cmd[recv.at].xpcmd
      /\ proxy[cmd[recv.at].id].state = "CREATED"
  BY DEF IInv, TypeOK, LocksHeld, RecvAgrees, Building, RecvStoreCommand, RecvAt
<1>b. PICK c \in Channels : c = recv.at
  BY <1>a
<1>c. /\ cmd' = [cmd EXCEPT ![c].ref = TRUE]
      /\ recv' = [recv EXCEPT !.pc = "unlock"]
      /\ UNCHANGED <<lockVars, closing, life, chan, tasks, proxyVars, xp, post, net, history>>
  BY <1>b DEF RecvStoreCommand
<1>d. /\ cmd' \in [Channels -> CommandRecords] /\ cmd'[c].ref
      /\ \A d \in Channels : cmd'[d].id = cmd[d].id /\ cmd'[d].xpcmd = cmd[d].xpcmd
      /\ \A d \in Channels : d # c => cmd'[d] = cmd[d]
  <2>1. cmd' \in [Channels -> CommandRecords]
    BY <1>c, CommandField DEF IInv, TypeOK
  <2> QED  BY <1>c, <2>1 DEF IInv, TypeOK, CommandRecords
<1>e. \A d \in Channels : Retired(d)' <=> Retired(d)
  BY <1>c, <1>d DEF Retired, Droppable, proxyVars
<1>f. recv'.pc = "unlock"
  BY <1>c DEF IInv, TypeOK, RecvRecords
<1>1. TypeOK'
  <2>1. LocksHeld'
    BY <1>a, <1>c, <1>f DEF IInv, TypeOK, LocksHeld, lockVars
  <2>2. recv' \in RecvRecords
    BY <1>c DEF IInv, TypeOK, RecvRecords
  <2> QED
    BY <1>c, <1>d, <2>1, <2>2 DEF IInv, TypeOK, lockVars, proxyVars, history
<1>2. HandlerHasProxy' /\ EventRegistered'
  BY <1>c DEF IInv, HandlerHasProxy, EventRegistered, proxyVars
<1>3. NoOrphanProxy' /\ InstancesKnown'
  BY <1>c, <1>d, <1>f DEF IInv, NoOrphanProxy, InstancesKnown, Droppable, proxyVars,
    history
<1>4. RecvAgrees'
  BY <1>f DEF RecvAgrees, Building
<1>5. ChannelsAgree'
  BY <1>a, <1>b, <1>c, <1>d, <1>e, <1>f DEF IInv, ChannelsAgree, Building, history
<1>6. TasksAgree'
  BY <1>a, <1>c, <1>d, <1>e
  DEF IInv, TypeOK, LocksHeld, TasksAgree, Retired, Droppable, proxyVars, history
<1>7. NetAgrees'
  BY <1>c, <1>d, <1>e DEF IInv, NetAgrees, proxyVars, history
<1> QED
  BY <1>1, <1>2, <1>3, <1>4, <1>5, <1>6, <1>7 DEF IInv

\* A request that failed keeps IInv: its channel has no command.
LEMMA RecvFailStep ==
  ASSUME IInv, RecvFail
  PROVE  IInv'
<1>a. /\ recv.pc = "fail" /\ recv.at \in Channels /\ schedule = "recv"
      /\ cmd[recv.at].id = 0 /\ recv.at \notin tasks
  BY DEF IInv, TypeOK, LocksHeld, RecvAgrees, Building, RecvFail, RecvAt
<1>b. PICK c \in Channels : c = recv.at
  BY <1>a
<1>c. /\ closing' \in BOOLEAN
      /\ recv' = [recv EXCEPT !.pc = "unlock"]
      /\ UNCHANGED <<lockVars, life, cmd, tasks, proxyVars, xp, post, net, history>>
  BY DEF IInv, TypeOK, RecvFail
<1>d. recv'.pc = "unlock"
  BY <1>c DEF IInv, TypeOK, RecvRecords
<1>e. /\ chan' \in [Channels -> ChannelRecords]
      /\ \A d \in Channels : d # c => chan'[d] = chan[d]
      /\ \/ chan' = chan /\ life # "live"
         \/ chan'[c] = NoChannel
         \/ chan'[c].state = "CLOSED" /\ chan'[c].doomed = chan[c].doomed
  <2>1. NoChannel \in ChannelRecords
    BY DEF NoChannel, ChannelRecords
  <2>2. CASE chan' = [chan EXCEPT ![c] = NoChannel]
    BY <2>1, <2>2 DEF IInv, TypeOK
  <2>3. CASE chan' = [chan EXCEPT ![c].state = Closed(@)]
    <3>1. chan' \in [Channels -> ChannelRecords]
      BY <2>3, ChannelClosed DEF IInv, TypeOK
    <3>2. CASE life = "live"
      BY <2>3, <3>1, <3>2 DEF IInv, TypeOK, ChannelRecords, Closed
    <3>3. CASE life # "live"
      <4>1. chan' = [chan EXCEPT ![c].state = chan[c].state]
        BY <2>3, <3>3 DEF Closed
      <4>2. chan' = chan
        BY <4>1 DEF IInv, TypeOK, ChannelRecords
      <4> QED  BY <3>1, <3>3, <4>2
    <3> QED  BY <3>2, <3>3
  <2> QED  BY <1>b, <2>2, <2>3 DEF RecvFail
<1>f. \A d \in Channels : Retired(d)' <=> Retired(d)
  BY <1>c DEF Retired, Droppable, proxyVars
<1>1. TypeOK'
  <2>1. LocksHeld'
    BY <1>a, <1>c, <1>d DEF IInv, TypeOK, LocksHeld, lockVars
  <2>2. recv' \in RecvRecords
    BY <1>c DEF IInv, TypeOK, RecvRecords
  <2> QED
    BY <1>c, <1>e, <2>1, <2>2 DEF IInv, TypeOK, lockVars, proxyVars, history
<1>2. HandlerHasProxy' /\ EventRegistered'
  BY <1>c DEF IInv, HandlerHasProxy, EventRegistered, proxyVars
<1>3. NoOrphanProxy'
  <2>1. \A d \in Channels : cmd[d].xpcmd => d # c
    BY <1>a, <1>b DEF IInv, InstancesKnown
  <2> QED  BY <1>c, <1>e, <2>1 DEF IInv, NoOrphanProxy, Droppable, proxyVars, history
<1>4. InstancesKnown'
  BY <1>c, <1>d DEF IInv, InstancesKnown, proxyVars, history
<1>5. RecvAgrees'
  BY <1>d DEF RecvAgrees, Building
<1>6. ChannelsAgree'
  <2>1. ~chan[c].doomed
    BY <1>a, <1>b DEF IInv, RecvAgrees, Building
  <2> QED
    BY <1>a, <1>b, <1>c, <1>d, <1>e, <1>f, <2>1
    DEF IInv, ChannelsAgree, Building, NoChannel, history
<1>7. TasksAgree' /\ NetAgrees'
  BY <1>c, <1>f DEF IInv, TasksAgree, NetAgrees, Retired, Droppable, proxyVars, history
<1> QED
  BY <1>1, <1>2, <1>3, <1>4, <1>5, <1>6, <1>7 DEF IInv

\* Refusing a request, or giving up as the session is closing, keeps IInv.
LEMMA RecvRefuseStep ==
  ASSUME IInv, RecvRefuse
  PROVE  IInv'
<1>1. TypeOK'
  <2>1. LocksHeld'
    BY DEF IInv, TypeOK, LocksHeld, RecvRecords, RecvRefuse, RecvAt, lockVars,
      sessionVars, proxyVars, history, Free
  <2>2. recv' \in RecvRecords
    BY Ranges DEF IInv, TypeOK, RecvRecords, RecvRefuse, RecvAt, lockVars, sessionVars,
      proxyVars, history
  <2> QED
    BY <2>1, <2>2 DEF IInv, TypeOK, RecvRefuse, RecvAt, lockVars, sessionVars,
      proxyVars, history, Free
<1>2. InstancesKnown'
  BY DEF IInv, InstancesKnown, TypeOK, RecvRecords, RecvRefuse, RecvAt, lockVars,
    sessionVars, proxyVars, history
<1>3. RecvAgrees' /\ ChannelsAgree'
  BY DEF IInv, RecvAgrees, Building, ChannelsAgree, Retired, Droppable, TypeOK,
      RecvRecords,
    RecvRefuse, RecvAt, lockVars, sessionVars, proxyVars, history, NoChannel, NoCommand
<1>4. HandlerHasProxy' /\ NoOrphanProxy' /\ TasksAgree' /\ NetAgrees' /\
  EventRegistered'
  BY DEF IInv, HandlerHasProxy, NoOrphanProxy, TasksAgree, NetAgrees,
    EventRegistered, Droppable, Retired, RecvRefuse, RecvAt, lockVars, sessionVars,
    proxyVars, history
<1> QED
  BY <1>1, <1>2, <1>3, <1>4 DEF IInv

\* cmrg_terminate on the client's request keeps IInv.
LEMMA RecvTerminateStep ==
  ASSUME IInv, RecvTerminate
  PROVE  IInv'
<1>a. /\ recv.pc = "terminate" /\ recv.at \in Channels /\ recv.at \notin caught
      /\ cmd[recv.at].ref /\ cmd[recv.at].id # 0 /\ schedule = "recv"
      /\ chan[recv.at].state # "none"
  BY DEF IInv, TypeOK, LocksHeld, RecvAgrees, Building, ChannelsAgree,
      RecvTerminate, RecvAt
<1>b. PICK c \in Channels, ok \in BOOLEAN :
        c = recv.at /\ ok = (cmd[c].xpcmd => Droppable(cmd[c].id))
  BY <1>a
<1>c. /\ proxy' = IF cmd[c].xpcmd THEN drop_xpcommand(cmd[c].id) ELSE proxy
      /\ cmd[c].xpcmd => registry = Free
      /\ chan' = [chan EXCEPT ![c] = [state |-> Closed(chan[c].state), doomed |-> ok]]
      /\ cmd' = [cmd EXCEPT ![c].task = (cmd[c].task /\ ~ok)]
      /\ tasks' = IF ok THEN tasks \ {c} ELSE tasks
      /\ closing' = (closing \/ ~ok)
      /\ recv' = [recv EXCEPT !.pc = "unlock"]
      /\ UNCHANGED <<lockVars, life, handlers, created, xp, post, net, history>>
  BY <1>b DEF RecvTerminate
<1>d. CommandsStay
  BY <1>c, FieldChanges
<1>e. /\ ChannelsStay /\ chan'[c].doomed = ok
      /\ \A d \in Channels : d # c => chan'[d] = chan[d]
      /\ \A d \in Channels : chan'[d] = NoChannel => chan[d] = NoChannel
  <2>1. Closed(chan[c].state) \in {"INITIAL", "CONFIRMED", "CLOSED"}
    BY <1>a, <1>b, OpenStates
  <2>2. [state |-> Closed(chan[c].state), doomed |-> ok] \in ChannelRecords
    BY <2>1 DEF ChannelRecords
  <2>3. chan' \in [Channels -> ChannelRecords]
    BY <1>c, <2>2 DEF IInv, TypeOK
  <2>4. /\ chan'[c].state = Closed(chan[c].state) /\ chan'[c].doomed = ok
        /\ \A d \in Channels : d # c => chan'[d] = chan[d]
    BY <1>c DEF IInv, TypeOK
  <2> QED
    BY <1>a, <1>b, <2>1, <2>3, <2>4 DEF IInv, ChannelsAgree, ChannelsStay, NoChannel
<1>f. \/ ~cmd[c].xpcmd /\ proxy' = proxy
      \/ cmd[c].id \in Instances /\ ProxiesOnlyDrop(cmd[c].id)
  BY <1>c, ProxyOfCommand, Dropping DEF IInv, TypeOK
<1>g. recv'.pc = "unlock"
  BY <1>c DEF IInv, TypeOK, RecvRecords
<1>h. ok => Retired(c)'
  BY <1>d, <1>f DEF CommandsStay, ProxiesOnlyDrop, Retired, Droppable
<1>i. /\ proxy' \in [Instances -> ProxyRecords]
      /\ HandlerHasProxy' /\ NoOrphanProxy' /\ InstancesKnown'
      /\ \A d \in Channels : Retired(d) => Retired(d)'
      /\ \A d \in Channels : d # c => (Retired(d)' <=> Retired(d))
      /\ \A q \in Instances : q # cmd[c].id => proxy'[q] = proxy[q]
  BY <1>c, <1>d, <1>e, <1>f, <1>g, AfterDrop DEF history
<1>1. TypeOK'
  <2>1. LocksHeld'
    BY <1>a, <1>c, <1>g DEF IInv, TypeOK, LocksHeld, lockVars
  <2>2. chan' \in [Channels -> ChannelRecords]
    BY <1>e DEF ChannelsStay
  <2>3. cmd' \in [Channels -> CommandRecords]
    BY <1>d DEF CommandsStay
  <2>4. recv' \in RecvRecords
    BY <1>c DEF IInv, TypeOK, RecvRecords
  <2>5. closing' \in BOOLEAN /\ tasks' \subseteq Channels
    BY <1>c DEF IInv, TypeOK
  <2> QED
    BY <1>c, <1>i, <2>1, <2>2, <2>3, <2>4, <2>5 DEF IInv, TypeOK, lockVars, history
<1>2. HandlerHasProxy' /\ NoOrphanProxy' /\ InstancesKnown'
  BY <1>i
<1>3. RecvAgrees'
  BY <1>g DEF RecvAgrees, Building
<1>4. ChannelsAgree'
  BY <1>a, <1>b, <1>c, <1>d, <1>e, <1>g, <1>h, <1>i
  DEF IInv, ChannelsAgree, Building, CommandsStay, ChannelsStay, history
<1>5. TasksAgree'
  <2>1. /\ xp.pc \notin {"run", "confirm", "undo", "error"}
        /\ post.pc \notin {"run", "drop", "unschedule"}
    BY <1>a DEF IInv, TypeOK, LocksHeld
  <2>2. /\ tasks' \subseteq tasks /\ tasks \subseteq Channels /\ (ok => c \notin tasks')
        /\ UNCHANGED <<xp, post, net, caught>>
        /\ \A d \in Channels : cmd'[d].id = cmd[d].id /\ cmd'[d].xpcmd = cmd[d].xpcmd
    BY <1>c, <1>d DEF IInv, TypeOK, CommandsStay, history
  <2>3. ~ok => proxy' = proxy
    BY <1>b, <1>c DEF drop_xpcommand, Droppable
  <2>4. \A d \in tasks' : cmd[d].xpcmd => (Droppable(cmd[d].id)' <=> Droppable(cmd[d].id))
    <3>1. CASE ok
      BY <1>i, <2>2, <3>1 DEF Retired
    <3>2. CASE ~ok
      BY <2>2, <2>3, <3>2 DEF Droppable
    <3> QED  BY <3>1, <3>2
  <2> QED
    BY <2>1, <2>2, <2>4 DEF IInv, TasksAgree
<1>6. NetAgrees'
  <2>1. ASSUME NEW d \in caught, cmd[d].xpcmd
        PROVE  proxy'[cmd[d].id] = proxy[cmd[d].id]
    <3>1. d \in Channels /\ d # c
      BY <1>a, <1>b, <2>1 DEF IInv, TypeOK
    <3>2. cmd[d].id \in Instances /\ cmd[d].id # cmd[c].id
      BY <2>1, <3>1, ProxyOfCommand DEF IInv, InstancesKnown
    <3> QED  BY <1>i, <3>2
  <2>2. caught \subseteq Channels
    BY DEF IInv, TypeOK
  <2> QED
    BY <1>a, <1>b, <1>c, <1>d, <1>i, <2>1, <2>2 DEF IInv, NetAgrees, CommandsStay,
        history
<1>7. EventRegistered'
  BY <1>c DEF IInv, TypeOK, LocksHeld, EventRegistered, Free
<1> QED
  BY <1>1, <1>2, <1>3, <1>4, <1>5, <1>6, <1>7 DEF IInv

\* Releasing the locks of a request keeps IInv.
LEMMA RecvUnlockStep ==
  ASSUME IInv, RecvUnlock
  PROVE  IInv'
<1>1. TypeOK'
  <2>1. LocksHeld'
    BY DEF IInv, TypeOK, LocksHeld, RecvRecords, RecvUnlock, RecvAt, lockVars,
      sessionVars, proxyVars, history, Free
  <2>2. recv' \in RecvRecords
    BY Ranges DEF IInv, TypeOK, RecvRecords, RecvUnlock, RecvAt, lockVars, sessionVars,
      proxyVars, history
  <2> QED
    BY <2>1, <2>2 DEF IInv, TypeOK, RecvUnlock, RecvAt, lockVars, sessionVars,
      proxyVars, history, Free
<1>2. InstancesKnown'
  BY DEF IInv, InstancesKnown, TypeOK, RecvRecords, RecvUnlock, RecvAt, lockVars,
    sessionVars, proxyVars, history
<1>3. RecvAgrees' /\ ChannelsAgree'
  BY DEF IInv, RecvAgrees, Building, ChannelsAgree, Retired, Droppable, TypeOK,
      RecvRecords,
    RecvUnlock, RecvAt, lockVars, sessionVars, proxyVars, history, NoChannel, NoCommand
<1>4. HandlerHasProxy' /\ NoOrphanProxy' /\ TasksAgree' /\ NetAgrees' /\
  EventRegistered'
  BY DEF IInv, HandlerHasProxy, NoOrphanProxy, TasksAgree, NetAgrees,
    EventRegistered, Droppable, Retired, RecvUnlock, RecvAt, lockVars, sessionVars,
    proxyVars, history
<1> QED
  BY <1>1, <1>2, <1>3, <1>4 DEF IInv

\* The beginning of a frame keeps IInv.
LEMMA FrameBeginStep ==
  ASSUME IInv, FrameBegin
  PROVE  IInv'
<1>1. TypeOK'
  <2>1. LocksHeld'
    BY DEF IInv, TypeOK, LocksHeld, XpRecords, FrameBegin, XpAt, lockVars,
      sessionVars, proxyVars, history, Free
  <2>2. xp' \in XpRecords
    BY Ranges DEF IInv, TypeOK, XpRecords, FrameBegin, XpAt, lockVars,
      sessionVars, proxyVars, history
  <2> QED
    BY <2>1, <2>2 DEF IInv, TypeOK, FrameBegin, XpAt, lockVars, sessionVars,
      proxyVars, history, Free
<1>2. TasksAgree'
  BY DEF IInv, TasksAgree, Retired, Droppable, TypeOK, XpRecords, FrameBegin,
    XpAt, lockVars, sessionVars, proxyVars, history
<1>3. EventRegistered'
  BY DEF IInv, EventRegistered, TypeOK, XpRecords, FrameBegin, XpAt, lockVars,
    sessionVars, proxyVars, history
<1>4. HandlerHasProxy' /\ NoOrphanProxy' /\ RecvAgrees' /\ InstancesKnown' /\
    ChannelsAgree' /\
  NetAgrees'
  BY DEF IInv, HandlerHasProxy, NoOrphanProxy, RecvAgrees, Building,
      InstancesKnown, ChannelsAgree,
    NetAgrees, Droppable, Retired, FrameBegin, XpAt, lockVars, sessionVars,
    proxyVars, history
<1> QED
  BY <1>1, <1>2, <1>3, <1>4 DEF IInv

\* cmrg_process of a command with nothing to do in the flight loop keeps IInv.
LEMMA XpSkipStep ==
  ASSUME IInv, NEW c \in Channels, XpSkip(c)
  PROVE  IInv'
<1>1. TypeOK'
  <2>1. LocksHeld'
    BY DEF IInv, TypeOK, LocksHeld, XpRecords, XpSkip, XpAt, lockVars,
      sessionVars, proxyVars, history, Free
  <2>2. xp' \in XpRecords
    BY Ranges DEF IInv, TypeOK, XpRecords, XpSkip, XpAt, lockVars, sessionVars,
      proxyVars, history
  <2> QED
    BY <2>1, <2>2 DEF IInv, TypeOK, XpSkip, XpAt, lockVars, sessionVars,
      proxyVars, history, Free
<1>2. TasksAgree'
  BY DEF IInv, TasksAgree, Retired, Droppable, TypeOK, XpRecords, XpSkip, XpAt,
    lockVars, sessionVars, proxyVars, history
<1>3. EventRegistered'
  BY DEF IInv, EventRegistered, TypeOK, XpRecords, XpSkip, XpAt, lockVars,
    sessionVars, proxyVars, history
<1>4. HandlerHasProxy' /\ NoOrphanProxy' /\ RecvAgrees' /\ InstancesKnown' /\
    ChannelsAgree' /\
  NetAgrees'
  BY DEF IInv, HandlerHasProxy, NoOrphanProxy, RecvAgrees, Building,
      InstancesKnown, ChannelsAgree,
    NetAgrees, Droppable, Retired, XpSkip, XpAt, lockVars, sessionVars,
    proxyVars, history
<1> QED
  BY <1>1, <1>2, <1>3, <1>4 DEF IInv

\* register_xpcommand keeps IInv.
LEMMA XpRegisterStep ==
  ASSUME IInv, NEW c \in Channels, NEW ok \in BOOLEAN, XpRegister(c, ok)
  PROVE  IInv'
<1>a. /\ xp.pc = "run" /\ xp.event = 0 /\ c \in xp.todo /\ c \in tasks
      /\ cmd[c].id # 0 /\ cmd[c].id \in Instances /\ schedule = "xp"
  BY ProxyOfCommand DEF IInv, TypeOK, LocksHeld, TasksAgree, XpRegister, XpAt
<1>b. PICK p \in Instances, pc \in {"confirm", "error"} :
        /\ p = cmd[c].id
        /\ \/ /\ proxy[p].state = "CREATED" /\ pc = "confirm"
              /\ proxy' = [proxy EXCEPT ![p] = [state |-> "REGISTERED", ref |-> TRUE]]
              /\ handlers' = handlers \cup {p}
           \/ UNCHANGED <<proxy, handlers>>
        /\ xp' = [xp EXCEPT !.pc = pc, !.at = c, !.todo = @ \ {c}]
        /\ UNCHANGED <<lockVars, sessionVars, created, recv, post, net, history>>
  BY <1>a DEF XpRegister
<1>c. /\ proxy' \in [Instances -> ProxyRecords]
      /\ \A q \in Instances : q # p => proxy'[q] = proxy[q]
      /\ \/ /\ proxy[p].state = "CREATED" /\ proxy'[p].state = "REGISTERED" /\ proxy'[p].ref
            /\ pc = "confirm"
         \/ UNCHANGED <<proxy, handlers>>
  <2>1. [state |-> "REGISTERED", ref |-> TRUE] \in ProxyRecords
    BY DEF ProxyRecords
  <2> QED  BY <1>b, <2>1 DEF IInv, TypeOK
<1>d. \A q \in Instances : Droppable(q)' <=> Droppable(q)
  BY <1>c DEF Droppable
<1>e. \A d \in Channels : Retired(d)' <=> Retired(d)
  BY <1>b, <1>d, ProxyOfCommand DEF Retired, sessionVars
<1>f. /\ xp'.pc = pc /\ xp'.at = c /\ xp'.todo = xp.todo \ {c}
      /\ xp'.event = 0
  BY <1>a, <1>b DEF IInv, TypeOK, XpRecords
<1>1. TypeOK'
  <2>1. LocksHeld'
    BY <1>a, <1>b, <1>f DEF IInv, TypeOK, LocksHeld, lockVars
  <2>2. proxy' \in [Instances -> ProxyRecords]
    BY <1>c
  <2>3. xp' \in XpRecords
    BY Ranges, <1>a, <1>b DEF IInv, TypeOK, XpRecords
  <2> QED
    BY <1>a, <1>b, <2>1, <2>2, <2>3 DEF IInv, TypeOK, lockVars, sessionVars,
      proxyVars, history, Free
<1>2. HandlerHasProxy'
  BY <1>b, <1>c DEF IInv, TypeOK, HandlerHasProxy
<1>3. NoOrphanProxy'
  BY <1>b, <1>d DEF IInv, NoOrphanProxy, sessionVars, history
<1>4. InstancesKnown'
  <2>1. \A q \in Instances : /\ proxy'[q].state = "none" <=> proxy[q].state = "none"
                             /\ proxy[q].state = "DESTROYED" => proxy'[q] = proxy[q]
    BY <1>c
  <2>2. handlers' \subseteq 1 .. created'
    BY <1>a, <1>b DEF IInv, InstancesKnown, Instances
  <2>3. \A q \in orphans : proxy'[q].state = "CREATED"
    BY <1>b, <1>c DEF IInv, TypeOK, InstancesKnown
  <2> QED
    BY <1>b, <2>1, <2>2, <2>3, ProxyOfCommand DEF IInv, InstancesKnown,
        sessionVars, history
<1>5. RecvAgrees'
  BY <1>a, <1>b, RecvAgreesIdle
<1>6. ChannelsAgree'
  BY <1>b, <1>e DEF IInv, ChannelsAgree, sessionVars, history
<1>7. TasksAgree'
  BY <1>a, <1>b, <1>e, <1>f
  DEF IInv, TypeOK, LocksHeld, TasksAgree, Retired, sessionVars, history
<1>8. NetAgrees'
  <2>1. ASSUME NEW d \in caught, cmd[d].xpcmd, proxy'[cmd[d].id].state = "REGISTERED"
        PROVE  pc = "confirm" /\ d = c
    <3>1. d \in Channels
      BY DEF IInv, TypeOK
    <3>2. cmd[d].id \in Instances
      BY <2>1, <3>1, ProxyOfCommand
    <3>3. proxy[cmd[d].id].state # "REGISTERED"
      BY <1>a, <2>1 DEF IInv, NetAgrees
    <3>4. cmd[d].id = p /\ pc = "confirm"
      BY <1>c, <2>1, <3>2, <3>3
    <3> QED  BY <1>a, <1>b, <3>1, <3>4 DEF IInv, InstancesKnown
  <2> QED
    BY <1>b, <1>e, <1>f, <2>1 DEF IInv, NetAgrees, sessionVars, history
<1>9. EventRegistered'
  BY <1>f DEF EventRegistered
<1> QED
  BY <1>1, <1>2, <1>3, <1>4, <1>5, <1>6, <1>7, <1>8, <1>9 DEF IInv

\* Confirming the channel of a registered command keeps IInv.
LEMMA XpConfirmStep ==
  ASSUME IInv, XpConfirm
  PROVE  IInv'
<1>a. /\ xp.pc = "confirm" /\ xp.event = 0 /\ xp.at \in tasks /\ xp.at \in Channels
      /\ cmd[xp.at].id # 0 /\ schedule = "xp"
  BY DEF IInv, TypeOK, LocksHeld, TasksAgree, XpConfirm, XpAt
<1>b. PICK c \in Channels : c = xp.at
  BY <1>a
<1>c. PICK s \in {"none", "INITIAL", "CONFIRMED", "CLOSED"}, pc \in {"run", "undo"} :
        /\ s = "none" <=> chan[c].state = "none"
        /\ chan' = [chan EXCEPT ![c].state = s]
        /\ cmd' = cmd \/ cmd' = [cmd EXCEPT ![c].init = TRUE]
        /\ xp' = [xp EXCEPT !.pc = pc]
        /\ pc = "run" => life = "live"
        /\ UNCHANGED <<lockVars, closing, life, tasks, proxyVars, recv, post, net, history>>
  <2>1. PICK sent \in SendResults :
          IF Speaks(chan[c].state, sent)
          THEN /\ cmd' = [cmd EXCEPT ![c].init = TRUE]
               /\ chan' = [chan EXCEPT ![c].state = "CONFIRMED"]
               /\ xp' = [xp EXCEPT !.pc = "run"]
          ELSE /\ chan' = [chan EXCEPT ![c].state = Closed(@)]
               /\ xp' = [xp EXCEPT !.pc = "undo"]
               /\ UNCHANGED cmd
    BY <1>b DEF XpConfirm
  <2>2. UNCHANGED <<lockVars, closing, life, tasks, proxyVars, recv, post, net, history>>
    BY DEF XpConfirm
  <2>3. CASE Speaks(chan[c].state, sent)
    <3>1. life = "live" /\ chan[c].state # "none"
      BY <1>a, <1>b, <2>3, OpenStates DEF Speaks
    <3> QED  BY <2>1, <2>2, <2>3, <3>1
  <2>4. CASE ~Speaks(chan[c].state, sent)
    BY <1>a, <1>b, <2>1, <2>2, <2>4, OpenStates
  <2> QED  BY <2>3, <2>4
<1>d. CommandsStay
  BY <1>c, FieldChanges DEF IInv, TypeOK, CommandsStay
<1>e. OpenChannelsStay
  BY <1>a, <1>b, <1>c, StateChanges
<1>f. xp'.pc = pc /\ xp'.at = xp.at /\ xp'.todo = xp.todo /\ xp'.event = 0
  BY <1>a, <1>c DEF IInv, TypeOK, XpRecords
<1>g. /\ HandlerHasProxy' /\ NoOrphanProxy' /\ InstancesKnown'
      /\ RecvAgrees' /\ ChannelsAgree'
      /\ \A d \in Channels : Retired(d)' <=> Retired(d)
  BY <1>c, <1>d, <1>e, OnlyStates DEF proxyVars, history
<1>1. TypeOK'
  <2>1. LocksHeld'
    BY <1>a, <1>c, <1>f DEF IInv, TypeOK, LocksHeld, lockVars
  <2>2. chan' \in [Channels -> ChannelRecords]
    BY <1>e DEF OpenChannelsStay, ChannelsStay
  <2>3. cmd' \in [Channels -> CommandRecords]
    BY <1>d DEF CommandsStay
  <2>4. xp' \in XpRecords
    BY <1>c DEF IInv, TypeOK, XpRecords
  <2> QED
    BY <1>c, <2>1, <2>2, <2>3, <2>4 DEF IInv, TypeOK, lockVars, proxyVars, history
<1>2. TasksAgree'
  BY <1>a, <1>b, <1>c, <1>d, <1>f, <1>g
  DEF IInv, TypeOK, LocksHeld, PostRecords, TasksAgree, CommandsStay, Retired,
      Droppable,
      proxyVars, history
<1>3. NetAgrees'
  <2>1. pc = "run" => caught = {}
    BY <1>c DEF IInv, NetAgrees
  <2>2. /\ UNCHANGED <<proxy, tasks, post, net, life, caught>>
        /\ caught \subseteq Channels
        /\ \A d \in Channels : /\ cmd'[d].id = cmd[d].id /\ cmd'[d].xpcmd = cmd[d].xpcmd
                                /\ cmd'[d].ref = cmd[d].ref
    BY <1>c, <1>d DEF IInv, TypeOK, CommandsStay, proxyVars, history
  <2>3. \A d \in caught : cmd'[d].xpcmd /\ proxy[cmd'[d].id].state = "REGISTERED" =>
                           xp'.pc \in {"confirm", "undo"} /\ xp'.at = d
    BY <1>f, <2>1, <2>2 DEF IInv, NetAgrees
  <2> QED
    BY <1>g, <2>2, <2>3 DEF IInv, NetAgrees
<1>4. EventRegistered'
  BY <1>f DEF EventRegistered
<1> QED
  BY <1>1, <1>2, <1>3, <1>4, <1>g DEF IInv

\* unregister_destroy_xpcommand after a failed registration or confirmation
\* keeps IInv.
LEMMA XpUndoStep ==
  ASSUME IInv, XpUndo
  PROVE  IInv'
<1>a. /\ xp.pc = "undo" /\ xp.event = 0 /\ xp.at \in tasks /\ xp.at \in Channels
      /\ cmd[xp.at].id # 0 /\ schedule = "xp"
  BY DEF IInv, TypeOK, LocksHeld, TasksAgree, XpUndo, XpAt
<1>b. PICK c \in Channels, p \in Instances : c = xp.at /\ p = cmd[c].id
  BY <1>a, ProxyOfCommand
<1>c. /\ proxy' = [q \in Instances |->
                    IF q \in {p} THEN [state |-> "DESTROYED", ref |-> FALSE] ELSE proxy[q]]
      /\ handlers' = handlers \ {p}
      /\ cmd' = [cmd EXCEPT ![c].xpcmd = FALSE]
      /\ xp' = [xp EXCEPT !.pc = "error"]
      /\ UNCHANGED <<lockVars, closing, life, chan, tasks, created, recv, post, net, history>>
  BY <1>b DEF XpUndo, Unregister
<1>d. /\ proxy' \in [Instances -> ProxyRecords]
      /\ \A q \in Instances : q # p => proxy'[q] = proxy[q]
      /\ proxy'[p].state = "DESTROYED"
  BY <1>c DEF IInv, TypeOK, ProxyRecords
<1>e. /\ cmd' \in [Channels -> CommandRecords]
      /\ \A d \in Channels : d # c => cmd'[d] = cmd[d]
      /\ cmd'[c].id = p /\ ~cmd'[c].xpcmd /\ cmd'[c].ref = cmd[c].ref
  <2>1. cmd' \in [Channels -> CommandRecords]
    BY <1>c, CommandField DEF IInv, TypeOK
  <2> QED  BY <1>b, <1>c, <2>1 DEF IInv, TypeOK, CommandRecords
<1>f. /\ Retired(c)'
      /\ \A d \in Channels : d # c => (Retired(d)' <=> Retired(d))
  <2>1. ASSUME NEW d \in Channels, d # c, cmd[d].xpcmd
        PROVE  cmd[d].id \in Instances /\ cmd[d].id # p
    BY <1>a, <1>b, <2>1, ProxyOfCommand DEF IInv, InstancesKnown
  <2> QED  BY <1>d, <1>e, <2>1 DEF Retired, Droppable
<1>g. xp'.pc = "error" /\ xp'.at = c /\ xp'.todo = xp.todo /\ xp'.event = 0
  BY <1>a, <1>b, <1>c DEF IInv, TypeOK, XpRecords
<1>1. TypeOK'
  <2>1. LocksHeld'
    BY <1>a, <1>c, <1>g DEF IInv, TypeOK, LocksHeld, lockVars
  <2>2. xp' \in XpRecords
    BY <1>c DEF IInv, TypeOK, XpRecords
  <2> QED
    BY <1>c, <1>d, <1>e, <2>1, <2>2 DEF IInv, TypeOK, lockVars, history
<1>2. HandlerHasProxy'
  BY <1>c, <1>d DEF IInv, TypeOK, HandlerHasProxy
<1>3. NoOrphanProxy'
  BY <1>b, <1>c, <1>d, <1>e DEF IInv, NoOrphanProxy, Droppable, history
<1>4. InstancesKnown'
  <2>1. \A q \in Instances : /\ proxy'[q].state = "none" <=> proxy[q].state = "none"
                             /\ proxy[q].state = "DESTROYED" => proxy'[q].state = "DESTROYED"
    <3>1. p <= created
      BY <1>b DEF IInv, InstancesKnown
    <3>2. proxy[p].state # "none"
      BY <3>1 DEF IInv, InstancesKnown
    <3> QED  BY <1>d, <3>2
  <2>2. \A d \in Channels : cmd'[d].id = cmd[d].id
    BY <1>b, <1>e
  <2>3. \A d \in Channels : cmd'[d].id # 0 /\ ~cmd'[d].xpcmd => proxy'[cmd'[d].id].state = "DESTROYED"
    BY <1>b, <1>d, <1>e, <2>1, ProxyOfCommand DEF IInv, InstancesKnown
  <2>4. \A d \in Channels : cmd'[d].xpcmd => cmd'[d].id # 0
    BY <1>e DEF IInv, InstancesKnown
  <2>5. \A q \in orphans : proxy'[q].state = "CREATED"
    BY <1>b, <1>d DEF IInv, TypeOK, InstancesKnown
  <2> QED  BY <1>c, <2>1, <2>2, <2>3, <2>4, <2>5 DEF IInv, InstancesKnown, history
<1>5. RecvAgrees'
  BY <1>a, <1>c, RecvAgreesIdle
<1>6. ChannelsAgree'
  BY <1>a, <1>b, <1>c, <1>e, <1>f DEF IInv, ChannelsAgree, history
<1>7. TasksAgree'
  BY <1>a, <1>b, <1>c, <1>e, <1>f, <1>g
  DEF IInv, TypeOK, LocksHeld, TasksAgree, Retired, history
<1>8. NetAgrees'
  <2>1. ASSUME NEW d \in caught, cmd'[d].xpcmd
        PROVE  proxy'[cmd'[d].id].state # "REGISTERED"
    <3>1. d \in Channels /\ d # c /\ cmd'[d] = cmd[d]
      BY <1>e, <2>1 DEF IInv, TypeOK
    <3>2. cmd[d].id \in Instances /\ cmd[d].id # p
      BY <1>b, <2>1, <3>1, ProxyOfCommand DEF IInv, InstancesKnown
    <3> QED  BY <1>b, <1>d, <2>1, <3>1, <3>2 DEF IInv, NetAgrees
  <2> QED
    BY <1>b, <1>c, <1>e, <1>f, <2>1 DEF IInv, NetAgrees, history
<1>9. EventRegistered'
  BY <1>g DEF EventRegistered
<1> QED
  BY <1>1, <1>2, <1>3, <1>4, <1>5, <1>6, <1>7, <1>8, <1>9 DEF IInv

\* Reporting a failed initialization keeps IInv.
LEMMA XpErrorStep ==
  ASSUME IInv, XpError
  PROVE  IInv'
<1>a. /\ xp.pc = "error" /\ xp.event = 0 /\ xp.at \in tasks /\ xp.at \in Channels
      /\ cmd[xp.at].id # 0 /\ schedule = "xp"
  BY DEF IInv, TypeOK, LocksHeld, TasksAgree, XpError, XpAt
<1>b. PICK c \in Channels, s \in {"none", "INITIAL", "CONFIRMED", "CLOSED"} :
        /\ c = xp.at /\ s = Closed(chan[c].state)
        /\ s = "none" <=> chan[c].state = "none"
  BY <1>a, OpenStates
<1>c. /\ chan' = [chan EXCEPT ![c].state = s]
      /\ cmd' = [cmd EXCEPT ![c].failed = TRUE]
      /\ xp' = [xp EXCEPT !.pc = "run"]
      /\ UNCHANGED <<lockVars, closing, life, tasks, proxyVars, recv, post, net, history>>
  BY <1>b DEF XpError
<1>d. CommandsStay
  BY <1>c, FieldChanges DEF IInv, TypeOK, CommandsStay
<1>e. OpenChannelsStay
  BY <1>a, <1>b, <1>c, StateChanges
<1>f. xp'.pc = "run" /\ xp'.at = xp.at /\ xp'.todo = xp.todo /\ xp'.event = 0
  BY <1>a, <1>c DEF IInv, TypeOK, XpRecords
<1>g. /\ HandlerHasProxy' /\ NoOrphanProxy' /\ InstancesKnown'
      /\ RecvAgrees' /\ ChannelsAgree'
      /\ \A d \in Channels : Retired(d)' <=> Retired(d)
  BY <1>c, <1>d, <1>e, OnlyStates DEF proxyVars, history
<1>1. TypeOK'
  <2>1. LocksHeld'
    BY <1>a, <1>c, <1>f DEF IInv, TypeOK, LocksHeld, lockVars
  <2>2. chan' \in [Channels -> ChannelRecords]
    BY <1>e DEF OpenChannelsStay, ChannelsStay
  <2>3. cmd' \in [Channels -> CommandRecords]
    BY <1>d DEF CommandsStay
  <2>4. xp' \in XpRecords
    BY <1>c DEF IInv, TypeOK, XpRecords
  <2> QED
    BY <1>c, <2>1, <2>2, <2>3, <2>4 DEF IInv, TypeOK, lockVars, proxyVars, history
<1>2. TasksAgree'
  BY <1>a, <1>b, <1>c, <1>d, <1>f, <1>g
  DEF IInv, TypeOK, LocksHeld, PostRecords, TasksAgree, CommandsStay, Retired,
      Droppable,
      proxyVars, history
<1>3. NetAgrees'
  BY <1>a, <1>c, <1>d, <1>f, <1>g DEF IInv, NetAgrees, CommandsStay, proxyVars, history
<1>4. EventRegistered'
  BY <1>f DEF EventRegistered
<1> QED
  BY <1>1, <1>2, <1>3, <1>4, <1>g DEF IInv

\* The end of a frame's tasks keeps IInv.
LEMMA RunTasksEndStep ==
  ASSUME IInv, RunTasksEnd
  PROVE  IInv'
<1>1. TypeOK'
  <2>1. LocksHeld'
    BY DEF IInv, TypeOK, LocksHeld, XpRecords, RunTasksEnd, XpAt, lockVars,
      sessionVars, proxyVars, history, Free
  <2>2. xp' \in XpRecords
    BY Ranges DEF IInv, TypeOK, XpRecords, RunTasksEnd, XpAt, lockVars,
      sessionVars, proxyVars, history
  <2> QED
    BY <2>1, <2>2 DEF IInv, TypeOK, RunTasksEnd, XpAt, lockVars, sessionVars,
      proxyVars, history, Free
<1>2. TasksAgree'
  BY DEF IInv, TasksAgree, Retired, Droppable, TypeOK, XpRecords, RunTasksEnd,
    XpAt, lockVars, sessionVars, proxyVars, history
<1>3. EventRegistered'
  BY DEF IInv, EventRegistered, TypeOK, XpRecords, RunTasksEnd, XpAt, lockVars,
    sessionVars, proxyVars, history
<1>4. HandlerHasProxy' /\ NoOrphanProxy' /\ RecvAgrees' /\ InstancesKnown' /\
    ChannelsAgree' /\
  NetAgrees'
  BY DEF IInv, HandlerHasProxy, NoOrphanProxy, RecvAgrees, Building,
      InstancesKnown, ChannelsAgree,
    NetAgrees, Droppable, Retired, RunTasksEnd, XpAt, lockVars, sessionVars,
    proxyVars, history
<1> QED
  BY <1>1, <1>2, <1>3, <1>4 DEF IInv

\* The end of a frame without maintenance keeps IInv.
LEMMA PlainFrameEndStep ==
  ASSUME IInv, PlainFrameEnd
  PROVE  IInv'
<1>1. TypeOK'
  <2>1. LocksHeld'
    BY DEF IInv, TypeOK, LocksHeld, XpRecords, PostRecords, PlainFrameEnd,
      FrameEnd, XpAt, lockVars, sessionVars, proxyVars, history, Free
  <2>2. xp' \in XpRecords
    BY Ranges DEF IInv, TypeOK, XpRecords, PlainFrameEnd, FrameEnd, XpAt,
      lockVars, sessionVars, proxyVars, history
  <2>3. post' \in PostRecords
    BY Ranges DEF IInv, TypeOK, PostRecords, PlainFrameEnd, FrameEnd, XpAt,
      lockVars, sessionVars, proxyVars, history
  <2> QED
    BY <2>1, <2>2, <2>3 DEF IInv, TypeOK, PlainFrameEnd, FrameEnd, XpAt,
      lockVars, sessionVars, proxyVars, history, Free
<1>2. TasksAgree'
  BY DEF IInv, TasksAgree, Retired, Droppable, TypeOK, XpRecords, PostRecords,
    PlainFrameEnd, FrameEnd, XpAt, lockVars, sessionVars, proxyVars, history
<1>3. NetAgrees'
  BY DEF IInv, NetAgrees, Retired, Droppable, TypeOK, XpRecords, PostRecords,
    PlainFrameEnd, FrameEnd, XpAt, lockVars, sessionVars, proxyVars, history
<1>4. EventRegistered'
  BY DEF IInv, EventRegistered, TypeOK, XpRecords, PostRecords, PlainFrameEnd,
    FrameEnd, XpAt, lockVars, sessionVars, proxyVars, history
<1>5. HandlerHasProxy' /\ NoOrphanProxy' /\ RecvAgrees' /\ InstancesKnown' /\
    ChannelsAgree'
  BY DEF IInv, HandlerHasProxy, NoOrphanProxy, RecvAgrees, Building,
      InstancesKnown, ChannelsAgree,
    Droppable, Retired, PlainFrameEnd, FrameEnd, XpAt, lockVars, sessionVars,
    proxyVars, history
<1> QED
  BY <1>1, <1>2, <1>3, <1>4, <1>5 DEF IInv

\* unregister_dropped_xpcommands keeps IInv.
LEMMA MaintenanceFrameEndStep ==
  ASSUME IInv, MaintenanceFrameEnd
  PROVE  IInv'
<1>a. xp.pc = "after" /\ xp.event = 0
  BY DEF MaintenanceFrameEnd, XpAt
<1>b. /\ flightLoop' = Free
      /\ xp' = [xp EXCEPT !.pc = "frame"]
      /\ post' = [post EXCEPT !.pc = IF @ = "wait" THEN "woken" ELSE @]
      /\ UNCHANGED <<schedule, session, registry, sessionVars, created, recv, net, history>>
      /\ handlers' = handlers \ Unregisterable
      /\ proxy' = [p \in Instances |-> IF p \in Unregisterable
                                       THEN [state |-> "DESTROYED", ref |-> FALSE]
                                       ELSE proxy[p]]
  BY DEF MaintenanceFrameEnd, FrameEnd, Unregister
<1>c. /\ proxy' \in [Instances -> ProxyRecords]
      /\ \A p \in Instances : p \notin Unregisterable => proxy'[p] = proxy[p]
      /\ \A p \in Instances : p \in Unregisterable =>
           proxy[p].state = "DROPPED" /\ proxy'[p].state = "DESTROYED"
  BY <1>b DEF IInv, TypeOK, ProxyRecords, Unregisterable
<1>d. \A d \in Channels : Retired(d)' <=> Retired(d)
  BY <1>b, <1>c, ProxyOfCommand DEF Retired, Droppable, sessionVars
<1>e. xp'.pc = "frame" /\ xp'.event = 0
  BY <1>a, <1>b DEF IInv, TypeOK, XpRecords
<1>f. /\ post'.todo = post.todo /\ post'.at = post.at
      /\ post'.pc = (IF post.pc = "wait" THEN "woken" ELSE post.pc)
  BY <1>b DEF IInv, TypeOK, PostRecords
<1>1. TypeOK'
  <2>1. LocksHeld'
    BY <1>a, <1>b, <1>e, <1>f DEF IInv, TypeOK, LocksHeld
  <2>2. xp' \in XpRecords
    BY <1>b DEF IInv, TypeOK, XpRecords
  <2>3. post' \in PostRecords
    BY <1>b DEF IInv, TypeOK, PostRecords
  <2> QED
    BY <1>b, <1>c, <2>1, <2>2, <2>3 DEF IInv, TypeOK, sessionVars, history, Free
<1>2. HandlerHasProxy'
  BY <1>b, <1>c DEF IInv, TypeOK, HandlerHasProxy
<1>3. NoOrphanProxy'
  BY <1>b, <1>c DEF IInv, NoOrphanProxy, Droppable, sessionVars, history
<1>4. InstancesKnown'
  <2>1. \A q \in Instances : /\ proxy'[q].state = "none" <=> proxy[q].state = "none"
                             /\ proxy[q].state = "DESTROYED" => proxy'[q].state = "DESTROYED"
    BY <1>c
  <2>2. \A q \in orphans : proxy'[q].state = "CREATED"
    BY <1>c DEF IInv, TypeOK, InstancesKnown
  <2> QED
    BY <1>b, <2>1, <2>2, ProxyOfCommand DEF IInv, InstancesKnown, sessionVars, history
<1>5. RecvAgrees'
  BY <1>b, <1>c, ProxyOfCommand DEF IInv, RecvAgrees, Building, sessionVars, history
<1>6. ChannelsAgree'
  BY <1>b, <1>d DEF IInv, ChannelsAgree, sessionVars, history
<1>7. TasksAgree'
  BY <1>b, <1>d, <1>e, <1>f
  DEF IInv, TypeOK, PostRecords, TasksAgree, Retired, sessionVars, history
<1>8. NetAgrees'
  <2>1. ASSUME NEW d \in caught, cmd[d].xpcmd
        PROVE  proxy'[cmd[d].id].state # "REGISTERED"
    <3>1. d \in Channels
      BY DEF IInv, TypeOK
    <3>2. cmd[d].id \in Instances
      BY <2>1, <3>1, ProxyOfCommand
    <3> QED  BY <1>a, <1>c, <2>1, <3>2 DEF IInv, NetAgrees
  <2> QED
    BY <1>b, <1>d, <1>f, <2>1 DEF IInv, NetAgrees, sessionVars, history
<1>9. EventRegistered'
  BY <1>e DEF EventRegistered
<1> QED
  BY <1>1, <1>2, <1>3, <1>4, <1>5, <1>6, <1>7, <1>8, <1>9 DEF IInv

\* cmrg_handle_event of a failed command keeps IInv.
LEMMA EventIgnoredStep ==
  ASSUME IInv, NEW c \in Channels, EventIgnored(c)
  PROVE  IInv'
<1>1. TypeOK'
  <2>1. LocksHeld'
    BY DEF IInv, TypeOK, LocksHeld, XpRecords, EventIgnored, lockVars,
      sessionVars, proxyVars, history, Free
  <2>2. xp' \in XpRecords
    BY Ranges DEF IInv, TypeOK, XpRecords, EventIgnored, lockVars, sessionVars,
      proxyVars, history
  <2> QED
    BY <2>1, <2>2 DEF IInv, TypeOK, EventIgnored, lockVars, sessionVars,
      proxyVars, history, Free
<1>2. TasksAgree'
  BY DEF IInv, TasksAgree, Retired, Droppable, TypeOK, XpRecords, EventIgnored,
    lockVars, sessionVars, proxyVars, history
<1>3. EventRegistered'
  BY DEF IInv, EventRegistered, TypeOK, XpRecords, EventIgnored, lockVars,
    sessionVars, proxyVars, history
<1>4. HandlerHasProxy' /\ NoOrphanProxy' /\ RecvAgrees' /\ InstancesKnown' /\
    ChannelsAgree' /\
  NetAgrees'
  BY DEF IInv, HandlerHasProxy, NoOrphanProxy, RecvAgrees, Building,
      InstancesKnown, ChannelsAgree,
    NetAgrees, Droppable, Retired, EventIgnored, lockVars, sessionVars,
    proxyVars, history
<1> QED
  BY <1>1, <1>2, <1>3, <1>4 DEF IInv

\* cmrg_handle_event keeps IInv.
LEMMA EventSentStep ==
  ASSUME IInv, NEW c \in Channels, EventSent(c)
  PROVE  IInv'
<1>a. xp.event # 0 /\ cmd[c].id # 0
  BY DEF EventSent, Owner
<1>b. registry' = Free /\ xp' = [xp EXCEPT !.event = 0]
  BY DEF EventSent
<1>c. PICK s \in {"none", "INITIAL", "CONFIRMED", "CLOSED"}, b \in BOOLEAN :
        /\ s = "none" <=> chan[c].state = "none"
        /\ chan' = [chan EXCEPT ![c].state = s]
        /\ cmd' = [cmd EXCEPT ![c].failed = b]
        /\ UNCHANGED <<flightLoop, schedule, session, closing, life, tasks,
                       proxyVars, recv, post, net, history>>
  <2>1. PICK sent \in SendResults :
          LET ok == Speaks(chan[c].state, sent)
          IN  /\ chan' = [chan EXCEPT ![c].state = IF ok THEN @ ELSE Closed(@)]
              /\ cmd' = [cmd EXCEPT ![c].failed = ~ok]
    BY DEF EventSent
  <2>2. UNCHANGED <<flightLoop, schedule, session, closing, life, tasks,
                    proxyVars, recv, post, net, history>>
    BY DEF EventSent
  <2>3. chan[c].state \in {"none", "INITIAL", "CONFIRMED", "CLOSED"}
    BY DEF IInv, TypeOK, ChannelRecords
  <2>4. CASE Speaks(chan[c].state, sent)
    BY <2>1, <2>2, <2>3, <2>4
  <2>5. CASE ~Speaks(chan[c].state, sent)
    BY <1>a, <2>1, <2>2, <2>5, OpenStates
  <2> QED  BY <2>4, <2>5
<1>d. CommandsStay
  BY <1>c, FieldChanges DEF IInv, TypeOK, CommandsStay
<1>e. OpenChannelsStay
  BY <1>a, <1>c, StateChanges
<1>f. xp'.pc = xp.pc /\ xp'.at = xp.at /\ xp'.todo = xp.todo /\ xp'.event = 0
  BY <1>b DEF IInv, TypeOK, XpRecords
<1>g. /\ HandlerHasProxy' /\ NoOrphanProxy' /\ InstancesKnown'
      /\ RecvAgrees' /\ ChannelsAgree'
      /\ \A d \in Channels : Retired(d)' <=> Retired(d)
  BY <1>c, <1>d, <1>e, OnlyStates DEF proxyVars, history
<1>1. TypeOK'
  <2>1. LocksHeld'
    BY <1>b, <1>c, <1>f DEF IInv, TypeOK, LocksHeld, Free
  <2>2. chan' \in [Channels -> ChannelRecords]
    BY <1>e DEF OpenChannelsStay, ChannelsStay
  <2>3. cmd' \in [Channels -> CommandRecords]
    BY <1>d DEF CommandsStay
  <2>4. xp' \in XpRecords
    BY <1>b, Ranges DEF IInv, TypeOK, XpRecords
  <2> QED
    BY <1>b, <1>c, <2>1, <2>2, <2>3, <2>4 DEF IInv, TypeOK, proxyVars, history, Free
<1>2. TasksAgree'
  BY <1>c, <1>d, <1>f, <1>g
  DEF IInv, TypeOK, XpRecords, PostRecords, TasksAgree, CommandsStay, Retired,
      Droppable,
      proxyVars, history
<1>3. NetAgrees'
  BY <1>c, <1>d, <1>f, <1>g DEF IInv, NetAgrees, CommandsStay, proxyVars, history
<1>4. EventRegistered'
  BY <1>f DEF EventRegistered
<1> QED
  BY <1>1, <1>2, <1>3, <1>4, <1>g DEF IInv

\* Waking post-processing keeps IInv.
LEMMA PostWakeStep ==
  ASSUME IInv, PostWake
  PROVE  IInv'
<1>1. TypeOK'
  <2>1. LocksHeld'
    BY DEF IInv, TypeOK, LocksHeld, PostRecords, PostWake, lockVars,
      sessionVars, proxyVars, history, Free
  <2>2. post' \in PostRecords
    BY Ranges DEF IInv, TypeOK, PostRecords, PostWake, lockVars, sessionVars,
      proxyVars, history
  <2> QED
    BY <2>1, <2>2 DEF IInv, TypeOK, PostWake, lockVars, sessionVars, proxyVars, history,
      Free
<1>2. TasksAgree'
  BY DEF IInv, TasksAgree, Retired, Droppable, TypeOK, PostRecords, PostWake,
    lockVars, sessionVars, proxyVars, history
<1>3. NetAgrees'
  BY DEF IInv, NetAgrees, Retired, Droppable, TypeOK, PostRecords, PostWake,
    lockVars, sessionVars, proxyVars, history
<1>4. HandlerHasProxy' /\ NoOrphanProxy' /\ RecvAgrees' /\ InstancesKnown' /\
    ChannelsAgree' /\
  EventRegistered'
  BY DEF IInv, HandlerHasProxy, NoOrphanProxy, RecvAgrees, Building,
      InstancesKnown, ChannelsAgree,
    EventRegistered, Droppable, Retired, PostWake, lockVars, sessionVars,
    proxyVars, history
<1> QED
  BY <1>1, <1>2, <1>3, <1>4 DEF IInv

\* drop_xpcommand in post-processing keeps IInv.
LEMMA PostDropStep ==
  ASSUME IInv, PostDrop
  PROVE  IInv'
<1>a. /\ post.pc = "drop" /\ post.at \in tasks /\ post.at \in Channels
      /\ schedule = "post"
  BY DEF IInv, TypeOK, LocksHeld, TasksAgree, PostDrop
<1>b. PICK c \in Channels, ok \in BOOLEAN :
        c = post.at /\ ok = (cmd[c].xpcmd => Droppable(cmd[c].id))
  BY <1>a
<1>c. /\ proxy' = IF cmd[c].xpcmd THEN drop_xpcommand(cmd[c].id) ELSE proxy
      /\ cmd[c].xpcmd => registry = Free
      /\ post' = [post EXCEPT !.pc = IF ok THEN "unschedule" ELSE "run"]
      /\ UNCHANGED <<lockVars, sessionVars, handlers, created, recv, xp, net, history>>
  BY <1>b DEF PostDrop
<1>d. CommandsStay
  BY <1>c DEF IInv, TypeOK, CommandsStay, sessionVars
<1>e. \/ ~cmd[c].xpcmd /\ proxy' = proxy
      \/ cmd[c].id \in Instances /\ ProxiesOnlyDrop(cmd[c].id)
  BY <1>c, ProxyOfCommand, Dropping DEF IInv, TypeOK
<1>f. ~ok => proxy' = proxy
  BY <1>b, <1>c DEF drop_xpcommand, Droppable
<1>g. Retired(c)'
  BY <1>d, <1>e DEF CommandsStay, ProxiesOnlyDrop, Retired, Droppable
<1>h. recv.pc \notin {"create", "proxy"}
  BY <1>a, RecvIdle
<1>i. /\ proxy' \in [Instances -> ProxyRecords]
      /\ HandlerHasProxy' /\ NoOrphanProxy' /\ InstancesKnown'
      /\ \A d \in Channels : Retired(d) => Retired(d)'
      /\ \A d \in Channels : d # c => (Retired(d)' <=> Retired(d))
      /\ \A q \in Instances : q # cmd[c].id => proxy'[q] = proxy[q]
  BY <1>c, <1>d, <1>e, <1>h, AfterDrop DEF sessionVars, history
<1>j. /\ post'.pc = (IF ok THEN "unschedule" ELSE "run")
      /\ post'.todo = post.todo /\ post'.at = c
  BY <1>b, <1>c DEF IInv, TypeOK, PostRecords
<1>1. TypeOK'
  <2>1. LocksHeld'
    BY <1>a, <1>c, <1>j DEF IInv, TypeOK, LocksHeld, lockVars
  <2>2. post' \in PostRecords
    BY <1>c DEF IInv, TypeOK, PostRecords
  <2> QED
    BY <1>c, <1>i, <2>1, <2>2 DEF IInv, TypeOK, lockVars, sessionVars, history
<1>2. HandlerHasProxy' /\ NoOrphanProxy' /\ InstancesKnown'
  BY <1>i
<1>3. RecvAgrees'
  BY <1>a, <1>c, RecvAgreesIdle
<1>4. ChannelsAgree'
  BY <1>c, <1>i DEF IInv, ChannelsAgree, sessionVars, history
<1>5. TasksAgree'
  <2>1. /\ \A d \in tasks' \ caught' : cmd'[d].id # 0
        /\ tasks' = tasks /\ cmd' = cmd /\ xp' = xp /\ net' = net
    BY <1>c DEF IInv, TasksAgree, sessionVars, history
  <2>2. \A d \in tasks : cmd[d].xpcmd /\ Retired(d)' =>
          \/ post'.pc = "unschedule" /\ post'.at = d
          \/ net.pc = "unschedule" /\ net.at = d
    <3>1. CASE ok
      BY <1>a, <1>i, <1>j, <3>1 DEF IInv, TypeOK, TasksAgree, Retired
    <3>2. CASE ~ok
      BY <1>a, <1>c, <1>f, <3>2 DEF IInv, TypeOK, TasksAgree, Retired, Droppable,
          sessionVars
    <3> QED  BY <3>1, <3>2
  <2> QED
    BY <1>a, <1>b, <1>g, <1>j, <2>1, <2>2 DEF IInv, TypeOK, LocksHeld, TasksAgree,
        Retired
<1>6. NetAgrees'
  <2>1. ASSUME NEW d \in caught, cmd[d].xpcmd, proxy'[cmd[d].id].state = "REGISTERED"
        PROVE  proxy[cmd[d].id].state = "REGISTERED"
    <3>1. d \in Channels
      BY DEF IInv, TypeOK
    <3>2. cmd[d].id \in Instances
      BY <2>1, <3>1, ProxyOfCommand
    <3> QED  BY <1>e, <1>i, <2>1, <3>2 DEF ProxiesOnlyDrop
  <2>2. CASE ok
    BY <1>a, <1>b, <1>c, <1>i, <1>j, <2>1, <2>2 DEF IInv, NetAgrees, sessionVars,
        history
  <2>3. CASE ~ok
    BY <1>a, <1>b, <1>c, <1>i, <1>j, <2>1, <2>3 DEF IInv, NetAgrees, sessionVars,
        history
  <2> QED  BY <2>2, <2>3
<1>7. EventRegistered'
  BY <1>c, <1>e DEF IInv, TypeOK, LocksHeld, EventRegistered, Free
<1> QED
  BY <1>1, <1>2, <1>3, <1>4, <1>5, <1>6, <1>7 DEF IInv

\* Unscheduling in post-processing keeps IInv.
LEMMA PostUnscheduleStep ==
  ASSUME IInv, PostUnschedule
  PROVE  IInv'
<1>a. /\ post.at \in tasks /\ post.at \in Channels /\ Retired(post.at)
      /\ cmd[post.at].id # 0 /\ schedule = "post"
  BY DEF IInv, TypeOK, LocksHeld, TasksAgree, PostUnschedule
<1>b. PICK c \in Channels, b \in BOOLEAN : c = post.at /\ b = (chan[c] # NoChannel)
  BY <1>a
<1>c. /\ post.pc = "unschedule"
      /\ chan' = [chan EXCEPT ![c].doomed = b]
      /\ cmd' = [cmd EXCEPT ![c].task = FALSE]
      /\ tasks' = tasks \ {c}
      /\ post' = [post EXCEPT !.pc = "run"]
      /\ UNCHANGED <<lockVars, closing, life, proxyVars, recv, xp, net, history>>
  BY <1>b DEF PostUnschedule
<1>d. CommandsStay
  BY <1>c, FieldChanges
<1>e. /\ chan' \in [Channels -> ChannelRecords]
      /\ \A d \in Channels : d # c => chan'[d] = chan[d]
      /\ chan'[c].state = chan[c].state
      /\ chan[c] = NoChannel => chan'[c] = NoChannel
  <2>1. chan' \in [Channels -> ChannelRecords]
    BY <1>c, ChannelDoomed DEF IInv, TypeOK
  <2>2. chan'[c] = [chan[c] EXCEPT !.doomed = b] /\ chan[c] \in ChannelRecords
    BY <1>c DEF IInv, TypeOK
  <2>3. chan[c] = NoChannel => chan'[c] = NoChannel
    <3>1. HAVE chan[c] = NoChannel
    <3>2. b = FALSE
      BY <1>b, <3>1
    <3>3. chan'[c] = [NoChannel EXCEPT !.doomed = FALSE]
      BY <2>2, <3>1, <3>2
    <3> QED  BY <3>3 DEF NoChannel
  <2> QED  BY <1>c, <2>1, <2>2, <2>3 DEF IInv, TypeOK, ChannelRecords
<1>f. \A d \in Channels : Retired(d)' <=> Retired(d)
  BY <1>c, <1>d DEF CommandsStay, Retired, Droppable, proxyVars
<1>g. post'.pc = "run" /\ post'.todo = post.todo
  BY <1>c DEF IInv, TypeOK, PostRecords
<1>1. TypeOK'
  <2>1. LocksHeld'
    BY <1>c, <1>g DEF IInv, TypeOK, LocksHeld, lockVars
  <2>2. cmd' \in [Channels -> CommandRecords]
    BY <1>d DEF CommandsStay
  <2>3. post' \in PostRecords
    BY <1>c DEF IInv, TypeOK, PostRecords
  <2> QED
    BY <1>c, <1>e, <2>1, <2>2, <2>3 DEF IInv, TypeOK, lockVars, proxyVars, history
<1>2. NoOrphanProxy'
  <2>1. \A d \in Channels : chan'[d] = NoChannel => chan[d] = NoChannel
    BY <1>e DEF IInv, ChannelsAgree, NoChannel
  <2> QED
    BY <1>c, <1>d, <2>1 DEF IInv, NoOrphanProxy, Droppable, CommandsStay,
        proxyVars, history
<1>3. InstancesKnown'
  BY <1>c, <1>d DEF IInv, InstancesKnown, CommandsStay, proxyVars, history
<1>4. RecvAgrees'
  BY <1>a, <1>c, RecvAgreesIdle
<1>5. ChannelsAgree'
  BY <1>a, <1>b, <1>c, <1>d, <1>e, <1>f DEF IInv, ChannelsAgree, CommandsStay, history
<1>6. TasksAgree'
  BY <1>b, <1>c, <1>d, <1>f, <1>g
  DEF IInv, TypeOK, LocksHeld, TasksAgree, Retired, CommandsStay, lockVars, history
<1>7. NetAgrees'
  BY <1>b, <1>c, <1>d, <1>f, <1>g DEF IInv, NetAgrees, CommandsStay, proxyVars, history
<1>8. HandlerHasProxy' /\ EventRegistered'
  BY <1>c DEF IInv, HandlerHasProxy, EventRegistered, proxyVars
<1> QED
  BY <1>1, <1>2, <1>3, <1>4, <1>5, <1>6, <1>7, <1>8 DEF IInv

\* Destroying the requested channels keeps IInv.
LEMMA PostEndStep ==
  ASSUME IInv, PostEnd
  PROVE  IInv'
<1>a. /\ post.pc = "run" /\ post.todo = {} /\ schedule = "post"
      /\ post' = [post EXCEPT !.pc = "wait", !.at = 0]
      /\ schedule' = Free /\ flightLoop' = Free
      /\ UNCHANGED <<session, registry, closing, life, tasks, proxyVars, recv, xp, net,
                     history>>
  BY DEF IInv, TypeOK, LocksHeld, PostEnd
<1>b. post'.pc = "wait"
  BY <1>a DEF IInv, TypeOK, PostRecords
<1>c. PICK S \in SUBSET Channels :
        /\ \A c \in S : chan[c].doomed /\ life = "live" /\ session = Free
        /\ chan' = [c \in Channels |-> IF c \in S THEN NoChannel ELSE chan[c]]
        /\ cmd' = [c \in Channels |-> IF c \in S THEN NoCommand ELSE cmd[c]]
  <2>1. CASE UNCHANGED <<chan, cmd>>
    <3>1. PICK T \in SUBSET Channels : T = {}
      OBVIOUS
    <3>2. /\ chan' = [c \in Channels |-> IF c \in T THEN NoChannel ELSE chan[c]]
          /\ cmd' = [c \in Channels |-> IF c \in T THEN NoCommand ELSE cmd[c]]
      BY <2>1, <3>1 DEF IInv, TypeOK
    <3> QED  BY <3>1, <3>2
  <2>2. CASE /\ life = "live" /\ session = Free
             /\ Destroy({c \in Channels : chan[c].doomed})
    <3>1. {c \in Channels : chan[c].doomed} \in SUBSET Channels
      OBVIOUS
    <3> QED  BY <2>2, <3>1 DEF Destroy
  <2> QED  BY <2>1, <2>2 DEF PostEnd
<1>d. S \cap tasks = {} /\ \A c \in S : Retired(c)
  BY <1>c DEF IInv, ChannelsAgree
<1>e. /\ chan' \in [Channels -> ChannelRecords]
      /\ \A c \in Channels : c \notin S => chan'[c] = chan[c]
      /\ \A c \in S : chan'[c] = NoChannel
  BY <1>c DEF IInv, TypeOK, NoChannel, ChannelRecords
<1>f. /\ cmd' \in [Channels -> CommandRecords]
      /\ HandlerHasProxy' /\ NoOrphanProxy' /\ InstancesKnown'
      /\ \A c \in Channels : c \notin S =>
           cmd'[c] = cmd[c] /\ chan'[c] = chan[c] /\ (Retired(c)' <=> Retired(c))
      /\ \A c \in S : cmd'[c].id = 0 /\ ~cmd'[c].xpcmd /\ ~cmd'[c].ref /\ Retired(c)'
  <2>1. PICK lost \in SUBSET Instances : lost = {}
    OBVIOUS
  <2>2. orphans' = orphans \cup lost
    BY <1>a, <2>1 DEF history
  <2>3. UNCHANGED <<proxy, handlers, created, caught>> /\ recv' = recv
    BY <1>a DEF proxyVars, history
  <2> QED  BY <1>c, <1>d, <1>e, <2>1, <2>2, <2>3, Destroying
<1>1. TypeOK'
  <2>1. LocksHeld'
    BY <1>a, <1>b DEF IInv, TypeOK, LocksHeld, Free
  <2>2. post' \in PostRecords
    BY Ranges, <1>a DEF IInv, TypeOK, PostRecords
  <2> QED
    BY <1>a, <1>e, <1>f, <2>1, <2>2 DEF IInv, TypeOK, proxyVars, history, Free
<1>2. HandlerHasProxy' /\ NoOrphanProxy' /\ InstancesKnown'
  BY <1>f
<1>3. RecvAgrees'
  BY <1>a, RecvAgreesIdle
<1>4. ChannelsAgree'
  <2>1. recv.pc \notin Building
    BY <1>a, RecvIdle DEF Building
  <2> QED
    BY <1>a, <1>d, <1>e, <1>f, <2>1 DEF IInv, ChannelsAgree, NoChannel, history
<1>5. TasksAgree'
  <2>1. tasks \subseteq Channels /\ \A c \in tasks : c \notin S
    BY <1>d DEF IInv, TypeOK
  <2> QED
    BY <1>a, <1>b, <1>f, <2>1
    DEF IInv, TypeOK, LocksHeld, TasksAgree, Retired, Droppable, proxyVars, history
<1>6. NetAgrees'
  <2>1. S # {} => net.pc = "watch" /\ caught = {}
    BY <1>c DEF IInv, NetAgrees
  <2>2. UNCHANGED <<proxy, tasks, xp, net, life, caught>> /\ caught \subseteq Channels
    BY <1>a DEF IInv, TypeOK, proxyVars, history
  <2>3. CASE S # {}
    BY <2>1, <2>2, <2>3 DEF IInv, NetAgrees
  <2>4. CASE S = {}
    <3>1. \A d \in Channels : cmd'[d] = cmd[d] /\ (Retired(d)' <=> Retired(d))
      BY <1>f, <2>4
    <3> QED  BY <1>a, <2>2, <3>1 DEF IInv, NetAgrees
  <2> QED  BY <2>3, <2>4
<1>7. EventRegistered'
  BY <1>a DEF IInv, EventRegistered, proxyVars
<1> QED
  BY <1>1, <1>2, <1>3, <1>4, <1>5, <1>6, <1>7 DEF IInv

\* cmrg_process of a command with nothing to do in post-processing keeps IInv.
LEMMA PostSkipStep ==
  ASSUME IInv, NEW c \in Channels, PostSkip(c)
  PROVE  IInv'
<1>1. TypeOK'
  <2>1. LocksHeld'
    BY DEF IInv, TypeOK, LocksHeld, PostRecords, PostSkip, lockVars,
      sessionVars, proxyVars, history, Free
  <2>2. post' \in PostRecords
    BY Ranges DEF IInv, TypeOK, PostRecords, PostSkip, lockVars, sessionVars,
      proxyVars, history
  <2> QED
    BY <2>1, <2>2 DEF IInv, TypeOK, PostSkip, lockVars, sessionVars, proxyVars, history,
      Free
<1>2. TasksAgree'
  BY DEF IInv, TasksAgree, Retired, Droppable, TypeOK, PostRecords, PostSkip,
    lockVars, sessionVars, proxyVars, history
<1>3. NetAgrees'
  BY DEF IInv, NetAgrees, Retired, Droppable, TypeOK, PostRecords, PostSkip,
    lockVars, sessionVars, proxyVars, history
<1>4. HandlerHasProxy' /\ NoOrphanProxy' /\ RecvAgrees' /\ InstancesKnown' /\
    ChannelsAgree' /\
  EventRegistered'
  BY DEF IInv, HandlerHasProxy, NoOrphanProxy, RecvAgrees, Building,
      InstancesKnown, ChannelsAgree,
    EventRegistered, Droppable, Retired, PostSkip, lockVars, sessionVars,
    proxyVars, history
<1> QED
  BY <1>1, <1>2, <1>3, <1>4 DEF IInv

\* Closing the channel of a failed command keeps IInv.
LEMMA PostCloseStep ==
  ASSUME IInv, NEW c \in Channels, PostClose(c)
  PROVE  IInv'
<1>a. cmd[c].id # 0
  BY DEF PostClose
<1>b. PICK s \in {"none", "INITIAL", "CONFIRMED", "CLOSED"} :
        s = Closed(chan[c].state) /\ (s = "none" <=> chan[c].state = "none")
  BY <1>a, OpenStates
<1>c. /\ post.pc = "run" /\ c \in post.todo
      /\ chan' = [chan EXCEPT ![c].state = s]
      /\ cmd' = cmd
      /\ post' = [pc |-> "drop", todo |-> post.todo \ {c}, at |-> c]
      /\ UNCHANGED <<lockVars, closing, life, tasks, proxyVars, recv, xp, net, history>>
  BY <1>b DEF PostClose
<1>d. CommandsStay
  BY <1>c DEF IInv, TypeOK, CommandsStay
<1>e. OpenChannelsStay
  BY <1>a, <1>b, <1>c, StateChanges
<1>f. /\ HandlerHasProxy' /\ NoOrphanProxy' /\ InstancesKnown'
      /\ RecvAgrees' /\ ChannelsAgree'
      /\ \A d \in Channels : Retired(d)' <=> Retired(d)
  BY <1>c, <1>d, <1>e, OnlyStates DEF proxyVars, history
<1>1. TypeOK'
  <2>1. LocksHeld'
    BY <1>c DEF IInv, TypeOK, LocksHeld, lockVars
  <2>2. chan' \in [Channels -> ChannelRecords]
    BY <1>e DEF OpenChannelsStay, ChannelsStay
  <2>3. post' \in PostRecords
    BY Ranges, <1>c DEF IInv, TypeOK, PostRecords
  <2> QED
    BY <1>c, <2>1, <2>2, <2>3 DEF IInv, TypeOK, lockVars, proxyVars, history
<1>2. TasksAgree'
  BY <1>a, <1>c, <1>f
  DEF IInv, TypeOK, LocksHeld, TasksAgree, Retired, Droppable, proxyVars, history
<1>3. NetAgrees'
  BY <1>c, <1>d, <1>f DEF IInv, NetAgrees, CommandsStay, proxyVars, history
<1>4. EventRegistered'
  BY <1>c DEF IInv, EventRegistered, proxyVars
<1> QED
  BY <1>1, <1>2, <1>3, <1>4, <1>f DEF IInv

\* Marking the session for destruction keeps IInv.
LEMMA NetPendStep ==
  ASSUME IInv, NetPend
  PROVE  IInv'
<1>1. TypeOK'
  <2>1. LocksHeld'
    BY DEF IInv, TypeOK, LocksHeld, NetRecords, NetPend, lockVars, sessionVars,
      proxyVars, history, Free
  <2>2. net' \in NetRecords
    BY Ranges DEF IInv, TypeOK, NetRecords, NetPend, lockVars, sessionVars,
      proxyVars, history
  <2> QED
    BY <2>1, <2>2 DEF IInv, TypeOK, NetPend, lockVars, sessionVars, proxyVars, history,
      Free
<1>2. TasksAgree'
  BY DEF IInv, TasksAgree, Retired, Droppable, TypeOK, NetRecords, NetPend,
    lockVars, sessionVars, proxyVars, history
<1>3. NetAgrees'
  BY DEF IInv, NetAgrees, Retired, Droppable, TypeOK, NetRecords, NetPend,
    lockVars, sessionVars, proxyVars, history
<1>4. HandlerHasProxy' /\ NoOrphanProxy' /\ RecvAgrees' /\ InstancesKnown' /\
    ChannelsAgree' /\
  EventRegistered'
  BY DEF IInv, HandlerHasProxy, NoOrphanProxy, RecvAgrees, Building,
      InstancesKnown, ChannelsAgree,
    EventRegistered, Droppable, Retired, NetPend, lockVars, sessionVars,
    proxyVars, history
<1> QED
  BY <1>1, <1>2, <1>3, <1>4 DEF IInv

\* Starting to destroy the session keeps IInv.
LEMMA NetBeginSweepStep ==
  ASSUME IInv, NetBeginSweep
  PROVE  IInv'
<1>1. TypeOK'
  <2>1. LocksHeld'
    BY DEF IInv, TypeOK, LocksHeld, NetRecords, NetBeginSweep, lockVars,
      sessionVars, proxyVars, history, Free
  <2>2. net' \in NetRecords
    BY Ranges DEF IInv, TypeOK, NetRecords, NetBeginSweep, lockVars,
      sessionVars, proxyVars, history
  <2> QED
    BY <2>1, <2>2 DEF IInv, TypeOK, NetBeginSweep, lockVars, sessionVars,
      proxyVars, history, Free
<1>2. TasksAgree'
  BY DEF IInv, TasksAgree, Retired, Droppable, TypeOK, NetRecords,
    NetBeginSweep, lockVars, sessionVars, proxyVars, history
<1>3. NetAgrees'
  BY DEF IInv, NetAgrees, Retired, Droppable, TypeOK, NetRecords, NetBeginSweep,
    lockVars, sessionVars, proxyVars, history
<1>4. HandlerHasProxy' /\ NoOrphanProxy' /\ RecvAgrees' /\ InstancesKnown' /\
    ChannelsAgree' /\
  EventRegistered'
  BY DEF IInv, HandlerHasProxy, NoOrphanProxy, RecvAgrees, Building,
      InstancesKnown, ChannelsAgree,
    EventRegistered, Droppable, Retired, NetBeginSweep, lockVars, sessionVars,
    proxyVars, history
<1> QED
  BY <1>1, <1>2, <1>3, <1>4 DEF IInv

\* Choosing what to do with the next channel keeps IInv.
LEMMA NetVisitStep ==
  ASSUME IInv, NetVisit
  PROVE  IInv'
<1>a. net.pc = "sweep" /\ net.at \in Channels
  BY DEF NetVisit
<1>b. PICK c \in Channels : c = net.at
  BY <1>a
<1>c. PICK pc \in {"next", "destroy", "drop", "unschedule"} :
        /\ net' = [net EXCEPT !.pc = pc, !.seen = cmd[c].id]
        /\ pc # "next" => chan[c] # NoChannel
        /\ pc = "destroy" => chan[c].doomed \/ ~cmd[c].ref
        /\ pc \in {"drop", "unschedule"} => cmd[c].ref
        /\ pc = "unschedule" => ~cmd[c].xpcmd
  <2>1. CASE chan[c] = NoChannel
    <3>1. net' = [net EXCEPT !.pc = "next", !.seen = cmd[c].id]
      BY <1>b, <2>1 DEF NetVisit
    <3> QED  BY <2>1, <3>1
  <2>2. CASE chan[c] # NoChannel /\ (chan[c].doomed \/ ~cmd[c].ref)
    <3>1. net' = [net EXCEPT !.pc = "destroy", !.seen = cmd[c].id]
      BY <1>b, <2>2 DEF NetVisit
    <3> QED  BY <2>2, <3>1
  <2>3. CASE /\ chan[c] # NoChannel /\ ~chan[c].doomed /\ cmd[c].ref
             /\ cmd[c].xpcmd
    <3>1. net' = [net EXCEPT !.pc = "drop", !.seen = cmd[c].id]
      BY <1>b, <2>3 DEF NetVisit
    <3> QED  BY <2>3, <3>1
  <2>4. CASE /\ chan[c] # NoChannel /\ ~chan[c].doomed /\ cmd[c].ref
             /\ ~cmd[c].xpcmd
    <3>1. net' = [net EXCEPT !.pc = "unschedule", !.seen = cmd[c].id]
      BY <1>b, <2>4 DEF NetVisit
    <3> QED  BY <2>4, <3>1
  <2> QED  BY <2>1, <2>2, <2>3, <2>4
<1>d. net'.pc = pc /\ net'.at = c /\ net'.seen = cmd[c].id
  BY <1>b, <1>c DEF IInv, TypeOK, NetRecords
<1>e. /\ UNCHANGED <<lockVars, sessionVars, proxyVars, recv, xp, post, orphans, fault>>
      /\ caught' = caught \/ (caught' = caught \cup {c} /\ ~cmd[c].ref)
      /\ pc = "destroy" /\ ~cmd[c].ref => c \in caught'
  BY <1>b, <1>c DEF NetVisit
<1>f. pc # "next" => life # "live"
  BY <1>a DEF IInv, NetAgrees
<1>g. ASSUME caught' # caught, cmd[c].xpcmd
      PROVE  c \in caught \/ proxy[cmd[c].id].state = "CREATED"
  <2>1. CASE c \notin caught
    BY <1>e, <1>g, <2>1
    DEF IInv, ChannelsAgree, InstancesKnown, RecvAgrees, Building
  <2> QED  BY <2>1
<1>1. TypeOK'
  <2>1. LocksHeld'
    BY <1>e DEF IInv, TypeOK, LocksHeld, lockVars
  <2>2. net' \in NetRecords
    <3>1. cmd[c].id \in 0 .. MaxInstances
      BY DEF IInv, TypeOK, CommandRecords
    <3> QED  BY <1>c, <3>1 DEF IInv, TypeOK, NetRecords
  <2> QED
    BY <1>e, <2>1, <2>2 DEF IInv, TypeOK, lockVars, sessionVars, proxyVars
<1>2. TasksAgree'
  BY <1>a, <1>d, <1>e DEF IInv, TasksAgree, Retired, Droppable, sessionVars, proxyVars
<1>3. NetAgrees'
  <2>1. /\ UNCHANGED <<cmd, proxy, tasks, xp, post, life>>
        /\ \A d \in Channels : Retired(d)' <=> Retired(d)
    BY <1>e DEF Retired, Droppable, sessionVars, proxyVars
  <2>2. \A d \in caught' : cmd[d].xpcmd /\ proxy[cmd[d].id].state = "REGISTERED" =>
                            xp.pc \in {"confirm", "undo"} /\ xp.at = d
    <3>1. \A d \in caught : cmd[d].xpcmd /\ proxy[cmd[d].id].state = "REGISTERED" =>
                            xp.pc \in {"confirm", "undo"} /\ xp.at = d
      BY DEF IInv, NetAgrees
    <3>2. CASE caught' = caught
      BY <3>1, <3>2
    <3>3. CASE caught' # caught
      <4>1. caught' = caught \cup {c}
        BY <1>e, <3>3
      <4>2. cmd[c].xpcmd => c \in caught \/ proxy[cmd[c].id].state = "CREATED"
        BY <1>g, <3>3
      <4> QED  BY <3>1, <4>1, <4>2
    <3> QED  BY <3>2, <3>3
  <2>3. pc # "next" /\ c \notin caught' => cmd[c].ref
    BY <1>c, <1>e
  <2>4. cmd[c].ref /\ c \notin caught => c \notin caught'
    BY <1>e
  <2>5. pc \in {"unschedule", "destroy"} /\ c \notin caught' => Retired(c)
    BY <1>c, <1>e DEF IInv, ChannelsAgree, Retired
  <2>6. pc = "destroy" /\ c \notin caught' => c \notin tasks
    BY <1>c, <1>e DEF IInv, ChannelsAgree
  <2>7. \A d \in caught' : d < c \/ (d = c /\ pc \in {"destroy", "next"})
    <3>1. c \in Nat
      BY DEF Channels
    <3>2. \A d \in caught : d < c
      BY <1>a, <1>b DEF IInv, NetAgrees
    <3>3. caught' # caught => pc \in {"destroy", "next"}
      BY <1>c, <1>e
    <3> QED  BY <1>e, <3>1, <3>2, <3>3
  <2>8. life # "live"
    BY <1>a DEF IInv, NetAgrees
  <2> QED
    BY <1>d, <2>1, <2>2, <2>3, <2>5, <2>6, <2>7, <2>8 DEF NetAgrees
<1>4. ChannelsAgree'
  BY <1>e DEF IInv, ChannelsAgree, Retired, Droppable, sessionVars, proxyVars
<1>5. RecvAgrees'
  BY <1>e DEF IInv, RecvAgrees, Building, sessionVars, proxyVars
<1>6. HandlerHasProxy' /\ NoOrphanProxy' /\ InstancesKnown' /\ EventRegistered'
  BY <1>e DEF IInv, HandlerHasProxy, NoOrphanProxy, InstancesKnown, EventRegistered,
    Droppable, sessionVars, proxyVars
<1> QED
  BY <1>1, <1>2, <1>3, <1>4, <1>5, <1>6 DEF IInv

\* cmrg_terminate as the session is destroyed keeps IInv.
LEMMA NetDropStep ==
  ASSUME IInv, NetDrop
  PROVE  IInv'
<1>a. /\ net.pc = "drop" /\ net.at \in Channels /\ net.seen = cmd[net.at].id
      /\ net.at \notin caught /\ cmd[net.at].ref /\ net.seen # 0 /\ registry = Free
  <2>1. net.pc = "drop" /\ net.at \in Channels /\ registry = Free
    BY DEF IInv, NetAgrees, NetDrop
  <2>2. net.at \notin caught
    BY <2>1 DEF IInv, NetAgrees, Channels
  <2> QED  BY <2>1, <2>2 DEF IInv, NetAgrees, ChannelsAgree
<1>b. PICK c \in Channels : c = net.at
  BY <1>a
<1>c. /\ proxy' = drop_xpcommand(cmd[c].id)
      /\ proxy[cmd[c].id].state # "DESTROYED"
      /\ net' = [net EXCEPT !.pc = IF Droppable(cmd[c].id) THEN "unschedule" ELSE "destroy"]
      /\ UNCHANGED <<lockVars, sessionVars, handlers, created, recv, xp, post, history>>
  BY <1>a, <1>b DEF NetDrop
<1>d. CommandsStay
  BY <1>c DEF IInv, TypeOK, CommandsStay, sessionVars
<1>e. cmd[c].xpcmd /\ cmd[c].id \in Instances /\ ProxiesOnlyDrop(cmd[c].id)
  <2>1. cmd[c].xpcmd
    BY <1>a, <1>b, <1>c DEF IInv, InstancesKnown
  <2> QED  BY <1>c, <2>1, ProxyOfCommand, Dropping DEF IInv, TypeOK
<1>f. ~Droppable(cmd[c].id) => proxy' = proxy
  BY <1>c DEF drop_xpcommand, Droppable
<1>g. Retired(c)'
  BY <1>d, <1>e DEF CommandsStay, ProxiesOnlyDrop, Retired, Droppable
<1>h. /\ proxy' \in [Instances -> ProxyRecords] /\ HandlerHasProxy' /\ NoOrphanProxy'
      /\ \A d \in Channels : Retired(d) => Retired(d)'
      /\ \A d \in Channels : d # c => (Retired(d)' <=> Retired(d))
      /\ \A q \in Instances : q # cmd[c].id => proxy'[q] = proxy[q]
  BY <1>c, <1>d, <1>e, AfterDrop DEF sessionVars, history
<1>i. /\ net'.pc = (IF Droppable(cmd[c].id) THEN "unschedule" ELSE "destroy")
      /\ net'.at = c /\ net'.seen = cmd[c].id
  BY <1>a, <1>b, <1>c DEF IInv, TypeOK, NetRecords
<1>1. TypeOK'
  <2>1. LocksHeld'
    BY <1>c DEF IInv, TypeOK, LocksHeld, lockVars
  <2>2. net' \in NetRecords
    BY <1>c DEF IInv, TypeOK, NetRecords
  <2> QED
    BY <1>c, <1>h, <2>1, <2>2 DEF IInv, TypeOK, lockVars, sessionVars, history
<1>2. HandlerHasProxy' /\ NoOrphanProxy'
  BY <1>h
<1>3. InstancesKnown'
  <2>1. /\ \A q \in Instances : proxy'[q].state = "none" <=> proxy[q].state = "none"
        /\ \A q \in Instances : proxy[q].state = "DESTROYED" => proxy'[q] = proxy[q]
    BY <1>e DEF ProxiesOnlyDrop
  <2>2. \A q \in orphans : proxy'[q].state = "CREATED"
    BY <1>h DEF IInv, TypeOK, InstancesKnown
  <2> QED
    BY <1>c, <2>1, <2>2, ProxyOfCommand DEF IInv, InstancesKnown, sessionVars, history
<1>4. RecvAgrees'
  <2>1. ASSUME recv.pc \in {"task", "store"}
        PROVE  proxy'[cmd[recv.at].id] = proxy[cmd[recv.at].id]
    <3>1. recv.at \in Channels /\ recv.at # c /\ cmd[recv.at].id # 0
      BY <1>a, <1>b, <2>1 DEF IInv, RecvAgrees, Building
    <3>2. cmd[recv.at].id \in Instances /\ cmd[recv.at].id # cmd[c].id
      BY <3>1, ProxyOfCommand DEF IInv, InstancesKnown
    <3> QED  BY <1>h, <3>2
  <2> QED  BY <1>c, <2>1 DEF IInv, RecvAgrees, Building, sessionVars, history
<1>5. ChannelsAgree'
  BY <1>c, <1>h DEF IInv, ChannelsAgree, sessionVars, history
<1>6. TasksAgree'
  <2>1. \A d \in tasks : cmd[d].xpcmd /\ Retired(d)' =>
          \/ post.pc = "unschedule" /\ post.at = d
          \/ net'.pc = "unschedule" /\ net'.at = d
    <3>1. CASE Droppable(cmd[c].id)
      BY <1>a, <1>h, <1>i, <3>1 DEF IInv, TypeOK, TasksAgree, Retired
    <3>2. CASE ~Droppable(cmd[c].id)
      BY <1>a, <1>c, <1>f, <3>2 DEF IInv, TypeOK, TasksAgree, Retired, Droppable,
          sessionVars
    <3> QED  BY <3>1, <3>2
  <2> QED
    BY <1>c, <1>h, <2>1 DEF IInv, TypeOK, PostRecords, TasksAgree, Retired,
        sessionVars, history
<1>7. NetAgrees'
  <2>1. net'.pc = "destroy" => c \notin tasks \/ (post.pc = "unschedule" /\ post.at = c)
    BY <1>a, <1>e, <1>i DEF IInv, TasksAgree
  <2>2. ASSUME NEW d \in caught, cmd[d].xpcmd
        PROVE  proxy'[cmd[d].id] = proxy[cmd[d].id]
    <3>1. d \in Channels /\ d # c
      BY <1>a, <1>b, <2>2 DEF IInv, TypeOK
    <3>2. cmd[d].id \in Instances /\ cmd[d].id # cmd[c].id
      BY <2>2, <3>1, ProxyOfCommand DEF IInv, InstancesKnown
    <3> QED  BY <1>h, <3>2
  <2> QED
    BY <1>a, <1>b, <1>c, <1>g, <1>i, <2>1, <2>2 DEF IInv, NetAgrees, sessionVars,
        history
<1>8. EventRegistered'
  BY <1>a, <1>c DEF IInv, TypeOK, LocksHeld, EventRegistered, Free
<1> QED
  BY <1>1, <1>2, <1>3, <1>4, <1>5, <1>6, <1>7, <1>8 DEF IInv

\* Unscheduling as the session is destroyed keeps IInv.
LEMMA NetUnscheduleStep ==
  ASSUME IInv, NetUnschedule
  PROVE  IInv'
<1>a. /\ net.pc = "unschedule" /\ schedule = Free /\ net.at \in Channels
      /\ net.at \notin caught /\ cmd[net.at].ref
      /\ net.seen = cmd[net.at].id /\ Retired(net.at)
  <2>1. net.pc = "unschedule" /\ net.at \in Channels /\ schedule = Free
    BY DEF IInv, NetAgrees, NetUnschedule
  <2>2. net.at \notin caught
    BY <2>1 DEF IInv, NetAgrees, Channels
  <2> QED  BY <2>1, <2>2 DEF IInv, NetAgrees
<1>b. PICK c \in Channels : c = net.at
  BY <1>a
<1>c. /\ cmd' = [cmd EXCEPT ![c].task = FALSE]
      /\ tasks' = tasks \ {c}
      /\ net' = [net EXCEPT !.pc = "destroy"]
      /\ UNCHANGED <<lockVars, closing, life, chan, proxyVars, recv, xp, post, history>>
  BY <1>b DEF NetUnschedule
<1>d. CommandsStay
  BY <1>c, FieldChanges
<1>e. \A d \in Channels : Retired(d)' <=> Retired(d)
  BY <1>c, <1>d DEF CommandsStay, Retired, Droppable, proxyVars
<1>f. net'.pc = "destroy" /\ net'.at = net.at /\ net'.seen = net.seen
  BY <1>c DEF IInv, TypeOK, NetRecords
<1>1. TypeOK'
  <2>1. LocksHeld'
    BY <1>c DEF IInv, TypeOK, LocksHeld, lockVars
  <2>2. cmd' \in [Channels -> CommandRecords]
    BY <1>d DEF CommandsStay
  <2>3. net' \in NetRecords
    BY <1>c DEF IInv, TypeOK, NetRecords
  <2> QED
    BY <1>c, <2>1, <2>2, <2>3 DEF IInv, TypeOK, lockVars, proxyVars, history
<1>2. NoOrphanProxy' /\ InstancesKnown'
  BY <1>c, <1>d DEF IInv, NoOrphanProxy, InstancesKnown, Droppable, CommandsStay,
    proxyVars, history
<1>3. RecvAgrees'
  <2>1. recv.pc \in {"idle", "line"}
    BY <1>a DEF IInv, TypeOK, LocksHeld, Free
  <2> QED  BY <1>c, <2>1 DEF RecvAgrees, Building
<1>4. ChannelsAgree'
  BY <1>c, <1>d, <1>e DEF IInv, ChannelsAgree, CommandsStay, history
<1>5. TasksAgree'
  <2>1. xp.pc \notin {"run", "confirm", "undo", "error"} /\ post.pc \notin {"run", "drop", "unschedule"}
    BY <1>a DEF IInv, TypeOK, LocksHeld, Free
  <2> QED
    BY <1>a, <1>b, <1>c, <1>d, <1>e, <2>1
    DEF IInv, TypeOK, TasksAgree, Retired, CommandsStay, history
<1>6. NetAgrees'
  BY <1>a, <1>b, <1>c, <1>d, <1>e, <1>f DEF IInv, NetAgrees, CommandsStay,
      proxyVars, history
<1>7. HandlerHasProxy' /\ EventRegistered'
  BY <1>c DEF IInv, HandlerHasProxy, EventRegistered, proxyVars
<1> QED
  BY <1>1, <1>2, <1>3, <1>4, <1>5, <1>6, <1>7 DEF IInv

\* destroy_session_channel keeps IInv: a command that it frees has retired its
\* proxy, or destroy_session met the channel before command_ref was stored.
LEMMA NetDestroyStep ==
  ASSUME IInv, NetDestroy
  PROVE  IInv'
<1>a. /\ net.pc = "destroy" /\ net.at \in Channels
      /\ net.at \notin caught => Retired(net.at) /\ net.at \notin tasks /\ cmd[net.at].ref
      /\ recv.pc = "terminate" => recv.at # net.at
      /\ xp.pc \in {"confirm", "undo", "error"} => xp.at # net.at
      /\ post.pc \in {"drop", "unschedule"} => post.at # net.at
  BY DEF IInv, NetAgrees, NetDestroy, Contended
<1>b. PICK n \in Channels : n = net.at
  BY <1>a
<1>c. PICK S \in SUBSET Channels, lost \in SUBSET Instances :
        /\ S = IF cmd[n].ref THEN {n} ELSE {}
        /\ lost = IF n \in caught /\ cmd[n].ref /\ ~Retired(n) THEN {cmd[n].id} ELSE {}
  <2>1. cmd[n].ref => cmd[n].id \in Instances
    BY ProxyOfCommand DEF IInv, ChannelsAgree
  <2>2. (IF cmd[n].ref THEN {n} ELSE {}) \in SUBSET Channels
    OBVIOUS
  <2>3. (IF n \in caught /\ cmd[n].ref /\ ~Retired(n) THEN {cmd[n].id} ELSE {})
          \in SUBSET Instances
    BY <2>1
  <2> QED  BY <2>2, <2>3
<1>d. /\ chan' = [chan EXCEPT ![n] = NoChannel]
      /\ cmd' = [c \in Channels |-> IF c \in S THEN NoCommand ELSE cmd[c]]
      /\ orphans' = orphans \cup lost
      /\ net' = [net EXCEPT !.pc = "next", !.seen = 0]
      /\ UNCHANGED <<lockVars, closing, life, tasks, proxyVars, recv, xp, post, caught, fault>>
  <2>1. cmd' = [cmd EXCEPT ![n] = IF cmd[n].ref THEN NoCommand ELSE cmd[n]]
    BY <1>b DEF NetDestroy
  <2>2. cmd' = [c \in Channels |-> IF c \in S THEN NoCommand ELSE cmd[c]]
    BY <1>c, <2>1 DEF IInv, TypeOK
  <2> QED  BY <1>b, <1>c, <2>2 DEF NetDestroy
<1>e. \A p \in lost : proxy[p].state = "CREATED" /\ \E c \in S : cmd[c].id = p
  <2>1. ASSUME n \in caught, cmd[n].ref, ~Retired(n)
        PROVE  proxy[cmd[n].id].state = "CREATED"
    BY <1>a, <1>b, <2>1 DEF IInv, NetAgrees, Retired, Droppable
  <2> QED  BY <1>c, <2>1
<1>f. \A c \in S : Retired(c) \/ cmd[c].id \in lost
  BY <1>a, <1>b, <1>c
<1>g. /\ chan' \in [Channels -> ChannelRecords]
      /\ chan'[n] = NoChannel /\ \A c \in Channels : c # n => chan'[c] = chan[c]
  BY <1>d DEF IInv, TypeOK, NoChannel, ChannelRecords
<1>h. /\ cmd' \in [Channels -> CommandRecords]
      /\ \A c \in Channels : c # n => cmd'[c] = cmd[c]
      /\ cmd[n].ref => /\ cmd'[n].id = 0 /\ ~cmd'[n].xpcmd /\ ~cmd'[n].ref
      /\ ~cmd[n].ref => cmd'[n] = cmd[n]
  <2>1. NoCommand \in CommandRecords
    BY Ranges DEF NoCommand, CommandRecords
  <2> QED  BY <1>c, <1>d, <2>1 DEF IInv, TypeOK, NoCommand
<1>i. ~cmd[n].ref => n \in caught
  BY <1>a, <1>b
<1>j. HandlerHasProxy' /\ NoOrphanProxy' /\ InstancesKnown'
  <2>1. CASE cmd[n].ref
    <3>1. \A c \in Channels : c \notin S => chan'[c] = chan[c]
      BY <1>c, <1>g, <2>1
    <3> QED
      BY <1>d, <1>e, <1>f, <3>1, Destroying DEF proxyVars
  <2>2. CASE ~cmd[n].ref
    <3>1. cmd' = cmd /\ lost = {} /\ n \in caught
      BY <1>c, <1>d, <1>i, <2>2 DEF IInv, TypeOK
    <3> QED
      BY <1>d, <1>g, <3>1
      DEF IInv, HandlerHasProxy, NoOrphanProxy, InstancesKnown, Droppable, proxyVars
  <2> QED  BY <2>1, <2>2
<1>k. net'.pc = "next" /\ net'.at = net.at
  BY <1>d DEF IInv, TypeOK, NetRecords
<1>l. \A c \in Channels : Retired(c) => Retired(c)'
  BY <1>d, <1>h DEF Retired, Droppable, proxyVars
<1>1. TypeOK'
  <2>1. LocksHeld'
    BY <1>d DEF IInv, TypeOK, LocksHeld, lockVars
  <2>2. net' \in NetRecords
    BY Ranges, <1>d DEF IInv, TypeOK, NetRecords
  <2>3. orphans' \subseteq Instances
    BY <1>d DEF IInv, TypeOK
  <2> QED
    BY <1>d, <1>g, <1>h, <2>1, <2>2, <2>3 DEF IInv, TypeOK, lockVars, proxyVars
<1>2. RecvAgrees'
  <2>1. recv.pc \in {"task", "store"} => ~cmd[recv.at].ref
    BY DEF IInv, RecvAgrees
  <2>2. recv.pc \in {"task", "store", "terminate"} => cmd'[recv.at] = cmd[recv.at]
    BY <1>a, <1>b, <1>h, <2>1 DEF IInv, RecvAgrees, Building
  <2>3. recv.pc \in {"proxy", "fail"} => cmd'[recv.at].id = 0
    BY <1>h DEF IInv, RecvAgrees, Building
  <2>4. recv.pc \in Building /\ recv.at = n => n \in caught
    <3>1. recv.pc \in Building /\ recv.at = n => ~cmd[n].ref
      BY DEF IInv, RecvAgrees, Building, ChannelsAgree
    <3> QED  BY <1>i, <3>1
  <2> QED
    BY <1>d, <1>g, <2>2, <2>3, <2>4 DEF IInv, RecvAgrees, Building, NoChannel, proxyVars
<1>3. ChannelsAgree'
  <2>1. UNCHANGED <<tasks, recv, life, caught>>
    BY <1>d
  <2>2. /\ chan'[n].state = "none" /\ ~chan'[n].doomed
        /\ n \notin caught => cmd'[n].id = 0
        /\ cmd'[n].ref => FALSE
    BY <1>a, <1>b, <1>g, <1>h DEF NoChannel
  <2> QED
    BY <1>g, <1>h, <1>l, <2>1, <2>2 DEF IInv, ChannelsAgree
<1>4. TasksAgree'
  <2>1. tasks \subseteq Channels
    BY DEF IInv, TypeOK
  <2>2. \A c \in tasks \ caught : cmd'[c] = cmd[c]
    BY <1>a, <1>b, <1>h, <2>1
  <2>3. /\ xp.pc \in {"confirm", "undo", "error"} => cmd'[xp.at] = cmd[xp.at]
        /\ post.pc \in {"drop", "unschedule"} => cmd'[post.at] = cmd[post.at]
    BY <1>a, <1>b, <1>h, <2>1 DEF IInv, TasksAgree
  <2>4. \A c \in tasks : cmd'[c].xpcmd => cmd'[c] = cmd[c]
    BY <1>h, <2>1
  <2> QED
    BY <1>a, <1>d, <2>1, <2>2, <2>3, <2>4
    DEF IInv, TypeOK, TasksAgree, Retired, Droppable, proxyVars
<1>5. NetAgrees'
  <2>1. \A c \in caught : cmd'[c].xpcmd => cmd'[c] = cmd[c]
    BY <1>h DEF IInv, TypeOK
  <2> QED
    BY <1>a, <1>d, <1>k, <2>1 DEF IInv, NetAgrees, proxyVars
<1>6. EventRegistered'
  BY <1>d DEF IInv, EventRegistered, proxyVars
<1> QED
  BY <1>1, <1>2, <1>3, <1>4, <1>5, <1>6, <1>j DEF IInv

\* Going on to the next channel keeps IInv.
LEMMA NetNextChannelStep ==
  ASSUME IInv, NetNextChannel
  PROVE  IInv'
<1>1. TypeOK'
  <2>1. LocksHeld'
    BY DEF IInv, TypeOK, LocksHeld, NetRecords, NetNextChannel, lockVars,
      sessionVars, proxyVars, history, Free
  <2>2. net' \in NetRecords
    <3>1. net.at \in Channels
      BY DEF IInv, NetAgrees, NetNextChannel
    <3>2. net.at + 1 \in 1 .. NumChannels + 1
      BY <3>1, CommandRegistryAssumption DEF Channels
    <3> QED  BY <3>2 DEF IInv, TypeOK, NetRecords, NetNextChannel
  <2> QED
    BY <2>1, <2>2 DEF IInv, TypeOK, NetNextChannel, lockVars, sessionVars,
      proxyVars, history, Free
<1>2. TasksAgree'
  BY DEF IInv, TasksAgree, Retired, Droppable, TypeOK, NetRecords,
    NetNextChannel, lockVars, sessionVars, proxyVars, history
<1>3. NetAgrees'
  <2>1. /\ net.pc = "next" /\ net.at \in Channels
        /\ net'.pc = "sweep" /\ net'.at = net.at + 1
        /\ UNCHANGED <<sessionVars, proxyVars, xp, history>>
    BY DEF IInv, TypeOK, NetRecords, NetAgrees, NetNextChannel
  <2>2. \A c \in caught : c < net.at + 1
    BY <2>1 DEF IInv, TypeOK, NetAgrees, Channels
  <2> QED
    BY <2>1, <2>2 DEF IInv, NetAgrees, sessionVars, proxyVars, history
<1>4. HandlerHasProxy' /\ NoOrphanProxy' /\ RecvAgrees' /\ InstancesKnown' /\
    ChannelsAgree' /\
  EventRegistered'
  BY DEF IInv, HandlerHasProxy, NoOrphanProxy, RecvAgrees, Building,
      InstancesKnown, ChannelsAgree,
    EventRegistered, Droppable, Retired, NetNextChannel, lockVars, sessionVars,
    proxyVars, history
<1> QED
  BY <1>1, <1>2, <1>3, <1>4 DEF IInv

\* Freeing the session keeps IInv.
LEMMA NetFreeStep ==
  ASSUME IInv, NetFree
  PROVE  IInv'
<1>1. TypeOK'
  <2>1. LocksHeld'
    BY DEF IInv, TypeOK, LocksHeld, NetRecords, NetFree, lockVars, sessionVars,
      proxyVars, history, Free
  <2>2. net' \in NetRecords
    BY Ranges DEF IInv, TypeOK, NetRecords, NetFree, lockVars, sessionVars,
      proxyVars, history
  <2> QED
    BY <2>1, <2>2 DEF IInv, TypeOK, NetFree, lockVars, sessionVars, proxyVars, history,
      Free
<1>2. TasksAgree'
  BY DEF IInv, TasksAgree, Retired, Droppable, TypeOK, NetRecords, NetFree,
    lockVars, sessionVars, proxyVars, history
<1>3. NetAgrees'
  BY DEF IInv, NetAgrees, Retired, Droppable, TypeOK, NetRecords, NetFree,
    lockVars, sessionVars, proxyVars, history
<1>4. HandlerHasProxy' /\ NoOrphanProxy' /\ RecvAgrees' /\ InstancesKnown' /\
    ChannelsAgree' /\
  EventRegistered'
  BY DEF IInv, HandlerHasProxy, NoOrphanProxy, RecvAgrees, Building,
      InstancesKnown, ChannelsAgree,
    EventRegistered, Droppable, Retired, NetFree, lockVars, sessionVars,
    proxyVars, history
<1> QED
  BY <1>1, <1>2, <1>3, <1>4 DEF IInv

\* Undefined behaviour, after which nothing is claimed to go on, keeps IInv.
LEMMA NetUndefinedStep ==
  ASSUME IInv, NetUndefined
  PROVE  IInv'
<1>1. TypeOK'
  <2>1. LocksHeld'
    BY DEF IInv, TypeOK, LocksHeld, NetUndefined, lockVars, sessionVars,
      proxyVars, history, Free
  <2> QED
    BY <2>1 DEF IInv, TypeOK, NetUndefined, lockVars, sessionVars, proxyVars, history,
      Free
<1>2. HandlerHasProxy' /\ NoOrphanProxy' /\ RecvAgrees' /\ InstancesKnown' /\
    ChannelsAgree' /\
  TasksAgree' /\ NetAgrees' /\ EventRegistered'
  BY DEF IInv, HandlerHasProxy, NoOrphanProxy, RecvAgrees, Building,
      InstancesKnown, ChannelsAgree,
    TasksAgree, NetAgrees, EventRegistered, Droppable, Retired, NetUndefined,
    lockVars, sessionVars, proxyVars, history
<1> QED
  BY <1>1, <1>2 DEF IInv

\* The use of what destroy_session freed, after which nothing goes on, keeps IInv.
LEMMA UseAfterFreeStep ==
  ASSUME IInv, UseAfterFree
  PROVE  IInv'
<1>1. TypeOK'
  <2>1. LocksHeld'
    BY DEF IInv, TypeOK, LocksHeld, UseAfterFree, lockVars, sessionVars,
      proxyVars, history, Free
  <2> QED
    BY <2>1 DEF IInv, TypeOK, UseAfterFree, lockVars, sessionVars, proxyVars, history,
      Free
<1>2. HandlerHasProxy' /\ NoOrphanProxy' /\ RecvAgrees' /\ InstancesKnown' /\
    ChannelsAgree' /\
  TasksAgree' /\ NetAgrees' /\ EventRegistered'
  BY DEF IInv, HandlerHasProxy, NoOrphanProxy, RecvAgrees, Building,
      InstancesKnown, ChannelsAgree,
    TasksAgree, NetAgrees, EventRegistered, Droppable, Retired, UseAfterFree,
    lockVars, sessionVars, proxyVars, history
<1> QED
  BY <1>1, <1>2 DEF IInv

\* The client's disconnecting keeps IInv.
LEMMA DisconnectStep ==
  ASSUME IInv, Disconnect
  PROVE  IInv'
<1>1. /\ closing' \in BOOLEAN
      /\ UNCHANGED <<lockVars, life, chan, cmd, tasks, proxyVars, xp, post, net, history>>
      /\ recv' = recv \/ (recv.pc = "idle" /\ recv' = [recv EXCEPT !.pc = "line"])
  BY DEF Disconnect
<1>2. recv' \in RecvRecords /\ recv'.at = recv.at
  BY <1>1 DEF IInv, TypeOK, RecvRecords
<1>3. recv'.pc = recv.pc \/ (recv.pc = "idle" /\ recv'.pc = "line")
  BY <1>1 DEF IInv, TypeOK, RecvRecords
<1>4. TypeOK'
  <2>1. LocksHeld'
    BY <1>1, <1>3 DEF IInv, TypeOK, LocksHeld, lockVars
  <2> QED
    BY <1>1, <1>2, <2>1 DEF IInv, TypeOK, lockVars, proxyVars, history
<1>5. \A c \in Channels : Retired(c)' <=> Retired(c)
  BY <1>1 DEF Retired, Droppable, proxyVars
<1>6. RecvAgrees' /\ ChannelsAgree'
  BY <1>1, <1>2, <1>3, <1>5
  DEF IInv, RecvAgrees, ChannelsAgree, Building, proxyVars, history
<1>7. HandlerHasProxy' /\ NoOrphanProxy' /\ InstancesKnown'
  BY <1>1, <1>3
  DEF IInv, HandlerHasProxy, NoOrphanProxy, InstancesKnown, Droppable, proxyVars,
      history
<1>8. TasksAgree' /\ NetAgrees' /\ EventRegistered'
  BY <1>1 DEF IInv, TasksAgree, NetAgrees, EventRegistered, Droppable, Retired,
    proxyVars, history
<1> QED
  BY <1>4, <1>6, <1>7, <1>8 DEF IInv

\* xp_command_handler's beginning keeps IInv.
LEMMA HandlerBeginStep ==
  ASSUME IInv, NEW p \in Instances, HandlerBegin(p)
  PROVE  IInv'
<1>1. TypeOK'
  <2>1. LocksHeld'
    <3>1. p # 0
      BY CommandRegistryAssumption DEF Instances
    <3> QED  BY <3>1 DEF IInv, TypeOK, LocksHeld, XpRecords, HandlerBegin, Free
  <2>2. xp' \in XpRecords
    <3>1. p \in 0 .. MaxInstances
      BY Ranges
    <3> QED  BY <3>1 DEF IInv, TypeOK, XpRecords, HandlerBegin
  <2> QED
    BY <2>1, <2>2 DEF IInv, TypeOK, HandlerBegin, Invocable, lockVars,
      sessionVars, proxyVars, history, Free
<1>2. TasksAgree'
  BY DEF IInv, TasksAgree, Retired, Droppable, TypeOK, XpRecords, HandlerBegin,
    Invocable, lockVars, sessionVars, proxyVars, history
<1>3. EventRegistered'
  BY DEF IInv, EventRegistered, TypeOK, XpRecords, HandlerBegin, Invocable,
    lockVars, sessionVars, proxyVars, history
<1>4. HandlerHasProxy' /\ NoOrphanProxy' /\ RecvAgrees' /\ InstancesKnown' /\
    ChannelsAgree' /\
  NetAgrees'
  BY DEF IInv, HandlerHasProxy, NoOrphanProxy, RecvAgrees, Building,
      InstancesKnown, ChannelsAgree,
    NetAgrees, Droppable, Retired, HandlerBegin, Invocable, lockVars,
    sessionVars, proxyVars, history
<1> QED
  BY <1>1, <1>2, <1>3, <1>4 DEF IInv

\* Nothing is requested, registered or scheduled at first.
LEMMA InitEstablishes == Init => IInv
<1> SUFFICES ASSUME Init PROVE IInv
  OBVIOUS
<1>1. TypeOK
  <2>1. NoChannel \in ChannelRecords /\ NoCommand \in CommandRecords
    BY Ranges DEF NoChannel, ChannelRecords, NoCommand, CommandRecords
  <2>2. [state |-> "none", ref |-> FALSE] \in ProxyRecords
    BY DEF ProxyRecords
  <2>3. /\ chan \in [Channels -> ChannelRecords] /\ cmd \in [Channels -> CommandRecords]
        /\ proxy \in [Instances -> ProxyRecords]
    BY <2>1, <2>2 DEF Init
  <2>4. recv \in RecvRecords /\ xp \in XpRecords /\ post \in PostRecords
    BY Ranges DEF Init, RecvRecords, XpRecords, PostRecords
  <2>5. net \in NetRecords
    BY Ranges, CommandRegistryAssumption DEF Init, NetRecords
  <2>6. LocksHeld
    BY DEF Init, LocksHeld, Free
  <2>7. created \in 0 .. MaxInstances
    BY Ranges DEF Init
  <2> QED  BY <2>3, <2>4, <2>5, <2>6, <2>7 DEF Init, TypeOK, Free
<1>2. HandlerHasProxy /\ NoOrphanProxy /\ EventRegistered
  BY DEF Init, HandlerHasProxy, NoOrphanProxy, EventRegistered, Droppable
<1>3. InstancesKnown
  BY CommandRegistryAssumption DEF Init, InstancesKnown, NoCommand, Instances
<1>4. RecvAgrees /\ ChannelsAgree
  BY DEF Init, RecvAgrees, Building, ChannelsAgree, Retired, NoChannel, NoCommand
<1>5. TasksAgree /\ NetAgrees
  BY DEF Init, TasksAgree, NetAgrees, Retired, NoCommand
<1> QED  BY <1>1, <1>2, <1>3, <1>4, <1>5 DEF IInv

\* Every step of every thread keeps the invariant.
LEMMA NextPreserves == IInv /\ [Next]_vars => IInv'
<1> SUFFICES ASSUME IInv, [Next]_vars PROVE IInv'
  OBVIOUS
<1>1. CASE RecvNext
  <2>1. CASE RecvWork
    BY <2>1, RecvPutStep, RecvRefuseStep, RecvCreateProxyStep, RecvScheduleStep,
       RecvCreateFailsStep, RecvStoreCommandStep, RecvFailStep, RecvTerminateStep,
       RecvUnlockStep DEF RecvWork
  <2> QED
    BY <1>1, <2>1, RecvCreateBeginStep, RecvTerminateBeginStep, RecvOtherBeginStep,
       RecvTooLateStep DEF RecvNext
<1>2. CASE FrameNext
  BY <1>2, FrameBeginStep, XpSkipStep, XpRegisterStep, XpConfirmStep, XpUndoStep,
     XpErrorStep, RunTasksEndStep, PlainFrameEndStep, MaintenanceFrameEndStep
  DEF FrameNext
<1>3. CASE EventNext
  BY <1>3, EventIgnoredStep, EventSentStep DEF EventNext
<1>4. CASE PostNext
  BY <1>4, PostWakeStep, PostDropStep, PostUnscheduleStep, PostEndStep,
     PostSkipStep, PostCloseStep DEF PostNext
<1>5. CASE NetNext
  BY <1>5, NetPendStep, NetBeginSweepStep, NetVisitStep, NetDropStep,
     NetUnscheduleStep, NetDestroyStep, NetNextChannelStep, NetFreeStep,
     NetUndefinedStep DEF NetNext
<1>6. CASE Disconnect
  BY <1>6, DisconnectStep
<1>7. ASSUME NEW p \in Instances, HandlerBegin(p) PROVE IInv'
  BY <1>7, HandlerBeginStep
<1>8. CASE UNCHANGED vars
  <2> USE <1>8 DEF vars, lockVars, sessionVars, proxyVars, history
  <2>1. TypeOK'
    BY DEF IInv, TypeOK, LocksHeld
  <2>2. HandlerHasProxy' /\ NoOrphanProxy' /\ InstancesKnown' /\ EventRegistered'
    BY DEF IInv, HandlerHasProxy, NoOrphanProxy, InstancesKnown, EventRegistered,
       Droppable
  <2>3. RecvAgrees' /\ ChannelsAgree' /\ TasksAgree' /\ NetAgrees'
    BY DEF IInv, RecvAgrees, Building, ChannelsAgree, TasksAgree, NetAgrees, Retired,
       Droppable
  <2> QED  BY <2>1, <2>2, <2>3 DEF IInv
<1>9. CASE UseAfterFree
  BY <1>9, UseAfterFreeStep
<1> QED  BY <1>1, <1>2, <1>3, <1>4, <1>5, <1>6, <1>7, <1>8, <1>9 DEF Next

\* The inductive invariant holds in every reachable state of the registry, its
\* commands and the threads that use them.
THEOREM RegistryInvariant == Spec => []IInv
BY InitEstablishes, NextPreserves, PTL DEF Spec

\* Every record of the registry, the session and the threads keeps its type, and
\* each mutex is held exactly by the thread that is at a step under it.
THEOREM RegistryTypeCorrect == Spec => []TypeOK
<1>1. IInv => TypeOK
  BY DEF IInv
<1> QED  BY <1>1, RegistryInvariant, PTL

\* X-Plane never calls a handler whose proxy is freed: every registered handler
\* has an undestroyed proxy that was registered, whoever drops, unregisters or
\* destroys meanwhile (xp_command_handler, _unregister_destroy_xpcommand).
THEOREM HandlersHaveProxies == Spec => []HandlerHasProxy
<1>1. IInv => HandlerHasProxy
  BY DEF IInv
<1> QED  BY <1>1, RegistryInvariant, PTL

\* No proxy is left without a command that will drop it (cmrg_terminate,
\* cmrg_destroy), but for the orphans: those whose command cmrg_create frees when
\* no task can be scheduled, and those that destroy_session meets before
\* command_ref is stored.
THEOREM NoProxyOrphaned == Spec => []NoOrphanProxy
<1>1. IInv => NoOrphanProxy
  BY DEF IInv
<1> QED  BY <1>1, RegistryInvariant, PTL

\* While cmrg_handle_event runs, the command it was called for exists.
THEOREM EventsReachCommands == Spec => []EventReachesCommand
<1>1. IInv => EventReachesCommand
  <2> SUFFICES ASSUME IInv, xp.event # 0 PROVE Owner(xp.event) # {}
    BY DEF EventReachesCommand
  <2>1. xp.event \in 0 .. MaxInstances
    BY DEF IInv, TypeOK, XpRecords
  <2>2. xp.event \in Instances
    BY <2>1, CommandRegistryAssumption DEF Instances
  <2>3. Droppable(xp.event)
    BY DEF IInv, EventRegistered, Droppable
  <2>4. PICK c \in Channels : cmd[c].id = xp.event /\ cmd[c].xpcmd
    BY <2>2, <2>3 DEF IInv, NoOrphanProxy, InstancesKnown, EventRegistered
  <2> QED  BY <2>4 DEF Owner
<1> QED  BY <1>1, RegistryInvariant, PTL
==============================================================================
