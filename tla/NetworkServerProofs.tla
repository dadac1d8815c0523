------------------------ MODULE NetworkServerProofs ------------------------
(* Slots are only cleared after their threads have ended, and every variable *)
(* keeps its type, for any number of slots, descriptors, connections and     *)
(* errors.                                                                   *)
EXTENDS NetworkServer, TLAPS

Ended == {"none", "done"}
BothEnded(i) == conn[i].recv \in Ended /\ conn[i].send \in Ended

\* What the argument needs of the types: the variables are functions and
\* records with these fields.
Fields == {"inUse", "closing", "recv", "send"}

ConnShape ==
  /\ DOMAIN conn = Slots
  /\ \A i \in Slots : Fields \subseteq DOMAIN conn[i]

PcShape ==
  /\ srv.at \in Slots
  /\ DOMAIN srv = {"pc", "at", "errors"}
  /\ maint.at \in 1 .. NSlots + 1
  /\ DOMAIN maint = {"pc", "at", "last"}

\* A free slot has no running thread.
FreeInv == \A i \in Slots : ~conn[i].inUse => BothEnded(i)

\* A connection that is being set up has no threads yet, and nobody closes it.
SpawnInv ==
  srv.pc = "spawn" =>
    /\ conn[srv.at].inUse /\ ~conn[srv.at].closing
    /\ conn[srv.at].recv = "none" /\ conn[srv.at].send = "none"

\* Maintenance works on slots in use that are closing, or on all at the end.
MaintInv ==
  /\ maint.pc \in {"forget", "socket", "joinRecv", "joinSend"} =>
       /\ maint.at \in Slots
       /\ conn[maint.at].inUse /\ (conn[maint.at].closing \/ maint.last)
  /\ maint.pc = "joinSend" => conn[maint.at].recv \in Ended
  /\ maint.last => srv.pc = "stopped"

Inv == ConnShape /\ PcShape /\ FreeInv /\ SpawnInv /\ MaintInv

\* The invariant holds before the server listens.
LEMMA InitInv == Init => Inv
<1> SUFFICES ASSUME Init PROVE Inv OBVIOUS
<1>1. ConnShape /\ FreeInv
  <2>1. \A i \in Slots : conn[i] = [FreshConnection(1) EXCEPT !.inUse = FALSE]
    BY DEF Init
  <2> QED BY <2>1 DEF Init, FreshConnection, ConnShape, Fields, FreeInv, BothEnded, Ended
<1>2. PcShape
  BY NetworkAssumption DEF Init, PcShape, Slots
<1>3. SpawnInv /\ MaintInv
  BY DEF Init, SpawnInv, MaintInv
<1> QED BY <1>1, <1>2, <1>3 DEF Inv

\* What a slot is cleared from.
Reuse ==
  \A i \in Slots : \A t \in {"recv", "send"} :
    conn'[i][t] = "none" => conn[i][t] \in Ended

\* Slots are neither taken nor released, and threads that have ended or were
\* not created stay so.
Quiet(i) ==
  /\ conn'[i].inUse = conn[i].inUse
  /\ conn[i].closing => conn'[i].closing
  /\ conn[i].recv \in Ended => conn'[i].recv = conn[i].recv
  /\ conn[i].send \in Ended => conn'[i].send = conn[i].send
  /\ conn'[i].recv = "none" => conn[i].recv = "none"
  /\ conn'[i].send = "none" => conn[i].send = "none"

\* In steps of a slot's own threads or of its client, moreover, a connection
\* without threads is not closed.
Calm(i) ==
  /\ Quiet(i)
  /\ conn[i].recv = "none" /\ conn[i].send = "none" => conn'[i].closing = conn[i].closing

\* A step that leaves every slot's threads in place keeps the invariant.
LEMMA CalmStep ==
  ASSUME Inv, ConnShape', \A i \in Slots : Calm(i), UNCHANGED <<srv, maint>>
  PROVE  Inv' /\ Reuse
<1>1. Reuse
  BY DEF Reuse, Calm, Quiet, Ended
<1>2. FreeInv'
  BY DEF Inv, FreeInv, BothEnded, Calm, Quiet
<1>3. PcShape'
  BY DEF Inv, PcShape
<1>4. SpawnInv'
  <2>1. srv.at \in Slots /\ srv' = srv /\ Calm(srv.at)
    BY DEF Inv, PcShape
  <2>2. ASSUME srv.pc = "spawn" PROVE SpawnInv'
    <3>1. /\ conn[srv.at].inUse /\ ~conn[srv.at].closing
          /\ conn[srv.at].recv = "none" /\ conn[srv.at].send = "none"
      BY <2>2 DEF Inv, SpawnInv
    <3>2. /\ conn'[srv.at].inUse /\ ~conn'[srv.at].closing
          /\ conn'[srv.at].recv = "none" /\ conn'[srv.at].send = "none"
      BY <2>1, <3>1 DEF Calm, Quiet, Ended
    <3> QED BY <2>1, <3>2 DEF SpawnInv
  <2> QED BY <2>1, <2>2 DEF SpawnInv
<1>5. MaintInv'
  BY DEF Inv, MaintInv, Calm, Quiet
<1> QED BY <1>1, <1>2, <1>3, <1>4, <1>5 DEF Inv

\* Connections that differ in their history or end of file only.
Alike(c, d) ==
  /\ Fields \subseteq DOMAIN d
  /\ d.inUse = c.inUse /\ d.closing = c.closing /\ d.recv = c.recv /\ d.send = c.send

\* What a peer or close_connection does to a socket leaves the slot's threads alone.
LEMMA AlikeExcept ==
  ASSUME NEW c, NEW x, NEW y, Fields \subseteq DOMAIN c
  PROVE  Alike(c, [c EXCEPT !.cut = x]) /\ Alike(c, [c EXCEPT !.eof = x, !.cut = y])
<1> DEFINE d == [c EXCEPT !.cut = x]
           e == [c EXCEPT !.eof = x, !.cut = y]
<1>1. Alike(c, d) BY DEF Alike, Fields
<1>2. Alike(c, e) BY DEF Alike, Fields
<1> QED BY <1>1, <1>2

\* Closing a descriptor leaves every slot alike ...
LEMMA ClosedFields ==
  ASSUME NEW cs, NEW i \in Slots, \A j \in Slots : Fields \subseteq DOMAIN cs[j]
  PROVE  /\ DOMAIN Closed(cs, i) = Slots
         /\ \A j \in Slots : Alike(cs[j], Closed(cs, i)[j])
<1>1. \A j \in Slots : \E x : Closed(cs, i)[j] = [cs[j] EXCEPT !.cut = x]
  BY DEF Closed
<1>2. DOMAIN Closed(cs, i) = Slots
  BY DEF Closed
<1>3. ASSUME NEW j \in Slots PROVE Alike(cs[j], Closed(cs, i)[j])
  <2>1. PICK x : Closed(cs, i)[j] = [cs[j] EXCEPT !.cut = x]
    BY <1>1
  <2>2. Alike(cs[j], [cs[j] EXCEPT !.cut = x])
    BY AlikeExcept
  <2> QED BY <2>1, <2>2
<1> QED BY <1>2, <1>3

\* ... and so does shutting it for reading.
LEMMA ReadShutFields ==
  ASSUME NEW cs, NEW i \in Slots, \A j \in Slots : Fields \subseteq DOMAIN cs[j]
  PROVE  /\ DOMAIN ReadShut(cs, i) = Slots
         /\ \A j \in Slots : Alike(cs[j], ReadShut(cs, i)[j])
<1>1. \A j \in Slots : \E x, y : ReadShut(cs, i)[j] = [cs[j] EXCEPT !.eof = x, !.cut = y]
  BY DEF ReadShut
<1>2. DOMAIN ReadShut(cs, i) = Slots
  BY DEF ReadShut
<1>3. ASSUME NEW j \in Slots PROVE Alike(cs[j], ReadShut(cs, i)[j])
  <2>1. PICK x, y : ReadShut(cs, i)[j] = [cs[j] EXCEPT !.eof = x, !.cut = y]
    BY <1>1
  <2>2. Alike(cs[j], [cs[j] EXCEPT !.eof = x, !.cut = y])
    BY AlikeExcept
  <2> QED BY <2>1, <2>2
<1> QED BY <1>2, <1>3

\* The receive thread, the send thread and the client of a slot.
LEMMA ThreadStep ==
  ASSUME Inv, NEW i \in Slots,
         \/ ReceiveThread(i) \/ ReceiveChunk(i) \/ SendThreadEnds(i) \/ SendFails(i)
         \/ SendBlocks(i) \/ SendReturns(i) \/ ClientLeaves(i) \/ \E t \in {"recv", "send"} : CloseCheck(i, t)
  PROVE  Inv' /\ Reuse
<1> USE DEF Inv, ConnShape, Fields
<1>1. CASE ReceiveThread(i)
  <2>1. \E p \in {"check", "blocked", "call", "head"} :
          conn' = [conn EXCEPT ![i].recv = p]
    BY <1>1 DEF ReceiveThread, ReceiveHead, ReceiveEnds, LineCheck, on_line_received,
       LineWithoutSession, FailHandshake
  <2>2. conn[i].recv \notin Ended
    BY <1>1 DEF ReceiveThread, ReceiveHead, ReceiveEnds, LineCheck, on_line_received,
       LineWithoutSession, Ended
  <2>3. UNCHANGED <<srv, maint>>
    BY <1>1 DEF ReceiveThread, ReceiveHead, ReceiveEnds, LineCheck, on_line_received,
       LineWithoutSession
  <2>4. ConnShape' /\ \A j \in Slots : Calm(j)
    BY <2>1, <2>2 DEF Calm, Quiet, Ended
  <2> QED BY <2>3, <2>4, CalmStep
<1>2. CASE ReceiveChunk(i)
  <2>1. UNCHANGED <<srv, maint>> /\ ConnShape' /\ \A j \in Slots : Calm(j)
    BY <1>2 DEF ReceiveChunk, Calm, Quiet, Ended
  <2> QED BY <2>1, CalmStep
<1>3. CASE SendThreadEnds(i) \/ SendFails(i) \/ SendBlocks(i) \/ SendReturns(i)
  <2>1. UNCHANGED <<srv, maint>> /\ ConnShape' /\ \A j \in Slots : Calm(j)
    BY <1>3 DEF SendThreadEnds, SendFails, SendBlocks, SendReturns, Calm, Quiet, Ended
  <2> QED BY <2>1, CalmStep
<1>4. CASE ClientLeaves(i)
  <2>1. UNCHANGED <<srv, maint>> /\ \E x, y : conn' = [conn EXCEPT ![i].left = x, ![i].eof = y]
    BY <1>4 DEF ClientLeaves
  <2>2. ConnShape' /\ \A j \in Slots : Calm(j)
    BY <2>1 DEF Calm, Quiet
  <2> QED BY <2>1, <2>2, CalmStep
<1>5. ASSUME NEW t \in {"recv", "send"}, CloseCheck(i, t) PROVE Inv' /\ Reuse
  <2>1. UNCHANGED <<srv, maint>> /\ conn[i][t] = "check"
        /\ \E p \in {"done", "close"} : conn' = [conn EXCEPT ![i][t] = p]
    BY <1>5 DEF CloseCheck
  <2>2. CASE t = "recv"
    BY <2>1, <2>2, CalmStep DEF Calm, Quiet, Ended
  <2>3. CASE t = "send"
    BY <2>1, <2>3, CalmStep DEF Calm, Quiet, Ended
  <2> QED BY <2>2, <2>3
<1> QED BY <1>1, <1>2, <1>3, <1>4, <1>5

\* A thread of a slot closes its connection.
LEMMA CloseStep ==
  ASSUME Inv, NEW i \in Slots, NEW t \in {"recv", "send"}, CloseConnection(i, t)
  PROVE  Inv' /\ Reuse
<1>0. PICK cs : cs = [conn EXCEPT ![i].closing = TRUE, ![i][t] = "done"]
  OBVIOUS
<1>1. \A j \in Slots :
        /\ Fields \subseteq DOMAIN cs[j]
        /\ cs[j].inUse = conn[j].inUse
        /\ conn[j].closing => cs[j].closing
        /\ j # i => cs[j] = conn[j]
  BY <1>0 DEF Inv, ConnShape, Fields
<1>2. conn[i][t] = "close" /\ cs[i][t] = "done"
      /\ \A u \in {"recv", "send"} \ {t} : cs[i][u] = conn[i][u]
  BY <1>0 DEF Inv, ConnShape, Fields, CloseConnection
<1>3. conn' = Closed(cs, i) /\ UNCHANGED <<srv, maint>>
  BY <1>0 DEF CloseConnection
<1>4. ConnShape' /\ \A j \in Slots : Calm(j)
  <2>1. ConnShape' /\ \A j \in Slots : Alike(cs[j], conn'[j])
    <3>1. \A j \in Slots : Fields \subseteq DOMAIN cs[j]
      BY <1>1
    <3>2. DOMAIN Closed(cs, i) = Slots /\ \A j \in Slots : Alike(cs[j], Closed(cs, i)[j])
      BY <3>1, ClosedFields
    <3> QED BY <1>3, <3>2 DEF ConnShape, Alike
  <2>2. \A j \in Slots : j # i => Calm(j)
    <3> SUFFICES ASSUME NEW j \in Slots, j # i PROVE Calm(j)
      OBVIOUS
    <3>1. cs[j] = conn[j] /\ Alike(cs[j], conn'[j])
      BY <2>1, <1>1
    <3> QED BY <3>1 DEF Alike, Calm, Quiet
  <2>3. Calm(i)
    <3>1. /\ Alike(cs[i], conn'[i]) /\ cs[i].inUse = conn[i].inUse
          /\ conn[i].closing => cs[i].closing
      BY <2>1, <1>1
    <3>2. CASE t = "recv"
      BY <3>1, <3>2, <1>2 DEF Alike, Calm, Quiet, Ended
    <3>3. CASE t = "send"
      BY <3>1, <3>3, <1>2 DEF Alike, Calm, Quiet, Ended
    <3> QED BY <3>2, <3>3
  <2> QED BY <2>1, <2>2, <2>3
<1> QED BY <1>3, <1>4, CalmStep

----------------------------------------------------------------------------
\* The server thread moves on without taking a slot.
LEMMA ServerMove ==
  ASSUME Inv, ConnShape', \A i \in Slots : Quiet(i), UNCHANGED maint,
         srv.pc # "stopped", DOMAIN srv' = DOMAIN srv, srv'.at = srv.at, srv'.pc # "spawn"
  PROVE  Inv' /\ Reuse
<1>1. Reuse
  BY DEF Reuse, Quiet, Ended
<1>2. FreeInv'
  BY DEF Inv, FreeInv, BothEnded, Quiet
<1>3. PcShape'
  BY DEF Inv, PcShape
<1>4. SpawnInv'
  BY DEF SpawnInv
<1>5. MaintInv'
  BY DEF Inv, MaintInv, Quiet
<1> QED BY <1>1, <1>2, <1>3, <1>4, <1>5 DEF Inv

\* Without a change of the slots all are quiet.
LEMMA SameConn == ASSUME Inv, UNCHANGED conn PROVE ConnShape' /\ \A i \in Slots : Quiet(i)
BY DEF Inv, ConnShape, Quiet

\* accept() returns: a free slot has no threads, and maintenance is elsewhere.
LEMMA AcceptStep == ASSUME Inv, AcceptReturns PROVE Inv' /\ Reuse
<1>1. CASE Accept
  <2>1. PICK i \in Slots, fd \in NewFds :
          FirstFree(i) /\ conn' = [conn EXCEPT ![i] = FreshConnection(fd)]
          /\ srv' = [srv EXCEPT !.pc = "spawn", !.at = i]
    BY <1>1 DEF Accept
  <2>2. ~conn[i].inUse /\ BothEnded(i)
    BY <2>1 DEF FirstFree, Free, Inv, FreeInv
  <2>3. srv.pc = "accept" /\ maint' = maint
    BY <1>1 DEF Accept, Accepting
  <2>4. \A j \in Slots : j # i => conn'[j] = conn[j]
    BY <2>1 DEF Inv, ConnShape
  <2>5. conn'[i] = FreshConnection(fd)
    BY <2>1 DEF Inv, ConnShape
  <2>6. conn'[i].inUse /\ ~conn'[i].closing /\ conn'[i].recv = "none" /\ conn'[i].send = "none"
    BY <2>5 DEF FreshConnection
  <2>7. ConnShape'
    <3>1. DOMAIN conn' = Slots
      BY <2>1 DEF Inv, ConnShape
    <3>2. Fields \subseteq DOMAIN FreshConnection(fd)
      BY DEF FreshConnection, Fields
    <3> QED BY <3>1, <3>2, <2>4, <2>5 DEF Inv, ConnShape
  <2>8. srv'.pc = "spawn" /\ srv'.at = i /\ DOMAIN srv' = DOMAIN srv
    BY <2>1 DEF Inv, PcShape
  <2>9. PcShape'
    BY <2>3, <2>8 DEF Inv, PcShape
  <2>10. FreeInv'
    BY <2>4, <2>6 DEF Inv, FreeInv, BothEnded
  <2>11. SpawnInv'
    BY <2>6, <2>8 DEF SpawnInv
  <2>12. MaintInv'
    BY <2>2, <2>3, <2>4 DEF Inv, MaintInv
  <2>13. Reuse
    BY <2>2, <2>4 DEF Reuse, BothEnded, Ended
  <2> QED BY <2>7, <2>9, <2>10, <2>11, <2>12, <2>13 DEF Inv
<1>2. CASE AcceptRefused \/ AcceptFails
  <2>1. /\ UNCHANGED <<conn, maint>> /\ srv.pc = "accept"
        /\ DOMAIN srv' = DOMAIN srv /\ srv'.at = srv.at /\ srv'.pc = "accept"
    BY <1>2 DEF AcceptRefused, AcceptFails, Accepting, Inv, PcShape
  <2> QED BY <2>1, SameConn, ServerMove
<1> QED BY <1>1, <1>2 DEF AcceptReturns

\* Nobody but the server thread touches a connection that is being set up.
LEMMA SpawnStep == ASSUME Inv, SpawnThreads \/ SetupFails PROVE Inv' /\ Reuse
<1>1. /\ srv.pc = "spawn" /\ srv.at \in Slots /\ maint' = maint
      /\ srv'.pc \in {"new", "check"} /\ srv'.at = srv.at /\ DOMAIN srv' = DOMAIN srv
  BY DEF SpawnThreads, SetupFails, Inv, PcShape
<1>2. /\ ConnShape'
      /\ \A j \in Slots :
           /\ conn'[j].inUse = conn[j].inUse
           /\ conn'[j].closing = conn[j].closing
           /\ j # srv.at => conn'[j] = conn[j]
  BY <1>1 DEF SpawnThreads, SetupFails, Inv, ConnShape, Fields
<1>3. FreeInv' /\ Reuse
  <2>1. conn[srv.at].inUse /\ conn[srv.at].recv \in Ended /\ conn[srv.at].send \in Ended
    BY <1>1 DEF Inv, SpawnInv, Ended
  <2>2. FreeInv'
    BY <1>1, <1>2, <2>1 DEF Inv, FreeInv, BothEnded
  <2>3. Reuse
    BY <1>2, <2>1 DEF Reuse, Ended
  <2> QED BY <2>2, <2>3
<1>4. PcShape' /\ SpawnInv'
  BY <1>1 DEF Inv, PcShape, SpawnInv
<1>5. MaintInv'
  <2>1. ~conn[srv.at].closing /\ ~maint.last
    BY <1>1 DEF Inv, SpawnInv, MaintInv
  <2> QED BY <1>1, <1>2, <2>1 DEF Inv, MaintInv
<1> QED BY <1>2, <1>3, <1>4, <1>5 DEF Inv

\* The other steps of the server's thread.
LEMMA ServerStep == ASSUME Inv, ServerThread PROVE Inv' /\ Reuse
<1>1. CASE SpawnThreads \/ SetupFails
  BY <1>1, SpawnStep
<1>2. CASE CreateSession
  <2>1. ConnShape' /\ \A i \in Slots : Quiet(i)
    BY <1>2 DEF CreateSession, Inv, ConnShape, PcShape, Quiet, Fields
  <2>2. /\ UNCHANGED maint /\ srv.pc # "stopped" /\ DOMAIN srv' = DOMAIN srv
        /\ srv'.at = srv.at /\ srv'.pc # "spawn"
    BY <1>2 DEF CreateSession, Inv, PcShape
  <2> QED BY <2>1, <2>2, ServerMove
<1>3. CASE RegisterSession \/ NewConnectionFails \/ ServerCloseCheck \/ ServerThreadStops
  <2>1. /\ UNCHANGED <<conn, maint>> /\ srv.pc # "stopped" /\ DOMAIN srv' = DOMAIN srv
        /\ srv'.at = srv.at /\ srv'.pc # "spawn"
    BY <1>3 DEF RegisterSession, NewConnectionFails, ServerCloseCheck, ServerThreadStops,
       Inv, PcShape
  <2> QED BY <2>1, SameConn, ServerMove
<1>4. CASE ServerClose
  <2>0. PICK cs : cs = [conn EXCEPT ![srv.at].closing = TRUE]
    OBVIOUS
  <2>1. \A j \in Slots :
          /\ Fields \subseteq DOMAIN cs[j]
          /\ cs[j].inUse = conn[j].inUse
          /\ conn[j].closing => cs[j].closing
          /\ cs[j].recv = conn[j].recv
          /\ cs[j].send = conn[j].send
    BY <2>0 DEF Inv, ConnShape, PcShape, Fields
  <2>2. conn' = Closed(cs, srv.at) /\ srv.at \in Slots
    BY <2>0, <1>4 DEF ServerClose, Inv, PcShape
  <2>3. \A j \in Slots : Fields \subseteq DOMAIN cs[j]
    BY <2>1
  <2>4. DOMAIN conn' = Slots /\ \A j \in Slots : Alike(cs[j], conn'[j])
    BY <2>2, <2>3, ClosedFields
  <2>5. ConnShape' /\ \A j \in Slots : Quiet(j)
    BY <2>1, <2>4 DEF ConnShape, Alike, Quiet
  <2>6. /\ UNCHANGED maint /\ srv.pc # "stopped" /\ DOMAIN srv' = DOMAIN srv
        /\ srv'.at = srv.at /\ srv'.pc # "spawn"
    BY <1>4 DEF ServerClose, Inv, PcShape
  <2> QED BY <2>5, <2>6, ServerMove
<1> QED BY <1>1, <1>2, <1>3, <1>4 DEF ServerThread

----------------------------------------------------------------------------
\* Maintenance moves on without touching a connection.
LEMMA MaintMove ==
  ASSUME Inv, UNCHANGED <<conn, srv>>, PcShape', MaintInv'
  PROVE  Inv' /\ Reuse
<1>1. ConnShape' /\ FreeInv' /\ SpawnInv'
  BY DEF Inv, ConnShape, FreeInv, SpawnInv, BothEnded
<1>2. Reuse
  BY DEF Reuse, Ended
<1> QED BY <1>1, <1>2 DEF Inv

\* The other steps of a maintenance sweep.
LEMMA SweepStep ==
  ASSUME Inv, SkipConnection \/ on_connection_closing \/ JoinReceive \/ LeaveZombie \/ SweepEnds
  PROVE  Inv' /\ Reuse
<1> USE NetworkAssumption DEF Inv, PcShape
<1>1. CASE SkipConnection \/ LeaveZombie
  <2>1. maint.at \in Slots
    BY <1>1 DEF SkipConnection, InSweep, LeaveZombie, MaintInv, Slots
  <2>2. /\ UNCHANGED <<conn, srv>> /\ maint'.pc = "sweep" /\ maint'.at = maint.at + 1
        /\ maint'.last = maint.last /\ DOMAIN maint' = DOMAIN maint
    BY <1>1 DEF SkipConnection, InSweep, LeaveZombie
  <2>3. PcShape'
    BY <2>1, <2>2 DEF Slots
  <2>4. MaintInv'
    BY <2>2 DEF MaintInv
  <2> QED BY <2>2, <2>3, <2>4, MaintMove
<1>2. CASE on_connection_closing
  <2>1. maint.at \in Slots /\ Due(maint.at)
    BY <1>2 DEF on_connection_closing, InSweep, Slots
  <2>2. /\ UNCHANGED <<conn, srv>> /\ maint'.pc \in {"socket", "forget"}
        /\ maint'.at = maint.at /\ maint'.last = maint.last /\ DOMAIN maint' = DOMAIN maint
    BY <1>2 DEF on_connection_closing
  <2>3. PcShape'
    BY <2>2
  <2>4. MaintInv'
    BY <2>1, <2>2 DEF MaintInv, Due
  <2> QED BY <2>2, <2>3, <2>4, MaintMove
<1>3. CASE JoinReceive
  <2>1. /\ UNCHANGED <<conn, srv>> /\ maint.pc = "joinRecv" /\ maint'.pc = "joinSend"
        /\ maint'.at = maint.at /\ maint'.last = maint.last /\ DOMAIN maint' = DOMAIN maint
    BY <1>3 DEF JoinReceive
  <2>2. conn[maint.at].recv \in Ended
    BY <1>3 DEF JoinReceive, Joined, Ended
  <2>3. PcShape'
    BY <2>1
  <2>4. MaintInv'
    BY <2>1, <2>2 DEF MaintInv
  <2> QED BY <2>1, <2>3, <2>4, MaintMove
<1>4. CASE SweepEnds
  <2>1. UNCHANGED <<conn, srv>> /\ DOMAIN maint' = DOMAIN maint
    BY <1>4 DEF SweepEnds
  <2>2. CASE maint.last
    <3>1. maint'.pc = "ended" /\ maint'.at = maint.at /\ srv.pc = "stopped"
      BY <1>4, <2>2 DEF SweepEnds, MaintInv
    <3> QED BY <2>1, <3>1, MaintMove DEF MaintInv
  <2>3. CASE ~maint.last
    <3>1. maint'.pc = "sweep" /\ maint'.at = 1 /\ (maint'.last => srv.pc = "stopped")
      BY <1>4, <2>3 DEF SweepEnds
    <3>2. PcShape'
      BY <2>1, <3>1
    <3>3. MaintInv'
      BY <2>1, <3>1 DEF MaintInv
    <3> QED BY <2>1, <3>2, <3>3, MaintMove
  <2> QED BY <2>2, <2>3
<1> QED BY <1>1, <1>2, <1>3, <1>4

\* Maintenance and the server thread never work on the same slot.
LEMMA Apart ==
  ASSUME Inv, maint.pc \in {"forget", "socket", "joinRecv", "joinSend"}
  PROVE  maint.at \in Slots /\ ~(srv.pc = "spawn" /\ srv.at = maint.at)
BY DEF Inv, MaintInv, SpawnInv

\* Maintenance changes the connection it works on, and no other.
LEMMA EndMove ==
  ASSUME Inv, maint.pc \in {"forget", "socket"}, ConnShape', \A j \in Slots : Quiet(j),
         \A j \in Slots : conn'[j].closing => conn[j].closing \/ j = maint.at,
         UNCHANGED srv, maint'.pc \in {"socket", "joinRecv"}, maint'.at = maint.at,
         maint'.last = maint.last, DOMAIN maint' = DOMAIN maint
  PROVE  Inv' /\ Reuse
<1>1. Reuse /\ FreeInv'
  BY DEF Reuse, Quiet, Ended, Inv, FreeInv, BothEnded
<1>2. PcShape'
  BY DEF Inv, PcShape
<1>3. SpawnInv'
  <2>1. srv.at \in Slots /\ Quiet(srv.at)
    BY DEF Inv, PcShape
  <2>2. ASSUME srv.pc = "spawn" PROVE SpawnInv'
    <3>1. srv.at # maint.at
      BY <2>2, Apart
    <3>2. /\ conn[srv.at].inUse /\ ~conn[srv.at].closing
          /\ conn[srv.at].recv = "none" /\ conn[srv.at].send = "none"
      BY <2>2 DEF Inv, SpawnInv
    <3>3. /\ conn'[srv.at].inUse /\ ~conn'[srv.at].closing
          /\ conn'[srv.at].recv = "none" /\ conn'[srv.at].send = "none"
      BY <2>1, <3>1, <3>2 DEF Quiet, Ended
    <3> QED BY <3>3 DEF SpawnInv
  <2> QED BY <2>2 DEF SpawnInv
<1>4. MaintInv'
  BY DEF Inv, MaintInv, Quiet
<1> QED BY <1>1, <1>2, <1>3, <1>4 DEF Inv

\* What ShutSocket makes of the connections.
LEMMA ShutFields ==
  ASSUME Inv, ShutSocket
  PROVE  /\ ConnShape' /\ \A j \in Slots : Quiet(j)
         /\ \A j \in Slots : conn'[j].closing => conn[j].closing \/ j = maint.at
<1>1. maint.at \in Slots
  BY Apart DEF ShutSocket
<1>2. PICK told : told = [conn EXCEPT ![maint.at].shutdown = TRUE]
  OBVIOUS
<1>3. PICK read : read = UnblockReceive(told, maint.at)
  OBVIOUS
<1>4. PICK shut : shut = [read EXCEPT ![maint.at].socketClosed = TRUE]
  OBVIOUS
<1>5. PICK closed : closed = [shut EXCEPT ![maint.at].closing = TRUE]
  OBVIOUS
<1>6. conn' \in {told, shut, Closed(closed, maint.at)}
  BY <1>2, <1>3, <1>4, <1>5 DEF ShutSocket
<1> DEFINE Near(cs) ==
      /\ DOMAIN cs = Slots
      /\ \A j \in Slots :
           /\ Fields \subseteq DOMAIN cs[j]
           /\ cs[j].inUse = conn[j].inUse
           /\ conn[j].closing => cs[j].closing
           /\ cs[j].closing => conn[j].closing \/ j = maint.at
           /\ cs[j].recv = conn[j].recv
           /\ cs[j].send = conn[j].send
<1>7. Near(told)
  BY <1>1, <1>2 DEF Inv, ConnShape, Fields
<1>8. Near(read)
  <2>1. \A j \in Slots : Fields \subseteq DOMAIN told[j]
    BY <1>7
  <2>2. DOMAIN read = Slots /\ \A j \in Slots : Alike(told[j], read[j])
    BY <2>1, <1>1, <1>3, ReadShutFields DEF UnblockReceive
  <2> QED BY <2>2, <1>7 DEF Alike
<1>9. Near(shut)
  BY <1>1, <1>4, <1>8 DEF Fields
<1>10. Near(closed)
  BY <1>1, <1>5, <1>9 DEF Fields
<1>11. Near(Closed(closed, maint.at))
  <2>1. \A j \in Slots : Fields \subseteq DOMAIN closed[j]
    BY <1>10
  <2>2. /\ DOMAIN Closed(closed, maint.at) = Slots
        /\ \A j \in Slots : Alike(closed[j], Closed(closed, maint.at)[j])
    BY <2>1, <1>1, ClosedFields
  <2> QED BY <2>2, <1>10 DEF Alike
<1>12. Near(conn')
  BY <1>6, <1>7, <1>9, <1>11
<1> QED BY <1>12 DEF ConnShape, Quiet

\* Maintenance ends the connection it works on; its slot is released last.
LEMMA EndStep ==
  ASSUME Inv, ForgetHandler \/ ShutSocket \/ ReleaseSlot
  PROVE  Inv' /\ Reuse
<1>1. CASE ForgetHandler
  <2>1. /\ ConnShape' /\ \A j \in Slots : Quiet(j)
        /\ \A j \in Slots : conn'[j].closing => conn[j].closing
    BY <1>1, Apart DEF ForgetHandler, Inv, ConnShape, Quiet, Fields
  <2>2. /\ UNCHANGED srv /\ maint.pc = "forget" /\ maint'.pc = "socket" /\ maint'.at = maint.at
        /\ maint'.last = maint.last /\ DOMAIN maint' = DOMAIN maint
    BY <1>1 DEF ForgetHandler, Inv, PcShape
  <2> QED BY <2>1, <2>2, EndMove
<1>2. CASE ShutSocket
  <2>1. /\ UNCHANGED srv /\ maint.pc = "socket" /\ maint'.pc = "joinRecv" /\ maint'.at = maint.at
        /\ maint'.last = maint.last /\ DOMAIN maint' = DOMAIN maint
    BY <1>2 DEF ShutSocket, Inv, PcShape
  <2> QED BY <1>2, <2>1, ShutFields, EndMove
<1>3. CASE ReleaseSlot
  <2>1. /\ UNCHANGED srv /\ maint.pc = "joinSend" /\ maint'.pc = "sweep"
        /\ maint'.at = maint.at + 1 /\ maint'.last = maint.last /\ DOMAIN maint' = DOMAIN maint
    BY <1>3 DEF ReleaseSlot, Inv, PcShape
  <2>2. maint.at \in Slots /\ ~(srv.pc = "spawn" /\ srv.at = maint.at)
    BY <2>1, Apart
  <2>3. BothEnded(maint.at)
    BY <1>3, <2>1 DEF ReleaseSlot, Joined, Inv, MaintInv, BothEnded, Ended
  <2>4. /\ ConnShape'
        /\ \A j \in Slots : j # maint.at => conn'[j] = conn[j]
        /\ conn'[maint.at].recv = conn[maint.at].recv
        /\ conn'[maint.at].send = conn[maint.at].send
    BY <1>3, <2>2 DEF ReleaseSlot, Inv, ConnShape, Fields
  <2>5. FreeInv' /\ Reuse
    BY <2>3, <2>4 DEF Inv, FreeInv, Reuse, BothEnded, Ended
  <2>6. PcShape'
    BY <2>1, <2>2, NetworkAssumption DEF Inv, PcShape, Slots
  <2>7. SpawnInv'
    BY <2>1, <2>2, <2>4 DEF Inv, PcShape, SpawnInv
  <2>8. MaintInv'
    BY <2>1 DEF Inv, MaintInv
  <2> QED BY <2>4, <2>5, <2>6, <2>7, <2>8 DEF Inv
<1> QED BY <1>1, <1>2, <1>3

----------------------------------------------------------------------------
\* Every step preserves the invariant and clears no slot under a thread.
LEMMA NextInv == ASSUME Inv, [Next]_vars PROVE Inv' /\ Reuse
<1>1. CASE AcceptReturns
  BY <1>1, AcceptStep
<1>2. CASE ServerThread
  BY <1>2, ServerStep
<1>3. CASE Maintenance
  BY <1>3, SweepStep, EndStep DEF Maintenance
<1>4. ASSUME NEW i \in Slots,
             \/ ReceiveThread(i) \/ ReceiveChunk(i) \/ SendThreadEnds(i) \/ SendFails(i)
             \/ SendBlocks(i) \/ SendReturns(i) \/ ClientLeaves(i)
      PROVE  Inv' /\ Reuse
  BY <1>4, ThreadStep
<1>5. ASSUME NEW i \in Slots, NEW t \in {"recv", "send"}, ThreadCloses(i, t)
      PROVE  Inv' /\ Reuse
  BY <1>5, ThreadStep, CloseStep DEF ThreadCloses
<1>6. CASE BeginDestroy \/ JoinServerThread \/ JoinMaintenanceThread \/ Destroyed \/ UNCHANGED vars
  <2>1. UNCHANGED <<conn, srv, maint>>
    BY <1>6 DEF BeginDestroy, JoinServerThread, JoinMaintenanceThread, Destroyed, vars
  <2>2. PcShape' /\ MaintInv'
    BY <2>1 DEF Inv, PcShape, MaintInv
  <2> QED BY <2>1, <2>2, MaintMove
<1> QED BY <1>1, <1>2, <1>3, <1>4, <1>5, <1>6 DEF Next

\* The inductive invariant: free slots have no threads, nobody closes a slot
\* that is being set up, maintenance keeps to slots in use.
THEOREM Invariance == Spec => []Inv
<1>1. Init => Inv
  BY InitInv
<1>2. Inv /\ [Next]_vars => Inv'
  BY NextInv
<1> QED BY <1>1, <1>2, PTL DEF Spec

\* A slot is only cleared for a new connection (memset in run_server_thread)
\* after both threads of the former one have ended, for every number of slots,
\* clients and failures.
THEOREM SlotSafety == Spec => SlotReusedAfterJoin
<1>1. Inv /\ [Next]_vars =>
        [\A i \in Slots : \A t \in {"recv", "send"} :
           conn'[i][t] = "none" => conn[i][t] \in {"none", "done"}]_vars
  BY NextInv DEF Reuse, Ended
<1> QED BY <1>1, Invariance, PTL DEF Spec, SlotReusedAfterJoin

----------------------------------------------------------------------------
(* Types. *)

\* While a connection is set up it is one of the accepted ones, and the limit of
\* errors is not yet reached.
SetupInv ==
  srv.pc \in {"spawn", "new", "register"} => accepted \in Sessions /\ srv.errors < MaxErrors

TInv == TypeOK /\ SetupInv

ServerStates ==
  [pc : {"accept", "spawn", "new", "register", "check", "close", "stopped"},
   at : Slots, errors : 0 .. MaxErrors]
MaintStates ==
  [pc : {"sweep", "forget", "socket", "joinRecv", "joinSend", "ended"},
   at : 1 .. NSlots + 1, last : BOOLEAN]
Conns == [Slots -> Connection]

\* Closing or shutting a descriptor keeps the slots' types ...
LEMMA SocketTypes ==
  ASSUME NEW cs \in Conns, NEW i \in Slots
  PROVE  Closed(cs, i) \in Conns /\ ReadShut(cs, i) \in Conns
<1>1. ASSUME NEW j \in Slots, NEW x \in BOOLEAN, NEW y \in BOOLEAN
      PROVE  /\ [cs[j] EXCEPT !.cut = x] \in Connection
             /\ [cs[j] EXCEPT !.eof = y, !.cut = x] \in Connection
  <2>1. cs[j] \in Connection  BY DEF Conns
  <2> QED BY <2>1 DEF Connection
<1>2. \A j \in Slots : cs[j].cut \in BOOLEAN /\ cs[j].eof \in BOOLEAN
  BY DEF Conns, Connection
<1>3. ASSUME NEW j \in Slots
      PROVE  Closed(cs, i)[j] \in Connection /\ ReadShut(cs, i)[j] \in Connection
  <2> DEFINE x == cs[j].cut \/ (j # i /\ fdOf[cs[i].sd] = j)
             y == cs[j].eof \/ fdOf[cs[i].sd] = j
  <2>1. x \in BOOLEAN /\ y \in BOOLEAN  BY <1>2
  <2>2. /\ Closed(cs, i)[j] = [cs[j] EXCEPT !.cut = x]
        /\ ReadShut(cs, i)[j] = [cs[j] EXCEPT !.eof = y, !.cut = x]
    BY DEF Closed, ReadShut
  <2> HIDE DEF x, y
  <2>3. /\ [cs[j] EXCEPT !.cut = x] \in Connection
        /\ [cs[j] EXCEPT !.eof = y, !.cut = x] \in Connection
    BY <2>1, <1>1, Zenon
  <2> QED BY <2>2, <2>3, Zenon
<1>4. /\ Closed(cs, i) = [j \in Slots |-> Closed(cs, i)[j]]
      /\ ReadShut(cs, i) = [j \in Slots |-> ReadShut(cs, i)[j]]
  BY DEF Closed, ReadShut
<1> QED BY <1>3, <1>4 DEF Conns

\* ... as does a flag that is set or reset ...
LEMMA FlagTypes ==
  ASSUME NEW cs \in Conns, NEW i \in Slots, NEW b \in BOOLEAN
  PROVE  /\ [cs EXCEPT ![i].inUse = b] \in Conns /\ [cs EXCEPT ![i].closing = b] \in Conns
         /\ [cs EXCEPT ![i].shutdown = b] \in Conns
         /\ [cs EXCEPT ![i].socketClosed = b] \in Conns
<1>1. cs[i] \in Connection  BY DEF Conns
<1>2. [cs[i] EXCEPT !.inUse = b] \in Connection  BY <1>1 DEF Connection
<1>3. [cs[i] EXCEPT !.closing = b] \in Connection  BY <1>1 DEF Connection
<1>4. [cs[i] EXCEPT !.shutdown = b] \in Connection  BY <1>1 DEF Connection
<1>5. [cs[i] EXCEPT !.socketClosed = b] \in Connection  BY <1>1 DEF Connection
<1>6. \A d \in Connection : [cs EXCEPT ![i] = d] \in Conns  BY DEF Conns
<1> QED BY <1>2, <1>3, <1>4, <1>5, <1>6

\* ... and those of the descriptors.
LEMMA FdTypes ==
  ASSUME conn \in Conns, fdOf \in [Fds -> Slots \union {0}], NEW i \in Slots
  PROVE  FdClosed(i) \in [Fds -> Slots \union {0}]
BY DEF FdClosed, Conns, Connection

\* What TInv says of each variable.
LEMMA Types ==
  TypeOK <=> /\ conn \in Conns /\ fdOf \in [Fds -> Slots \union {0}]
             /\ phase \in [Sessions -> Phases] /\ registered \in SUBSET Sessions
             /\ accepted \in 0 .. MaxSessions /\ lines \in 0 .. MaxLines
             /\ srv \in ServerStates /\ maint \in MaintStates
             /\ main \in {"serving", "shutdown", "joined", "destroyed", "failed"}
BY DEF TypeOK, Conns, ServerStates, MaintStates

\* accept() returns.
LEMMA AcceptTypes == ASSUME TInv, AcceptReturns PROVE TInv'
<1>1. /\ TypeOK /\ conn \in Conns /\ fdOf \in [Fds -> Slots \union {0}] /\ srv \in ServerStates
      /\ accepted \in 0 .. MaxSessions
  BY Types DEF TInv
<1>2. /\ UNCHANGED <<phase, registered, maint, main, lines>> /\ srv.pc = "accept"
      /\ srv.errors < MaxErrors
  BY DEF AcceptReturns, Accept, AcceptRefused, AcceptFails, Accepting
<1>3. CASE Accept
  <2>1. PICK i \in Slots, fd \in NewFds :
          /\ fdOf' = [fdOf EXCEPT ![fd] = i] /\ conn' = [conn EXCEPT ![i] = FreshConnection(fd)]
          /\ srv' = [srv EXCEPT !.pc = "spawn", !.at = i]
    BY <1>3 DEF Accept
  <2>2. accepted' = accepted + 1 /\ accepted < MaxSessions  BY <1>3 DEF Accept
  <2>3. fd \in Fds
    BY <2>2, <1>1, NetworkAssumption DEF NewFds, Fds
  <2>4. FreshConnection(fd) \in Connection
    BY <2>3 DEF FreshConnection, Connection, ThreadPcs
  <2>5. conn' \in Conns /\ fdOf' \in [Fds -> Slots \union {0}]
    BY <2>1, <2>3, <2>4, <1>1 DEF Conns
  <2>6. srv' \in ServerStates /\ srv'.errors = srv.errors  BY <2>1, <1>1 DEF ServerStates
  <2>7. accepted' \in 0 .. MaxSessions /\ accepted' \in Sessions
    BY <2>2, <1>1, NetworkAssumption DEF Sessions
  <2>8. TypeOK'  BY <2>5, <2>6, <2>7, <1>1, <1>2 DEF TypeOK, Conns, ServerStates
  <2>9. SetupInv'  BY <2>6, <2>7, <1>2 DEF SetupInv
  <2> QED BY <2>8, <2>9 DEF TInv
<1>4. CASE AcceptRefused
  <2>1. /\ UNCHANGED <<conn, fdOf, srv>> /\ accepted' = accepted + 1
        /\ accepted < MaxSessions
    BY <1>4 DEF AcceptRefused
  <2>2. accepted' \in 0 .. MaxSessions  BY <2>1, <1>1, NetworkAssumption
  <2> QED BY <2>1, <2>2, <1>1, <1>2 DEF TInv, TypeOK, SetupInv
<1>5. CASE AcceptFails
  <2>1. /\ UNCHANGED <<conn, fdOf, accepted>> /\ srv' = [srv EXCEPT !.errors = @ + 1]
    BY <1>5 DEF AcceptFails
  <2>2. srv.errors + 1 \in 0 .. MaxErrors
    BY <1>1, <1>2, NetworkAssumption DEF ServerStates
  <2>3. srv' \in ServerStates /\ srv'.pc = "accept"  BY <2>1, <2>2, <1>1, <1>2 DEF ServerStates
  <2>4. TypeOK'  BY <2>1, <2>3, <1>1, <1>2 DEF TypeOK, ServerStates
  <2>5. SetupInv'  BY <2>3 DEF SetupInv
  <2> QED BY <2>4, <2>5 DEF TInv
<1> QED BY <1>3, <1>4, <1>5 DEF AcceptReturns

\* The other steps of the server thread.
LEMMA ServerTypes == ASSUME TInv, ServerThread PROVE TInv'
<1>1. /\ TypeOK /\ conn \in Conns /\ fdOf \in [Fds -> Slots \union {0}] /\ srv \in ServerStates
      /\ phase \in [Sessions -> Phases] /\ registered \in SUBSET Sessions /\ SetupInv
      /\ srv.at \in Slots
  BY Types DEF TInv, ServerStates
<1>2. UNCHANGED <<accepted, maint, main, lines>>
  BY DEF ServerThread, SpawnThreads, SetupFails, CreateSession, RegisterSession,
     NewConnectionFails, ServerCloseCheck, ServerClose, ServerThreadStops
<1>3. ASSUME srv.pc \in {"spawn", "new", "register"} PROVE srv.errors + 1 \in 0 .. MaxErrors
  BY <1>1, <1>3, NetworkAssumption DEF ServerStates, SetupInv
<1>4. srv' \in ServerStates /\ SetupInv'
  <2>1. CASE SpawnThreads
    <3>1. srv.pc = "spawn" /\ srv' = [srv EXCEPT !.pc = "new"]  BY <2>1 DEF SpawnThreads
    <3>2. srv' \in ServerStates /\ srv'.errors = srv.errors  BY <3>1, <1>1 DEF ServerStates
    <3> QED BY <3>1, <3>2, <1>1, <1>2 DEF SetupInv
  <2>2. CASE CreateSession
    <3>1. srv.pc = "new" /\ srv' = [srv EXCEPT !.pc = "register"]  BY <2>2 DEF CreateSession
    <3>2. srv' \in ServerStates /\ srv'.errors = srv.errors  BY <3>1, <1>1 DEF ServerStates
    <3> QED BY <3>1, <3>2, <1>1, <1>2 DEF SetupInv
  <2>3. CASE SetupFails \/ NewConnectionFails
    <3>1. /\ srv.pc \in {"spawn", "new", "register"}
          /\ srv' = [srv EXCEPT !.pc = "check", !.errors = @ + 1]
      BY <2>3 DEF SetupFails, NewConnectionFails
    <3>2. srv' \in ServerStates /\ srv'.pc = "check"
      BY <3>1, <1>1, <1>3 DEF ServerStates
    <3> QED BY <3>2 DEF SetupInv
  <2>4. CASE RegisterSession
    <3>1. srv' = [srv EXCEPT !.pc = "accept", !.errors = 0]  BY <2>4 DEF RegisterSession
    <3>2. 0 \in 0 .. MaxErrors  BY NetworkAssumption
    <3>3. srv' \in ServerStates /\ srv'.pc = "accept"  BY <3>1, <3>2, <1>1 DEF ServerStates
    <3> QED BY <3>3 DEF SetupInv
  <2>5. CASE ServerCloseCheck \/ ServerClose \/ ServerThreadStops
    <3>1. PICK pc \in {"accept", "close", "stopped"} : srv' = [srv EXCEPT !.pc = pc]
      BY <2>5 DEF ServerCloseCheck, ServerClose, ServerThreadStops
    <3>2. srv' \in ServerStates /\ srv'.pc = pc  BY <3>1, <1>1 DEF ServerStates
    <3> QED BY <3>2 DEF SetupInv
  <2> QED BY <2>1, <2>2, <2>3, <2>4, <2>5 DEF ServerThread
<1>5. /\ conn' \in Conns /\ fdOf' \in [Fds -> Slots \union {0}]
      /\ phase' \in [Sessions -> Phases] /\ registered' \in SUBSET Sessions
  <2>1. CASE SpawnThreads \/ SetupFails
    <3>1. /\ UNCHANGED <<fdOf, phase, registered>>
          /\ \E s, r \in ThreadPcs :
               conn' \in {[conn EXCEPT ![srv.at].send = s],
                          [conn EXCEPT ![srv.at].send = s, ![srv.at].recv = r]}
      BY <2>1 DEF SpawnThreads, SetupFails, ThreadPcs
    <3>2. conn' \in Conns  BY <3>1, <1>1 DEF Conns, Connection
    <3> QED BY <3>1, <3>2, <1>1
  <2>2. CASE CreateSession
    <3>1. /\ UNCHANGED <<fdOf, registered>> /\ accepted \in Sessions
          /\ conn' = [conn EXCEPT ![srv.at].handler = accepted]
          /\ phase' = [phase EXCEPT ![accepted] = "version"]
      BY <2>2, <1>1 DEF CreateSession, SetupInv
    <3>2. conn' \in Conns  BY <3>1, <1>1 DEF Conns, Connection
    <3>3. phase' \in [Sessions -> Phases]  BY <3>1, <1>1 DEF Phases
    <3> QED BY <3>1, <3>2, <3>3, <1>1
  <2>3. CASE RegisterSession \/ NewConnectionFails
    <3>1. /\ UNCHANGED <<conn, fdOf, phase>> /\ accepted \in Sessions
          /\ registered' \in {registered, registered \union {accepted}}
      BY <2>3, <1>1 DEF RegisterSession, NewConnectionFails, SetupInv
    <3> QED BY <3>1, <1>1
  <2>4. CASE ServerCloseCheck \/ ServerThreadStops
    BY <2>4, <1>1 DEF ServerCloseCheck, ServerThreadStops
  <2>5. CASE ServerClose
    <3> DEFINE cs == [conn EXCEPT ![srv.at].closing = TRUE]
    <3>1. /\ UNCHANGED <<phase, registered>> /\ conn' = Closed(cs, srv.at)
          /\ fdOf' = FdClosed(srv.at)
      BY <2>5 DEF ServerClose
    <3>2. cs \in Conns  BY <1>1, FlagTypes
    <3> HIDE DEF cs
    <3> QED BY <3>1, <3>2, <1>1, SocketTypes, FdTypes
  <2> QED BY <2>1, <2>2, <2>3, <2>4, <2>5 DEF ServerThread
<1>6. TypeOK'  BY <1>1, <1>2, <1>4, <1>5 DEF TypeOK, Conns, ServerStates
<1> QED BY <1>4, <1>6 DEF TInv

\* The threads of a slot and its client.
LEMMA SlotTypes ==
  ASSUME TInv, NEW i \in Slots,
         \/ ReceiveThread(i) \/ ReceiveChunk(i) \/ SendThreadEnds(i) \/ SendFails(i)
         \/ SendBlocks(i) \/ SendReturns(i) \/ ClientLeaves(i) \/ \E t \in {"recv", "send"} : ThreadCloses(i, t)
  PROVE  TInv'
<1>1. /\ TypeOK /\ conn \in Conns /\ fdOf \in [Fds -> Slots \union {0}]
      /\ phase \in [Sessions -> Phases] /\ lines \in 0 .. MaxLines /\ SetupInv
      /\ conn[i] \in Connection
  BY Types DEF TInv, Conns
<1>2. ASSUME UNCHANGED <<registered, accepted, srv, maint, main>>,
             conn' \in Conns, fdOf' \in [Fds -> Slots \union {0}],
             phase' \in [Sessions -> Phases], lines' \in 0 .. MaxLines
      PROVE  TInv'
  BY <1>1, <1>2 DEF TInv, TypeOK, SetupInv, Conns
<1>3. ASSUME NEW p \in ThreadPcs
      PROVE  [conn EXCEPT ![i].recv = p] \in Conns /\ [conn EXCEPT ![i].send = p] \in Conns
  BY <1>1 DEF Conns, Connection
<1>4. {"head", "blocked", "line", "call", "check", "close", "done"} \subseteq ThreadPcs
  BY DEF ThreadPcs
<1>5. CASE ReceiveHead(i) \/ ReceiveEnds(i) \/ LineCheck(i) \/ LineWithoutSession(i)
  <2>1. /\ UNCHANGED <<fdOf, phase, lines, registered, accepted, srv, maint, main>>
        /\ \E p \in ThreadPcs : conn' = [conn EXCEPT ![i].recv = p]
    BY <1>4, <1>5 DEF ReceiveHead, ReceiveEnds, LineCheck, LineWithoutSession
  <2> QED BY <2>1, <1>1, <1>2, <1>3
<1>6. CASE on_line_received(i)
  <2>1. /\ UNCHANGED <<fdOf, lines, registered, accepted, srv, maint, main>>
        /\ \E p \in ThreadPcs : conn' = [conn EXCEPT ![i].recv = p]
    BY <1>4, <1>6 DEF on_line_received, FailHandshake
  <2>2. conn[i].handler \in Sessions  BY <1>1, <1>6 DEF on_line_received, Usable, Connection
  <2>3. ASSUME NEW p \in Phases PROVE NextPhase(p) \in Phases  BY <2>3 DEF NextPhase, Phases
  <2>4. \/ phase' = [phase EXCEPT ![conn[i].handler] = NextPhase(@)]
        \/ phase' = [phase EXCEPT ![conn[i].handler] = "failed"]
        \/ phase' = phase
    BY <1>6 DEF on_line_received, FailHandshake
  <2>5. NextPhase(phase[conn[i].handler]) \in Phases /\ "failed" \in Phases
    BY <2>2, <2>3, <1>1 DEF Phases
  <2>6. phase' \in [Sessions -> Phases]  BY <2>2, <2>4, <2>5, <1>1
  <2> QED BY <2>1, <2>6, <1>1, <1>2, <1>3
<1>7. CASE ReceiveChunk(i)
  <2>1. /\ UNCHANGED <<fdOf, phase, registered, accepted, srv, maint, main>>
        /\ lines < MaxLines /\ lines' = lines + 1 /\ conn' = [conn EXCEPT ![i].recv = "line"]
    BY <1>7 DEF ReceiveChunk
  <2>2. lines' \in 0 .. MaxLines  BY <2>1, <1>1, NetworkAssumption
  <2> QED BY <2>1, <2>2, <1>1, <1>2, <1>3, <1>4
<1>8. CASE SendThreadEnds(i) \/ SendFails(i) \/ SendBlocks(i) \/ SendReturns(i)
  <2>1. /\ UNCHANGED <<fdOf, phase, lines, registered, accepted, srv, maint, main>>
        /\ \E p \in ThreadPcs : conn' = [conn EXCEPT ![i].send = p]
    BY <1>8 DEF SendThreadEnds, SendFails, SendBlocks, SendReturns, ThreadPcs
  <2> QED BY <2>1, <1>1, <1>2, <1>3, <1>4
<1>9. CASE ClientLeaves(i)
  <2>1. /\ UNCHANGED <<fdOf, phase, lines, registered, accepted, srv, maint, main>>
        /\ conn' = [conn EXCEPT ![i].left = TRUE, ![i].eof = TRUE]
    BY <1>9 DEF ClientLeaves
  <2>2. conn' \in Conns  BY <2>1, <1>1 DEF Conns, Connection
  <2> QED BY <2>1, <2>2, <1>1, <1>2
<1>10. ASSUME NEW t \in {"recv", "send"}, CloseCheck(i, t) PROVE TInv'
  <2>1. /\ UNCHANGED <<fdOf, phase, lines, registered, accepted, srv, maint, main>>
        /\ \E p \in ThreadPcs : conn' = [conn EXCEPT ![i][t] = p]
    BY <1>4, <1>10 DEF CloseCheck
  <2>2. conn' \in Conns
    <3>1. CASE t = "recv"  BY <3>1, <2>1, <1>3
    <3>2. CASE t = "send"  BY <3>2, <2>1, <1>3
    <3> QED BY <3>1, <3>2
  <2> QED BY <2>1, <2>2, <1>1, <1>2
<1>11. ASSUME NEW t \in {"recv", "send"}, CloseConnection(i, t) PROVE TInv'
  <2> DEFINE cs == [conn EXCEPT ![i].closing = TRUE, ![i][t] = "done"]
  <2>1. /\ UNCHANGED <<phase, lines, registered, accepted, srv, maint, main>>
        /\ conn' = Closed(cs, i) /\ fdOf' = FdClosed(i)
    BY <1>11 DEF CloseConnection
  <2>2. cs \in Conns
    <3>1. CASE t = "recv"  BY <3>1, <1>1 DEF Conns, Connection, ThreadPcs
    <3>2. CASE t = "send"  BY <3>2, <1>1 DEF Conns, Connection, ThreadPcs
    <3> QED BY <3>1, <3>2
  <2> HIDE DEF cs
  <2>3. conn' \in Conns /\ fdOf' \in [Fds -> Slots \union {0}]
    BY <2>1, <2>2, <1>1, SocketTypes, FdTypes
  <2> QED BY <2>1, <2>3, <1>1, <1>2
<1> QED BY <1>5, <1>6, <1>7, <1>8, <1>9, <1>10, <1>11 DEF ReceiveThread, ThreadCloses

\* Maintenance; that it works on a slot when it is inside one is part of Inv.
LEMMA MaintenanceTypes == ASSUME Inv, TInv, Maintenance PROVE TInv'
<1> DEFINE i == maint.at
<1>1. /\ TypeOK /\ conn \in Conns /\ fdOf \in [Fds -> Slots \union {0}]
      /\ phase \in [Sessions -> Phases] /\ registered \in SUBSET Sessions
      /\ maint \in MaintStates /\ SetupInv /\ MaintInv
  BY Types DEF TInv, Inv
<1>2. UNCHANGED <<accepted, srv, main, lines>>
  BY DEF Maintenance, SkipConnection, on_connection_closing, ForgetHandler, ShutSocket,
     JoinReceive, ReleaseSlot, LeaveZombie, SweepEnds
<1>3. ASSUME conn' \in Conns, fdOf' \in [Fds -> Slots \union {0}],
             phase' \in [Sessions -> Phases], registered' \in SUBSET Sessions,
             maint' \in MaintStates
      PROVE  TInv'
  BY <1>1, <1>2, <1>3 DEF TInv, TypeOK, SetupInv, Conns, MaintStates
<1>4. /\ 1 \in 1 .. NSlots + 1
      /\ i <= NSlots => i \in Slots /\ i + 1 \in 1 .. NSlots + 1
      /\ i \in Slots => i + 1 \in 1 .. NSlots + 1
  BY <1>1, NetworkAssumption DEF MaintStates, Slots
<1>5. ASSUME maint.pc \in {"forget", "socket", "joinRecv", "joinSend"} PROVE i \in Slots
  BY <1>1, <1>5 DEF MaintInv
<1>6. ASSUME i + 1 \in 1 .. NSlots + 1, maint.pc = "sweep" \/ maint.pc = "joinSend"
      PROVE  [maint EXCEPT !.pc = "sweep", !.at = @ + 1] \in MaintStates
             /\ [maint EXCEPT !.at = @ + 1] \in MaintStates
  BY <1>1, <1>6 DEF MaintStates
<1>7. ASSUME NEW pc \in {"sweep", "forget", "socket", "joinRecv", "joinSend", "ended"}
      PROVE  [maint EXCEPT !.pc = pc] \in MaintStates
  BY <1>1 DEF MaintStates
<1>8. CASE SkipConnection
  <2>1. /\ UNCHANGED <<conn, fdOf, phase, registered>> /\ maint.pc = "sweep" /\ i <= NSlots
        /\ maint' = [maint EXCEPT !.at = @ + 1]
    BY <1>8 DEF SkipConnection, InSweep
  <2> QED BY <2>1, <1>1, <1>3, <1>4, <1>6
<1>9. CASE on_connection_closing
  <2>1. /\ UNCHANGED <<conn, fdOf>> /\ i <= NSlots
        /\ \E pc \in {"socket", "forget"} : maint' = [maint EXCEPT !.pc = pc]
    BY <1>9 DEF on_connection_closing, InSweep
  <2> DEFINE s == conn[maint.at].handler
  <2>2. s \in Sessions \union {0}  BY <2>1, <1>1, <1>4 DEF Conns, Connection
  <2>3. \/ UNCHANGED <<phase, registered>>
        \/ /\ s # 0 /\ phase' = [phase EXCEPT ![s] = "destroyed"]
           /\ registered' = registered \ {s}
    BY <1>9 DEF on_connection_closing
  <2> HIDE DEF s
  <2>4. phase' \in [Sessions -> Phases] /\ registered' \in SUBSET Sessions
    BY <2>2, <2>3, <1>1 DEF Phases
  <2> QED BY <2>1, <2>4, <1>1, <1>3, <1>7
<1>10. CASE ForgetHandler
  <2>1. /\ UNCHANGED <<fdOf, phase, registered>> /\ i \in Slots
        /\ conn' = [conn EXCEPT ![i].handler = 0] /\ maint' = [maint EXCEPT !.pc = "socket"]
    BY <1>5, <1>10 DEF ForgetHandler
  <2>2. conn' \in Conns  BY <2>1, <1>1 DEF Conns, Connection
  <2> QED BY <2>1, <2>2, <1>1, <1>3, <1>7
<1>11. CASE ShutSocket
  <2> DEFINE told == [conn EXCEPT ![i].shutdown = TRUE]
             read == ReadShut(told, i)
             shut == [read EXCEPT ![i].socketClosed = TRUE]
             closed == [shut EXCEPT ![i].closing = TRUE]
  <2>1. /\ UNCHANGED <<phase, registered>> /\ i \in Slots
        /\ maint' = [maint EXCEPT !.pc = "joinRecv"]
        /\ \/ conn' = told /\ UNCHANGED fdOf
           \/ conn' = shut /\ UNCHANGED fdOf
           \/ conn' = Closed(closed, i) /\ fdOf' = FdClosed(i)
    BY <1>5, <1>11 DEF ShutSocket, UnblockReceive
  <2>2. told \in Conns  BY <2>1, <1>1, FlagTypes
  <2>3. read \in Conns
    <3> HIDE DEF told
    <3> QED BY <2>1, <2>2, SocketTypes
  <2>4. shut \in Conns
    <3> HIDE DEF read
    <3> QED BY <2>1, <2>3, FlagTypes
  <2>5. closed \in Conns
    <3> HIDE DEF shut
    <3> QED BY <2>1, <2>4, FlagTypes
  <2> HIDE DEF told, read, shut, closed
  <2>6. conn' \in Conns /\ fdOf' \in [Fds -> Slots \union {0}]
    BY <2>1, <2>2, <2>4, <2>5, <1>1, SocketTypes, FdTypes
  <2> QED BY <2>1, <2>6, <1>1, <1>3, <1>7
<1>12. CASE JoinReceive
  <2>1. /\ UNCHANGED <<conn, fdOf, phase, registered>>
        /\ maint' = [maint EXCEPT !.pc = "joinSend"]
    BY <1>12 DEF JoinReceive
  <2> QED BY <2>1, <1>1, <1>3, <1>7
<1>13. CASE ReleaseSlot \/ LeaveZombie
  <2>1. /\ UNCHANGED <<fdOf, phase, registered>> /\ i \in Slots /\ maint.pc = "joinSend"
        /\ maint' = [maint EXCEPT !.pc = "sweep", !.at = @ + 1]
        /\ conn' = conn \/ conn' = [conn EXCEPT ![i].inUse = FALSE]
    BY <1>5, <1>13 DEF ReleaseSlot, LeaveZombie
  <2>2. [conn EXCEPT ![i].inUse = FALSE] \in Conns  BY <2>1, <1>1, FlagTypes
  <2>3. conn' \in Conns  BY <2>1, <2>2, <1>1
  <2> QED BY <2>1, <2>3, <1>1, <1>3, <1>4, <1>6
<1>14. CASE SweepEnds
  <2>1. /\ UNCHANGED <<conn, fdOf, phase, registered>>
        /\ \/ maint' = [maint EXCEPT !.pc = "ended"]
           \/ maint' = [maint EXCEPT !.at = 1, !.last = main # "serving" /\ srv.pc = "stopped"]
    BY <1>14 DEF SweepEnds
  <2>2. maint' \in MaintStates  BY <2>1, <1>1, <1>4, <1>7 DEF MaintStates
  <2> QED BY <2>1, <2>2, <1>1, <1>3
<1> QED BY <1>8, <1>9, <1>10, <1>11, <1>12, <1>13, <1>14 DEF Maintenance

\* Every step keeps the types.
LEMMA NextTypes == ASSUME Inv, TInv, [Next]_vars PROVE TInv'
<1>1. CASE AcceptReturns  BY <1>1, AcceptTypes
<1>2. CASE ServerThread  BY <1>2, ServerTypes
<1>3. CASE Maintenance  BY <1>3, MaintenanceTypes
<1>4. ASSUME NEW i \in Slots,
             \/ ReceiveThread(i) \/ ReceiveChunk(i) \/ SendThreadEnds(i) \/ SendFails(i)
             \/ SendBlocks(i) \/ SendReturns(i) \/ ClientLeaves(i) \/ \E t \in {"recv", "send"} : ThreadCloses(i, t)
      PROVE  TInv'
  BY <1>4, SlotTypes
<1>5. CASE BeginDestroy \/ JoinServerThread \/ JoinMaintenanceThread \/ Destroyed \/ UNCHANGED vars
  <2>1. UNCHANGED <<conn, fdOf, phase, registered, accepted, srv, maint, lines>>
    BY <1>5 DEF BeginDestroy, JoinServerThread, JoinMaintenanceThread, Destroyed, vars
  <2>2. main' \in {main, "shutdown", "joined", "destroyed", "failed"}
    BY <1>5 DEF BeginDestroy, JoinServerThread, JoinMaintenanceThread, Destroyed, vars
  <2> QED BY <2>1, <2>2 DEF TInv, TypeOK, SetupInv
<1> QED BY <1>1, <1>2, <1>3, <1>4, <1>5 DEF Next

\* The types hold before the server listens.
LEMMA InitTypes == ASSUME Init PROVE TInv
<1>1. /\ 1 \in Slots /\ 1 \in Fds /\ 0 \in 0 .. MaxErrors /\ 0 \in 0 .. MaxSessions
      /\ 0 \in 0 .. MaxLines /\ 1 \in 1 .. NSlots + 1
  BY NetworkAssumption DEF Slots, Fds
<1>2. [FreshConnection(1) EXCEPT !.inUse = FALSE] \in Connection
  BY <1>1 DEF FreshConnection, Connection, ThreadPcs
<1>3. /\ conn \in Conns /\ fdOf \in [Fds -> Slots \union {0}]
      /\ phase \in [Sessions -> Phases]
  BY <1>2 DEF Init, Conns, Phases
<1>4. srv \in ServerStates /\ maint \in MaintStates /\ srv.pc = "accept"
  BY <1>1 DEF Init, ServerStates, MaintStates
<1>5. /\ registered \in SUBSET Sessions /\ accepted \in 0 .. MaxSessions
      /\ lines \in 0 .. MaxLines /\ main = "serving"
  BY <1>1 DEF Init
<1>6. TypeOK  BY <1>3, <1>4, <1>5, Types
<1> QED BY <1>4, <1>6 DEF TInv, SetupInv

\* Descriptors, slots, sessions and the threads' records keep their types: the
\* server never sets up more connections than it has accepted, counts no more
\* errors than SERVER_MAX_CONSECUTIVE_ERRORS, and maintenance stays in the array
\* of slots, whatever fails.
THEOREM NetworkTypeCorrect == Spec => []TypeOK
<1>1. Init => TInv  BY InitTypes
<1>2. Inv /\ TInv /\ [Next]_vars => TInv'  BY NextTypes
<1>3. TInv => TypeOK  BY DEF TInv
<1> QED BY <1>1, <1>2, <1>3, Invariance, PTL DEF Spec
=============================================================================
