--------------------------- MODULE NetworkServer ---------------------------
(* Connections of the network server (network.c): a server thread that       *)
(* accepts into reusable slots, two threads per connection, a maintenance    *)
(* thread that alone ends connections, and the login of the session behind   *)
(* each (server.c). None of this shares a lock.                              *)
(*                                                                           *)
(* A receive thread blocked in recv() wakes for a line, when its client has  *)
(* left, or by shutdown(SHUT_RD) on its socket; close() does not wake it.    *)
(* A send thread may be blocked in send() while its client does not read:    *)
(* nothing but the client ends that, neither SHUT_RD nor close().            *)
(* The number of a closed descriptor may be given to the next socket.        *)
EXTENDS Naturals

CONSTANTS
  NSlots,       \* MAX_CONNECTIONS
  NFds,         \* number of descriptors
  ReuseFds,     \* whether the number of a closed descriptor comes up again
  MaxSessions,  \* bound: connections accepted
  MaxLines,     \* bound: lines sent by all clients
  MaxErrors,    \* SERVER_MAX_CONSECUTIVE_ERRORS
  MayFail       \* whether accept() or the set-up of a connection may fail

ASSUME NetworkAssumption ==
  /\ NSlots \in Nat \ {0} /\ MaxErrors \in Nat \ {0}
  /\ MaxSessions \in Nat /\ MaxLines \in Nat
  /\ MayFail \in BOOLEAN /\ ReuseFds \in BOOLEAN
  /\ NFds \in Nat \ {0} /\ (ReuseFds \/ NFds >= MaxSessions)

VARIABLES
  conn,       \* the connection slots
  fdOf,       \* slot an open descriptor belongs to, 0 if it is not open
  phase,      \* each session: not yet created, its login phase, destroyed
  registered, \* sessions in the server's list
  accepted,   \* number of accepted connections
  srv,        \* server thread: pc, its slot, consecutive_errors
  maint,      \* maintenance thread: pc, its slot, last sweep or not
  main,       \* progress of destroy_network_server
  lines       \* lines sent so far

vars == <<conn, fdOf, phase, registered, accepted, srv, maint, main, lines>>

Slots == 1 .. NSlots
Fds == 1 .. NFds
Sessions == 1 .. MaxSessions
Phases == {"none", "version", "password", "loggedIn", "failed", "destroyed"}
ThreadPcs == {"none", "wait", "head", "blocked", "line", "call", "check", "close", "done"}

Connection ==
  [inUse : BOOLEAN, closing : BOOLEAN, shutdown : BOOLEAN,
   sd : Fds, handler : Sessions \union {0},
   recv : ThreadPcs, send : ThreadPcs,
   socketClosed : BOOLEAN,
   eof : BOOLEAN,      \* recv() on the socket returns 0
   left : BOOLEAN,     \* the client has left
   cut : BOOLEAN]      \* history: the socket was shut or closed for another slot

TypeOK ==
  /\ conn \in [Slots -> Connection]
  /\ fdOf \in [Fds -> Slots \union {0}]
  /\ phase \in [Sessions -> Phases] /\ registered \in SUBSET Sessions
  /\ accepted \in 0 .. MaxSessions /\ lines \in 0 .. MaxLines
  /\ srv \in [pc : {"accept", "spawn", "new", "register", "check", "close", "stopped"},
              at : Slots, errors : 0 .. MaxErrors]
  /\ maint \in [pc : {"sweep", "forget", "socket", "joinRecv", "joinSend", "ended"},
                at : 1 .. NSlots + 1, last : BOOLEAN]
  /\ main \in {"serving", "shutdown", "joined", "destroyed", "failed"}

\* memset of a slot and what the server thread then sets.
FreshConnection(fd) ==
  [inUse |-> TRUE, closing |-> FALSE, shutdown |-> FALSE, sd |-> fd, handler |-> 0,
   recv |-> "none", send |-> "none", socketClosed |-> FALSE, eof |-> FALSE, left |-> FALSE, cut |-> FALSE]

Init ==
  /\ conn = [i \in Slots |-> [FreshConnection(1) EXCEPT !.inUse = FALSE]]
  /\ fdOf = [fd \in Fds |-> 0]
  /\ phase = [s \in Sessions |-> "none"] /\ registered = {}
  /\ accepted = 0 /\ lines = 0
  /\ srv = [pc |-> "accept", at |-> 1, errors |-> 0]
  /\ maint = [pc |-> "sweep", at |-> 1, last |-> FALSE]
  /\ main = "serving"

\* close_socket(sd) on behalf of slot i, in the slots cs: whatever socket has
\* the number now.
Closed(cs, i) ==
  [j \in Slots |-> [cs[j] EXCEPT !.cut = @ \/ (j # i /\ fdOf[cs[i].sd] = j)]]
FdClosed(i) == [fdOf EXCEPT ![conn[i].sd] = 0]

\* shutdown(sd, SHUT_RD), likewise.
ReadShut(cs, i) ==
  [j \in Slots |-> [cs[j] EXCEPT !.eof = @ \/ fdOf[cs[i].sd] = j,
                                 !.cut = @ \/ (j # i /\ fdOf[cs[i].sd] = j)]]

----------------------------------------------------------------------------
(* The server thread.                                                      *)

Accepting == srv.pc = "accept" /\ main = "serving" /\ srv.errors < MaxErrors

\* MUTANT of Free: the slot of a closing connection is taken as well.
FreeOrClosing == {i \in Slots : ~conn[i].inUse \/ conn[i].closing}

Free == {i \in Slots : ~conn[i].inUse}
FirstFree(i) == i \in Free /\ \A j \in Free : i <= j

\* What accept() may return.
NewFds == IF ReuseFds THEN {fd \in Fds : fdOf[fd] = 0} ELSE {accepted + 1}

Accept ==
  /\ Accepting /\ accepted < MaxSessions
  /\ \E i \in Slots, fd \in NewFds :
       /\ FirstFree(i)
       /\ fdOf' = [fdOf EXCEPT ![fd] = i]
       /\ conn' = [conn EXCEPT ![i] = FreshConnection(fd)]
       /\ srv' = [srv EXCEPT !.pc = "spawn", !.at = i]
  /\ accepted' = accepted + 1
  /\ UNCHANGED <<phase, registered, maint, main, lines>>

\* All slots are in use: the new socket is closed at once.
AcceptRefused ==
  /\ Accepting /\ accepted < MaxSessions /\ Free = {}
  /\ accepted' = accepted + 1
  /\ UNCHANGED <<conn, fdOf, phase, registered, srv, maint, main, lines>>

AcceptFails ==
  /\ Accepting /\ MayFail
  /\ srv' = [srv EXCEPT !.errors = @ + 1]
  /\ UNCHANGED <<conn, fdOf, phase, registered, accepted, maint, main, lines>>

SpawnThreads ==
  /\ srv.pc = "spawn"
  /\ conn' = [conn EXCEPT ![srv.at].send = "wait", ![srv.at].recv = "head"]
  /\ srv' = [srv EXCEPT !.pc = "new"]
  /\ UNCHANGED <<fdOf, phase, registered, accepted, maint, main, lines>>

\* Mutex, condition, buffer or a thread cannot be created; the send thread
\* may be running when the receive thread cannot be.
SetupFails ==
  /\ srv.pc = "spawn" /\ MayFail
  /\ \E sends \in {"none", "wait"} : conn' = [conn EXCEPT ![srv.at].send = sends]
  /\ srv' = [srv EXCEPT !.pc = "check", !.errors = @ + 1]
  /\ UNCHANGED <<fdOf, phase, registered, accepted, maint, main, lines>>

\* new_connection: the session of the connection being set up, named after its
\* turn, is known to the connection as soon as it is created ...
CreateSession ==
  /\ srv.pc = "new"
  /\ conn' = [conn EXCEPT ![srv.at].handler = accepted]
  /\ phase' = [phase EXCEPT ![accepted] = "version"]
  /\ srv' = [srv EXCEPT !.pc = "register"]
  /\ UNCHANGED <<fdOf, registered, accepted, maint, main, lines>>

\* ... and then registered with the server and greeted.
RegisterSession ==
  /\ srv.pc = "register"
  /\ registered' = registered \union {accepted}
  /\ srv' = [srv EXCEPT !.pc = "accept", !.errors = 0]
  /\ UNCHANGED <<conn, fdOf, phase, accepted, maint, main, lines>>

\* No session, one that cannot be registered, or one that cannot be greeted.
NewConnectionFails ==
  /\ srv.pc \in {"new", "register"} /\ MayFail
  /\ \/ UNCHANGED registered
     \/ srv.pc = "register" /\ registered' = registered \union {accepted}
  /\ srv' = [srv EXCEPT !.pc = "check", !.errors = @ + 1]
  /\ UNCHANGED <<conn, fdOf, phase, accepted, maint, main, lines>>

\* close_network_connection by the server thread: test, then set and close.
ServerCloseCheck ==
  /\ srv.pc = "check"
  /\ srv' = [srv EXCEPT !.pc = IF conn[srv.at].closing THEN "accept" ELSE "close"]
  /\ UNCHANGED <<conn, fdOf, phase, registered, accepted, maint, main, lines>>

ServerClose ==
  /\ srv.pc = "close"
  /\ conn' = Closed([conn EXCEPT ![srv.at].closing = TRUE], srv.at)
  /\ fdOf' = FdClosed(srv.at)
  /\ srv' = [srv EXCEPT !.pc = "accept"]
  /\ UNCHANGED <<phase, registered, accepted, maint, main, lines>>

ServerThreadStops ==
  /\ srv.pc = "accept" /\ (main # "serving" \/ srv.errors >= MaxErrors)
  /\ srv' = [srv EXCEPT !.pc = "stopped"]
  /\ UNCHANGED <<conn, fdOf, phase, registered, accepted, maint, main, lines>>

AcceptReturns == Accept \/ AcceptRefused \/ AcceptFails

ServerThread ==
  \/ SpawnThreads \/ SetupFails \/ CreateSession \/ RegisterSession \/ NewConnectionFails
  \/ ServerCloseCheck \/ ServerClose \/ ServerThreadStops

----------------------------------------------------------------------------
(* Receive and send thread of slot i.                                      *)

Stopping(i) == conn[i].closing \/ conn[i].shutdown

ReceiveHead(i) ==
  /\ conn[i].recv = "head"
  /\ conn' = [conn EXCEPT ![i].recv = IF Stopping(i) THEN "check" ELSE "blocked"]
  /\ UNCHANGED <<fdOf, phase, registered, accepted, srv, maint, main, lines>>

ReceiveChunk(i) ==
  /\ conn[i].recv = "blocked" /\ ~conn[i].eof /\ ~conn[i].left /\ lines < MaxLines
  /\ lines' = lines + 1
  /\ conn' = [conn EXCEPT ![i].recv = "line"]
  /\ UNCHANGED <<fdOf, phase, registered, accepted, srv, maint, main>>

\* recv() returns 0 or an error, or the line is too long.
ReceiveEnds(i) ==
  /\ \/ conn[i].recv = "blocked" /\ conn[i].eof
     \/ conn[i].recv = "line" /\ MayFail
  /\ conn' = [conn EXCEPT ![i].recv = "check"]
  /\ UNCHANGED <<fdOf, phase, registered, accepted, srv, maint, main, lines>>

LineCheck(i) ==
  /\ conn[i].recv = "line"
  /\ conn' = [conn EXCEPT ![i].recv = IF conn[i].closing THEN "head" ELSE "call"]
  /\ UNCHANGED <<fdOf, phase, registered, accepted, srv, maint, main, lines>>

Usable(i) == conn[i].handler # 0 /\ phase[conn[i].handler] # "destroyed"

\* What a line that is as expected makes of the phase of a session.
NextPhase(p) ==
  CASE p = "version" -> "password" [] p = "password" -> "loggedIn" [] OTHER -> p

\* A bad version or password, or an answer that cannot be sent.
FailHandshake(i) ==
  /\ phase' = [phase EXCEPT ![conn[i].handler] = "failed"]
  /\ conn' = [conn EXCEPT ![i].recv = "check"]

on_line_received(i) ==
  /\ conn[i].recv = "call" /\ Usable(i)
  /\ \/ /\ phase' = [phase EXCEPT ![conn[i].handler] = NextPhase(@)]
        /\ conn' = [conn EXCEPT ![i].recv = "head"]
     \/ phase[conn[i].handler] \in {"version", "password"} /\ FailHandshake(i)
     \/ /\ phase[conn[i].handler] = "loggedIn"      \* send_or_close closes
        /\ conn' = [conn EXCEPT ![i].recv = "check"]
        /\ UNCHANGED phase
  /\ UNCHANGED <<fdOf, registered, accepted, srv, maint, main, lines>>

\* Called without a session, or with a destroyed one: undefined behaviour. The
\* outcome followed here is that the line is lost.
LineWithoutSession(i) ==
  /\ conn[i].recv = "call" /\ ~Usable(i)
  /\ conn' = [conn EXCEPT ![i].recv = "head"]
  /\ UNCHANGED <<fdOf, phase, registered, accepted, srv, maint, main, lines>>

ReceiveThread(i) ==
  \/ ReceiveHead(i) \/ ReceiveEnds(i) \/ LineCheck(i)
  \/ on_line_received(i) \/ LineWithoutSession(i)

\* run_send_thread as far as it matters here (see SendBuffer): it ends when it
\* is told to ...
SendThreadEnds(i) ==
  /\ conn[i].send = "wait" /\ conn[i].shutdown
  /\ conn' = [conn EXCEPT ![i].send = "check"]
  /\ UNCHANGED <<fdOf, phase, registered, accepted, srv, maint, main, lines>>

\* ... or, once there is something to send, when the socket is closed or the
\* client has left.
SendFails(i) ==
  /\ conn[i].send = "wait" /\ (conn[i].closing \/ conn[i].left)
  /\ ~(srv.at = i /\ srv.pc \in {"new", "register"})
  /\ conn' = [conn EXCEPT ![i].send = "check"]
  /\ UNCHANGED <<fdOf, phase, registered, accepted, srv, maint, main, lines>>

\* send() has filled the buffers of a client that does not read.
SendBlocks(i) ==
  /\ conn[i].send = "wait" /\ ~Stopping(i) /\ ~conn[i].left
  /\ ~(srv.at = i /\ srv.pc \in {"new", "register"})
  /\ conn' = [conn EXCEPT ![i].send = "blocked"]
  /\ UNCHANGED <<fdOf, phase, registered, accepted, srv, maint, main, lines>>

\* The client reads again, or it has left and the call fails.
SendReturns(i) ==
  /\ conn[i].send = "blocked"
  /\ conn' = [conn EXCEPT ![i].send =
                IF conn[i].left \/ conn[i].shutdown THEN "check" ELSE "wait"]
  /\ UNCHANGED <<fdOf, phase, registered, accepted, srv, maint, main, lines>>

\* close_network_connection by thread t of slot i: test, then set and close.
CloseCheck(i, t) ==
  /\ conn[i][t] = "check"
  /\ conn' = [conn EXCEPT ![i][t] = IF conn[i].closing THEN "done" ELSE "close"]
  /\ UNCHANGED <<fdOf, phase, registered, accepted, srv, maint, main, lines>>

CloseConnection(i, t) ==
  /\ conn[i][t] = "close"
  /\ conn' = Closed([conn EXCEPT ![i].closing = TRUE, ![i][t] = "done"], i)
  /\ fdOf' = FdClosed(i)
  /\ UNCHANGED <<phase, registered, accepted, srv, maint, main, lines>>

ThreadCloses(i, t) == CloseCheck(i, t) \/ CloseConnection(i, t)

\* The client of an open socket, or of one a thread still waits on, leaves.
ClientLeaves(i) ==
  /\ conn[i].inUse /\ ~conn[i].left
  /\ fdOf[conn[i].sd] = i \/ "blocked" \in {conn[i].recv, conn[i].send}
  /\ conn' = [conn EXCEPT ![i].left = TRUE, ![i].eof = TRUE]
  /\ UNCHANGED <<fdOf, phase, registered, accepted, srv, maint, main, lines>>

----------------------------------------------------------------------------
(* The maintenance thread.                                                 *)

InSweep == maint.pc = "sweep" /\ maint.at <= NSlots

Due(i) == conn[i].inUse /\ (maint.last \/ conn[i].closing)

SkipConnection ==
  /\ InSweep /\ ~Due(maint.at)
  /\ maint' = [maint EXCEPT !.at = @ + 1]
  /\ UNCHANGED <<conn, fdOf, phase, registered, accepted, srv, main, lines>>

\* shutdown_network_connection begins with the handler's callback, which
\* takes the session off the server's list and destroys it ...
on_connection_closing ==
  /\ InSweep /\ Due(maint.at)
  /\ LET s == conn[maint.at].handler IN
       \/ /\ s = 0
          /\ maint' = [maint EXCEPT !.pc = "socket"]
          /\ UNCHANGED <<phase, registered>>
       \/ /\ s # 0
          /\ phase' = [phase EXCEPT ![s] = "destroyed"] /\ registered' = registered \ {s}
          /\ maint' = [maint EXCEPT !.pc = "forget"]
  /\ UNCHANGED <<conn, fdOf, accepted, srv, main, lines>>

\* ... and is forgotten only then.
ForgetHandler ==
  /\ maint.pc = "forget"
  /\ conn' = [conn EXCEPT ![maint.at].handler = 0]
  /\ maint' = [maint EXCEPT !.pc = "socket"]
  /\ UNCHANGED <<fdOf, phase, registered, accepted, srv, main, lines>>


UnblockReceive(cs, i) == ReadShut(cs, i)

\* The threads are told; the first time, the socket is shut down, and closed
\* unless one of them has done that.
ShutSocket ==
  /\ maint.pc = "socket"
  /\ LET i == maint.at
         told == [conn EXCEPT ![i].shutdown = TRUE]
         shut == [UnblockReceive(told, i) EXCEPT ![i].socketClosed = TRUE]
     IN \/ /\ conn[i].socketClosed
           /\ conn' = told /\ UNCHANGED fdOf
        \/ /\ ~conn[i].socketClosed /\ conn[i].closing
           /\ conn' = shut /\ UNCHANGED fdOf
        \/ /\ ~conn[i].socketClosed /\ ~conn[i].closing
           /\ conn' = Closed([shut EXCEPT ![i].closing = TRUE], i)
           /\ fdOf' = FdClosed(i)
  /\ maint' = [maint EXCEPT !.pc = "joinRecv"]
  /\ UNCHANGED <<phase, registered, accepted, srv, main, lines>>

Joined(i, t) == conn[i][t] = "done"

\* A thread that was never created cannot be joined; the other still is.
JoinReceive ==
  /\ maint.pc = "joinRecv" /\ (Joined(maint.at, "recv") \/ conn[maint.at].recv = "none")
  /\ maint' = [maint EXCEPT !.pc = "joinSend"]
  /\ UNCHANGED <<conn, fdOf, phase, registered, accepted, srv, main, lines>>

ReleaseSlot ==
  /\ maint.pc = "joinSend" /\ Joined(maint.at, "send") /\ conn[maint.at].recv # "none"
  /\ conn' = [conn EXCEPT ![maint.at].inUse = FALSE]
  /\ maint' = [maint EXCEPT !.pc = "sweep", !.at = @ + 1]
  /\ UNCHANGED <<fdOf, phase, registered, accepted, srv, main, lines>>

\* A join has failed: the connection is a zombie, its slot stays in use.
LeaveZombie ==
  /\ maint.pc = "joinSend" /\ conn[maint.at].recv = "none"
  /\ Joined(maint.at, "send") \/ conn[maint.at].send = "none"
  /\ maint' = [maint EXCEPT !.pc = "sweep", !.at = @ + 1]
  /\ UNCHANGED <<conn, fdOf, phase, registered, accepted, srv, main, lines>>

\* Next round, or the last one once the server thread has stopped, or the end.
SweepEnds ==
  /\ maint.pc = "sweep" /\ maint.at > NSlots
  /\ maint' = IF maint.last
              THEN [maint EXCEPT !.pc = "ended"]
              ELSE [maint EXCEPT !.at = 1, !.last = main # "serving" /\ srv.pc = "stopped"]
  /\ UNCHANGED <<conn, fdOf, phase, registered, accepted, srv, main, lines>>

Maintenance ==
  \/ SkipConnection \/ on_connection_closing \/ ForgetHandler \/ ShutSocket
  \/ JoinReceive \/ ReleaseSlot \/ LeaveZombie \/ SweepEnds

----------------------------------------------------------------------------
(* destroy_network_server.                                                 *)

BeginDestroy ==
  /\ main = "serving" /\ main' = "shutdown"
  /\ UNCHANGED <<conn, fdOf, phase, registered, accepted, srv, maint, lines>>

JoinServerThread ==
  /\ main = "shutdown" /\ srv.pc = "stopped" /\ main' = "joined"
  /\ UNCHANGED <<conn, fdOf, phase, registered, accepted, srv, maint, lines>>

\* The server is freed unless a zombie was left.
JoinMaintenanceThread ==
  /\ main = "joined" /\ maint.pc = "ended"
  /\ main' = IF \E i \in Slots : conn[i].inUse THEN "failed" ELSE "destroyed"
  /\ UNCHANGED <<conn, fdOf, phase, registered, accepted, srv, maint, lines>>

Destroyed == main \in {"destroyed", "failed"} /\ UNCHANGED vars

Next ==
  \/ AcceptReturns \/ ServerThread \/ Maintenance
  \/ \E i \in Slots :
       \/ ReceiveThread(i) \/ ReceiveChunk(i) \/ SendThreadEnds(i) \/ SendFails(i)
       \/ SendBlocks(i) \/ SendReturns(i) \/ ClientLeaves(i)
       \/ \E t \in {"recv", "send"} : ThreadCloses(i, t)
  \/ BeginDestroy \/ JoinServerThread \/ JoinMaintenanceThread \/ Destroyed

Spec == Init /\ [][Next]_vars

\* Threads run; clients owe nothing: accept(), and send() to a client that
\* stays, may wait for ever.
FairSpec ==
  /\ Spec
  /\ WF_vars(ServerThread) /\ WF_vars(Maintenance)
  /\ WF_vars(JoinServerThread) /\ WF_vars(JoinMaintenanceThread)
  /\ \A i \in Slots :
       /\ WF_vars(ReceiveThread(i)) /\ WF_vars(SendThreadEnds(i))
       /\ WF_vars(conn[i].left /\ SendReturns(i))
       /\ \A t \in {"recv", "send"} : WF_vars(ThreadCloses(i, t))
----------------------------------------------------------------------------
(* Properties.                                                             *)

\* A slot is only cleared for a new connection after both threads of the former
\* one have ended, whoever closed it and in whatever order (network.c, memset in
\* run_server_thread).
SlotReusedAfterJoin ==
  [][\A i \in Slots : \A t \in {"recv", "send"} :
       conn'[i][t] = "none" => conn[i][t] \in {"none", "done"}]_vars

\* recv() of slot i waits on a socket that was closed before maintenance could
\* shut it down; only the client can end that wait.  The server thread gets
\* there when it closes a connection whose session could not be set up.
Unreachable(i) ==
  conn[i].recv = "blocked" /\ ~conn[i].eof /\ ~conn[i].socketClosed /\ fdOf[conn[i].sd] # i

AlwaysReachable == [](\A i \in Slots : ~Unreachable(i))

\* Every send() returns some time: the clients that stay read.
SendsReturn == \A i \in Slots : []<>(conn[i].send # "blocked")


\* network.h on new_connection_f: "lines can only be received after this call
\* succeeds".  TLC refutes it, see the README.
LinesAfterNewConnection ==
  \A i \in Slots : ~(conn[i].recv = "call" /\ srv.pc \in {"new", "register"} /\ srv.at = i)

\* network.h on close_network_connection: it terminates the specified
\* connection; the sockets of others are not shut or closed with it.  TLC
\* refutes it where descriptor numbers are used again, see the README.
OthersUndisturbed == \A i \in Slots : conn[i].inUse => ~conn[i].cut
=============================================================================
