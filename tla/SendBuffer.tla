----------------------------- MODULE SendBuffer -----------------------------
(***************************************************************************)
(* The send ring buffer of one network connection (network.c).             *)
(*                                                                         *)
(* Any thread that owns a message calls send_to_network(), which copies    *)
(* the message into the ring buffer under send_mutex.  The connection's    *)
(* send thread takes chunks out of it: it picks a chunk under the mutex,   *)
(* hands it to send() WITHOUT the mutex, and takes the mutex again to move *)
(* the read position by what the socket accepted.  Sockets are blocking:    *)
(* once the client stops reading, send() may never return, and closing the *)
(* socket does not wake it (network.c shuts down reading only, line 623).  *)
(*                                                                         *)
(* Payload bytes are abstracted to their position in the stream of all     *)
(* accepted bytes: the n-th byte ever accepted is the number n.  `wire' is *)
(* what send() was given and accepted, in order.                           *)
(***************************************************************************)
EXTENDS Integers, Sequences

CONSTANTS
  SendBufferSize,  \* SEND_BUFFER_SIZE
  SendChunkSize,   \* SEND_CHUNK_SIZE
  Senders,         \* threads calling send_to_network
  SendThread,      \* the connection's send thread
  NoThread,        \* "mutex is free"
  MaxAccepted      \* bound: bytes accepted in one behaviour

ASSUME SizeAssumption ==
  /\ SendBufferSize \in Nat \ {0}
  /\ SendChunkSize \in Nat \ {0}
  /\ MaxAccepted \in Nat

ASSUME ThreadAssumption ==
  /\ SendThread \notin Senders
  /\ NoThread \notin Senders \cup {SendThread}

VARIABLES
  ring,       \* connection->send_ringbuffer
  readPos,    \* connection->send_read_pos
  writePos,   \* connection->send_write_pos
  mutex,      \* owner of connection->send_mutex
  closing,    \* connection->closing (the socket is closed)
  shutdown,   \* connection->shutdown
  reading,    \* the client still takes bytes off its socket
  call,       \* per sender: progress of send_to_network
  sendPc,     \* where the send thread is
  chunk,      \* chunk_size of the send() call being prepared
  sent,       \* result of the last send(), not yet added to readPos
  accepted,   \* history: number of bytes accepted by send_to_network
  wire        \* history: bytes the socket took, in order

vars == <<ring, readPos, writePos, mutex, closing, shutdown, reading, call,
          sendPc, chunk, sent, accepted, wire>>

Index == 0 .. SendBufferSize - 1

Least(a, b) == IF a < b THEN a ELSE b

\* A position that has reached the end of the buffer starts over.
Wrap(p) == IF p >= SendBufferSize THEN 0 ELSE p

Idle == [pc |-> "idle", length |-> 0, rest |-> 0]

Calls == [pc : {"idle", "lock", "copy"}, length : Nat, rest : Nat]

Init ==
  /\ ring = [i \in Index |-> 0]
  /\ readPos = 0
  /\ writePos = 0
  /\ mutex = NoThread
  /\ closing = FALSE
  /\ shutdown = FALSE
  /\ reading = TRUE
  /\ call = [t \in Senders |-> Idle]
  /\ sendPc = "start"
  /\ chunk = 0
  /\ sent = 0
  /\ accepted = 0
  /\ wire = << >>

-----------------------------------------------------------------------------
(* send_to_network *)

\* Called with a complete message; a connection being shut down refuses it
\* before the mutex is touched (that early return changes nothing).
EnterSend(t, n) ==
  /\ call[t].pc = "idle"
  /\ accepted + n <= MaxAccepted
  /\ ~shutdown
  /\ call' = [call EXCEPT ![t] = [pc |-> "lock", length |-> n, rest |-> 0]]
  /\ UNCHANGED <<ring, readPos, writePos, mutex, closing, shutdown, reading,
                 sendPc, chunk, sent, accepted, wire>>

\* MUTANT of CapacityToReadPos: two positions are kept free.
CapacityWithTwoGaps ==
  CASE readPos > writePos -> readPos - writePos - 2
    [] readPos = writePos -> SendBufferSize - 2
    [] readPos < writePos -> SendBufferSize - writePos + readPos - 2

\* Equal positions mean "all has been read", so one position stays free.
CapacityToReadPos ==
  CASE readPos > writePos -> readPos - writePos - 1
    [] readPos = writePos -> SendBufferSize - 1
    [] readPos < writePos -> SendBufferSize - writePos + readPos - 1

\* Not enough room: NETWORK_ERROR_CAPACITY, nothing is copied.
RefuseSend(t) ==
  /\ call[t].pc = "lock"
  /\ mutex = NoThread
  /\ CapacityToReadPos < call[t].length
  /\ call' = [call EXCEPT ![t] = Idle]
  /\ UNCHANGED <<ring, readPos, writePos, mutex, closing, shutdown, reading,
                 sendPc, chunk, sent, accepted, wire>>

\* The first memcpy, up to the end of the buffer, and the wrap.
CopyToEnd(t) ==
  LET n == call[t].length
      toEnd == Least(SendBufferSize - writePos, n)
      reached == writePos + toEnd
  IN  /\ call[t].pc = "lock"
      /\ mutex = NoThread
      /\ CapacityToReadPos >= n
      /\ mutex' = t
      /\ ring' = [i \in Index |->
                    IF writePos <= i /\ i < reached
                    THEN accepted + (i - writePos) + 1 ELSE ring[i]]
      /\ writePos' = Wrap(reached)
      /\ call' = [call EXCEPT ![t] =
                    [pc |-> "copy", length |-> n, rest |-> n - toEnd]]
      /\ accepted' = accepted + n
      /\ UNCHANGED <<readPos, closing, shutdown, reading, sendPc, chunk, sent,
                     wire>>

\* The second memcpy, from the start of the buffer, broadcast and unlock.
CopyAtStart(t) ==
  LET rest == call[t].rest
  IN  /\ call[t].pc = "copy"
      /\ ring' = [i \in Index |->
                    IF i < rest THEN accepted - rest + i + 1 ELSE ring[i]]
      /\ writePos' = writePos + rest
      /\ mutex' = NoThread
      /\ call' = [call EXCEPT ![t] = Idle]
      /\ UNCHANGED <<readPos, closing, shutdown, reading, sendPc, chunk, sent,
                     accepted, wire>>

-----------------------------------------------------------------------------
(* run_send_thread *)

\* MUTANTS of NothingPending (a wrapped writer is overlooked) and of
\* ContiguousPending (always up to the end of the buffer).
NothingAhead == readPos >= writePos
PendingToEnd == SendBufferSize - readPos

\* Everything has been sent.
NothingPending == readPos = writePos

\* What can be sent in one piece: up to the write position or, if that has
\* wrapped, up to the end of the buffer.
ContiguousPending ==
  IF readPos < writePos THEN writePos - readPos ELSE SendBufferSize - readPos

\* The loop's condition.
Stopping == shutdown

TakeLock(from) ==
  /\ sendPc = from
  /\ mutex = NoThread
  /\ mutex' = SendThread
  /\ sendPc' = "loop"

\* Initial mtx_lock.
SendThreadStart ==
  /\ TakeLock("start")
  /\ UNCHANGED <<ring, readPos, writePos, closing, shutdown, reading, call,
                 chunk, sent, accepted, wire>>

\* Everything has been sent: cnd_timedwait gives the mutex away.
SendThreadSleep ==
  /\ sendPc = "loop"
  /\ ~Stopping
  /\ NothingPending
  /\ mutex' = NoThread
  /\ sendPc' = "asleep"
  /\ UNCHANGED <<ring, readPos, writePos, closing, shutdown, reading, call,
                 chunk, sent, accepted, wire>>

\* Woken by the broadcast or by the timeout.
SendThreadWake ==
  /\ TakeLock("asleep")
  /\ UNCHANGED <<ring, readPos, writePos, closing, shutdown, reading, call,
                 chunk, sent, accepted, wire>>

\* Choose a chunk and release the mutex for the long-running send().
PickChunk ==
  /\ sendPc = "loop"
  /\ ~Stopping
  /\ ~NothingPending
  /\ chunk' = Least(ContiguousPending, SendChunkSize)
  /\ mutex' = NoThread
  /\ sendPc' = "send"
  /\ UNCHANGED <<ring, readPos, writePos, closing, shutdown, reading, call,
                 sent, accepted, wire>>

\* The socket takes n of the chunk's bytes.  A closed socket takes none.
SendChunk(n) ==
  /\ sendPc = "send"
  /\ ~closing
  /\ n \in 1 .. chunk
  /\ wire' = wire \o [k \in 1 .. n |-> ring[readPos + k - 1]]
  /\ sent' = n
  /\ sendPc' = "relock"
  /\ UNCHANGED <<ring, readPos, writePos, mutex, closing, shutdown, reading,
                 call, chunk, accepted>>

\* send() fails: leave the loop without the mutex.
SendFails ==
  /\ sendPc = "send"
  /\ sendPc' = "leave"
  /\ UNCHANGED <<ring, readPos, writePos, mutex, closing, shutdown, reading,
                 call, chunk, sent, accepted, wire>>

\* Regain the mutex, forward the read position, wrap if needed.
AdvanceReadPos ==
  /\ TakeLock("relock")
  /\ readPos' = Wrap(readPos + sent)
  /\ sent' = 0
  /\ UNCHANGED <<ring, writePos, closing, shutdown, reading, call, chunk,
                 accepted, wire>>

\* Loop condition fails: unlock.
SendThreadStop ==
  /\ sendPc = "loop"
  /\ Stopping
  /\ mutex' = NoThread
  /\ sendPc' = "leave"
  /\ UNCHANGED <<ring, readPos, writePos, closing, shutdown, reading, call,
                 chunk, sent, accepted, wire>>

\* close_network_connection and return.
SendThreadExit ==
  /\ sendPc = "leave"
  /\ closing' = TRUE
  /\ sendPc' = "done"
  /\ UNCHANGED <<ring, readPos, writePos, mutex, shutdown, reading, call,
                 chunk, sent, accepted, wire>>

-----------------------------------------------------------------------------
(* The connection ends. *)

\* The client stops reading for good, without closing: what the system's
\* buffers have room for may still be taken, then send() blocks.
StopReading ==
  /\ reading
  /\ reading' = FALSE
  /\ UNCHANGED <<ring, readPos, writePos, mutex, closing, shutdown, call,
                 sendPc, chunk, sent, accepted, wire>>

\* The receive thread, the line handler or the server closes the socket.
CloseConnection ==
  /\ ~closing
  /\ closing' = TRUE
  /\ UNCHANGED <<ring, readPos, writePos, mutex, shutdown, reading, call,
                 sendPc, chunk, sent, accepted, wire>>

\* shutdown_network_connection: raise the flag and wake the send thread.  Its
\* next steps are CloseConnection, unless somebody has closed the socket, and
\* the join, which waits for sendPc = "done".
ShutdownConnection ==
  /\ ~shutdown
  /\ shutdown' = TRUE
  /\ UNCHANGED <<ring, readPos, writePos, mutex, closing, reading, call, sendPc,
                 chunk, sent, accepted, wire>>

\* Nothing is left to do once the send thread has returned.
Terminated ==
  /\ sendPc = "done"
  /\ shutdown
  /\ \A t \in Senders : call[t].pc = "idle"
  /\ UNCHANGED vars

SendThreadNext ==
  \/ SendThreadStart \/ SendThreadSleep \/ SendThreadWake \/ PickChunk
  \/ \E n \in 1 .. SendChunkSize : SendChunk(n)
  \/ SendFails \/ AdvanceReadPos \/ SendThreadStop \/ SendThreadExit

Next ==
  \/ \E t \in Senders :
       \/ \E n \in 0 .. SendBufferSize : EnterSend(t, n)
       \/ RefuseSend(t) \/ CopyToEnd(t) \/ CopyAtStart(t)
  \/ SendThreadNext
  \/ CloseConnection \/ ShutdownConnection \/ StopReading \/ Terminated

Spec == Init /\ [][Next]_vars

\* Every thread that can run keeps running: a sender that holds the mutex ends
\* its copy, the mutex starves nobody, cnd_timedwait wakes up by itself every
\* SEND_CHECK_INTERVAL, and shutdown_network_connection goes on to close the
\* socket.  send() returns only as long as the client reads: nothing is
\* assumed of a call made to a client that has stopped.
Fairness ==
  /\ \A t \in Senders :
       SF_vars(RefuseSend(t) \/ CopyToEnd(t)) /\ WF_vars(CopyAtStart(t))
  /\ WF_vars(SendThreadSleep) /\ WF_vars(PickChunk)
  /\ SF_vars(SendThreadStart) /\ SF_vars(SendThreadWake)
  /\ SF_vars(AdvanceReadPos)
  /\ WF_vars(reading /\ \E n \in 1 .. SendChunkSize : SendChunk(n))
  /\ WF_vars(reading /\ closing /\ SendFails)
  /\ WF_vars(SendThreadStop) /\ WF_vars(SendThreadExit)
  /\ WF_vars(shutdown /\ CloseConnection)

FairSpec == Spec /\ Fairness

-----------------------------------------------------------------------------
(* What the buffer promises. *)

TypeOK ==
  /\ ring \in [Index -> Nat]
  /\ readPos \in Index
  /\ writePos \in Index
  /\ mutex \in Senders \cup {SendThread, NoThread}
  /\ closing \in BOOLEAN
  /\ shutdown \in BOOLEAN
  /\ reading \in BOOLEAN
  /\ call \in [Senders -> Calls]
  /\ sendPc \in {"start", "loop", "asleep", "send", "relock", "leave", "done"}
  /\ chunk \in Nat
  /\ sent \in Nat
  /\ accepted \in Nat
  /\ wire \in Seq(Nat)

\* What goes over the wire is the accepted stream: no byte lost, repeated,
\* reordered or overwritten while send() reads the buffer without the mutex
\* (run_send_thread against send_to_network).
InOrder == \A i \in 1 .. Len(wire) : wire[i] = i

\* send_to_network answers NETWORK_ERROR_CAPACITY only when the message really
\* does not fit next to the bytes the send thread has not released yet; one
\* position stays free so that equal positions mean "empty".
RefusedOnlyWhenFull ==
  [][\A t \in Senders :
       (call[t].pc = "lock" /\ call'[t].pc = "idle") =>
         accepted - (Len(wire) - sent) + call[t].length > SendBufferSize - 1]_vars

\* The ring between the positions, seen as the queue of bytes that are
\* published by send_to_network and not taken by the socket yet.
Published ==
  IF \E t \in Senders : call[t].pc = "copy"
  THEN LET c == call[mutex]
       IN  (writePos - (c.length - c.rest) + SendBufferSize) % SendBufferSize
  ELSE writePos

Unsent ==
  LET used == (Published - readPos + SendBufferSize) % SendBufferSize
  IN  [k \in 1 .. used - sent |-> ring[(readPos + sent + k - 1) % SendBufferSize]]

Stream == INSTANCE ByteStream
            WITH Capacity <- SendBufferSize - 1, queue <- Unsent,
                 wire <- wire, closed <- closing

\* The ring buffer and its unlocked send() implement a bounded byte stream
\* that accepts whole messages (send_to_network, run_send_thread).
ImplementsByteStream == Stream!Spec

\* The send thread is inside send() to a client that has stopped reading.
Blocked == sendPc = "send" /\ ~reading

\* Every accepted byte reaches the socket unless the connection is closed: the
\* send thread never sleeps on a non-empty buffer for good.  A connection that
\* is being shut down ends the thread, so that the join in
\* shutdown_network_connection returns (run_send_thread).  Both are up to the
\* client once send() blocks, as no timeout is set and only reading is shut
\* down (network.c:623); but the callers are not: send_to_network returns to
\* every thread that called it, whatever the client does.
SendThreadServes ==
  /\ \A n \in 1 .. MaxAccepted :
       (accepted >= n) ~> (Len(wire) >= n \/ closing \/ Blocked)
  /\ shutdown ~> (sendPc = "done" \/ Blocked)
  /\ \A t \in Senders : (call[t].pc # "idle") ~> (call[t].pc = "idle")

=============================================================================
