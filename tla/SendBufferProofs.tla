-------------------------- MODULE SendBufferProofs --------------------------
(***************************************************************************)
(* Proofs about SendBuffer for every buffer size, chunk size and set of    *)
(* senders: type correctness, the order of the bytes on the wire, the      *)
(* exactness of the capacity check and that the buffer implements a        *)
(* bounded stream of bytes.                                                *)
(***************************************************************************)
EXTENDS SendBuffer, SequenceTheorems, TLAPS

\* Bytes of an accepted message that wait for the second copy.
Rest == IF mutex \in Senders THEN call[mutex].rest ELSE 0

\* Bytes that are in the ring or have left it, and bytes whose positions the
\* send thread has given free.
Written == accepted - Rest
Freed == Len(wire) - sent

\* The ring position d places after the read position.
Ahead(d) == IF readPos + d < SendBufferSize THEN readPos + d
                                            ELSE readPos + d - SendBufferSize

\* Who is where holds the mutex.
LockInv ==
  /\ \A t \in Senders : call[t].pc = "copy" <=> mutex = t
  /\ sendPc = "loop" <=> mutex = SendThread

\* The positions count the bytes: the ring holds what is written and not freed,
\* and never all of its positions.
CountInv ==
  /\ Rest >= 0
  /\ 0 <= Freed
  /\ Freed + sent <= Written
  /\ Written <= accepted
  /\ accepted - Freed <= SendBufferSize - 1
  /\ writePos = Ahead(Written - Freed)

\* A second copy is only due when the first one has reached the end.
RestInv == Rest > 0 => writePos = 0 /\ readPos + (Written - Freed) = SendBufferSize

\* The ring holds those bytes in order.
ContentInv ==
  \A d \in 0 .. Written - Freed - 1 : ring[Ahead(d)] = Freed + d + 1

\* A chunk being sent lies in the filled part and does not wrap.
ChunkInv ==
  /\ sendPc = "send" => /\ 1 <= chunk
                        /\ chunk <= Written - Freed
                        /\ readPos + chunk <= SendBufferSize
  /\ sendPc = "relock" => 1 <= sent /\ readPos + sent <= SendBufferSize
  /\ sendPc # "relock" => sent = 0

Inv ==
  /\ TypeOK
  /\ LockInv
  /\ CountInv
  /\ RestInv
  /\ ContentInv
  /\ ChunkInv
  /\ InOrder
-----------------------------------------------------------------------------
\* The buffer starts out empty and unlocked (run_server_thread's memset).
LEMMA InitInv == Init => Inv
<1> SUFFICES ASSUME Init PROVE Inv OBVIOUS
<1> USE SizeAssumption, ThreadAssumption
<1>1. TypeOK
  <2>1. Idle \in Calls
    BY DEF Idle, Calls
  <2>2. call \in [Senders -> Calls] /\ wire \in Seq(Nat)
    BY <2>1 DEF Init
  <2>3. 0 \in Index
    BY DEF Index
  <2>4. ring \in [Index -> Nat]
    BY DEF Init
  <2> QED BY <2>2, <2>3, <2>4 DEF Init, TypeOK
<1>2. Rest = 0 /\ Written = 0 /\ Freed = 0
  BY DEF Init, Rest, Written, Freed
<1>3. LockInv
  BY DEF Init, LockInv, Idle
<1>4. CountInv /\ RestInv /\ ContentInv /\ ChunkInv /\ InOrder
  BY <1>2 DEF Init, CountInv, RestInv, ContentInv, ChunkInv, InOrder, Ahead
<1> QED BY <1>1, <1>3, <1>4 DEF Inv

\* Steps that only move a thread: they leave ring, positions and counters alone
\* and change the mutex between the send thread and nobody.
LEMMA QuietStep ==
  ASSUME Inv, TypeOK', LockInv', ChunkInv',
         UNCHANGED <<ring, readPos, writePos, sent, accepted, wire>>,
         Rest' = Rest
  PROVE  Inv'
<1>1. Written' = Written /\ Freed' = Freed
  BY DEF Written, Freed
<1>2. CountInv' /\ RestInv' /\ ContentInv' /\ InOrder'
  BY <1>1 DEF Inv, CountInv, RestInv, ContentInv, InOrder, Ahead
<1> QED BY <1>2 DEF Inv

\* Entering or refusing send_to_network changes one idle sender only.
LEMMA EnterRefuseStep ==
  ASSUME Inv, NEW t \in Senders,
         (\E n \in 0 .. SendBufferSize : EnterSend(t, n)) \/ RefuseSend(t)
  PROVE  Inv'
<1> USE SizeAssumption, ThreadAssumption
<1>1. TypeOK'
  <2>1. Idle \in Calls
    BY DEF Idle, Calls
  <2>2. \A n \in 0 .. SendBufferSize : [pc |-> "lock", length |-> n, rest |-> 0] \in Calls
    BY DEF Calls
  <2>3. call' \in [Senders -> Calls]
    BY <2>1, <2>2 DEF Inv, TypeOK, EnterSend, RefuseSend
  <2> QED BY <2>3 DEF Inv, TypeOK, EnterSend, RefuseSend
<1>2. mutex' = mutex /\ call[t].pc # "copy" /\ call'[t].pc # "copy"
  BY DEF Inv, TypeOK, EnterSend, RefuseSend, Idle
<1>3. \A u \in Senders : u # t => call'[u] = call[u]
  BY DEF Inv, TypeOK, EnterSend, RefuseSend
<1>4. LockInv'
  BY <1>2, <1>3 DEF Inv, LockInv, EnterSend, RefuseSend
<1>5. Rest' = Rest
  BY <1>2, <1>3 DEF Inv, LockInv, Rest
<1>6. ChunkInv'
  BY <1>5 DEF Inv, ChunkInv, EnterSend, RefuseSend, Written, Freed
<1> QED BY <1>1, <1>4, <1>5, <1>6, QuietStep DEF EnterSend, RefuseSend

\* With the mutex free, the capacity is what the ring has left.
LEMMA CapacityExact ==
  ASSUME TypeOK, CountInv, Rest = 0
  PROVE  /\ CapacityToReadPos = SendBufferSize - 1 - (accepted - Freed)
         /\ CapacityToReadPos \in Int
<1> USE SizeAssumption
<1>1. accepted \in Nat /\ Freed \in Int /\ Written = accepted
  BY DEF TypeOK, Written, Freed
<1>2. readPos \in 0 .. SendBufferSize - 1 /\ writePos \in 0 .. SendBufferSize - 1
  BY DEF TypeOK, Index
<1>3. accepted - Freed \in 0 .. SendBufferSize - 1
  BY <1>1 DEF CountInv, TypeOK
<1>4. writePos = IF readPos + (accepted - Freed) < SendBufferSize
                 THEN readPos + (accepted - Freed)
                 ELSE readPos + (accepted - Freed) - SendBufferSize
  BY <1>1 DEF CountInv, Ahead
<1> QED BY <1>2, <1>3, <1>4 DEF CapacityToReadPos

\* The first copy of send_to_network.
LEMMA CopyToEndStep ==
  ASSUME Inv, NEW t \in Senders, CopyToEnd(t)
  PROVE  Inv'
<1> USE SizeAssumption, ThreadAssumption
<1> DEFINE n == call[t].length
           toEnd == Least(SendBufferSize - writePos, n)
           reached == writePos + toEnd
           used == accepted - Freed
<1>1. /\ mutex = NoThread /\ mutex' = t /\ call[t].pc = "lock"
      /\ call' = [call EXCEPT ![t] =
                    [pc |-> "copy", length |-> n, rest |-> n - toEnd]]
      /\ ring' = [i \in Index |-> IF writePos <= i /\ i < reached
                                  THEN accepted + (i - writePos) + 1 ELSE ring[i]]
      /\ writePos' = Wrap(reached)
      /\ accepted' = accepted + n
      /\ CapacityToReadPos >= n
      /\ UNCHANGED <<readPos, closing, shutdown, reading, sendPc, chunk, sent, wire>>
  BY DEF CopyToEnd
<1>2. n \in Nat /\ readPos \in 0 .. SendBufferSize - 1
      /\ writePos \in 0 .. SendBufferSize - 1 /\ accepted \in Nat /\ sent \in Nat
      /\ Len(wire) \in Nat
  BY DEF Inv, TypeOK, Calls, Index
<1>3. toEnd \in Nat /\ toEnd <= n /\ toEnd <= SendBufferSize - writePos
      /\ (toEnd = n \/ toEnd = SendBufferSize - writePos)
  BY <1>2 DEF Least
<1>4. Rest = 0 /\ Written = accepted
  BY <1>1, <1>2 DEF Rest, Written
<1>5. n <= SendBufferSize - 1 - used
  <2>1. CapacityToReadPos = SendBufferSize - 1 - used /\ CapacityToReadPos \in Int
    BY <1>4, CapacityExact DEF Inv
  <2> QED BY <2>1, <1>1, <1>2
<1>6. used \in 0 .. SendBufferSize - 1 /\ writePos = Ahead(used) /\ Freed \in Nat
      /\ sent <= used
  BY <1>2, <1>4 DEF Inv, CountInv, Freed
<1>7. Rest' = n - toEnd /\ Written' = accepted + toEnd /\ Freed' = Freed
  <2>1. call'[t].rest = n - toEnd
    BY <1>1 DEF Inv, TypeOK
  <2>2. Rest' = n - toEnd
    BY <2>1, <1>1 DEF Rest
  <2> QED BY <2>2, <1>1, <1>2, <1>3, SMTT(30) DEF Written, Freed
<1>d. reached = writePos + toEnd /\ used = accepted - Freed
  OBVIOUS
<1> HIDE DEF n, toEnd, reached, used
<1>8. TypeOK'
  <2>1. ring' \in [Index -> Nat]
    <3> SUFFICES ASSUME NEW i \in Index PROVE ring'[i] \in Nat
      BY <1>1
    <3>1. i \in 0 .. SendBufferSize - 1 /\ ring[i] \in Nat
      BY DEF Inv, TypeOK, Index
    <3>2. CASE writePos <= i /\ i < reached
      BY <3>1, <3>2, <1>1, <1>2
    <3>3. CASE ~(writePos <= i /\ i < reached)
      BY <3>1, <3>3, <1>1
    <3> QED BY <3>2, <3>3
  <2>2. call' \in [Senders -> Calls]
    BY <1>1, <1>2, <1>3 DEF Inv, TypeOK, Calls
  <2>3. writePos' \in Index
    BY <1>1, <1>2, <1>3, <1>d DEF Wrap, Index
  <2>4. accepted' \in Nat
    BY <1>1, <1>2
  <2> QED BY <2>1, <2>2, <2>3, <2>4, <1>1 DEF Inv, TypeOK
<1>9. LockInv'
  <2>1. call'[t].pc = "copy" /\ \A u \in Senders : u # t => call'[u] = call[u]
    BY <1>1 DEF Inv, TypeOK
  <2> QED BY <2>1, <1>1 DEF Inv, LockInv
<1>10. CountInv'
  <2>1. Ahead(used + toEnd) = Wrap(reached)
    BY <1>2, <1>3, <1>5, <1>6, <1>d DEF Ahead, Wrap
  <2>2. Ahead(Written - Freed)' = Ahead(used + toEnd)
    <3>1. Written' - Freed' = used + toEnd
      BY <1>2, <1>3, <1>6, <1>7, <1>d
    <3> QED BY <3>1, <1>1 DEF Ahead
  <2>3. writePos' = Ahead(Written - Freed)'
    BY <2>1, <2>2, <1>1
  <2>4. Rest' >= 0 /\ 0 <= Freed' /\ Freed' + sent' <= Written'
        /\ Written' <= accepted' /\ accepted' - Freed' <= SendBufferSize - 1
    BY <1>1, <1>2, <1>3, <1>5, <1>6, <1>7, <1>d
  <2> QED BY <2>3, <2>4 DEF CountInv
<1>11. ContentInv'
  <2> SUFFICES ASSUME NEW d \in 0 .. Written' - Freed' - 1
               PROVE  ring'[Ahead(d)'] = Freed' + d + 1
    BY DEF ContentInv
  <2>1. d \in 0 .. used + toEnd - 1
    BY <1>2, <1>3, <1>6, <1>7, <1>d
  <2>2. Ahead(d)' = Ahead(d)
    BY <1>1 DEF Ahead
  <2>3. Ahead(d) \in Index
    BY <2>1, <1>2, <1>3, <1>5, <1>6 DEF Ahead, Index
  <2>4. CASE d < used
    <3>1. ring[Ahead(d)] = Freed + d + 1
      BY <2>1, <2>4, <1>4, <1>2, <1>6, <1>d DEF Inv, ContentInv
    <3>2. ~(writePos <= Ahead(d) /\ Ahead(d) < reached)
      BY <2>1, <2>4, <1>2, <1>3, <1>5, <1>6, <1>d DEF Ahead
    <3> QED BY <3>1, <3>2, <2>2, <2>3, <1>1, <1>7
  <2>5. CASE d >= used
    <3>1. Ahead(d) = writePos + (d - used)
      BY <2>1, <2>5, <1>2, <1>3, <1>5, <1>6 DEF Ahead
    <3>2. writePos <= Ahead(d) /\ Ahead(d) < reached
      BY <3>1, <2>1, <2>5, <1>2, <1>3, <1>6, <1>d
    <3>3. ring'[Ahead(d)] = accepted + (d - used) + 1
      BY <3>1, <3>2, <2>3, <2>1, <1>1, <1>2, <1>6
    <3> QED BY <3>3, <2>2, <2>1, <1>2, <1>6, <1>7, <1>d
  <2> QED BY <2>4, <2>5, <2>1, <1>6
<1>12. ChunkInv'
  <2>1. chunk \in Nat /\ Written - Freed <= Written' - Freed'
        /\ Written' - Freed' \in Int /\ Written - Freed \in Int
    BY <1>2, <1>3, <1>4, <1>6, <1>7 DEF Inv, TypeOK
  <2> QED BY <2>1, <1>1 DEF Inv, ChunkInv
<1>13. InOrder'
  BY <1>1 DEF Inv, InOrder
<1>14. RestInv'
  <2> SUFFICES ASSUME n - toEnd > 0
               PROVE  writePos' = 0 /\ readPos' + (Written' - Freed') = SendBufferSize
    BY <1>7 DEF RestInv
  <2>1. toEnd = SendBufferSize - writePos /\ reached = SendBufferSize
    BY <1>2, <1>3, <1>d
  <2>2. writePos = readPos + used
    BY <2>1, <1>2, <1>3, <1>5, <1>6 DEF Ahead
  <2>3. Written' - Freed' = used + toEnd
    BY <1>2, <1>3, <1>6, <1>7, <1>d
  <2> QED BY <2>1, <2>2, <2>3, <1>1, <1>2, <1>6 DEF Wrap
<1> QED BY <1>8, <1>9, <1>10, <1>11, <1>12, <1>13, <1>14 DEF Inv

\* The second copy of send_to_network.
LEMMA CopyAtStartStep ==
  ASSUME Inv, NEW t \in Senders, CopyAtStart(t)
  PROVE  Inv'
<1> USE SizeAssumption, ThreadAssumption
<1> DEFINE rest == call[t].rest
           held == Written - Freed
<1>1. /\ call[t].pc = "copy" /\ mutex' = NoThread
      /\ call' = [call EXCEPT ![t] = Idle]
      /\ ring' = [i \in Index |-> IF i < rest THEN accepted - rest + i + 1
                                              ELSE ring[i]]
      /\ writePos' = writePos + rest
      /\ UNCHANGED <<readPos, closing, shutdown, reading, sendPc, chunk, sent, accepted, wire>>
  BY DEF CopyAtStart
<1>2. rest \in Nat /\ readPos \in 0 .. SendBufferSize - 1
      /\ writePos \in 0 .. SendBufferSize - 1 /\ accepted \in Nat /\ sent \in Nat
      /\ Len(wire) \in Nat
  BY DEF Inv, TypeOK, Calls, Index
<1>3. mutex = t /\ Rest = rest /\ Written = accepted - rest
  BY <1>1 DEF Inv, LockInv, Rest, Written
<1>d. held = Written - Freed
  OBVIOUS
<1>e. Freed \in Nat /\ Written \in Int
  BY <1>2, <1>3, SMTT(30) DEF Inv, CountInv, Freed
<1>4. held \in 0 .. SendBufferSize - 1 /\ held + rest <= SendBufferSize - 1
      /\ writePos = Ahead(held) /\ Freed \in Nat /\ sent <= held
      /\ accepted - Freed = held + rest
  <2> HIDE DEF held, rest
  <2>1. held + rest = accepted - Freed /\ held \in Int
    BY <1>2, <1>3, <1>d, <1>e
  <2>2. accepted - Freed <= SendBufferSize - 1 /\ Freed + sent <= Written
        /\ writePos = Ahead(held)
    BY <1>d DEF Inv, CountInv
  <2> QED BY <2>1, <2>2, <1>2, <1>d, <1>e
<1>5. Rest' = 0 /\ Written' = accepted /\ Freed' = Freed
  BY <1>1, <1>2 DEF Rest, Written, Freed
<1>6. rest > 0 => writePos = 0 /\ readPos + held = SendBufferSize
  BY <1>2, <1>3, <1>4, <1>d DEF Inv, RestInv
<1> HIDE DEF rest, held
<1>7. writePos + rest \in 0 .. SendBufferSize - 1
  BY <1>2, <1>4, <1>6
<1>8. TypeOK'
  <2>1. ring' \in [Index -> Nat]
    <3> SUFFICES ASSUME NEW i \in Index PROVE ring'[i] \in Nat
      BY <1>1
    <3>1. accepted - rest \in Nat /\ i \in Nat /\ ring[i] \in Nat
      BY <1>2, <1>4 DEF Inv, TypeOK, Index
    <3> QED BY <3>1, <1>1, <1>2
  <2>2. call' \in [Senders -> Calls]
    BY <1>1 DEF Inv, TypeOK, Calls, Idle
  <2> QED BY <2>1, <2>2, <1>1, <1>7 DEF Inv, TypeOK, Index
<1>9. LockInv'
  <2>1. call'[t].pc = "idle" /\ \A u \in Senders : u # t => call'[u] = call[u]
    BY <1>1 DEF Inv, TypeOK, Idle
  <2> QED BY <2>1, <1>1, <1>3 DEF Inv, LockInv
<1>10. CountInv'
  <2>1. Ahead(held + rest) = writePos + rest
    BY <1>2, <1>4, <1>6 DEF Ahead
  <2>2. Ahead(Written - Freed)' = Ahead(held + rest)
    BY <1>1, <1>4, <1>5 DEF Ahead
  <2>3. Freed' + sent' <= Written' /\ Written' <= accepted' /\ 0 <= Freed'
        /\ accepted' - Freed' <= SendBufferSize - 1 /\ Rest' >= 0
    BY <1>1, <1>2, <1>4, <1>5
  <2> QED BY <2>1, <2>2, <2>3, <1>1 DEF CountInv
<1>11. ContentInv'
  <2> SUFFICES ASSUME NEW d \in 0 .. Written' - Freed' - 1
               PROVE  ring'[Ahead(d)'] = Freed' + d + 1
    BY DEF ContentInv
  <2>1. d \in 0 .. held + rest - 1
    BY <1>2, <1>4, <1>5
  <2>2. Ahead(d)' = Ahead(d)
    BY <1>1 DEF Ahead
  <2>3. Ahead(d) \in Index
    BY <2>1, <1>2, <1>4 DEF Ahead, Index
  <2>4. CASE d < held
    <3>1. ring[Ahead(d)] = Freed + d + 1
      BY <2>1, <2>4, <1>4, <1>d DEF Inv, ContentInv
    <3>2. ~(Ahead(d) < rest)
      BY <2>1, <2>4, <1>2, <1>4, <1>6 DEF Ahead
    <3> QED BY <3>1, <3>2, <2>2, <2>3, <1>1, <1>5
  <2>5. CASE d >= held
    <3>1. Ahead(d) = d - held /\ d - held < rest
      BY <2>1, <2>5, <1>2, <1>4, <1>6 DEF Ahead
    <3>2. ring'[Ahead(d)] = accepted - rest + (d - held) + 1
      BY <3>1, <2>3, <1>1
    <3> QED BY <3>2, <2>1, <2>2, <1>2, <1>4, <1>5
  <2> QED BY <2>4, <2>5, <2>1, <1>4
<1>12. ChunkInv'
  <2>1. chunk \in Nat /\ Written - Freed <= Written' - Freed'
        /\ Written' - Freed' \in Int /\ Written - Freed \in Int
    BY <1>2, <1>4, <1>5, <1>d DEF Inv, TypeOK
  <2> QED BY <2>1, <1>1 DEF Inv, ChunkInv
<1>13. InOrder' /\ RestInv'
  BY <1>1, <1>5 DEF Inv, InOrder, RestInv
<1> QED BY <1>8, <1>9, <1>10, <1>11, <1>12, <1>13 DEF Inv

\* Steps of the send thread, of the line handler and of connection maintenance
\* that neither transmit nor move a position.
ThreadStep ==
  \/ SendThreadStart \/ SendThreadSleep \/ SendThreadWake \/ PickChunk
  \/ SendFails \/ SendThreadStop \/ SendThreadExit
  \/ CloseConnection \/ ShutdownConnection \/ StopReading \/ Terminated

\* The steps that touch neither ring nor positions.
LEMMA ThreadStepInv ==
  ASSUME Inv, ThreadStep
  PROVE  Inv'
<1> USE SizeAssumption, ThreadAssumption
<1>1. /\ UNCHANGED <<ring, readPos, writePos, sent, accepted, wire, call>>
      /\ mutex' = mutex \/ {mutex, mutex'} = {NoThread, SendThread}
  BY DEF ThreadStep, SendThreadStart, SendThreadSleep, SendThreadWake, PickChunk,
         SendFails, SendThreadStop, SendThreadExit, CloseConnection,
         ShutdownConnection, StopReading, Terminated, TakeLock, vars, Inv, LockInv
<1>2. Rest' = Rest
  BY <1>1 DEF Rest
<1>3. Written' = Written /\ Freed' = Freed
  BY <1>1, <1>2 DEF Written, Freed
<1>4. chunk' \in Nat
  <2>1. CASE PickChunk
    <3>1. ContiguousPending \in Nat
      BY DEF Inv, TypeOK, Index, ContiguousPending
    <3> QED BY <2>1, <3>1 DEF PickChunk, Least
  <2>2. CASE ~PickChunk
    BY <2>2 DEF ThreadStep, SendThreadStart, SendThreadSleep, SendThreadWake,
         SendFails, SendThreadStop, SendThreadExit, CloseConnection,
         ShutdownConnection, StopReading, Terminated, TakeLock, vars, Inv, TypeOK
  <2> QED BY <2>1, <2>2
<1>5. TypeOK'
  <2>1. sendPc' \in {"start", "loop", "asleep", "send", "relock", "leave", "done"}
        /\ closing' \in BOOLEAN /\ shutdown' \in BOOLEAN /\ reading' \in BOOLEAN
    BY DEF ThreadStep, SendThreadStart, SendThreadSleep, SendThreadWake, PickChunk,
         SendFails, SendThreadStop, SendThreadExit, CloseConnection,
         ShutdownConnection, StopReading, Terminated, TakeLock, vars, Inv, TypeOK
  <2>2. mutex' \in Senders \cup {SendThread, NoThread}
    BY <1>1 DEF Inv, TypeOK
  <2> QED BY <2>1, <2>2, <1>1, <1>4 DEF Inv, TypeOK
<1>6. LockInv'
  <2>1. \A t \in Senders : mutex' = t <=> mutex = t
    BY <1>1
  <2>2. sendPc' = "loop" <=> mutex' = SendThread
    BY DEF ThreadStep, SendThreadStart, SendThreadSleep, SendThreadWake, PickChunk,
         SendFails, SendThreadStop, SendThreadExit, CloseConnection,
         ShutdownConnection, StopReading, Terminated, TakeLock, vars, Inv, LockInv
  <2> QED BY <2>1, <2>2, <1>1 DEF Inv, LockInv
<1>7. ChunkInv'
  <2>1. CASE PickChunk
    <3> DEFINE held == Written - Freed
    <3>1. sendPc = "loop" /\ readPos # writePos /\ sendPc' = "send"
          /\ chunk' = Least(ContiguousPending, SendChunkSize) /\ sent = 0
      BY <2>1 DEF PickChunk, NothingPending, Inv, ChunkInv
    <3>2. Rest = 0 /\ Written = accepted
      BY <3>1 DEF Inv, LockInv, Rest, Written, TypeOK
    <3>3. accepted \in Nat /\ Freed \in Int /\ readPos \in 0 .. SendBufferSize - 1
          /\ writePos \in 0 .. SendBufferSize - 1
      BY <3>1 DEF Inv, TypeOK, Freed, Index
    <3>4. held \in 0 .. SendBufferSize - 1
          /\ writePos = IF readPos + held < SendBufferSize THEN readPos + held
                        ELSE readPos + held - SendBufferSize
      BY <3>1, <3>2, <3>3 DEF Inv, CountInv, Ahead
    <3> HIDE DEF held
    <3>5. 1 <= ContiguousPending /\ ContiguousPending <= held
          /\ readPos + ContiguousPending <= SendBufferSize /\ ContiguousPending \in Int
      BY <3>1, <3>3, <3>4 DEF ContiguousPending
    <3>6. 1 <= chunk' /\ chunk' <= held /\ readPos + chunk' <= SendBufferSize
      BY <3>1, <3>3, <3>4, <3>5 DEF Least
    <3> QED BY <3>1, <3>6, <1>1, <1>3 DEF ChunkInv, held
  <2>2. CASE ~PickChunk
    <3>1. chunk' = chunk /\ sent' = sent /\ (sendPc' = "send" => sendPc = "send")
          /\ (sendPc' = "relock" => sendPc = "relock")
          /\ (sendPc = "relock" => sendPc' = "relock")
      BY <2>2 DEF ThreadStep, SendThreadStart, SendThreadSleep, SendThreadWake,
         SendFails, SendThreadStop, SendThreadExit, CloseConnection,
         ShutdownConnection, StopReading, Terminated, TakeLock, vars
    <3> QED BY <3>1, <1>1, <1>3 DEF Inv, ChunkInv
  <2> QED BY <2>1, <2>2
<1> QED BY <1>1, <1>2, <1>5, <1>6, <1>7, QuietStep

\* What concatenation gives: the first sequence, then the second.
LEMMA ConcatFacts ==
  ASSUME NEW a \in Seq(Nat), NEW b \in Seq(Nat)
  PROVE  /\ a \o b \in Seq(Nat)
         /\ Len(a \o b) = Len(a) + Len(b)
         /\ \A i \in 1 .. Len(a) : (a \o b)[i] = a[i]
         /\ \A i \in Len(a) + 1 .. Len(a) + Len(b) : (a \o b)[i] = b[i - Len(a)]
OBVIOUS

\* send() hands the oldest unsent bytes to the socket.
LEMMA SendChunkStep ==
  ASSUME Inv, NEW n \in 1 .. SendChunkSize, SendChunk(n)
  PROVE  Inv'
<1> USE SizeAssumption, ThreadAssumption
<1> DEFINE piece == [k \in 1 .. n |-> ring[readPos + k - 1]]
<1>1. /\ sendPc = "send" /\ sendPc' = "relock" /\ n \in 1 .. chunk
      /\ wire' = wire \o piece /\ sent' = n
      /\ UNCHANGED <<ring, readPos, writePos, mutex, closing, shutdown, reading, call,
                     chunk, accepted>>
  BY DEF SendChunk
<1>2. readPos \in 0 .. SendBufferSize - 1 /\ accepted \in Nat /\ chunk \in Nat
      /\ wire \in Seq(Nat) /\ Len(wire) \in Nat /\ n \in Nat /\ sent = 0
  BY <1>1 DEF Inv, TypeOK, Index, ChunkInv
<1>3. n <= Written - Freed /\ readPos + n <= SendBufferSize /\ Freed = Len(wire)
      /\ Written \in Int
  <2>1. Rest \in Int
    BY DEF Inv, TypeOK, Rest, Calls
  <2>2. Freed = Len(wire) /\ Written \in Int
    BY <2>1, <1>2 DEF Freed, Written
  <2> QED BY <2>2, <1>1, <1>2 DEF Inv, ChunkInv
<1>4. \A k \in 1 .. n : readPos + k - 1 \in Index /\ ring[readPos + k - 1] = Len(wire) + k
  <2> SUFFICES ASSUME NEW k \in 1 .. n
               PROVE  readPos + k - 1 \in Index
                      /\ ring[readPos + k - 1] = Len(wire) + k
    OBVIOUS
  <2>1. k - 1 \in 0 .. Written - Freed - 1
    BY <1>2, <1>3
  <2>2. Ahead(k - 1) = readPos + k - 1
    BY <1>2, <1>3 DEF Ahead
  <2>3. ring[Ahead(k - 1)] = Freed + (k - 1) + 1
    BY <2>1 DEF Inv, ContentInv
  <2> QED BY <2>2, <2>3, <1>2, <1>3 DEF Index
<1>5. piece \in Seq(Nat) /\ Len(piece) = n
  <2>1. \A k \in 1 .. n : ring[readPos + k - 1] \in Nat
    BY <1>4 DEF Inv, TypeOK
  <2> QED BY <2>1, <1>2
<1>6. wire' \in Seq(Nat) /\ Len(wire') = Len(wire) + n
  <2> HIDE DEF piece
  <2> QED BY <1>1, <1>2, <1>5, ConcatFacts
<1>7. TypeOK'
  BY <1>1, <1>2, <1>6 DEF Inv, TypeOK
<1>8. LockInv'
  BY <1>1 DEF Inv, LockInv
<1>9. Rest' = Rest /\ Written' = Written /\ Freed' = Freed
  <2>1. Rest' = Rest
    BY <1>1 DEF Rest
  <2>2. Freed' = Freed
    BY <1>1, <1>2, <1>3, <1>6 DEF Freed
  <2> QED BY <2>1, <2>2, <1>1 DEF Written
<1>10. CountInv' /\ RestInv' /\ ContentInv'
  <2>1. Freed' + sent' <= Written'
    BY <1>1, <1>2, <1>3, <1>9
  <2> QED BY <2>1, <1>1, <1>9 DEF Inv, CountInv, RestInv, ContentInv, Ahead
<1>11. ChunkInv'
  BY <1>1, <1>2, <1>3 DEF ChunkInv
<1>12. InOrder'
  <2> SUFFICES ASSUME NEW i \in 1 .. Len(wire') PROVE wire'[i] = i
    BY DEF InOrder
  <2>1. CASE i <= Len(wire)
    <3>1. wire'[i] = wire[i]
      BY <2>1, <1>1, <1>2, <1>5, <1>6
    <3> QED BY <3>1, <2>1, <1>2, <1>6 DEF Inv, InOrder
  <2>2. CASE i > Len(wire)
    <3>1. i - Len(wire) \in 1 .. n
      BY <2>2, <1>2, <1>6
    <3>2. wire'[i] = piece[i - Len(wire)]
      <4> HIDE DEF piece
      <4>1. i \in Len(wire) + 1 .. Len(wire) + Len(piece)
        BY <3>1, <2>2, <1>2, <1>5
      <4>2. wire'[i] = (wire \o piece)[i]
        BY <1>1
      <4>3. (wire \o piece)[i] = piece[i - Len(wire)]
        BY <4>1, <1>2, <1>5, ConcatFacts
      <4> QED BY <4>2, <4>3
    <3>3. piece[i - Len(wire)] = ring[readPos + (i - Len(wire)) - 1]
      BY <3>1
    <3>4. ring[readPos + (i - Len(wire)) - 1] = Len(wire) + (i - Len(wire))
      BY <3>1, <1>4
    <3>5. Len(wire) + (i - Len(wire)) = i
      BY <1>2, <1>6
    <3> QED BY <3>2, <3>3, <3>4, <3>5
  <2> QED BY <2>1, <2>2, <1>2, <1>6
<1> QED BY <1>7, <1>8, <1>10, <1>11, <1>12 DEF Inv

\* The read position follows what send() took.
LEMMA AdvanceStep ==
  ASSUME Inv, AdvanceReadPos
  PROVE  Inv'
<1> USE SizeAssumption, ThreadAssumption
<1> DEFINE held == Written - Freed
           next == Wrap(readPos + sent)
<1>1. /\ sendPc = "relock" /\ sendPc' = "loop" /\ mutex = NoThread
      /\ mutex' = SendThread /\ readPos' = next /\ sent' = 0
      /\ UNCHANGED <<ring, writePos, closing, shutdown, reading, call, chunk, accepted, wire>>
  BY DEF AdvanceReadPos, TakeLock
<1>2. readPos \in 0 .. SendBufferSize - 1 /\ writePos \in 0 .. SendBufferSize - 1
      /\ accepted \in Nat /\ sent \in Nat /\ Len(wire) \in Nat
      /\ 1 <= sent /\ readPos + sent <= SendBufferSize
  BY <1>1 DEF Inv, TypeOK, Index, ChunkInv
<1>3. Rest = 0 /\ Rest' = 0 /\ Written = accepted /\ Written' = accepted
      /\ Freed = Len(wire) - sent /\ Freed' = Len(wire)
  BY <1>1, <1>2 DEF Rest, Written, Freed
<1>4. Freed \in Nat /\ Freed' = Freed + sent /\ held = accepted - Freed
      /\ held \in sent .. SendBufferSize - 1 /\ writePos = Ahead(held)
  BY <1>2, <1>3 DEF Inv, CountInv
<1>5. next \in 0 .. SendBufferSize - 1
  BY <1>2 DEF Wrap
<1> HIDE DEF held
<1>6. TypeOK'
  BY <1>1, <1>5 DEF Inv, TypeOK, Index
<1>7. LockInv'
  BY <1>1 DEF Inv, LockInv
<1>8. \A d \in 0 .. held - sent : Ahead(d)' = Ahead(d + sent)
  BY <1>1, <1>2, <1>4 DEF Ahead, Wrap
<1>9. CountInv' /\ RestInv'
  <2>1. Written' - Freed' = held - sent
    BY <1>2, <1>3, <1>4
  <2>2. Ahead(Written - Freed)' = writePos
    BY <2>1, <1>1, <1>2, <1>4, <1>8 DEF Ahead
  <2>3. 0 <= Freed' /\ Freed' + sent' <= Written' /\ Written' <= accepted'
        /\ accepted' - Freed' <= SendBufferSize - 1
    BY <1>1, <1>2, <1>3, <1>4
  <2> QED BY <2>2, <2>3, <1>1, <1>3 DEF CountInv, RestInv
<1>10. ContentInv'
  <2> SUFFICES ASSUME NEW d \in 0 .. Written' - Freed' - 1
               PROVE  ring'[Ahead(d)'] = Freed' + d + 1
    BY DEF ContentInv
  <2>1. d \in 0 .. held - sent - 1 /\ d + sent \in 0 .. held - 1
    BY <1>2, <1>3, <1>4
  <2>2. ring[Ahead(d + sent)] = Freed + (d + sent) + 1
    BY <2>1 DEF Inv, ContentInv, held
  <2>3. Ahead(d)' = Ahead(d + sent)
    BY <2>1, <1>2, <1>4, <1>8
  <2> QED BY <2>1, <2>2, <2>3, <1>1, <1>2, <1>4
<1>11. ChunkInv' /\ InOrder'
  BY <1>1 DEF Inv, ChunkInv, InOrder
<1> QED BY <1>6, <1>7, <1>9, <1>10, <1>11 DEF Inv

\* Every step keeps the invariant.
LEMMA NextInv == Inv /\ [Next]_vars => Inv'
<1> SUFFICES ASSUME Inv, [Next]_vars PROVE Inv'
  OBVIOUS
<1>1. CASE UNCHANGED vars
  BY <1>1 DEF vars, Inv, TypeOK, LockInv, CountInv, RestInv, ContentInv,
              ChunkInv, InOrder, Rest, Written, Freed, Ahead
<1>2. ASSUME NEW t \in Senders, NEW n \in 0 .. SendBufferSize, EnterSend(t, n)
      PROVE  Inv'
  BY <1>2, EnterRefuseStep
<1>3. ASSUME NEW t \in Senders, RefuseSend(t) PROVE Inv'
  BY <1>3, EnterRefuseStep
<1>4. ASSUME NEW t \in Senders, CopyToEnd(t) PROVE Inv'
  BY <1>4, CopyToEndStep
<1>5. ASSUME NEW t \in Senders, CopyAtStart(t) PROVE Inv'
  BY <1>5, CopyAtStartStep
<1>6. ASSUME NEW n \in 1 .. SendChunkSize, SendChunk(n) PROVE Inv'
  BY <1>6, SendChunkStep
<1>7. CASE AdvanceReadPos
  BY <1>7, AdvanceStep
<1>8. CASE ThreadStep
  BY <1>8, ThreadStepInv
<1> QED BY <1>1, <1>2, <1>3, <1>4, <1>5, <1>6, <1>7, <1>8
        DEF Next, SendThreadNext, ThreadStep

\* The inductive invariant holds in every state of every buffer.
THEOREM Invariance == Spec => []Inv
<1>1. Init => Inv BY InitInv
<1>2. Inv /\ [Next]_vars => Inv' BY NextInv
<1> QED BY <1>1, <1>2, PTL DEF Spec

\* Positions stay inside the ring and every variable keeps its type.
THEOREM TypeCorrect == Spec => []TypeOK
<1>1. Inv => TypeOK BY DEF Inv
<1> QED BY <1>1, Invariance, PTL

\* For every buffer size, chunk size and number of senders the wire carries the
\* accepted bytes in order, without loss, repetition or corruption.
THEOREM WireInOrder == Spec => []InOrder
<1>1. Inv => InOrder BY DEF Inv
<1> QED BY <1>1, Invariance, PTL

\* send_to_network refuses a message only if it really does not fit.
THEOREM RefusalExact == Spec => RefusedOnlyWhenFull
<1> DEFINE A == \A t \in Senders :
       (call[t].pc = "lock" /\ call'[t].pc = "idle") =>
         accepted - (Len(wire) - sent) + call[t].length > SendBufferSize - 1
<1>1. Inv /\ [Next]_vars => [A]_vars
  <2> SUFFICES ASSUME Inv, Next, NEW t \in Senders,
                      call[t].pc = "lock", call'[t].pc = "idle"
               PROVE  accepted - (Len(wire) - sent) + call[t].length
                        > SendBufferSize - 1
    OBVIOUS
  <2>1. RefuseSend(t)
    <3>1. CASE SendThreadNext \/ CloseConnection \/ ShutdownConnection \/ StopReading
               \/ Terminated
      BY <3>1 DEF SendThreadNext, SendThreadStart, SendThreadSleep, SendThreadWake,
             PickChunk, SendChunk, SendFails, AdvanceReadPos, SendThreadStop,
             SendThreadExit, CloseConnection, ShutdownConnection, StopReading,
             Terminated, TakeLock, vars
    <3>2. CASE \E u \in Senders :
                 \/ \E n \in 0 .. SendBufferSize : EnterSend(u, n)
                 \/ RefuseSend(u) \/ CopyToEnd(u) \/ CopyAtStart(u)
      BY <3>2 DEF Inv, TypeOK, EnterSend, RefuseSend, CopyToEnd, CopyAtStart, Idle
    <3> QED BY <3>1, <3>2 DEF Next
  <2>2. Rest = 0
    BY <2>1, ThreadAssumption DEF RefuseSend, Rest
  <2>3. CapacityToReadPos = SendBufferSize - 1 - (accepted - Freed)
        /\ CapacityToReadPos < call[t].length
    BY <2>1, <2>2, CapacityExact DEF Inv, RefuseSend
  <2>4. accepted \in Nat /\ Len(wire) \in Nat /\ sent \in Nat
        /\ call[t].length \in Nat
    BY DEF Inv, TypeOK, Calls
  <2> QED BY <2>3, <2>4, SizeAssumption DEF Freed
<1> QED BY <1>1, Invariance, PTL DEF Spec, RefusedOnlyWhenFull


-----------------------------------------------------------------------------
(* SendBuffer implements ByteStream. *)

\* Bytes of complete messages: what the abstract stream has accepted.
Visible == accepted - (IF mutex \in Senders THEN call[mutex].length ELSE 0)

\* The send thread works on complete messages only, also while a sender copies.
VisibleInv ==
  /\ mutex \in Senders => call[mutex].rest <= call[mutex].length
  /\ Freed + sent <= Visible
  /\ sendPc = "send" => chunk <= Visible - Freed

\* Positions wrap at most once.
LEMMA Modulo ==
  ASSUME NEW N \in Nat \ {0}, NEW x \in 0 .. 2 * N - 1
  PROVE  x % N = IF x < N THEN x ELSE x - N
<1>1. CASE x < N
  BY <1>1
<1>2. CASE x >= N
  <2>1. x - N \in 0 .. N - 1 /\ x = N * 1 + (x - N)
    BY <1>2
  <2> QED BY <1>2, <2>1, Z3
<1> QED BY <1>1, <1>2

\* The order of the counts.
Counts ==
  /\ SendBufferSize \in Nat \ {0} /\ accepted \in Nat /\ sent \in Nat /\ chunk \in Nat
  /\ Len(wire) \in Nat /\ Freed \in Nat /\ Written \in Nat /\ Visible \in Nat
  /\ readPos \in 0 .. SendBufferSize - 1 /\ writePos \in 0 .. SendBufferSize - 1
  /\ Len(wire) = Freed + sent
  /\ Len(wire) <= Visible /\ Visible <= Written /\ Written <= accepted
  /\ accepted - Freed <= SendBufferSize - 1

\* It follows from the invariants.
LEMMA CountsHold == ASSUME Inv, VisibleInv PROVE Counts
<1> USE SizeAssumption
<1>1. /\ accepted \in Nat /\ sent \in Nat /\ chunk \in Nat /\ Len(wire) \in Nat
      /\ readPos \in 0 .. SendBufferSize - 1 /\ writePos \in 0 .. SendBufferSize - 1
      /\ call \in [Senders -> Calls]
  BY DEF Inv, TypeOK, Index
<1>2. Len(wire) = Freed + sent /\ Freed \in Int
  BY <1>1 DEF Freed
<1>3. /\ Visible \in Int /\ Written \in Int
      /\ Visible <= Written
  <2>1. CASE mutex \in Senders
    <3>1. call[mutex].length \in Nat /\ call[mutex].rest \in Nat
      BY <1>1, <2>1 DEF Calls
    <3> QED BY <1>1, <2>1, <3>1 DEF Visible, Written, Rest, VisibleInv
  <2>2. CASE mutex \notin Senders
    BY <1>1, <2>2 DEF Visible, Written, Rest
  <2> QED BY <2>1, <2>2
<1>4. /\ 0 <= Freed /\ Freed + sent <= Visible /\ Written <= accepted
      /\ accepted - Freed <= SendBufferSize - 1
  BY DEF Inv, CountInv, VisibleInv
<1> QED BY <1>1, <1>2, <1>3, <1>4 DEF Counts

\* Seen as a position, the end of the complete messages.
LEMMA PublishedIs ==
  ASSUME Inv, VisibleInv
  PROVE  Published = Ahead(Visible - Freed)
<1>0. Counts  BY CountsHold
<1> USE DEF Counts
<1>1. writePos = Ahead(Written - Freed)
  BY DEF Inv, CountInv
<1>2. CASE mutex \in Senders
  <2> DEFINE c == call[mutex]
             a == c.length - c.rest
  <2>1. c.pc = "copy" /\ c.length \in Nat /\ c.rest \in Nat
    BY <1>2 DEF Inv, LockInv, TypeOK, Calls
  <2>2. Published = (writePos - a + SendBufferSize) % SendBufferSize
    BY <1>2, <2>1 DEF Published
  <2>3. Visible = accepted - c.length /\ Written = accepted - c.rest
    BY <1>2 DEF Visible, Written, Rest
  <2> HIDE DEF c
  <2>4. a \in Nat /\ Visible = Written - a
    BY <1>0, <2>1, <2>3, SMTT(30)
  <2> HIDE DEF a
  <2>5. writePos - a + SendBufferSize \in 0 .. 2 * SendBufferSize - 1
    BY <1>0, <2>4
  <2> DEFINE x == writePos - a + SendBufferSize
  <2>6. Published = IF x < SendBufferSize THEN x ELSE x - SendBufferSize
    BY <1>0, <2>2, <2>5, Modulo
  <2> QED BY <1>0, <1>1, <2>4, <2>6 DEF Ahead
<1>3. CASE mutex \notin Senders
  <2>1. ~\E t \in Senders : call[t].pc = "copy"
    BY <1>3 DEF Inv, LockInv
  <2>2. Published = writePos
    BY <2>1 DEF Published
  <2>3. Visible = Written
    BY <1>3 DEF Visible, Written, Rest
  <2> QED BY <1>1, <2>2, <2>3
<1> QED BY <1>2, <1>3

\* The queue of the abstract stream holds the numbers of the bytes that are
\* complete and not on the wire.
LEMMA UnsentIs ==
  ASSUME Inv, VisibleInv
  PROVE  Unsent = [k \in 1 .. Visible - Len(wire) |-> Len(wire) + k]
<1>0. Counts  BY CountsHold
<1> USE DEF Counts
<1> DEFINE N == SendBufferSize
           used == (Published - readPos + N) % N
<1>1. used = Visible - Freed
  <2>1. Published = IF readPos + (Visible - Freed) < N THEN readPos + (Visible - Freed)
                                                       ELSE readPos + (Visible - Freed) - N
    BY PublishedIs DEF Ahead
  <2> DEFINE x == Published - readPos + N
  <2>2. x \in 0 .. 2 * N - 1 /\ Visible - Freed \in 0 .. N - 1
    BY <1>0, <2>1
  <2>3. x % N = IF x < N THEN x ELSE x - N
    BY <1>0, <2>2, Modulo
  <2> QED BY <1>0, <2>1, <2>2, <2>3
<1> HIDE DEF used
<1>2. used - sent = Visible - Len(wire) /\ Visible - Len(wire) \in Nat
  BY <1>0, <1>1
<1>3. ASSUME NEW k \in 1 .. Visible - Len(wire)
      PROVE  ring[(readPos + sent + k - 1) % N] = Len(wire) + k
  <2> DEFINE d == sent + k - 1
  <2>1. d \in 0 .. Written - Freed - 1 /\ d \in 0 .. N - 1
    BY <1>0, <1>2
  <2>2. readPos + sent + k - 1 = readPos + d /\ readPos + d \in 0 .. 2 * N - 1
    BY <1>0, <2>1
  <2>3. (readPos + d) % N = Ahead(d)
    <3> DEFINE x == readPos + d
    <3>1. x \in 0 .. 2 * N - 1 /\ N \in Nat \ {0}
      BY <1>0, <2>2
    <3> HIDE DEF x
    <3>2. x % N = IF x < N THEN x ELSE x - N
      BY <3>1, Modulo
    <3> HIDE DEF d
    <3> QED BY <1>0, <2>1, <3>2 DEF Ahead, x
  <2>4. ring[Ahead(d)] = Freed + d + 1
    BY <1>0, <2>1 DEF Inv, ContentInv
  <2>5. Freed + d + 1 = Len(wire) + k
    BY <1>0, <1>2
  <2> QED BY <2>2, <2>3, <2>4, <2>5
<1>4. Unsent = [k \in 1 .. used - sent |-> ring[(readPos + sent + k - 1) % N]]
  BY DEF Unsent, used
<1> QED BY <1>2, <1>3, <1>4

\* The same in the next state.
LEMMA NextCounts ==
  ASSUME Inv', VisibleInv'
  PROVE  /\ Counts'
         /\ Unsent' = [k \in 1 .. Visible' - Len(wire') |-> Len(wire') + k]
<1>1. (Inv /\ VisibleInv =>
        Counts /\ Unsent = [k \in 1 .. Visible - Len(wire) |-> Len(wire) + k])'
  BY CountsHold, UnsentIs, PTL
<1> QED BY <1>1

\* A step that leaves alone what the abstract stream sees.
LEMMA HiddenStep ==
  ASSUME Inv, VisibleInv, Inv', VisibleInv', Visible' = Visible, UNCHANGED <<wire, closing>>
  PROVE  UNCHANGED <<Unsent, wire, closing>>
<1>1. Unsent = [k \in 1 .. Visible - Len(wire) |-> Len(wire) + k]
  BY UnsentIs
<1>2. Unsent' = [k \in 1 .. Visible' - Len(wire') |-> Len(wire') + k]
  BY NextCounts
<1> QED BY <1>1, <1>2

\* A step of the send thread, or of the end of the connection, that moves no
\* bytes.
LEMMA QuietVisible ==
  ASSUME Inv, VisibleInv,
         UNCHANGED <<sent, accepted, wire, call>>,
         mutex' = mutex \/ (mutex \notin Senders /\ mutex' \notin Senders),
         sendPc' = "send" => chunk' <= Visible - Freed
  PROVE  VisibleInv' /\ Visible' = Visible
<1>1. Visible' = Visible /\ Freed' = Freed
  BY DEF Visible, Freed
<1> QED BY <1>1 DEF VisibleInv

\* Who enters or is refused does not hold the mutex.
LEMMA EnterRefuseVisible ==
  ASSUME Inv, VisibleInv, NEW t \in Senders,
         (\E n \in 0 .. SendBufferSize : EnterSend(t, n)) \/ RefuseSend(t)
  PROVE  VisibleInv' /\ Visible' = Visible /\ UNCHANGED <<wire, closing>>
<1>1. /\ call[t].pc # "copy"
      /\ UNCHANGED <<sent, accepted, wire, closing, mutex, chunk, sendPc>>
      /\ \A u \in Senders : u # t => call'[u] = call[u]
  BY DEF Inv, TypeOK, EnterSend, RefuseSend
<1>2. mutex # t
  BY <1>1 DEF Inv, LockInv
<1>3. mutex \in Senders => call'[mutex] = call[mutex]
  BY <1>1, <1>2
<1>4. Visible' = Visible /\ Freed' = Freed
  BY <1>1, <1>3 DEF Visible, Freed
<1> QED BY <1>1, <1>3, <1>4 DEF VisibleInv

\* The first copy: the message is not complete yet.
LEMMA CopyToEndVisible ==
  ASSUME Inv, VisibleInv, NEW t \in Senders, CopyToEnd(t)
  PROVE  VisibleInv' /\ Visible' = Visible /\ UNCHANGED <<wire, closing>>
<1> DEFINE n == call[t].length
           toEnd == Least(SendBufferSize - writePos, n)
<1>0. Counts
  BY CountsHold
<1>1. /\ mutex = NoThread /\ mutex' = t
      /\ call' = [call EXCEPT ![t] = [pc |-> "copy", length |-> n, rest |-> n - toEnd]]
      /\ accepted' = accepted + n
      /\ UNCHANGED <<closing, sendPc, chunk, sent, wire>>
  BY DEF CopyToEnd
<1>2. n \in Nat /\ call \in [Senders -> Calls]
  BY DEF Inv, TypeOK, Calls
<1>3. toEnd \in 0 .. n
  BY <1>0, <1>2 DEF Least, Counts
<1>4. call'[t].length = n /\ call'[t].rest = n - toEnd
  BY <1>1, <1>2
<1> HIDE DEF toEnd, n
<1>5. Visible' = Visible /\ Freed' = Freed
  BY <1>0, <1>1, <1>2, <1>4, ThreadAssumption DEF Visible, Freed, Counts
<1> QED BY <1>1, <1>2, <1>3, <1>4, <1>5 DEF VisibleInv

\* The second copy: now the message is complete.
LEMMA CopyAtStartVisible ==
  ASSUME Inv, VisibleInv, NEW t \in Senders, CopyAtStart(t)
  PROVE  /\ VisibleInv' /\ UNCHANGED <<wire, closing>>
         /\ Visible' = Visible + call[t].length /\ call[t].length \in Nat
<1>0. Counts
  BY CountsHold
<1>1. /\ mutex = t /\ mutex' = NoThread
      /\ UNCHANGED <<closing, sendPc, chunk, sent, wire, accepted>>
  BY DEF Inv, LockInv, CopyAtStart
<1>2. call[t].length \in Nat
  BY DEF Inv, TypeOK, Calls
<1>3. Visible = accepted - call[t].length /\ Visible' = accepted /\ Freed' = Freed
  BY <1>0, <1>1, ThreadAssumption DEF Visible, Freed, Counts
<1>4. Visible' = Visible + call[t].length
  BY <1>0, <1>2, <1>3 DEF Counts
<1>5. Freed + sent <= Visible' /\ (sendPc = "send" => chunk <= Visible' - Freed)
  BY <1>0, <1>2, <1>4, SMTT(30) DEF VisibleInv, Counts
<1>6. mutex' \notin Senders
  BY <1>1, ThreadAssumption
<1>7. VisibleInv'
  BY <1>1, <1>3, <1>5, <1>6 DEF VisibleInv
<1> QED BY <1>1, <1>2, <1>4, <1>7

\* send() takes bytes of the chunk.
LEMMA SendChunkVisible ==
  ASSUME Inv, VisibleInv, NEW n \in 1 .. SendChunkSize, SendChunk(n)
  PROVE  /\ VisibleInv' /\ UNCHANGED closing /\ Visible' = Visible
         /\ Len(wire) = Freed /\ n <= chunk /\ chunk <= Visible - Freed
         /\ n \in Nat \ {0}
         /\ wire' = wire \o [k \in 1 .. n |-> ring[readPos + k - 1]]
<1>0. Counts
  BY CountsHold
<1>1. /\ sendPc = "send" /\ n \in 1 .. chunk /\ sent' = n /\ sendPc' = "relock"
      /\ wire' = wire \o [k \in 1 .. n |-> ring[readPos + k - 1]]
      /\ UNCHANGED <<closing, mutex, call, accepted>>
  BY DEF SendChunk
<1>2. sent = 0 /\ chunk <= Visible - Freed /\ n \in Nat \ {0} /\ n <= chunk
  BY <1>0, <1>1 DEF Inv, ChunkInv, VisibleInv, Counts
<1>3. Len(wire) = Freed
  BY <1>0, <1>2 DEF Counts
<1>4. Visible' = Visible
  BY <1>1 DEF Visible
<1>5. Len(wire') = Len(wire) + n
  <2>1. wire \in Seq(Nat) /\ [k \in 1 .. n |-> ring[readPos + k - 1]] \in Seq(Nat)
    <3>1. \A k \in 1 .. n : ring[readPos + k - 1] \in Nat
      <4>1. readPos + chunk <= SendBufferSize
        BY <1>1 DEF Inv, ChunkInv
      <4>2. \A k \in 1 .. n : readPos + k - 1 \in Index
        BY <1>0, <1>2, <4>1 DEF Counts, Index
      <4> QED BY <4>2 DEF Inv, TypeOK
    <3> QED BY <1>2, <3>1 DEF Inv, TypeOK
  <2> QED BY <1>1, <1>2, <2>1
<1>6. Freed' = Freed
  BY <1>0, <1>1, <1>3, <1>5 DEF Freed, Counts
<1> QED BY <1>0, <1>1, <1>2, <1>3, <1>4, <1>5, <1>6, SMTT(30) DEF VisibleInv, Counts

\* The send thread frees what was sent.
LEMMA AdvanceVisible ==
  ASSUME Inv, VisibleInv, AdvanceReadPos
  PROVE  VisibleInv' /\ Visible' = Visible /\ UNCHANGED <<wire, closing>>
<1>0. Counts
  BY CountsHold
<1>1. /\ mutex = NoThread /\ mutex' = SendThread /\ sendPc' = "loop" /\ sent' = 0
      /\ UNCHANGED <<closing, wire, accepted>>
  BY DEF AdvanceReadPos, TakeLock
<1>2. Visible' = Visible /\ Freed' = Len(wire)
  BY <1>0, <1>1, ThreadAssumption DEF Visible, Freed, Counts
<1> QED BY <1>0, <1>1, <1>2, ThreadAssumption DEF VisibleInv, Counts

\* The other steps.
LEMMA ThreadVisible ==
  ASSUME Inv, VisibleInv, ThreadStep
  PROVE  /\ VisibleInv' /\ Visible' = Visible /\ UNCHANGED wire
         /\ UNCHANGED closing \/ (~closing /\ closing' = TRUE)
<1> USE SizeAssumption, ThreadAssumption
<1>0. Counts
  BY CountsHold
<1>1. /\ UNCHANGED <<sent, accepted, wire, call>>
      /\ mutex' = mutex \/ {mutex, mutex'} = {NoThread, SendThread}
  BY DEF ThreadStep, SendThreadStart, SendThreadSleep, SendThreadWake, PickChunk,
         SendFails, SendThreadStop, SendThreadExit, CloseConnection,
         ShutdownConnection, StopReading, Terminated, TakeLock, vars, Inv, LockInv
<1>2. mutex' = mutex \/ (mutex \notin Senders /\ mutex' \notin Senders)
  BY <1>1
<1>3. UNCHANGED closing \/ (~closing /\ closing' = TRUE)
  <2>1. closing \in BOOLEAN
    BY DEF Inv, TypeOK
  <2> QED BY <2>1 DEF ThreadStep, SendThreadStart, SendThreadSleep, SendThreadWake, PickChunk,
         SendFails, SendThreadStop, SendThreadExit, CloseConnection,
         ShutdownConnection, StopReading, Terminated, TakeLock, vars
<1>4. sendPc' = "send" => chunk' <= Visible - Freed
  <2>1. CASE PickChunk
    <3>1. Inv'
      BY ThreadStepInv
    <3>2. sendPc' = "send" /\ sendPc = "loop"
      BY <2>1 DEF PickChunk
    <3>3. mutex = SendThread /\ mutex' = NoThread
      BY <2>1, <3>2 DEF Inv, LockInv, PickChunk
    <3>4. chunk' <= Written' - Freed'
      BY <3>1, <3>2 DEF Inv, ChunkInv
    <3>5. Written' = accepted /\ Freed' = Freed /\ Visible = accepted
      BY <1>0, <1>1, <3>3 DEF Written, Rest, Freed, Visible, Counts
    <3> QED BY <3>4, <3>5
  <2>2. CASE ~PickChunk
    BY <2>2 DEF ThreadStep, SendThreadStart, SendThreadSleep, SendThreadWake, VisibleInv,
         SendFails, SendThreadStop, SendThreadExit, CloseConnection,
         ShutdownConnection, StopReading, Terminated, TakeLock, vars
  <2> QED BY <2>1, <2>2
<1> QED BY <1>1, <1>2, <1>3, <1>4, QuietVisible

\* Successive numbers: a run and the run after it.
LEMMA RunsJoin ==
  ASSUME NEW a \in Nat, NEW m \in Nat, NEW n \in Nat
  PROVE  [k \in 1 .. m |-> a + k] \o [k \in 1 .. n |-> a + m + k] = [k \in 1 .. m + n |-> a + k]
<1> DEFINE p == [k \in 1 .. m |-> a + k]
           q == [k \in 1 .. n |-> a + m + k]
           r == [k \in 1 .. m + n |-> a + k]
<1>1. /\ p \in Seq(Nat) /\ Len(p) = m /\ q \in Seq(Nat) /\ Len(q) = n
      /\ \A k \in 1 .. m : p[k] = a + k
      /\ \A k \in 1 .. n : q[k] = a + m + k
  OBVIOUS
<1>2. r \in Seq(Nat) /\ Len(r) = m + n /\ \A k \in 1 .. m + n : r[k] = a + k
  OBVIOUS
<1> HIDE DEF p, q, r
<1>3. p \o q \in Seq(Nat) /\ Len(p \o q) = m + n
  BY <1>1
<1>4. ASSUME NEW k \in 1 .. m + n PROVE (p \o q)[k] = r[k]
  <2>1. CASE k <= m
    BY <1>1, <1>2, <2>1
  <2>2. CASE ~(k <= m)
    <3>1. k - m \in 1 .. n /\ (p \o q)[k] = q[k - m]
      BY <1>1, <2>2
    <3>2. q[k - m] = a + m + (k - m)
      BY <1>1, <3>1
    <3> QED BY <1>2, <3>1, <3>2
  <2> QED BY <2>1, <2>2
<1> DEFINE w == p \o q
<1>5. w = r
  <2> HIDE DEF w
  <2>1. w \in Seq(Nat) /\ Len(w) = Len(r) /\ \A k \in 1 .. Len(w) : w[k] = r[k]
    BY <1>2, <1>3, <1>4 DEF w
  <2> QED BY <1>2, <2>1, SeqEqual
<1> QED BY <1>5 DEF p, q, r

\* The beginning and the rest of a run.
LEMMA RunsSplit ==
  ASSUME NEW a \in Nat, NEW m \in Nat, NEW n \in 1 .. m
  PROVE  LET run == [k \in 1 .. m |-> a + k]
         IN  /\ Len(run) = m
             /\ SubSeq(run, 1, n) = [k \in 1 .. n |-> a + k]
             /\ SubSeq(run, n + 1, Len(run)) = [k \in 1 .. m - n |-> a + n + k]
<1> DEFINE run == [k \in 1 .. m |-> a + k]
<1>1. run \in Seq(Nat) /\ Len(run) = m /\ \A k \in 1 .. m : run[k] = a + k
  OBVIOUS
<1> HIDE DEF run
<1>2. /\ SubSeq(run, 1, n) \in Seq(Nat) /\ Len(SubSeq(run, 1, n)) = n
      /\ \A k \in 1 .. n : SubSeq(run, 1, n)[k] = run[k]
  BY <1>1
<1>3. /\ SubSeq(run, n + 1, m) \in Seq(Nat) /\ Len(SubSeq(run, n + 1, m)) = m - n
      /\ \A k \in 1 .. m - n : SubSeq(run, n + 1, m)[k] = run[n + k]
  BY <1>1
<1>4. SubSeq(run, 1, n) = [k \in 1 .. n |-> a + k]
  BY <1>1, <1>2
<1>5. SubSeq(run, n + 1, m) = [k \in 1 .. m - n |-> a + n + k]
  BY <1>1, <1>3
<1> QED BY <1>1, <1>4, <1>5 DEF run

\* A message is complete: the abstract stream accepts it.
LEMMA AcceptStep ==
  ASSUME Inv, VisibleInv, Inv', VisibleInv', UNCHANGED <<wire, closing>>,
         NEW n \in Nat, Visible' = Visible + n
  PROVE  Stream!Accept
<1>0. Counts /\ Counts'
  BY CountsHold, NextCounts
<1> DEFINE a == Len(wire)
           m == Visible - Len(wire)
<1>1. a \in Nat /\ m \in Nat /\ m + n <= SendBufferSize - 1
  <2>1. Counts'
    BY <1>0
  <2>2. accepted' \in Nat /\ Freed' \in Nat /\ sent' \in Nat /\ Written' \in Nat
    BY <2>1 DEF Counts
  <2>3. Visible \in Nat /\ a \in Nat /\ a <= Visible /\ m = Visible - a
    BY <1>0 DEF Counts
  <2>4. Visible' <= Written' /\ Written' <= accepted'
    BY <2>1 DEF Counts
  <2>5. a = Freed' + sent'
    BY <2>1 DEF Counts
  <2>6. accepted' - Freed' <= SendBufferSize - 1
    BY <2>1 DEF Counts
  <2>7. Visible + n <= accepted'
    BY <2>2, <2>3, <2>4
  <2> HIDE DEF a, m
  <2>8. PICK c \in Nat, f \in Nat, s \in Nat : c = accepted' /\ f = Freed' /\ s = sent'
    BY <2>2
  <2>9. Visible + n <= c /\ a = f + s /\ c - f <= SendBufferSize - 1
    BY <2>5, <2>6, <2>7, <2>8
  <2> QED BY <2>3, <2>9, SizeAssumption
<1>2. Unsent = [k \in 1 .. m |-> a + k] /\ Unsent' = [k \in 1 .. m + n |-> a + k]
  BY <1>0, UnsentIs, NextCounts DEF Counts
<1>3. Len(Unsent) = m
  BY <1>1, <1>2
<1>4. Stream!Fresh(n) = [k \in 1 .. n |-> a + m + k]
  BY <1>3 DEF Stream!Fresh
<1> HIDE DEF a, m
<1>5. Unsent' = Unsent \o Stream!Fresh(n)
  BY <1>1, <1>2, <1>4, RunsJoin
<1>6. n \in 0 .. SendBufferSize - 1 - Len(Unsent)
  BY <1>1, <1>3, SizeAssumption
<1> QED BY <1>5, <1>6 DEF Stream!Accept

\* send() has taken n bytes: the abstract stream transmits them.
LEMMA TransmitStep ==
  ASSUME Inv, VisibleInv, Inv', NEW n \in 1 .. SendChunkSize, SendChunk(n)
  PROVE  Stream!Transmit
<1>0. Counts
  BY CountsHold
<1> DEFINE a == Len(wire)
           m == Visible - Len(wire)
<1>1. /\ VisibleInv' /\ UNCHANGED closing /\ Visible' = Visible
      /\ Len(wire) = Freed /\ n <= chunk /\ chunk <= Visible - Freed /\ n \in Nat \ {0}
      /\ wire' = wire \o [k \in 1 .. n |-> ring[readPos + k - 1]]
  BY SendChunkVisible
<1>2. a \in Nat /\ m \in Nat /\ n \in 1 .. m
  BY <1>0, <1>1 DEF Counts
<1>3. ASSUME NEW k \in 1 .. n PROVE ring[readPos + k - 1] = a + k
  <2>1. sendPc = "send"
    BY DEF SendChunk
  <2>2. readPos + chunk <= SendBufferSize
    BY <2>1 DEF Inv, ChunkInv
  <2>3. k - 1 \in 0 .. Written - Freed - 1 /\ Ahead(k - 1) = readPos + k - 1
    BY <1>0, <1>1, <2>2 DEF Counts, Ahead
  <2>4. ring[Ahead(k - 1)] = Freed + (k - 1) + 1
    BY <2>3 DEF Inv, ContentInv
  <2> QED BY <1>0, <1>1, <2>3, <2>4 DEF Counts
<1>4. wire' = wire \o [k \in 1 .. n |-> a + k]
  BY <1>1, <1>3
<1>5. Len(wire') = a + n
  <2>1. [k \in 1 .. n |-> a + k] \in Seq(Nat) /\ Len([k \in 1 .. n |-> a + k]) = n
    BY <1>2, <1>1
  <2>2. wire \in Seq(Nat)
    BY DEF Inv, TypeOK
  <2> QED BY <1>4, <2>1, <2>2
<1>6. /\ Unsent = [k \in 1 .. m |-> a + k]
      /\ Unsent' = [k \in 1 .. Visible' - Len(wire') |-> Len(wire') + k]
  BY <1>1, UnsentIs, NextCounts
<1>7. Visible' - Len(wire') = m - n
  BY <1>0, <1>1, <1>2, <1>5 DEF Counts
<1> HIDE DEF a, m
<1>8. Unsent' = [k \in 1 .. m - n |-> a + n + k]
  BY <1>5, <1>6, <1>7
<1>9. /\ Len(Unsent) = m
      /\ SubSeq(Unsent, 1, n) = [k \in 1 .. n |-> a + k]
      /\ SubSeq(Unsent, n + 1, Len(Unsent)) = [k \in 1 .. m - n |-> a + n + k]
  BY <1>2, <1>6, RunsSplit
<1>10. ~closing
  BY DEF SendChunk
<1> QED BY <1>1, <1>2, <1>4, <1>8, <1>9, <1>10 DEF Stream!Transmit

\* Every step of the buffer is a step of the stream or none.
LEMMA StreamStep ==
  ASSUME Inv, VisibleInv, [Next]_vars
  PROVE  /\ VisibleInv'
         /\ [Stream!Accept \/ Stream!Transmit \/ Stream!Close]_<<Unsent, wire, closing>>
<1>0. Inv'
  BY NextInv
<1>1. CASE UNCHANGED vars
  <2>1. VisibleInv' /\ Visible' = Visible /\ UNCHANGED <<wire, closing>>
    BY <1>1 DEF vars, VisibleInv, Visible, Freed
  <2> QED BY <1>0, <2>1, HiddenStep
<1>2. ASSUME NEW t \in Senders,
             (\E n \in 0 .. SendBufferSize : EnterSend(t, n)) \/ RefuseSend(t) \/ CopyToEnd(t)
      PROVE  VisibleInv' /\ UNCHANGED <<Unsent, wire, closing>>
  BY <1>0, <1>2, EnterRefuseVisible, CopyToEndVisible, HiddenStep
<1>3. ASSUME NEW t \in Senders, CopyAtStart(t) PROVE VisibleInv' /\ Stream!Accept
  BY <1>0, <1>3, CopyAtStartVisible, AcceptStep
<1>4. ASSUME NEW n \in 1 .. SendChunkSize, SendChunk(n) PROVE VisibleInv' /\ Stream!Transmit
  BY <1>0, <1>4, SendChunkVisible, TransmitStep
<1>5. CASE AdvanceReadPos
  BY <1>0, <1>5, AdvanceVisible, HiddenStep
<1>6. CASE ThreadStep
  <2>1. /\ VisibleInv' /\ Visible' = Visible /\ UNCHANGED wire
        /\ UNCHANGED closing \/ (~closing /\ closing' = TRUE)
    BY <1>6, ThreadVisible
  <2>2. UNCHANGED Unsent
    BY <1>0, <2>1, UnsentIs, NextCounts
  <2> QED BY <2>1, <2>2 DEF Stream!Close
<1> QED BY <1>1, <1>2, <1>3, <1>4, <1>5, <1>6 DEF Next, SendThreadNext, ThreadStep

\* The buffer starts as an empty stream.
LEMMA StreamInit == Init => VisibleInv /\ Stream!Init
<1> SUFFICES ASSUME Init PROVE VisibleInv /\ Stream!Init
  OBVIOUS
<1>1. Visible = 0 /\ Freed = 0 /\ sent = 0 /\ sendPc = "start" /\ mutex \notin Senders
  BY ThreadAssumption DEF Init, Visible, Freed
<1>2. VisibleInv
  BY <1>1 DEF VisibleInv
<1>3. Unsent = [k \in 1 .. Visible - Len(wire) |-> Len(wire) + k]
  BY <1>2, InitInv, UnsentIs
<1>4. Unsent = << >>
  BY <1>1, <1>3 DEF Init
<1> QED BY <1>2, <1>4 DEF Init, Stream!Init

\* The ring buffer and its unlocked send() implement a bounded byte stream that
\* accepts whole messages (send_to_network, run_send_thread), for every size of
\* buffer and chunk and any number of senders.
THEOREM BufferImplementsStream == Spec => ImplementsByteStream
<1>1. Init => VisibleInv /\ Stream!Init
  BY StreamInit
<1>2. Inv /\ VisibleInv /\ [Next]_vars =>
        VisibleInv' /\ [Stream!Accept \/ Stream!Transmit \/ Stream!Close]_<<Unsent, wire, closing>>
  BY StreamStep
<1> QED BY <1>1, <1>2, Invariance, PTL DEF Spec, ImplementsByteStream, Stream!Spec

=============================================================================
