--------------------------- MODULE SessionProofs ---------------------------
(***************************************************************************)
(* Proofs about Session, for any number of channels, requests and          *)
(* repetitions: the session lock is never kept, a scheduled task never     *)
(* outlives its command, channel or session, and on a reliable connection  *)
(* the session implements ChannelProtocol.                                 *)
(*                                                                         *)
(* The last part is about the text of requests and of the arrays in them,  *)
(* RequestParser and ArrayText, which share no state with the session.     *)
(***************************************************************************)
EXTENDS Session, RequestParser, ArrayText, TLAPS, SequenceTheorems, NaturalsInduction,
        WellFoundedInduction

-----------------------------------------------------------------------------
(* The parts of the inductive invariant. *)

\* The receive thread is creating the command of a channel.
Creating == {"create", "check", "schedule", "store"}

\* Who is at work on the tasks holds the schedule.  (The converse is false:
\* handle_request keeps the lock when it finds the session being destroyed.)
ScheduleHeld ==
  /\ recv.pc \in Creating \cup {"locked", "handle", "settle", "unlock"} =>
       schedule = "recv"
  /\ xp.pc = "run" => schedule = "xp"
  /\ post.pc = "run" => schedule = "post"

\* Network maintenance alone decides on the life of the session.
LifeAgrees ==
  /\ life = "live" <=> net.pc \in {"watch", "pend"}
  /\ life = "freed" <=> net.pc \in {"join", "done"}

\* A scheduled task belongs to a command that was not terminated, unless
\* destroy_session met the channel before the command was stored.
OwnersExist ==
  \A c \in Range(tasks) \ caught :
    cmd[c].exists /\ cmd[c].task /\ ~chan[c].doomed

\* No task is scheduled twice.
TasksDiffer == IsInjective(tasks)

\* The sweep of the channel table leaves no other task behind, and it has met
\* the channel of the request that is being handled or is still to meet it.
SweepAgrees ==
  /\ net.pc \in {"watch", "pend", "table"} => caught = {}
  /\ net.pc \notin {"watch", "pend", "table"} =>
       /\ net.at # 0
       /\ \A c \in Range(tasks) \ caught : net.at <= c
       /\ recv.pc \in Creating /\ recv.req.id \notin caught =>
            net.at <= recv.req.id
  /\ net.pc \in {"unschedule", "destroy"} =>
       net.at \in Channels /\ (net.at \notin caught => cmd[net.at].ref)
  /\ net.pc = "destroy" => net.at \notin Range(tasks) \ caught
  /\ net.pc \in {"join", "done"} => net.at \notin Channels

\* What a run of the tasks has yet to call is still scheduled.
TodoScheduled ==
  /\ xp.pc = "run" => Range(xp.todo) \subseteq Range(tasks)
  /\ post.pc = "run" => /\ Range(post.todo) \subseteq Range(tasks)
                        /\ IsInjective(post.todo)

\* A command has a channel, and one that was met before it was stored has done
\* nothing yet.
ChannelsAgree ==
  \A c \in Channels :
    /\ chan[c].state = "none" => ~chan[c].doomed
    /\ cmd[c].exists /\ c \notin caught => chan[c].state # "none"
    /\ cmd[c].ref => cmd[c].exists
    /\ ~cmd[c].ref \/ c \in caught => ~cmd[c].init /\ ~cmd[c].failed

\* The request that is handled: when its channel has a command, and that nobody
\* can have asked for its destruction.
RecvAgrees ==
  /\ recv.pc \notin {"idle", "exited"} => recv.req \in Requests
  /\ recv.pc \in Creating \cup {"settle"} => ~chan[recv.req.id].doomed
  /\ recv.pc \in {"create", "check", "schedule"} =>
       ~cmd[recv.req.id].exists /\ recv.req.id \notin Range(tasks)
  /\ recv.pc = "store" => cmd[recv.req.id].exists /\ ~cmd[recv.req.id].ref
  /\ recv.pc \in Creating /\ recv.req.id \notin caught =>
       chan[recv.req.id].state # "none"
  /\ \A c \in Channels : cmd[c].exists /\ ~cmd[c].ref =>
                           recv.pc = "store" /\ recv.req.id = c

IInv ==
  /\ TypeOK
  /\ SessionLockBalanced /\ ScheduleHeld /\ LifeAgrees
  /\ OwnersExist /\ TasksDiffer /\ SweepAgrees /\ TodoScheduled
  /\ ChannelsAgree /\ RecvAgrees

-----------------------------------------------------------------------------
(* Lemmas about sequences. *)

\* The first member of a sequence and the others.
LEMMA HeadTail ==
  ASSUME NEW T, NEW s \in Seq(T), s # << >>
  PROVE  /\ Head(s) \in T /\ Head(s) \in Range(s)
         /\ Tail(s) \in Seq(T) /\ Range(Tail(s)) \subseteq Range(s)
         /\ IsInjective(s) => IsInjective(Tail(s)) /\ Head(s) \notin Range(Tail(s))
<1>1. /\ Head(s) = s[1] /\ Len(s) \in Nat \ {0} /\ DOMAIN s = 1 .. Len(s)
      /\ Head(s) \in T
  OBVIOUS
<1>2. /\ Tail(s) \in Seq(T) /\ Len(Tail(s)) = Len(s) - 1
      /\ DOMAIN Tail(s) = 1 .. Len(s) - 1
      /\ \A i \in 1 .. Len(s) - 1 : Tail(s)[i] = s[i + 1]
  BY HeadTailProperties
<1>3. \A i \in 1 .. Len(s) - 1 : i + 1 \in DOMAIN s /\ i + 1 # 1  BY <1>1
<1>4. Head(s) \in Range(s)  BY <1>1 DEF Range
<1>5. Range(Tail(s)) \subseteq Range(s)  BY <1>2, <1>3 DEF Range
<1>6. ASSUME IsInjective(s)
      PROVE  IsInjective(Tail(s)) /\ Head(s) \notin Range(Tail(s))
  <2>1. \A i, j \in DOMAIN s : s[i] = s[j] => i = j  BY <1>6 DEF IsInjective
  <2>2. IsInjective(Tail(s))  BY <2>1, <1>1, <1>2, <1>3 DEF IsInjective
  <2>3. Head(s) \notin Range(Tail(s))  BY <2>1, <1>1, <1>2, <1>3 DEF Range
  <2> QED BY <2>2, <2>3
<1> QED BY <1>1, <1>2, <1>4, <1>5, <1>6

\* The members of a sequence, and a sequence without any.
LEMMA Members ==
  ASSUME NEW T, NEW s \in Seq(T)
  PROVE  /\ Range(s) \subseteq T
         /\ s = << >> => Range(s) = {} /\ IsInjective(s)
<1>1. \A i \in DOMAIN s : s[i] \in T  OBVIOUS
<1> QED BY <1>1 DEF Range, IsInjective

\* One more member at the end.
LEMMA Appended ==
  ASSUME NEW T, NEW s \in Seq(T), NEW x \in T
  PROVE  /\ Append(s, x) \in Seq(T)
         /\ Range(Append(s, x)) = Range(s) \cup {x}
         /\ IsInjective(s) /\ x \notin Range(s) => IsInjective(Append(s, x))
<1> DEFINE t == Append(s, x)
<1>1. /\ t \in Seq(T) /\ Len(s) \in Nat /\ DOMAIN s = 1 .. Len(s)
      /\ DOMAIN t = 1 .. Len(s) + 1
      /\ \A i \in 1 .. Len(s) : t[i] = s[i]
      /\ t[Len(s) + 1] = x
  BY AppendProperties, LenProperties
<1> HIDE DEF t
<1>2. \A i \in DOMAIN t : i \in DOMAIN s \/ i = Len(s) + 1  BY <1>1
<1>3. DOMAIN s \subseteq DOMAIN t /\ Len(s) + 1 \in DOMAIN t  BY <1>1
<1>4. \A i \in DOMAIN s : t[i] = s[i]  BY <1>1
<1>5. Range(t) = Range(s) \cup {x}  BY <1>1, <1>2, <1>3, <1>4 DEF Range
<1>6. ASSUME IsInjective(s), x \notin Range(s) PROVE IsInjective(t)
  <2>1. \A i, j \in DOMAIN s : s[i] = s[j] => i = j  BY <1>6 DEF IsInjective
  <2>2. \A i \in DOMAIN s : s[i] # x  BY <1>6 DEF Range
  <2> QED BY <2>1, <2>2, <1>1, <1>2, <1>4 DEF IsInjective
<1> QED BY <1>1, <1>5, <1>6 DEF t

\* A sequence of different members without one of them.
LEMMA Removed ==
  ASSUME NEW T, NEW s \in Seq(T), NEW k \in 1 .. Len(s), IsInjective(s)
  PROVE  /\ RemoveAt(s, k) \in Seq(T)
         /\ Range(RemoveAt(s, k)) = Range(s) \ {s[k]}
         /\ IsInjective(RemoveAt(s, k))
<1> DEFINE a == SubSeq(s, 1, k - 1)
           b == SubSeq(s, k + 1, Len(s))
           t == RemoveAt(s, k)
<1>1. /\ Len(s) \in Nat /\ k \in Nat /\ 1 <= k /\ k <= Len(s)
      /\ DOMAIN s = 1 .. Len(s)
      /\ \A i \in 1 .. Len(s) : s[i] \in T
  BY LenProperties
<1>2. a \in Seq(T) /\ Len(a) = k - 1 /\ \A i \in 1 .. k - 1 : a[i] = s[i]
  <2>1. \A i \in 1 .. k - 1 : s[i] \in T  BY <1>1
  <2> QED BY <1>1, <2>1, SubSeqProperties
<1>3. /\ b \in Seq(T) /\ Len(b) = Len(s) - k
      /\ \A i \in 1 .. Len(s) - k : b[i] = s[k + i]
  <2>1. \A i \in k + 1 .. Len(s) : s[i] \in T  BY <1>1
  <2>2. /\ b \in Seq(T)
        /\ Len(b) = IF k + 1 <= Len(s) THEN Len(s) - (k + 1) + 1 ELSE 0
        /\ \A i \in 1 .. Len(s) - (k + 1) + 1 : b[i] = s[k + 1 + i - 1]
    BY <1>1, <2>1, SubSeqProperties
  <2>3. Len(s) - (k + 1) + 1 = Len(s) - k  BY <1>1
  <2> HIDE DEF b
  <2>4. Len(b) = Len(s) - k
    <3>1. Len(b) = IF k + 1 <= Len(s) THEN Len(s) - (k + 1) + 1 ELSE 0  BY <2>2
    <3>2. CASE k + 1 <= Len(s)  BY <3>1, <3>2, <2>3
    <3>3. CASE ~(k + 1 <= Len(s))
      <4>1. Len(b) = 0  BY <3>1, <3>3
      <4>2. Len(s) \in Nat /\ k \in Nat /\ k <= Len(s)  BY <1>1
      <4>3. Len(s) - k = 0  BY <4>2, <3>3
      <4> QED BY <4>1, <4>3
    <3> QED BY <3>2, <3>3
  <2>5. ASSUME NEW i \in 1 .. Len(s) - k PROVE b[i] = s[k + i]
    <3>1. b[i] = s[k + 1 + i - 1]  BY <2>2, <2>3
    <3>2. k + 1 + i - 1 = k + i  BY <1>1
    <3> QED BY <3>1, <3>2
  <2> QED BY <2>2, <2>4, <2>5
<1>4. t = a \o b  BY DEF RemoveAt
<1> HIDE DEF a, b, t
<1>5. /\ t \in Seq(T) /\ Len(t) = Len(a) + Len(b)
      /\ \A i \in 1 .. Len(a) + Len(b) :
           t[i] = IF i <= Len(a) THEN a[i] ELSE b[i - Len(a)]
  BY <1>2, <1>3, <1>4, ConcatProperties
<1>6. DOMAIN t = 1 .. Len(s) - 1
  <2>1. Len(a) + Len(b) = Len(s) - 1  BY <1>1, <1>2, <1>3
  <2> QED BY <2>1, <1>5, LenProperties
<1> DEFINE at(i) == IF i < k THEN i ELSE i + 1
<1>7. ASSUME NEW i \in DOMAIN t PROVE at(i) \in DOMAIN s /\ at(i) # k /\ t[i] = s[at(i)]
  <2>1. CASE i < k
    <3>1. i \in 1 .. k - 1 /\ i <= Len(a) /\ i \in 1 .. Len(a) + Len(b)
      BY <2>1, <1>1, <1>2, <1>3, <1>6
    <3>2. t[i] = a[i]  BY <3>1, <1>5
    <3>3. t[i] = s[i]  BY <3>1, <3>2, <1>2
    <3> QED BY <3>3, <2>1, <1>1, <1>6
  <2>2. CASE ~(i < k)
    <3>1. /\ ~(i <= Len(a)) /\ i \in 1 .. Len(a) + Len(b)
          /\ i - Len(a) \in 1 .. Len(s) - k /\ k + (i - Len(a)) = i + 1
      BY <2>2, <1>1, <1>2, <1>3, <1>6
    <3>2. t[i] = b[i - Len(a)]  BY <3>1, <1>5
    <3>3. t[i] = s[k + (i - Len(a))]  BY <3>1, <3>2, <1>3
    <3> QED BY <3>1, <3>3, <2>2, <1>1, <1>6
  <2> QED BY <2>1, <2>2
<1>8. \A i, j \in DOMAIN t : at(i) = at(j) => i = j  BY <1>1, <1>6
<1>9. ASSUME NEW j \in DOMAIN s, j # k PROVE \E i \in DOMAIN t : at(i) = j
  <2>1. CASE j < k  BY <2>1, <1>1, <1>6
  <2>2. CASE ~(j < k)
    <3>1. j - 1 \in DOMAIN t /\ at(j - 1) = j  BY <2>2, <1>9, <1>1, <1>6
    <3> QED BY <3>1
  <2> QED BY <2>1, <2>2
<1> HIDE DEF at
<1>10. \A i, j \in DOMAIN s : s[i] = s[j] => i = j  BY DEF IsInjective
<1>11. IsInjective(t)  BY <1>7, <1>8, <1>10 DEF IsInjective
<1>12. Range(t) \subseteq Range(s) \ {s[k]}  BY <1>1, <1>7, <1>10 DEF Range
<1>13. ASSUME NEW x \in Range(s) \ {s[k]} PROVE x \in Range(t)
  <2>1. PICK j \in DOMAIN s : x = s[j]  BY DEF Range
  <2>2. PICK i \in DOMAIN t : at(i) = j  BY <2>1, <1>9
  <2>3. t[i] = x  BY <2>1, <2>2, <1>7
  <2> QED BY <2>3 DEF Range
<1>14. Range(t) = Range(s) \ {s[k]}  BY <1>12, <1>13
<1> QED BY <1>5, <1>11, <1>14 DEF t

\* What unschedule_task leaves of the queue.
LEMMA Dropped ==
  ASSUME TypeOK, TasksDiffer, NEW c \in Channels
  PROVE  /\ Unscheduled(c) \in Seq(Channels)
         /\ Range(Unscheduled(c)) = Range(tasks) \ {c}
         /\ IsInjective(Unscheduled(c))
<1>1. tasks \in Seq(Channels) /\ IsInjective(tasks)  BY DEF TypeOK, TasksDiffer
<1>2. CASE c \notin Range(tasks)
  BY <1>1, <1>2 DEF Unscheduled
<1>3. CASE c \in Range(tasks)
  <2> DEFINE k == CHOOSE i \in 1 .. Len(tasks) : tasks[i] = c
  <2>1. \E i \in 1 .. Len(tasks) : tasks[i] = c  BY <1>1, <1>3 DEF Range
  <2>2. k \in 1 .. Len(tasks) /\ tasks[k] = c  BY <2>1
  <2>3. Unscheduled(c) = RemoveAt(tasks, k)  BY <1>3 DEF Unscheduled
  <2> HIDE DEF k
  <2> QED BY <1>1, <2>2, <2>3, Removed
<1> QED BY <1>2, <1>3

-----------------------------------------------------------------------------
(* Channel messages. *)

EndStates == [state : {"none", "INITIAL", "CONFIRMED", "CLOSED"},
              view : Views, err : {"none", "invalid", "failed"}]

\* The session is not being destroyed and the network takes every message.
Calm == life = "live" /\ ~MaySendFail

\* Server and client agree on a channel that is in use.
Agreed(e) == /\ e.state = "INITIAL" => e.view = "requested"
             /\ e.state = "CONFIRMED" => e.view = "open"

\* The channel went from e to f by messages the client expects.
Follows(e, f) ==
  /\ f.state = e.state => f.view = e.view
  /\ f.state # e.state =>
       /\ e.state \in {"INITIAL", "CONFIRMED"}
       /\ f.state \in {"CONFIRMED", "CLOSED"}
       /\ f.view = IF f.state = "CLOSED" THEN "closed" ELSE "open"

\* What a call may make of the end e of a channel.
Leads(e, f) ==
  /\ f \in EndStates
  /\ f.state = "none" <=> e.state = "none"
  /\ Calm /\ Agreed(e) => Agreed(f) /\ Follows(e, f)

\* A call that makes a last statement about the channel.
Closes(e, f) ==
  Leads(e, f) /\ (Calm /\ e.state # "none" => f.state = "CLOSED" /\ f.err # "failed")

\* Calls can follow one another.
LEMMA LeadsOn ==
  ASSUME NEW e, NEW f, NEW g, Leads(e, f), Leads(f, g)
  PROVE  Leads(e, g)
BY DEF Leads, Agreed, Follows

\* Making no call leads nowhere.
LEMMA LeadsNowhere == ASSUME NEW e \in EndStates PROVE Leads(e, e)
BY DEF Leads, Follows

\* Whether a message is taken; on a reliable connection it always is.
LEMMA SendResult == ASSUME NEW s \in SendResults PROVE s \in BOOLEAN /\ (Calm => s = TRUE)
BY SessionAssumption DEF SendResults, Calm

\* error_channel closes the channel, whatever state it finds it in.
LEMMA ErrorCloses ==
  ASSUME NEW e \in EndStates, NEW s \in SendResults
  PROVE  Closes(e, error_channel(e, s))
<1>1. s \in BOOLEAN /\ (Calm => s = TRUE)  BY SendResult
<1> DEFINE g == send_channel(e, "ERR", TRUE, s)
           f == error_channel(e, s)
<1>2. e.state = "CLOSED" => g = [e EXCEPT !.err = "invalid"]
  BY DEF send_channel, Rejected
<1>3. e.state # "CLOSED" =>
        g = [state |-> "CLOSED",
             view |-> IF s THEN ClientSees(e.view, FALSE, TRUE) ELSE e.view,
             err |-> IF s THEN "none" ELSE "failed"]
  BY DEF send_channel, Rejected, ClientSees
<1>4. f = IF life # "live" \/ e.state = "none" THEN [e EXCEPT !.err = "failed"] ELSE g
  BY DEF error_channel, Guarded
<1> HIDE DEF f, g
<1>5. f \in EndStates /\ (f.state = "none" <=> e.state = "none")
  BY <1>1, <1>2, <1>3, <1>4 DEF EndStates, ClientSees, Views
<1>6. Calm /\ Agreed(e) => Agreed(f) /\ Follows(e, f)
  BY <1>1, <1>2, <1>3, <1>4 DEF EndStates, ClientSees, Views, Calm, Agreed, Follows
<1>7. Calm /\ e.state # "none" => f.state = "CLOSED" /\ f.err # "failed"
  BY <1>1, <1>2, <1>3, <1>4 DEF EndStates, Calm, ClientSees
<1> QED BY <1>5, <1>6, <1>7 DEF Closes, Leads, f

\* So does finish_channel, by itself or through its call of error_channel.
LEMMA FinishCloses ==
  ASSUME NEW e \in EndStates, NEW p \in BOOLEAN,
         NEW s1 \in SendResults, NEW s2 \in SendResults
  PROVE  Closes(e, finish_channel(e, p, s1, s2))
<1>1. s1 \in BOOLEAN /\ (Calm => s1 = TRUE)  BY SendResult
<1> DEFINE a == IF e.state = "INITIAL" THEN "ACK_CLOSE" ELSE "CLOSE"
           g == send_channel(e, a, p, s1)
           h == error_channel(g, s2)
           f == finish_channel(e, p, s1, s2)
<1>2. e.state = "CLOSED" => g = [e EXCEPT !.err = "invalid"]
  BY DEF send_channel, Rejected
<1>3. ASSUME e.state # "CLOSED"
      PROVE  /\ g.state = "CLOSED" /\ g \in EndStates
             /\ g.err = IF s1 THEN "none" ELSE "failed"
             /\ Calm /\ Agreed(e) /\ e.state # "none" => g.view = "closed"
  BY <1>1, <1>3 DEF send_channel, Rejected, ClientSees, EndStates, Views, Agreed
<1>4. g \in EndStates  BY <1>2, <1>3 DEF EndStates
<1>5. f = IF life # "live" \/ e.state = "none" THEN [e EXCEPT !.err = "failed"]
          ELSE IF g.err = "none" THEN g ELSE [h EXCEPT !.err = g.err]
  BY DEF finish_channel, Guarded, OrError
<1>6. Closes(g, h)  BY <1>4, ErrorCloses
<1> HIDE DEF f, g, h
<1>7. f \in EndStates /\ (f.state = "none" <=> e.state = "none")
  <2>1. e.state # "none" => g.state # "none" /\ h.state # "none"
    BY <1>2, <1>3, <1>6 DEF Closes, Leads, EndStates
  <2> QED BY <2>1, <1>4, <1>5, <1>6 DEF Closes, Leads, EndStates
<1>8. ASSUME Calm, e.state = "CLOSED"
      PROVE  f.state = "CLOSED" /\ f.err = "invalid" /\ f.view = e.view
  <2>1. g.state = "CLOSED" /\ g.view = e.view /\ g.err = "invalid"
    BY <1>2, <1>8 DEF EndStates
  <2>2. Agreed(g)  BY <2>1 DEF Agreed
  <2>3. h \in EndStates /\ h.state = "CLOSED" /\ h.view = g.view
    BY <2>1, <2>2, <1>6, <1>8 DEF Closes, Leads, Follows
  <2>4. f = [h EXCEPT !.err = "invalid"]  BY <2>1, <1>5, <1>8 DEF Calm
  <2> QED BY <2>1, <2>3, <2>4 DEF EndStates
<1>9. ASSUME Calm, e.state # "CLOSED", e.state # "none" PROVE f = g /\ f.err = "none"
  BY <1>1, <1>3, <1>5, <1>9 DEF Calm
<1>10. Calm /\ Agreed(e) => Agreed(f) /\ Follows(e, f)
  <2>1. CASE e.state = "none"
    BY <2>1, <1>5 DEF Agreed, Follows, EndStates
  <2>2. CASE e.state = "CLOSED"  BY <2>2, <1>8 DEF Agreed, Follows
  <2>3. CASE e.state # "none" /\ e.state # "CLOSED"
    BY <2>3, <1>3, <1>9 DEF Agreed, Follows, EndStates
  <2> QED BY <2>1, <2>2, <2>3
<1>11. Calm /\ e.state # "none" => f.state = "CLOSED" /\ f.err # "failed"
  BY <1>3, <1>8, <1>9
<1> QED BY <1>7, <1>10, <1>11 DEF Closes, Leads, f

\* A message that leaves the channel open: an acknowledgement or data.
LEMMA GoesOn ==
  ASSUME NEW e \in EndStates, NEW s1 \in SendResults, NEW s2 \in SendResults,
         NEW action, NEW p \in BOOLEAN,
         <<action, p>> \in {<<"ACK_CONTINUE", FALSE>>, <<"CONTINUE", TRUE>>}
  PROVE  Leads(e, Guarded(e, OrError(send_channel(e, action, p, s1), s2)))
<1>1. s1 \in BOOLEAN /\ (Calm => s1 = TRUE)  BY SendResult
<1>2. \/ action = "ACK_CONTINUE" /\ p = FALSE
      \/ action = "CONTINUE" /\ p = TRUE
  OBVIOUS
<1> DEFINE g == send_channel(e, action, p, s1)
           h == error_channel(g, s2)
           f == Guarded(e, OrError(g, s2))
<1>3. Rejected(e, action) => g = [e EXCEPT !.err = "invalid"]  BY DEF send_channel
<1>4. ASSUME ~Rejected(e, action)
      PROVE  /\ g.state = "CONFIRMED" /\ g \in EndStates
             /\ g.err = IF s1 THEN "none" ELSE "failed"
             /\ Calm /\ Agreed(e) /\ e.state # "none" => g.view = "open"
  BY <1>1, <1>2, <1>4 DEF send_channel, Rejected, ClientSees, EndStates, Views, Agreed
<1>5. g \in EndStates  BY <1>3, <1>4 DEF EndStates
<1>6. f = IF life # "live" \/ e.state = "none" THEN [e EXCEPT !.err = "failed"]
          ELSE IF g.err = "none" THEN g ELSE [h EXCEPT !.err = g.err]
  BY DEF Guarded, OrError
<1>7. Leads(g, h)  BY <1>5, ErrorCloses DEF Closes
<1> HIDE DEF f, g, h
<1>8. f \in EndStates /\ (f.state = "none" <=> e.state = "none")
  <2>1. e.state # "none" => g.state # "none" /\ h.state # "none"
    BY <1>3, <1>4, <1>7 DEF Leads, EndStates
  <2> QED BY <2>1, <1>5, <1>6, <1>7 DEF Leads, EndStates
<1>9. ASSUME Calm, Agreed(e) PROVE Agreed(f) /\ Follows(e, f)
  <2>1. CASE e.state = "none"
    BY <2>1, <1>6 DEF Agreed, Follows, EndStates
  <2>2. CASE e.state # "none" /\ Rejected(e, action)
    <3>1. g.state = e.state /\ g.view = e.view /\ g.err = "invalid"
      BY <2>2, <1>3 DEF EndStates
    <3>2. Agreed(g)  BY <3>1, <1>9 DEF Agreed
    <3>3. h \in EndStates /\ Agreed(h) /\ Follows(g, h)  BY <3>2, <1>7, <1>9 DEF Leads
    <3>4. f = [h EXCEPT !.err = "invalid"]  BY <3>1, <2>2, <1>6, <1>9 DEF Calm
    <3>5. f.state = h.state /\ f.view = h.view  BY <3>3, <3>4 DEF EndStates
    <3> QED BY <3>1, <3>3, <3>5 DEF Agreed, Follows
  <2>3. CASE e.state # "none" /\ ~Rejected(e, action)
    <3>1. f = g  BY <2>3, <1>1, <1>4, <1>6, <1>9 DEF Calm
    <3>2. e.state \in {"INITIAL", "CONFIRMED"} /\ g.state = "CONFIRMED" /\ g.view = "open"
      BY <2>3, <1>4, <1>9 DEF Rejected, EndStates
    <3> QED BY <3>1, <3>2, <1>9 DEF Agreed, Follows
  <2> QED BY <2>1, <2>2, <2>3
<1>10. Leads(e, f)  BY <1>8, <1>9 DEF Leads
<1> QED BY <1>10 DEF f, g

\* confirm_channel sends an acknowledgement or gives the channel up.
LEMMA ConfirmLeads ==
  ASSUME NEW e \in EndStates, NEW s1 \in SendResults, NEW s2 \in SendResults
  PROVE  Leads(e, confirm_channel(e, s1, s2))
BY GoesOn DEF confirm_channel

\* continue_channel sends a further message or gives the channel up.
LEMMA ContinueLeads ==
  ASSUME NEW e \in EndStates, NEW s1 \in SendResults, NEW s2 \in SendResults
  PROVE  Leads(e, continue_channel(e, s1, s2))
BY GoesOn DEF continue_channel

-----------------------------------------------------------------------------
(* What the DRQV command does to its channel. *)

\* The end of a channel in the table.
LEMMA EndType ==
  ASSUME TypeOK, NEW c \in Channels
  PROVE  End(c) \in EndStates /\ End(c).state = chan[c].state /\ End(c).view = view[c]
BY DEF TypeOK, End, EndStates, ChannelRecords

\* A channel that is in the table.
LEMMA InTable ==
  ASSUME TypeOK, ChannelsAgree, NEW c \in Channels
  PROVE  chan[c] # NoChannel <=> chan[c].state # "none"
BY DEF TypeOK, ChannelsAgree, ChannelRecords, NoChannel

\* Calls for such a channel leave the session lock as it was.
LEMMA LockKept ==
  ASSUME NEW c \in Channels, chan[c] # NoChannel, NEW t
  PROVE  AfterCall(t, c) = session
BY DEF AfterCall

\* drqv_terminate closes the channel and drops the task.
Terminated(c, e) ==
  /\ view' = [view EXCEPT ![c] = e.view]
  /\ chan' = [chan EXCEPT ![c] = [state |-> e.state, doomed |-> TRUE]]
  /\ cmd' = [cmd EXCEPT ![c].task = FALSE]
  /\ tasks' = Unscheduled(c)
  /\ session' = session

\* drqv_terminate, called with the channel at any end the callback reached before.
LEMMA TerminateEffect ==
  ASSUME NEW c \in Channels, chan[c] # NoChannel, NEW before \in EndStates,
         Leads(End(c), before), NEW t, NEW s1 \in SendResults, NEW s2 \in SendResults,
         drqv_terminate(t, c, before, s1, s2)
  PROVE  \E e \in EndStates :
           /\ Leads(End(c), e) /\ Terminated(c, e)
           /\ Calm /\ before.state # "none" => e.state = "CLOSED"
<1> DEFINE e == finish_channel(before, FALSE, s1, s2)
<1>1. Closes(before, e)  BY FinishCloses
<1>2. /\ view' = [view EXCEPT ![c] = e.view]
      /\ chan' = [chan EXCEPT ![c] = [state |-> e.state, doomed |-> TRUE]]
      /\ cmd' = [cmd EXCEPT ![c].task = FALSE]
      /\ tasks' = Unscheduled(c)
      /\ session' = AfterCall(t, c)
  BY DEF drqv_terminate, CloseOnTerminate, request_channel_destruction
<1> HIDE DEF e
<1>3. e \in EndStates /\ Leads(End(c), e)  BY <1>1, LeadsOn DEF Closes, Leads
<1>4. Terminated(c, e)  BY <1>2, LockKept DEF Terminated
<1> QED BY <1>1, <1>3, <1>4 DEF Closes

\* A sample leaves the command and its task in place.
LEMMA SampledKeeps ==
  ASSUME NEW k \in CommandRecords, elapsed \in BOOLEAN
  PROVE  /\ Sampled(k) \in CommandRecords
         /\ Sampled(k).exists = k.exists /\ Sampled(k).task = k.task
         /\ Sampled(k).ref = k.ref
<1>1. k.times \in Int /\ (k.times > 0 => k.times # Infinite)  BY DEF CommandRecords, Infinite
<1>2. CASE k.times > 0
  <2>1. Sampled(k) = [k EXCEPT !.times = @ - 1, !.fresh = elapsed]  BY <1>1, <1>2 DEF Sampled
  <2>2. k.times - 1 \in Int  BY <1>1
  <2>3. Sampled(k).exists = k.exists /\ Sampled(k).task = k.task /\ Sampled(k).ref = k.ref
    BY <2>1 DEF CommandRecords
  <2> QED BY <2>1, <2>2, <2>3 DEF CommandRecords
<1>3. CASE ~(k.times > 0) /\ k.times = Infinite
  <2>1. Sampled(k) = [k EXCEPT !.fresh = elapsed]  BY <1>3 DEF Sampled
  <2> QED BY <2>1 DEF CommandRecords
<1>4. CASE ~(k.times > 0) /\ k.times # Infinite
  BY <1>4 DEF Sampled
<1> QED BY <1>2, <1>3, <1>4

\* A call of a task that goes on: the channel's state and the command change.
Worked(c, e, k) ==
  /\ view' = [view EXCEPT ![c] = e.view]
  /\ chan' = [chan EXCEPT ![c].state = e.state]
  /\ cmd' = [cmd EXCEPT ![c] = k]
  /\ session' = session
  /\ Leads(End(c), e)
  /\ k.exists = cmd[c].exists /\ k.task = cmd[c].task /\ k.ref = cmd[c].ref

\* drqv_process_flightloop reads values and sends messages; it never drops the task.
LEMMA FlightloopEffect ==
  ASSUME TypeOK, NEW c \in Channels, chan[c] # NoChannel,
         NEW found \in BOOLEAN, NEW due \in BOOLEAN, NEW read \in BOOLEAN,
         NEW s1 \in SendResults, NEW s2 \in SendResults,
         drqv_process_flightloop(c, found, due, read, s1, s2)
  PROVE  \E e \in EndStates, k \in CommandRecords : Worked(c, e, k)
<1> DEFINE k0 == cmd[c]
           started == [k0 EXCEPT !.init = TRUE]
           confirmed == IF k0.init THEN End(c) ELSE confirm_channel(End(c), s1, s2)
<1>1. k0 \in CommandRecords /\ cmd \in [Channels -> CommandRecords]
      /\ chan \in [Channels -> ChannelRecords] /\ view \in [Channels -> Views]
  BY DEF TypeOK
<1>2. End(c) \in EndStates /\ End(c).state = chan[c].state /\ End(c).view = view[c]
  BY EndType
<1>3. /\ started \in CommandRecords
      /\ started.exists = k0.exists /\ started.task = k0.task /\ started.ref = k0.ref
  BY <1>1 DEF CommandRecords
<1>4. Leads(End(c), confirmed)  BY <1>2, ConfirmLeads, LeadsNowhere
<1>5. /\ Sampled(started) \in CommandRecords
      /\ Sampled(started).exists = k0.exists /\ Sampled(started).task = k0.task
      /\ Sampled(started).ref = k0.ref
  BY <1>3, SampledKeeps DEF TypeOK
<1>6. CASE k0.failed \/ life # "live"
  <2>1. UNCHANGED <<view, chan, cmd, session>>
    BY <1>6 DEF drqv_process_flightloop
  <2>2. view' = [view EXCEPT ![c] = End(c).view]  BY <2>1, <1>1, <1>2
  <2>3. chan' = [chan EXCEPT ![c].state = End(c).state]
    BY <2>1, <1>1, <1>2 DEF ChannelRecords
  <2>4. cmd' = [cmd EXCEPT ![c] = k0]  BY <2>1, <1>1
  <2>5. Worked(c, End(c), k0)  BY <2>1, <2>2, <2>3, <2>4, <1>2, LeadsNowhere DEF Worked
  <2> QED BY <2>5, <1>1, <1>2
<1>7. CASE ~(k0.failed \/ life # "live") /\ ~k0.init /\ ~found
  <2> DEFINE e == error_channel(End(c), s1)
             k == [k0 EXCEPT !.failed = TRUE]
  <2>1. Store(c, e) /\ cmd' = [cmd EXCEPT ![c] = k] /\ session' = session
    BY <1>7, <1>1, LockKept DEF drqv_process_flightloop
  <2>2. Leads(End(c), e) /\ e \in EndStates  BY <1>2, ErrorCloses DEF Closes, Leads
  <2>3. k \in CommandRecords /\ k.exists = k0.exists /\ k.task = k0.task /\ k.ref = k0.ref
    BY <1>1 DEF CommandRecords
  <2> HIDE DEF e, k
  <2>4. Worked(c, e, k)  BY <2>1, <2>2, <2>3 DEF Worked, Store
  <2> QED BY <2>2, <2>3, <2>4
<1>8. CASE /\ ~(k0.failed \/ life # "live") /\ ~(~k0.init /\ ~found)
           /\ (~k0.init \/ due) /\ k0.times # 0 /\ ~read
  <2> DEFINE e == error_channel(confirmed, s2)
             k == [Sampled(started) EXCEPT !.failed = TRUE]
  <2>1. Store(c, e) /\ cmd' = [cmd EXCEPT ![c] = k] /\ session' = session
    BY <1>8, LockKept DEF drqv_process_flightloop
  <2>2. Leads(End(c), e) /\ e \in EndStates
    <3>1. confirmed \in EndStates  BY <1>4 DEF Leads
    <3> HIDE DEF confirmed
    <3>2. Leads(confirmed, e)  BY <3>1, ErrorCloses DEF Closes
    <3> HIDE DEF e
    <3> QED BY <3>2, <1>4, LeadsOn DEF Leads
  <2>3. k \in CommandRecords /\ k.exists = k0.exists /\ k.task = k0.task /\ k.ref = k0.ref
    <3> HIDE DEF started
    <3> QED BY <1>5 DEF CommandRecords
  <2> HIDE DEF e, k
  <2>4. Worked(c, e, k)  BY <2>1, <2>2, <2>3 DEF Worked, Store
  <2> QED BY <2>2, <2>3, <2>4
<1>9. CASE /\ ~(k0.failed \/ life # "live") /\ ~(~k0.init /\ ~found)
           /\ ~((~k0.init \/ due) /\ k0.times # 0 /\ ~read)
  <2> DEFINE k == IF ~k0.init \/ due THEN Sampled(started) ELSE k0
  <2>1. Store(c, confirmed) /\ cmd' = [cmd EXCEPT ![c] = k] /\ session' = session
    BY <1>9, LockKept DEF drqv_process_flightloop
  <2>2. confirmed \in EndStates  BY <1>4 DEF Leads
  <2>3. k \in CommandRecords /\ k.exists = k0.exists /\ k.task = k0.task /\ k.ref = k0.ref
    <3> HIDE DEF started
    <3> QED BY <1>1, <1>5
  <2> HIDE DEF confirmed, k
  <2>4. Worked(c, confirmed, k)  BY <2>1, <2>3, <1>4 DEF Worked, Store
  <2> QED BY <2>2, <2>3, <2>4
<1> QED BY <1>6, <1>7, <1>8, <1>9

\* drqv_process_post either works on the command or terminates it.
LEMMA PostEffect ==
  ASSUME TypeOK, ChannelsAgree, NEW c \in Channels, chan[c] # NoChannel,
         NEW encoded \in BOOLEAN, NEW s1 \in SendResults, NEW s2 \in SendResults,
         drqv_process_post(c, encoded, s1, s2)
  PROVE  \/ \E e \in EndStates, k \in CommandRecords :
              Worked(c, e, k) /\ UNCHANGED tasks
         \/ \E e \in EndStates :
              /\ Leads(End(c), e) /\ Terminated(c, e)
              /\ Calm => e.state = "CLOSED"
<1> DEFINE k0 == cmd[c]
           e0 == continue_channel(End(c), s1, s2)
<1>1. k0 \in CommandRecords /\ cmd \in [Channels -> CommandRecords]
      /\ chan \in [Channels -> ChannelRecords] /\ view \in [Channels -> Views]
  BY DEF TypeOK
<1>2. /\ End(c) \in EndStates /\ End(c).state = chan[c].state /\ End(c).view = view[c]
      /\ End(c).state # "none"
  BY EndType, InTable
<1>3. Leads(End(c), End(c))  BY <1>2, LeadsNowhere
<1>4. CASE drqv_terminate("post", c, End(c), s1, s2)
  BY <1>4, <1>2, <1>3, TerminateEffect
<1>5. CASE UNCHANGED <<view, chan, cmd, tasks, session>>
  <2>1. view' = [view EXCEPT ![c] = End(c).view]  BY <1>5, <1>1, <1>2
  <2>2. chan' = [chan EXCEPT ![c].state = End(c).state]
    BY <1>5, <1>1, <1>2 DEF ChannelRecords
  <2>3. cmd' = [cmd EXCEPT ![c] = k0]  BY <1>5, <1>1
  <2>4. Worked(c, End(c), k0)  BY <2>1, <2>2, <2>3, <1>3, <1>5 DEF Worked
  <2> QED BY <2>4, <1>1, <1>2, <1>5
<1>6. CASE /\ Store(c, error_channel(End(c), s1))
           /\ cmd' = [cmd EXCEPT ![c].failed = TRUE]
           /\ session' = AfterCall("post", c)
           /\ UNCHANGED tasks
  <2> DEFINE e == error_channel(End(c), s1)
             k == [k0 EXCEPT !.failed = TRUE]
  <2>1. Store(c, e) /\ cmd' = [cmd EXCEPT ![c] = k] /\ session' = session
    BY <1>6, <1>1, LockKept
  <2>2. Leads(End(c), e) /\ e \in EndStates  BY <1>2, ErrorCloses DEF Closes, Leads
  <2>3. k \in CommandRecords /\ k.exists = k0.exists /\ k.task = k0.task /\ k.ref = k0.ref
    BY <1>1 DEF CommandRecords
  <2> HIDE DEF e, k
  <2>4. Worked(c, e, k)  BY <2>1, <2>2, <2>3 DEF Worked, Store
  <2> QED BY <2>2, <2>3, <2>4, <1>6
<1>7. CASE /\ Store(c, IF e0.err = "none" THEN e0 ELSE error_channel(e0, s2))
           /\ cmd' = [cmd EXCEPT ![c].fresh = FALSE, ![c].failed = (e0.err # "none")]
           /\ session' = AfterCall("post", c)
           /\ UNCHANGED tasks
  <2> DEFINE e == IF e0.err = "none" THEN e0 ELSE error_channel(e0, s2)
             k == [k0 EXCEPT !.fresh = FALSE, !.failed = (e0.err # "none")]
  <2>1. Leads(End(c), e0) /\ e0 \in EndStates  BY <1>2, ContinueLeads DEF Leads
  <2> HIDE DEF e0
  <2>2. Store(c, e) /\ cmd' = [cmd EXCEPT ![c] = k] /\ session' = session
    BY <1>7, <1>1, LockKept
  <2>3. Leads(End(c), e) /\ e \in EndStates
    <3>1. Leads(e0, error_channel(e0, s2))  BY <2>1, ErrorCloses DEF Closes
    <3>2. Leads(End(c), error_channel(e0, s2))  BY <3>1, <2>1, LeadsOn
    <3> QED BY <3>2, <2>1 DEF Leads
  <2>4. k \in CommandRecords /\ k.exists = k0.exists /\ k.task = k0.task /\ k.ref = k0.ref
    BY <1>1 DEF CommandRecords
  <2> HIDE DEF e, k
  <2>5. Worked(c, e, k)  BY <2>2, <2>3, <2>4 DEF Worked, Store
  <2> QED BY <2>3, <2>4, <2>5, <1>7
<1>8. CASE drqv_terminate("post", c, finish_channel(End(c), TRUE, s1, s2), s1, s2)
  <2> DEFINE b == finish_channel(End(c), TRUE, s1, s2)
  <2>1. Leads(End(c), b)  BY <1>2, FinishCloses DEF Closes
  <2> HIDE DEF b
  <2>2. b \in EndStates /\ b.state # "none"  BY <2>1, <1>2 DEF Leads
  <2>3. drqv_terminate("post", c, b, s1, s2)  BY <1>8 DEF b
  <2> QED BY <2>1, <2>2, <2>3, TerminateEffect
<1> QED BY <1>4, <1>5, <1>6, <1>7, <1>8 DEF drqv_process_post

-----------------------------------------------------------------------------
(* Steps that leave channels, commands and tasks alone. *)

\* What such a step keeps of the invariant.
LEMMA TablesKept ==
  ASSUME IInv, UNCHANGED <<chan, cmd, tasks, caught>>
  PROVE  OwnersExist' /\ TasksDiffer' /\ ChannelsAgree'
BY DEF IInv, OwnersExist, TasksDiffer, ChannelsAgree

\* The receive thread takes a line from its connection and holds nothing yet.
LEMMA ReceiveLineStep == ASSUME IInv, ReceiveLine PROVE IInv'
<1>1. /\ TypeOK /\ SessionLockBalanced /\ ScheduleHeld /\ LifeAgrees
      /\ SweepAgrees /\ TodoScheduled /\ RecvAgrees
  BY DEF IInv
<1>2. UNCHANGED <<flightLoop, server, schedule, session, life, registered,
                      closing, chan, cmd, tasks, elapsed, xp, post, net,
                      requests, view, caught, fault>>
  BY DEF ReceiveLine, lockVars, sessionVars, threadVars, clientVars
<1>3. /\ recv' = [pc |-> "line", req |-> Head(inbox), err |-> "none"]
      /\ inbox' = Tail(inbox) /\ inbox # << >> /\ recv.pc = "idle"
  BY DEF ReceiveLine
<1>4. Head(inbox) \in Requests /\ Tail(inbox) \in Seq(Requests)
  BY <1>1, <1>3, HeadTail DEF TypeOK
<1>5. TypeOK'  BY <1>1, <1>2, <1>3, <1>4 DEF TypeOK, RecvStates
<1>6. SessionLockBalanced' /\ ScheduleHeld' /\ RecvAgrees'
  BY <1>1, <1>2, <1>3, <1>4
  DEF SessionLockBalanced, ScheduleHeld, RecvAgrees, Creating, TypeOK, RecvStates
<1>7. LifeAgrees' /\ SweepAgrees' /\ TodoScheduled'
  BY <1>1, <1>2, <1>3
  DEF LifeAgrees, SweepAgrees, TodoScheduled, TypeOK, RecvStates, Creating
<1>8. OwnersExist' /\ TasksDiffer' /\ ChannelsAgree'  BY <1>2, TablesKept
<1> QED BY <1>5, <1>6, <1>7, <1>8 DEF IInv

\* It takes the schedule lock, free until then.
LEMMA RecvLockScheduleStep == ASSUME IInv, RecvLockSchedule PROVE IInv'
<1>1. /\ TypeOK /\ SessionLockBalanced /\ ScheduleHeld /\ LifeAgrees
      /\ SweepAgrees /\ TodoScheduled /\ RecvAgrees
  BY DEF IInv
<1>2. UNCHANGED <<flightLoop, server, session, life, registered, closing,
                      chan, cmd, tasks, elapsed, xp, post, net, inbox,
                      requests, view, caught, fault>>
  BY DEF RecvLockSchedule, lockVars, sessionVars, threadVars, clientVars
<1>3. /\ recv.pc = "line" /\ schedule = Free /\ schedule' = "recv"
      /\ recv' = [recv EXCEPT !.pc = "locked"]
  BY DEF RecvLockSchedule, RecvAt, RecvGo
<1>4. TypeOK'  BY <1>1, <1>2, <1>3 DEF TypeOK, RecvStates
<1>5. SessionLockBalanced' /\ ScheduleHeld' /\ RecvAgrees'
  BY <1>1, <1>2, <1>3
  DEF SessionLockBalanced, ScheduleHeld, RecvAgrees, Creating, TypeOK, RecvStates, Free
<1>6. LifeAgrees' /\ SweepAgrees' /\ TodoScheduled'
  BY <1>1, <1>2, <1>3
  DEF LifeAgrees, SweepAgrees, TodoScheduled, TypeOK, RecvStates, Creating
<1>7. OwnersExist' /\ TasksDiffer' /\ ChannelsAgree'  BY <1>2, TablesKept
<1> QED BY <1>4, <1>5, <1>6, <1>7 DEF IInv

\* It takes the session lock, free until then.
LEMMA RecvLockSessionStep == ASSUME IInv, RecvLockSession PROVE IInv'
<1>1. /\ TypeOK /\ SessionLockBalanced /\ ScheduleHeld /\ LifeAgrees
      /\ SweepAgrees /\ TodoScheduled /\ RecvAgrees
  BY DEF IInv
<1>2. UNCHANGED <<flightLoop, server, schedule, life, registered, closing,
                      chan, cmd, tasks, elapsed, xp, post, net, inbox,
                      requests, view, caught, fault>>
  BY DEF RecvLockSession, lockVars, sessionVars, threadVars, clientVars
<1>3. /\ recv.pc = "locked" /\ session' = [owner |-> "recv", depth |-> 1]
      /\ recv' = [recv EXCEPT !.pc = "handle"]
  BY DEF RecvLockSession, RecvAt, RecvGo
<1>4. TypeOK'
  <2>1. recv' \in RecvStates /\ session' \in [owner : Threads \cup {Free}, depth : Nat]
    BY <1>1, <1>3 DEF TypeOK, RecvStates, Threads
  <2> QED BY <2>1, <1>1, <1>2, <1>3 DEF TypeOK
<1>5. SessionLockBalanced' /\ ScheduleHeld' /\ RecvAgrees'
  BY <1>1, <1>2, <1>3
  DEF SessionLockBalanced, ScheduleHeld, RecvAgrees, Creating, TypeOK, RecvStates, Threads, Free
<1>6. LifeAgrees' /\ SweepAgrees' /\ TodoScheduled'
  BY <1>1, <1>2, <1>3
  DEF LifeAgrees, SweepAgrees, TodoScheduled, TypeOK, RecvStates, Creating
<1>7. OwnersExist' /\ TasksDiffer' /\ ChannelsAgree'  BY <1>2, TablesKept
<1> QED BY <1>4, <1>5, <1>6, <1>7 DEF IInv

\* It finds the session being destroyed and leaves with the schedule locked.
LEMMA RecvSessionGoneStep == ASSUME IInv, RecvSessionGone PROVE IInv'
<1>1. /\ TypeOK /\ SessionLockBalanced /\ ScheduleHeld /\ LifeAgrees
      /\ SweepAgrees /\ TodoScheduled /\ RecvAgrees
  BY DEF IInv
<1>2. UNCHANGED <<flightLoop, server, schedule, session, life, registered,
                      chan, cmd, tasks, elapsed, xp, post, net, inbox,
                      requests, view, caught, fault>>
  BY DEF RecvSessionGone, lockVars, sessionVars, threadVars, clientVars
<1>3. /\ recv.pc = "locked" /\ closing' = TRUE
      /\ recv' = [recv EXCEPT !.pc = "idle"]
  BY DEF RecvSessionGone, RecvAt, RecvGo
<1>4. TypeOK'
  <2>1. recv' \in RecvStates
    BY <1>1, <1>3 DEF TypeOK, RecvStates
  <2> QED BY <2>1, <1>1, <1>2, <1>3 DEF TypeOK
<1>5. SessionLockBalanced' /\ ScheduleHeld' /\ RecvAgrees'
  BY <1>1, <1>2, <1>3
  DEF SessionLockBalanced, ScheduleHeld, RecvAgrees, Creating, TypeOK, RecvStates, Free
<1>6. LifeAgrees' /\ SweepAgrees' /\ TodoScheduled'
  BY <1>1, <1>2, <1>3
  DEF LifeAgrees, SweepAgrees, TodoScheduled, TypeOK, RecvStates, Creating
<1>7. OwnersExist' /\ TasksDiffer' /\ ChannelsAgree'  BY <1>2, TablesKept
<1> QED BY <1>4, <1>5, <1>6, <1>7 DEF IInv

\* It releases both locks at the end of the request.
LEMMA RecvUnlockStep == ASSUME IInv, RecvUnlock PROVE IInv'
<1>1. /\ TypeOK /\ SessionLockBalanced /\ ScheduleHeld /\ LifeAgrees
      /\ SweepAgrees /\ TodoScheduled /\ RecvAgrees
  BY DEF IInv
<1>2. UNCHANGED <<flightLoop, server, life, registered, closing, chan,
                      cmd, tasks, elapsed, xp, post, net, inbox, requests,
                      view, caught, fault>>
  BY DEF RecvUnlock, lockVars, sessionVars, threadVars, clientVars
<1>3. /\ recv.pc = "unlock" /\ schedule' = Free
      /\ session' = Released(session) /\ recv' = [recv EXCEPT !.pc = "idle"]
  BY DEF RecvUnlock, RecvAt, RecvGo
<1>4. /\ session' \in [owner : Threads \cup {Free}, depth : Nat]
      /\ session'.owner = Free
  BY <1>1, <1>3 DEF Released, SessionLockBalanced, TypeOK, Threads, Free
<1>5. TypeOK'  BY <1>1, <1>2, <1>3, <1>4 DEF TypeOK, RecvStates
<1>6. SessionLockBalanced' /\ ScheduleHeld' /\ RecvAgrees'
  BY <1>1, <1>2, <1>3, <1>4
  DEF SessionLockBalanced, ScheduleHeld, RecvAgrees, Creating, TypeOK, RecvStates, Free
<1>7. LifeAgrees' /\ SweepAgrees' /\ TodoScheduled'
  BY <1>1, <1>2, <1>3
  DEF LifeAgrees, SweepAgrees, TodoScheduled, TypeOK, RecvStates, Creating
<1>8. OwnersExist' /\ TasksDiffer' /\ ChannelsAgree'  BY <1>2, TablesKept
<1> QED BY <1>5, <1>6, <1>7, <1>8 DEF IInv

\* It ends outside the locks.
LEMMA RecvExitStep == ASSUME IInv, RecvExit PROVE IInv'
<1>1. /\ TypeOK /\ SessionLockBalanced /\ ScheduleHeld /\ LifeAgrees
      /\ SweepAgrees /\ TodoScheduled /\ RecvAgrees
  BY DEF IInv
<1>2. UNCHANGED <<flightLoop, server, schedule, session, life, registered,
                      closing, chan, cmd, tasks, elapsed, xp, post, net,
                      inbox, requests, view, caught, fault>>
  BY DEF RecvExit, lockVars, sessionVars, threadVars, clientVars
<1>3. /\ recv.pc = "idle" /\ recv' = [recv EXCEPT !.pc = "exited"]
  BY DEF RecvExit, RecvGo
<1>4. TypeOK'
  <2>1. recv \in RecvStates  BY <1>1 DEF TypeOK
  <2>2. recv' \in RecvStates  BY <2>1, <1>3 DEF RecvStates
  <2> QED BY <2>2, <1>1, <1>2 DEF TypeOK
<1>5. SessionLockBalanced' /\ ScheduleHeld' /\ RecvAgrees'
  BY <1>1, <1>2, <1>3
  DEF SessionLockBalanced, ScheduleHeld, RecvAgrees, Creating, TypeOK, RecvStates, Free
<1>6. LifeAgrees' /\ SweepAgrees' /\ TodoScheduled'
  BY <1>1, <1>2, <1>3
  DEF LifeAgrees, SweepAgrees, TodoScheduled, TypeOK, RecvStates, Creating
<1>7. OwnersExist' /\ TasksDiffer' /\ ChannelsAgree'  BY <1>2, TablesKept
<1> QED BY <1>4, <1>5, <1>6, <1>7 DEF IInv

\* The flight loop starts a frame under its own lock.
LEMMA FrameBeginStep == ASSUME IInv, FrameBegin PROVE IInv'
<1>1. /\ TypeOK /\ SessionLockBalanced /\ ScheduleHeld /\ LifeAgrees
      /\ SweepAgrees /\ TodoScheduled /\ RecvAgrees
  BY DEF IInv
<1>2. UNCHANGED <<server, schedule, session, life, registered, closing,
                      chan, cmd, tasks, elapsed, recv, post, net, inbox,
                      requests, view, caught, fault>>
  BY DEF FrameBegin, lockVars, sessionVars, threadVars, clientVars
<1>3. /\ xp.pc = "frame" /\ flightLoop' = "xp" /\ xp' = [xp EXCEPT !.pc = "want"]
  BY DEF FrameBegin
<1>4. TypeOK'  BY <1>1, <1>2, <1>3 DEF TypeOK, XpStates
<1>5. ScheduleHeld' /\ TodoScheduled'
  BY <1>1, <1>2, <1>3
  DEF ScheduleHeld, TodoScheduled, TypeOK, XpStates
<1>6. /\ SessionLockBalanced' /\ LifeAgrees' /\ SweepAgrees'
      /\ RecvAgrees'
  BY <1>1, <1>2
  DEF SessionLockBalanced, LifeAgrees, SweepAgrees, RecvAgrees
<1>7. OwnersExist' /\ TasksDiffer' /\ ChannelsAgree'  BY <1>2, TablesKept
<1> QED BY <1>4, <1>5, <1>6, <1>7 DEF IInv

\* The flight loop takes the schedule lock and notes the scheduled tasks.
LEMMA XpLockScheduleStep == ASSUME IInv, XpLockSchedule PROVE IInv'
<1>1. /\ TypeOK /\ SessionLockBalanced /\ ScheduleHeld /\ LifeAgrees
      /\ SweepAgrees /\ TodoScheduled /\ RecvAgrees
  BY DEF IInv
<1>2. UNCHANGED <<flightLoop, server, session, life, registered, closing,
                      chan, cmd, tasks, elapsed, recv, post, net, inbox,
                      requests, view, caught, fault>>
  BY DEF XpLockSchedule, lockVars, sessionVars, threadVars, clientVars
<1>3. /\ xp.pc = "want" /\ schedule = Free /\ schedule' = "xp"
      /\ xp' = [pc |-> "run", todo |-> tasks]
  BY DEF XpLockSchedule
<1>4. TypeOK'  BY <1>1, <1>2, <1>3 DEF TypeOK, XpStates
<1>5. ScheduleHeld' /\ TodoScheduled'
  BY <1>1, <1>2, <1>3
  DEF ScheduleHeld, TodoScheduled, TypeOK, XpStates, Free
<1>6. /\ SessionLockBalanced' /\ LifeAgrees' /\ SweepAgrees'
      /\ RecvAgrees'
  BY <1>1, <1>2
  DEF SessionLockBalanced, LifeAgrees, SweepAgrees, RecvAgrees
<1>7. OwnersExist' /\ TasksDiffer' /\ ChannelsAgree'  BY <1>2, TablesKept
<1> QED BY <1>4, <1>5, <1>6, <1>7 DEF IInv

\* It releases the lock after the last of them.
LEMMA XpUnlockScheduleStep == ASSUME IInv, XpUnlockSchedule PROVE IInv'
<1>1. /\ TypeOK /\ SessionLockBalanced /\ ScheduleHeld /\ LifeAgrees
      /\ SweepAgrees /\ TodoScheduled /\ RecvAgrees
  BY DEF IInv
<1>2. UNCHANGED <<flightLoop, server, session, life, registered, closing,
                      chan, cmd, tasks, elapsed, recv, post, net, inbox,
                      requests, view, caught, fault>>
  BY DEF XpUnlockSchedule, lockVars, sessionVars, threadVars, clientVars
<1>3. /\ xp.pc = "run" /\ schedule' = Free /\ xp' = [xp EXCEPT !.pc = "end"]
  BY DEF XpUnlockSchedule
<1>4. TypeOK'  BY <1>1, <1>2, <1>3 DEF TypeOK, XpStates
<1>5. ScheduleHeld' /\ TodoScheduled'
  BY <1>1, <1>2, <1>3
  DEF ScheduleHeld, TodoScheduled, TypeOK, XpStates, Free
<1>6. /\ SessionLockBalanced' /\ LifeAgrees' /\ SweepAgrees'
      /\ RecvAgrees'
  BY <1>1, <1>2
  DEF SessionLockBalanced, LifeAgrees, SweepAgrees, RecvAgrees
<1>7. OwnersExist' /\ TasksDiffer' /\ ChannelsAgree'  BY <1>2, TablesKept
<1> QED BY <1>4, <1>5, <1>6, <1>7 DEF IInv

\* It ends the frame and releases that lock.
LEMMA FrameEndStep == ASSUME IInv, FrameEnd PROVE IInv'
<1>1. /\ TypeOK /\ SessionLockBalanced /\ ScheduleHeld /\ LifeAgrees
      /\ SweepAgrees /\ TodoScheduled /\ RecvAgrees
  BY DEF IInv
<1>2. UNCHANGED <<server, schedule, session, life, registered, closing,
                      chan, cmd, tasks, elapsed, recv, net, inbox, requests,
                      view, caught, fault>>
  BY DEF FrameEnd, lockVars, sessionVars, threadVars, clientVars
<1>3. /\ xp.pc = "end" /\ flightLoop' = Free /\ xp' = [xp EXCEPT !.pc = "frame"]
      /\ post' = [post EXCEPT !.pc = IF @ = "wait" THEN "woken" ELSE @]
  BY DEF FrameEnd
<1>4. post \in PostStates
  BY <1>1 DEF TypeOK
<1>5. /\ post' \in PostStates /\ post'.todo = post.todo
      /\ post'.pc = "run" <=> post.pc = "run"
  BY <1>3, <1>4 DEF PostStates
<1>6. TypeOK'  BY <1>1, <1>2, <1>3, <1>4, <1>5 DEF TypeOK, XpStates
<1>7. ScheduleHeld' /\ TodoScheduled'
  BY <1>1, <1>2, <1>3, <1>4, <1>5
  DEF ScheduleHeld, TodoScheduled, TypeOK, XpStates
<1>8. /\ SessionLockBalanced' /\ LifeAgrees' /\ SweepAgrees'
      /\ RecvAgrees'
  BY <1>1, <1>2
  DEF SessionLockBalanced, LifeAgrees, SweepAgrees, RecvAgrees
<1>9. OwnersExist' /\ TasksDiffer' /\ ChannelsAgree'  BY <1>2, TablesKept
<1> QED BY <1>6, <1>7, <1>8, <1>9 DEF IInv

\* Post-processing wakes up.
LEMMA PostWakeStep == ASSUME IInv, PostWake PROVE IInv'
<1>1. /\ TypeOK /\ SessionLockBalanced /\ ScheduleHeld /\ LifeAgrees
      /\ SweepAgrees /\ TodoScheduled /\ RecvAgrees
  BY DEF IInv
<1>2. UNCHANGED <<server, schedule, session, life, registered, closing,
                      chan, cmd, tasks, elapsed, recv, xp, net, inbox,
                      requests, view, caught, fault>>
  BY DEF PostWake, lockVars, sessionVars, threadVars, clientVars
<1>3. /\ post.pc = "woken" /\ flightLoop' = "post"
      /\ post' = [post EXCEPT !.pc = "want"]
  BY DEF PostWake
<1>4. TypeOK'  BY <1>1, <1>2, <1>3 DEF TypeOK, PostStates
<1>5. ScheduleHeld' /\ TodoScheduled'
  BY <1>1, <1>2, <1>3
  DEF ScheduleHeld, TodoScheduled, TypeOK, PostStates
<1>6. /\ SessionLockBalanced' /\ LifeAgrees' /\ SweepAgrees'
      /\ RecvAgrees'
  BY <1>1, <1>2
  DEF SessionLockBalanced, LifeAgrees, SweepAgrees, RecvAgrees
<1>7. OwnersExist' /\ TasksDiffer' /\ ChannelsAgree'  BY <1>2, TablesKept
<1> QED BY <1>4, <1>5, <1>6, <1>7 DEF IInv

\* Post-processing takes the schedule lock and notes the scheduled tasks.
LEMMA PostLockScheduleStep == ASSUME IInv, PostLockSchedule PROVE IInv'
<1>1. /\ TypeOK /\ SessionLockBalanced /\ ScheduleHeld /\ LifeAgrees
      /\ SweepAgrees /\ TodoScheduled /\ RecvAgrees
  BY DEF IInv
<1>2. UNCHANGED <<flightLoop, server, session, life, registered, closing,
                      chan, cmd, tasks, elapsed, recv, xp, net, inbox,
                      requests, view, caught, fault>>
  BY DEF PostLockSchedule, lockVars, sessionVars, threadVars, clientVars
<1>3. /\ post.pc = "want" /\ schedule = Free /\ schedule' = "post"
      /\ post' = [post EXCEPT !.pc = "run", !.todo = tasks]
  BY DEF PostLockSchedule
<1>4. IsInjective(tasks)
  BY DEF IInv, TasksDiffer
<1>5. TypeOK'  BY <1>1, <1>2, <1>3, <1>4 DEF TypeOK, PostStates
<1>6. ScheduleHeld' /\ TodoScheduled'
  BY <1>1, <1>2, <1>3, <1>4
  DEF ScheduleHeld, TodoScheduled, TypeOK, PostStates, Free
<1>7. /\ SessionLockBalanced' /\ LifeAgrees' /\ SweepAgrees'
      /\ RecvAgrees'
  BY <1>1, <1>2
  DEF SessionLockBalanced, LifeAgrees, SweepAgrees, RecvAgrees
<1>8. OwnersExist' /\ TasksDiffer' /\ ChannelsAgree'  BY <1>2, TablesKept
<1> QED BY <1>5, <1>6, <1>7, <1>8 DEF IInv

\* It releases the lock after the last of them.
LEMMA PostUnlockScheduleStep == ASSUME IInv, PostUnlockSchedule PROVE IInv'
<1>1. /\ TypeOK /\ SessionLockBalanced /\ ScheduleHeld /\ LifeAgrees
      /\ SweepAgrees /\ TodoScheduled /\ RecvAgrees
  BY DEF IInv
<1>2. UNCHANGED <<server, session, life, registered, closing, chan, cmd,
                      tasks, elapsed, recv, xp, net, inbox, requests, view,
                      caught, fault>>
  BY DEF PostUnlockSchedule, lockVars, sessionVars, threadVars, clientVars
<1>3. /\ post.pc = "run" /\ schedule' = Free
      /\ post' = [pc |-> IF post.cycles <= 1 THEN "maintain" ELSE "wait",
                  todo |-> << >>, cycles |-> CyclesLeft]
      /\ flightLoop' = IF post.cycles <= 1 THEN flightLoop ELSE Free
  BY DEF PostUnlockSchedule
<1>4. CyclesLeft \in 1 .. MaintenanceInterval
  BY <1>1, SessionAssumption DEF CyclesLeft, TypeOK, PostStates
<1>5. TypeOK'  BY <1>1, <1>2, <1>3, <1>4 DEF TypeOK, PostStates
<1>6. ScheduleHeld' /\ TodoScheduled'
  BY <1>1, <1>2, <1>3, <1>4
  DEF ScheduleHeld, TodoScheduled, TypeOK, PostStates, Free
<1>7. /\ SessionLockBalanced' /\ LifeAgrees' /\ SweepAgrees'
      /\ RecvAgrees'
  BY <1>1, <1>2
  DEF SessionLockBalanced, LifeAgrees, SweepAgrees, RecvAgrees
<1>8. OwnersExist' /\ TasksDiffer' /\ ChannelsAgree'  BY <1>2, TablesKept
<1> QED BY <1>5, <1>6, <1>7, <1>8 DEF IInv

\* It takes the server lock to maintain the sessions.
LEMMA PostLockServerStep == ASSUME IInv, PostLockServer PROVE IInv'
<1>1. /\ TypeOK /\ SessionLockBalanced /\ ScheduleHeld /\ LifeAgrees
      /\ SweepAgrees /\ TodoScheduled /\ RecvAgrees
  BY DEF IInv
<1>2. UNCHANGED <<flightLoop, schedule, session, life, registered,
                      closing, chan, cmd, tasks, elapsed, recv, xp, net,
                      inbox, requests, view, caught, fault>>
  BY DEF PostLockServer, lockVars, sessionVars, threadVars, clientVars
<1>3. /\ post.pc = "maintain" /\ server' = "post"
      /\ post' = [post EXCEPT !.pc = "sessions"]
  BY DEF PostLockServer
<1>4. TypeOK'
  <2>1. post' \in PostStates
    BY <1>1, <1>3 DEF TypeOK, PostStates
  <2> QED BY <2>1, <1>1, <1>2, <1>3 DEF TypeOK
<1>5. ScheduleHeld' /\ TodoScheduled'
  BY <1>1, <1>2, <1>3
  DEF ScheduleHeld, TodoScheduled, TypeOK, PostStates
<1>6. /\ SessionLockBalanced' /\ LifeAgrees' /\ SweepAgrees'
      /\ RecvAgrees'
  BY <1>1, <1>2
  DEF SessionLockBalanced, LifeAgrees, SweepAgrees, RecvAgrees
<1>7. OwnersExist' /\ TasksDiffer' /\ ChannelsAgree'  BY <1>2, TablesKept
<1> QED BY <1>4, <1>5, <1>6, <1>7 DEF IInv

\* The network side takes the session out of the server.
LEMMA NetUnregisterStep == ASSUME IInv, NetUnregister PROVE IInv'
<1>1. /\ TypeOK /\ SessionLockBalanced /\ ScheduleHeld /\ LifeAgrees
      /\ SweepAgrees /\ TodoScheduled /\ RecvAgrees
  BY DEF IInv
<1>2. UNCHANGED <<flightLoop, server, schedule, session, life, closing,
                      chan, cmd, tasks, elapsed, recv, xp, post, inbox,
                      requests, view, caught, fault>>
  BY DEF NetUnregister, lockVars, sessionVars, threadVars, clientVars
<1>3. /\ net.pc = "watch" /\ registered' = FALSE
      /\ net' = [net EXCEPT !.pc = "pend"]
  BY DEF NetUnregister
<1>4. TypeOK'
  <2>1. net' \in NetStates
    BY <1>1, <1>3 DEF TypeOK, NetStates
  <2> QED BY <2>1, <1>1, <1>2, <1>3 DEF TypeOK
<1>5. LifeAgrees' /\ SweepAgrees'
  BY <1>1, <1>2, <1>3
  DEF LifeAgrees, SweepAgrees, TypeOK, NetStates
<1>6. /\ SessionLockBalanced' /\ ScheduleHeld' /\ TodoScheduled'
      /\ RecvAgrees'
  BY <1>1, <1>2
  DEF SessionLockBalanced, ScheduleHeld, TodoScheduled, RecvAgrees
<1>7. OwnersExist' /\ TasksDiffer' /\ ChannelsAgree'  BY <1>2, TablesKept
<1> QED BY <1>4, <1>5, <1>6, <1>7 DEF IInv

\* It marks the session for destruction.
LEMMA NetPendStep == ASSUME IInv, NetPend PROVE IInv'
<1>1. /\ TypeOK /\ SessionLockBalanced /\ ScheduleHeld /\ LifeAgrees
      /\ SweepAgrees /\ TodoScheduled /\ RecvAgrees
  BY DEF IInv
<1>2. UNCHANGED <<flightLoop, server, schedule, session, registered,
                      closing, chan, cmd, tasks, elapsed, recv, xp, post,
                      inbox, requests, view, caught, fault>>
  BY DEF NetPend, lockVars, sessionVars, threadVars, clientVars
<1>3. /\ net.pc = "pend" /\ life' = "pending"
      /\ net' = [net EXCEPT !.pc = "table"]
  BY DEF NetPend
<1>4. TypeOK'  BY <1>1, <1>2, <1>3 DEF TypeOK, NetStates
<1>5. LifeAgrees' /\ SweepAgrees'
  BY <1>1, <1>2, <1>3
  DEF LifeAgrees, SweepAgrees, TypeOK, NetStates
<1>6. /\ SessionLockBalanced' /\ ScheduleHeld' /\ TodoScheduled'
      /\ RecvAgrees'
  BY <1>1, <1>2
  DEF SessionLockBalanced, ScheduleHeld, TodoScheduled, RecvAgrees
<1>7. OwnersExist' /\ TasksDiffer' /\ ChannelsAgree'  BY <1>2, TablesKept
<1> QED BY <1>4, <1>5, <1>6, <1>7 DEF IInv

\* It begins the sweep of the channels.
LEMMA NetBeginSweepStep == ASSUME IInv, NetBeginSweep PROVE IInv'
<1>1. /\ TypeOK /\ SessionLockBalanced /\ ScheduleHeld /\ LifeAgrees
      /\ SweepAgrees /\ TodoScheduled /\ RecvAgrees
  BY DEF IInv
<1>2. UNCHANGED <<flightLoop, server, schedule, session, life, registered,
                      closing, chan, cmd, tasks, elapsed, recv, xp, post,
                      inbox, requests, view, caught, fault>>
  BY DEF NetBeginSweep, lockVars, sessionVars, threadVars, clientVars
<1>3. /\ net.pc = "table" /\ net' = [pc |-> "sweep", at |-> 1]
  BY DEF NetBeginSweep
<1>4. /\ \A c \in Range(tasks) \ caught : 1 <= c
      /\ recv.pc \in Creating => 1 <= recv.req.id
  BY <1>1, Members, SessionAssumption
  DEF TypeOK, Channels, RecvAgrees, Requests, Creating
<1>5. TypeOK'  BY <1>1, <1>2, <1>3, <1>4 DEF TypeOK, NetStates
<1>6. LifeAgrees' /\ SweepAgrees'
  BY <1>1, <1>2, <1>3, <1>4
  DEF LifeAgrees, SweepAgrees, TypeOK, NetStates
<1>7. /\ SessionLockBalanced' /\ ScheduleHeld' /\ TodoScheduled'
      /\ RecvAgrees'
  BY <1>1, <1>2
  DEF SessionLockBalanced, ScheduleHeld, TodoScheduled, RecvAgrees
<1>8. OwnersExist' /\ TasksDiffer' /\ ChannelsAgree'  BY <1>2, TablesKept
<1> QED BY <1>5, <1>6, <1>7, <1>8 DEF IInv

\* It frees the session, with no task left but those of commands it met too early.
LEMMA NetFreeStep == ASSUME IInv, NetFree PROVE IInv'
<1>1. /\ TypeOK /\ SessionLockBalanced /\ ScheduleHeld /\ LifeAgrees
      /\ SweepAgrees /\ TodoScheduled /\ RecvAgrees
  BY DEF IInv
<1>2. UNCHANGED <<flightLoop, server, schedule, session, registered,
                      closing, chan, cmd, tasks, elapsed, recv, xp, post,
                      inbox, requests, view, caught, fault>>
  BY DEF NetFree, lockVars, sessionVars, threadVars, clientVars
<1>3. /\ net.pc = "sweep" /\ net.at \notin Channels /\ life' = "freed"
      /\ net' = [net EXCEPT !.pc = "join"]
  BY DEF NetFree
<1>4. TypeOK'  BY <1>1, <1>2, <1>3 DEF TypeOK, NetStates
<1>5. LifeAgrees' /\ SweepAgrees'
  BY <1>1, <1>2, <1>3
  DEF LifeAgrees, SweepAgrees, TypeOK, NetStates
<1>6. /\ SessionLockBalanced' /\ ScheduleHeld' /\ TodoScheduled'
      /\ RecvAgrees'
  BY <1>1, <1>2
  DEF SessionLockBalanced, ScheduleHeld, TodoScheduled, RecvAgrees
<1>7. OwnersExist' /\ TasksDiffer' /\ ChannelsAgree'  BY <1>2, TablesKept
<1> QED BY <1>4, <1>5, <1>6, <1>7 DEF IInv

\* It joins the receive thread.
LEMMA NetJoinStep == ASSUME IInv, NetJoin PROVE IInv'
<1>1. /\ TypeOK /\ SessionLockBalanced /\ ScheduleHeld /\ LifeAgrees
      /\ SweepAgrees /\ TodoScheduled /\ RecvAgrees
  BY DEF IInv
<1>2. UNCHANGED <<flightLoop, server, schedule, session, life, registered,
                      closing, chan, cmd, tasks, elapsed, recv, xp, post,
                      inbox, requests, view, caught, fault>>
  BY DEF NetJoin, lockVars, sessionVars, threadVars, clientVars
<1>3. /\ net.pc = "join" /\ net' = [net EXCEPT !.pc = "done"]
  BY DEF NetJoin
<1>4. TypeOK'  BY <1>1, <1>2, <1>3 DEF TypeOK, NetStates
<1>5. LifeAgrees' /\ SweepAgrees'
  BY <1>1, <1>2, <1>3
  DEF LifeAgrees, SweepAgrees, TypeOK, NetStates
<1>6. /\ SessionLockBalanced' /\ ScheduleHeld' /\ TodoScheduled'
      /\ RecvAgrees'
  BY <1>1, <1>2
  DEF SessionLockBalanced, ScheduleHeld, TodoScheduled, RecvAgrees
<1>7. OwnersExist' /\ TasksDiffer' /\ ChannelsAgree'  BY <1>2, TablesKept
<1> QED BY <1>4, <1>5, <1>6, <1>7 DEF IInv

\* The client sends a request.
LEMMA ClientRequestStep ==
  ASSUME IInv, NEW r \in Requests, ClientRequest(r)
  PROVE  IInv'
<1>1. /\ TypeOK /\ SessionLockBalanced /\ ScheduleHeld /\ LifeAgrees
      /\ SweepAgrees /\ TodoScheduled /\ RecvAgrees
  BY DEF IInv
<1>2. UNCHANGED <<flightLoop, server, schedule, session, life, registered,
                      closing, chan, cmd, tasks, elapsed, recv, xp, post, net,
                      caught, fault>>
  BY DEF ClientRequest, lockVars, sessionVars, threadVars, clientVars
<1>3. /\ inbox' = Append(inbox, r) /\ requests' = requests + 1
      /\ view' \in {view, [view EXCEPT ![r.id] = "requested"]}
  BY DEF ClientRequest
<1>4. r.id \in Channels
  BY DEF Requests
<1>5. view' \in [Channels -> Views]
  BY <1>1, <1>3, <1>4 DEF TypeOK, Views
<1>6. inbox' \in Seq(Requests)
  BY <1>1, <1>3 DEF TypeOK
<1>7. TypeOK'  BY <1>1, <1>2, <1>3, <1>4, <1>5, <1>6 DEF TypeOK
<1>8. /\ SessionLockBalanced' /\ ScheduleHeld' /\ LifeAgrees'
      /\ SweepAgrees' /\ TodoScheduled' /\ RecvAgrees'
  BY <1>1, <1>2
  DEF SessionLockBalanced, ScheduleHeld, LifeAgrees, SweepAgrees, TodoScheduled, RecvAgrees
<1>9. OwnersExist' /\ TasksDiffer' /\ ChannelsAgree'  BY <1>2, TablesKept
<1> QED BY <1>7, <1>8, <1>9 DEF IInv

\* The client disconnects.
LEMMA DisconnectStep == ASSUME IInv, Disconnect PROVE IInv'
<1>1. /\ TypeOK /\ SessionLockBalanced /\ ScheduleHeld /\ LifeAgrees
      /\ SweepAgrees /\ TodoScheduled /\ RecvAgrees
  BY DEF IInv
<1>2. UNCHANGED <<flightLoop, server, schedule, session, life, registered,
                      chan, cmd, tasks, elapsed, recv, xp, post, net, inbox,
                      requests, view, caught, fault>>
  BY DEF Disconnect, lockVars, sessionVars, threadVars, clientVars
<1>3. closing' = TRUE
  BY DEF Disconnect
<1>4. TypeOK'  BY <1>1, <1>2, <1>3 DEF TypeOK
<1>5. /\ SessionLockBalanced' /\ ScheduleHeld' /\ LifeAgrees'
      /\ SweepAgrees' /\ TodoScheduled' /\ RecvAgrees'
  BY <1>1, <1>2
  DEF SessionLockBalanced, ScheduleHeld, LifeAgrees, SweepAgrees, TodoScheduled, RecvAgrees
<1>6. OwnersExist' /\ TasksDiffer' /\ ChannelsAgree'  BY <1>2, TablesKept
<1> QED BY <1>4, <1>5, <1>6 DEF IInv

\* Time passes.
LEMMA TickStep == ASSUME IInv, Tick PROVE IInv'
<1>1. /\ TypeOK /\ SessionLockBalanced /\ ScheduleHeld /\ LifeAgrees
      /\ SweepAgrees /\ TodoScheduled /\ RecvAgrees
  BY DEF IInv
<1>2. UNCHANGED <<flightLoop, server, schedule, session, life, registered,
                      closing, chan, cmd, tasks, recv, xp, post, net, inbox,
                      requests, view, caught, fault>>
  BY DEF Tick, lockVars, sessionVars, threadVars, clientVars
<1>3. elapsed' = TRUE
  BY DEF Tick
<1>4. TypeOK'  BY <1>1, <1>2, <1>3 DEF TypeOK
<1>5. /\ SessionLockBalanced' /\ ScheduleHeld' /\ LifeAgrees'
      /\ SweepAgrees' /\ TodoScheduled' /\ RecvAgrees'
  BY <1>1, <1>2
  DEF SessionLockBalanced, ScheduleHeld, LifeAgrees, SweepAgrees, TodoScheduled, RecvAgrees
<1>6. OwnersExist' /\ TasksDiffer' /\ ChannelsAgree'  BY <1>2, TablesKept
<1> QED BY <1>4, <1>5, <1>6 DEF IInv

\* A thread that runs into freed memory stops; every part of the invariant is left alone.
LEMMA UseAfterFreeStep == ASSUME IInv, UseAfterFree PROVE IInv'
<1>1. /\ TypeOK /\ SessionLockBalanced /\ ScheduleHeld /\ LifeAgrees
      /\ SweepAgrees /\ TodoScheduled /\ RecvAgrees
  BY DEF IInv
<1>2. UNCHANGED <<flightLoop, server, schedule, session, life, registered,
                      closing, chan, cmd, tasks, elapsed, recv, xp, post, net,
                      inbox, requests, view, caught>>
  BY DEF UseAfterFree, lockVars, sessionVars, threadVars, clientVars
<1>3. fault' = TRUE
  BY DEF UseAfterFree
<1>4. TypeOK'  BY <1>1, <1>2, <1>3 DEF TypeOK
<1>5. /\ SessionLockBalanced' /\ ScheduleHeld' /\ LifeAgrees'
      /\ SweepAgrees' /\ TodoScheduled' /\ RecvAgrees'
  BY <1>1, <1>2
  DEF SessionLockBalanced, ScheduleHeld, LifeAgrees, SweepAgrees, TodoScheduled, RecvAgrees
<1>6. OwnersExist' /\ TasksDiffer' /\ ChannelsAgree'  BY <1>2, TablesKept
<1> QED BY <1>4, <1>5, <1>6 DEF IInv

-----------------------------------------------------------------------------
(* Steps that change channels, commands or tasks. *)

\* Channels, commands and tasks are the same to the invariant.
SameShape ==
  /\ chan' \in [Channels -> ChannelRecords] /\ cmd' \in [Channels -> CommandRecords]
  /\ view' \in [Channels -> Views]
  /\ \A d \in Channels : /\ chan'[d].doomed = chan[d].doomed
                         /\ chan'[d].state = "none" <=> chan[d].state = "none"
                         /\ cmd'[d].exists = cmd[d].exists
                         /\ cmd'[d].task = cmd[d].task
                         /\ cmd'[d].ref = cmd[d].ref
                         /\ ~cmd[d].ref \/ d \in caught => cmd'[d] = cmd[d]

\* With tasks unchanged, a step that only works on commands keeps their owners.
LEMMA ShapeKept ==
  ASSUME IInv, SameShape, UNCHANGED <<tasks, caught>>
  PROVE  OwnersExist' /\ TasksDiffer' /\ ChannelsAgree'
<1>1. OwnersExist /\ TasksDiffer /\ ChannelsAgree /\ Range(tasks) \subseteq Channels
  BY Members DEF IInv, TypeOK
<1>2. OwnersExist'  BY <1>1 DEF OwnersExist, SameShape
<1>3. TasksDiffer'  BY <1>1 DEF TasksDiffer
<1>4. ChannelsAgree'  BY <1>1 DEF ChannelsAgree, SameShape
<1> QED BY <1>2, <1>3, <1>4

\* What the receive thread and the sweep know is not touched either.
LEMMA ShapeSeen ==
  ASSUME IInv, SameShape, UNCHANGED <<tasks, caught, net, recv>>
  PROVE  SweepAgrees' /\ RecvAgrees'
<1>1. SweepAgrees /\ RecvAgrees  BY DEF IInv
<1>2. recv.pc \notin {"idle", "exited"} => recv.req.id \in Channels
  BY <1>1 DEF RecvAgrees, Requests
<1>3. SweepAgrees'  BY <1>1 DEF SweepAgrees, SameShape
<1>4. RecvAgrees'  BY <1>1, <1>2 DEF RecvAgrees, SameShape, Creating
<1> QED BY <1>3, <1>4

\* A callback that works on its command is such a step.
LEMMA WorkKeeps ==
  ASSUME TypeOK, NEW c \in Channels, NEW e \in EndStates, NEW k \in CommandRecords,
         Worked(c, e, k), k = cmd[c] \/ (cmd[c].ref /\ c \notin caught)
  PROVE  SameShape
<1>1. /\ cmd \in [Channels -> CommandRecords] /\ chan \in [Channels -> ChannelRecords]
      /\ view \in [Channels -> Views]
  BY DEF TypeOK
<1>2. e.state = "none" <=> chan[c].state = "none"
  BY EndType DEF Worked, Leads
<1>3. view' \in [Channels -> Views]  BY <1>1 DEF Worked, EndStates
<1>4. /\ chan' \in [Channels -> ChannelRecords]
      /\ chan'[c].doomed = chan[c].doomed /\ chan'[c].state = e.state
      /\ \A d \in Channels : d # c => chan'[d] = chan[d]
  BY <1>1 DEF Worked, EndStates, ChannelRecords
<1>5. /\ cmd' \in [Channels -> CommandRecords] /\ cmd'[c] = k
      /\ \A d \in Channels : d # c => cmd'[d] = cmd[d]
      /\ k.exists = cmd[c].exists /\ k.task = cmd[c].task /\ k.ref = cmd[c].ref
  BY <1>1 DEF Worked
<1> QED BY <1>2, <1>3, <1>4, <1>5 DEF SameShape

\* A callback that does nothing is one as well.
LEMMA IdleKeeps ==
  ASSUME TypeOK, UNCHANGED <<view, chan, cmd>> PROVE SameShape
BY DEF TypeOK, SameShape

\* A task that is run has a command that was stored, since its creator held the
\* schedule until then.
LEMMA TaskStored ==
  ASSUME IInv, schedule # "recv", NEW c \in Channels, cmd[c].exists
  PROVE  cmd[c].ref
<1>1. RecvAgrees /\ ScheduleHeld  BY DEF IInv
<1>2. recv.pc # "store"  BY <1>1 DEF ScheduleHeld, Creating
<1>3. cmd[c].ref \in BOOLEAN  BY DEF IInv, TypeOK, CommandRecords
<1> QED BY <1>1, <1>2, <1>3 DEF RecvAgrees

\* A callback that terminates its command takes exactly its own task away.
LEMMA TerminationKeeps ==
  ASSUME IInv, NEW c \in Channels, NEW e \in EndStates, e.state # "none",
         Terminated(c, e), UNCHANGED caught
  PROVE  /\ chan' \in [Channels -> ChannelRecords] /\ cmd' \in [Channels -> CommandRecords]
         /\ view' \in [Channels -> Views] /\ tasks' \in Seq(Channels)
         /\ Range(tasks') = Range(tasks) \ {c}
         /\ \A d \in Channels : cmd'[d].exists = cmd[d].exists /\ cmd'[d].ref = cmd[d].ref
         /\ \A d \in Channels : d # c => chan'[d] = chan[d]
         /\ OwnersExist' /\ TasksDiffer' /\ ChannelsAgree'
<1>1. /\ TypeOK /\ OwnersExist /\ TasksDiffer /\ ChannelsAgree
      /\ cmd \in [Channels -> CommandRecords] /\ chan \in [Channels -> ChannelRecords]
      /\ view \in [Channels -> Views] /\ Range(tasks) \subseteq Channels
  BY Members DEF IInv, TypeOK
<1>2. /\ tasks' \in Seq(Channels) /\ Range(tasks') = Range(tasks) \ {c}
      /\ IsInjective(tasks')
  BY <1>1, Dropped DEF Terminated
<1>3. view' \in [Channels -> Views]  BY <1>1 DEF Terminated, EndStates
<1>4. /\ chan' \in [Channels -> ChannelRecords] /\ chan'[c].state # "none"
      /\ \A d \in Channels : d # c => chan'[d] = chan[d]
  BY <1>1 DEF Terminated, EndStates, ChannelRecords
<1>5. /\ cmd' \in [Channels -> CommandRecords]
      /\ \A d \in Channels : d # c => cmd'[d] = cmd[d]
      /\ cmd'[c].exists = cmd[c].exists /\ cmd'[c].ref = cmd[c].ref
      /\ cmd'[c].init = cmd[c].init /\ cmd'[c].failed = cmd[c].failed
  BY <1>1 DEF Terminated, CommandRecords
<1>6. OwnersExist'  BY <1>1, <1>2, <1>4, <1>5 DEF OwnersExist
<1>7. TasksDiffer'  BY <1>2 DEF TasksDiffer
<1>8. ChannelsAgree'  BY <1>1, <1>4, <1>5 DEF ChannelsAgree
<1> QED BY <1>2, <1>3, <1>4, <1>5, <1>6, <1>7, <1>8

\* The receive thread handles a TERM request.
LEMMA HandleTerminationStep == ASSUME IInv, HandleTermination PROVE IInv'
<1> DEFINE c == recv.req.id
<1>1. /\ TypeOK /\ SessionLockBalanced /\ ScheduleHeld /\ LifeAgrees
      /\ SweepAgrees /\ TodoScheduled /\ RecvAgrees /\ ChannelsAgree
  BY DEF IInv
<1>2. UNCHANGED <<flightLoop, server, schedule, life, registered, elapsed,
                  xp, post, net, inbox, requests, caught, fault>>
  BY DEF HandleTermination
<1>3. recv.pc = "handle" /\ recv' = [recv EXCEPT !.pc = "unlock"]
  BY DEF HandleTermination, RecvAt, RecvGo
<1>4. c \in Channels /\ schedule = "recv"
  BY <1>1, <1>3 DEF RecvAgrees, Requests, ScheduleHeld
<1>5. recv' \in RecvStates /\ recv'.pc = "unlock" /\ recv'.req = recv.req
  BY <1>1, <1>3 DEF TypeOK, RecvStates
<1>6. ASSUME UNCHANGED <<view, chan, cmd, tasks, session>>, closing' \in BOOLEAN
      PROVE  IInv'
  <2>1. TypeOK'  BY <1>1, <1>2, <1>5, <1>6 DEF TypeOK
  <2>2. SessionLockBalanced' /\ ScheduleHeld' /\ RecvAgrees'
    BY <1>1, <1>2, <1>3, <1>4, <1>5, <1>6
    DEF SessionLockBalanced, ScheduleHeld, RecvAgrees, Creating
  <2>3. LifeAgrees' /\ SweepAgrees' /\ TodoScheduled'
    BY <1>1, <1>2, <1>5, <1>6 DEF LifeAgrees, SweepAgrees, TodoScheduled, Creating
  <2>4. OwnersExist' /\ TasksDiffer' /\ ChannelsAgree'  BY <1>2, <1>6, TablesKept
  <2> QED BY <2>1, <2>2, <2>3, <2>4 DEF IInv
<1>7. ASSUME NEW s1 \in SendResults, NEW s2 \in SendResults, chan[c].state # "none",
             drqv_terminate("recv", c, End(c), s1, s2), UNCHANGED closing
      PROVE  IInv'
  <2>1. End(c) \in EndStates /\ End(c).state # "none" /\ chan[c] # NoChannel
    BY <1>1, <1>4, <1>7, EndType, InTable
  <2> HIDE DEF c
  <2>2. PICK e \in EndStates : Leads(End(c), e) /\ Terminated(c, e)
    BY <2>1, <1>4, <1>7, LeadsNowhere, TerminateEffect
  <2>3. e.state # "none"  BY <2>1, <2>2 DEF Leads
  <2>4. /\ chan' \in [Channels -> ChannelRecords] /\ cmd' \in [Channels -> CommandRecords]
        /\ view' \in [Channels -> Views] /\ tasks' \in Seq(Channels)
        /\ Range(tasks') = Range(tasks) \ {c}
        /\ \A d \in Channels : cmd'[d].exists = cmd[d].exists /\ cmd'[d].ref = cmd[d].ref
        /\ OwnersExist' /\ TasksDiffer' /\ ChannelsAgree'
    BY <2>2, <2>3, <1>2, <1>4, TerminationKeeps
  <2>5. session' = session  BY <2>2 DEF Terminated
  <2>6. TypeOK'  BY <2>4, <2>5, <1>1, <1>2, <1>5, <1>7 DEF TypeOK
  <2>7. SessionLockBalanced' /\ ScheduleHeld' /\ RecvAgrees'
    BY <2>4, <2>5, <1>1, <1>2, <1>3, <1>4, <1>5
    DEF SessionLockBalanced, ScheduleHeld, RecvAgrees, Creating
  <2>8. LifeAgrees' /\ TodoScheduled'
    BY <2>4, <1>1, <1>2, <1>4 DEF LifeAgrees, TodoScheduled, ScheduleHeld
  <2>9. SweepAgrees'  BY <2>4, <1>1, <1>2, <1>5 DEF SweepAgrees, Creating
  <2> QED BY <2>4, <2>6, <2>7, <2>8, <2>9 DEF IInv
<1>8. closing \in BOOLEAN /\ \A s \in SendResults : s \in BOOLEAN
  BY <1>1, SendResult DEF TypeOK
<1> QED BY <1>6, <1>7, <1>8 DEF HandleTermination

\* The flight loop runs the callback of a task.
LEMMA XpTaskStep == ASSUME IInv, NEW due \in BOOLEAN, XpTask(due) PROVE IInv'
<1> DEFINE c == Head(xp.todo)
<1>1. /\ TypeOK /\ SessionLockBalanced /\ ScheduleHeld /\ LifeAgrees
      /\ SweepAgrees /\ TodoScheduled /\ RecvAgrees /\ OwnersExist /\ ChannelsAgree
  BY DEF IInv
<1>2. UNCHANGED <<flightLoop, server, schedule, life, registered, closing, tasks,
                  elapsed, recv, post, net, inbox, requests, caught, fault>>
  BY DEF XpTask
<1>3. /\ xp.pc = "run" /\ xp.todo # << >> /\ xp' = [xp EXCEPT !.todo = Tail(@)]
  BY DEF XpTask
<1>4. xp.todo \in Seq(Channels) /\ xp \in XpStates  BY <1>1 DEF TypeOK, XpStates
<1>5. /\ c \in Channels /\ c \in Range(xp.todo) /\ Tail(xp.todo) \in Seq(Channels)
      /\ Range(Tail(xp.todo)) \subseteq Range(xp.todo)
  BY <1>3, <1>4, HeadTail
<1>6. xp' \in XpStates /\ xp'.pc = "run" /\ xp'.todo = Tail(xp.todo)
  BY <1>3, <1>4, <1>5 DEF XpStates
<1>7. PICK found \in BOOLEAN, read \in BOOLEAN, s1 \in SendResults, s2 \in SendResults :
        drqv_process_flightloop(c, found, due, read, s1, s2)
  BY DEF XpTask
<1>8. SameShape /\ session' = session
  <2>1. CASE life # "live"
    <3>1. UNCHANGED <<view, chan, cmd, session>>  BY <2>1, <1>7 DEF drqv_process_flightloop
    <3> QED BY <3>1, <1>1, IdleKeeps
  <2>2. CASE life = "live"
    <3>1. c \in Range(tasks) /\ caught = {} /\ schedule = "xp"
      BY <2>2, <1>1, <1>3, <1>5
      DEF TodoScheduled, LifeAgrees, SweepAgrees, ScheduleHeld
    <3> HIDE DEF c
    <3>2. chan[c] # NoChannel /\ cmd[c].exists
      BY <3>1, <1>1, <1>5, InTable DEF OwnersExist, ChannelsAgree
    <3>3. cmd[c].ref  BY <3>1, <3>2, <1>5, TaskStored
    <3>4. PICK e \in EndStates, k \in CommandRecords : Worked(c, e, k)
      BY <3>2, <1>1, <1>5, <1>7, FlightloopEffect
    <3> QED BY <3>1, <3>3, <3>4, <1>1, <1>5, WorkKeeps DEF Worked
  <2> QED BY <2>1, <2>2
<1> HIDE DEF c
<1>9. TypeOK'  BY <1>1, <1>2, <1>6, <1>8 DEF TypeOK, SameShape
<1>10. SessionLockBalanced' /\ ScheduleHeld' /\ LifeAgrees'
  BY <1>1, <1>2, <1>3, <1>6, <1>8 DEF SessionLockBalanced, ScheduleHeld, LifeAgrees
<1>11. TodoScheduled'  BY <1>1, <1>2, <1>3, <1>5, <1>6 DEF TodoScheduled
<1>12. SweepAgrees' /\ RecvAgrees'  BY <1>2, <1>8, ShapeSeen
<1>13. OwnersExist' /\ TasksDiffer' /\ ChannelsAgree'  BY <1>2, <1>8, ShapeKept
<1> QED BY <1>9, <1>10, <1>11, <1>12, <1>13 DEF IInv

\* Post-processing runs the callback of a task.
LEMMA PostTaskStep == ASSUME IInv, PostTask PROVE IInv'
<1> DEFINE c == Head(post.todo)
<1>1. /\ TypeOK /\ SessionLockBalanced /\ ScheduleHeld /\ LifeAgrees
      /\ SweepAgrees /\ TodoScheduled /\ RecvAgrees /\ OwnersExist /\ ChannelsAgree
      /\ TasksDiffer
  BY DEF IInv
<1>2. UNCHANGED <<flightLoop, server, schedule, life, registered, closing,
                  elapsed, recv, xp, net, inbox, requests, caught, fault>>
  BY DEF PostTask
<1>3. /\ post.pc = "run" /\ post.todo # << >> /\ post' = [post EXCEPT !.todo = Tail(@)]
  BY DEF PostTask
<1>4. post.todo \in Seq(Channels) /\ post \in PostStates  BY <1>1 DEF TypeOK, PostStates
<1>5. Range(post.todo) \subseteq Range(tasks) /\ IsInjective(post.todo)
  BY <1>1, <1>3 DEF TodoScheduled
<1>6. /\ c \in Channels /\ c \in Range(post.todo) /\ Tail(post.todo) \in Seq(Channels)
      /\ Range(Tail(post.todo)) \subseteq Range(post.todo)
      /\ IsInjective(Tail(post.todo)) /\ c \notin Range(Tail(post.todo))
  BY <1>3, <1>4, <1>5, HeadTail
<1>7. post' \in PostStates /\ post'.pc = "run" /\ post'.todo = Tail(post.todo)
  BY <1>3, <1>4, <1>6 DEF PostStates
<1>8. PICK encoded \in BOOLEAN, s1 \in SendResults, s2 \in SendResults :
        drqv_process_post(c, encoded, s1, s2)
  BY DEF PostTask
<1>9. c \in Range(tasks) /\ schedule = "post"  BY <1>1, <1>3, <1>5, <1>6 DEF ScheduleHeld
<1> HIDE DEF c
<1>10. \/ SameShape /\ UNCHANGED <<tasks, session>>
       \/ \E e \in EndStates : e.state # "none" /\ Terminated(c, e)
  <2>1. CASE c \in caught
    <3>1. ~cmd[c].init /\ ~cmd[c].failed  BY <2>1, <1>1, <1>6 DEF ChannelsAgree
    <3>2. UNCHANGED <<view, chan, cmd, tasks, session>>
      BY <3>1, <1>8 DEF drqv_process_post
    <3> QED BY <3>2, <1>1, IdleKeeps
  <2>2. CASE c \notin caught
    <3>1. chan[c] # NoChannel /\ chan[c].state # "none" /\ cmd[c].exists
      BY <2>2, <1>1, <1>6, <1>9, InTable DEF OwnersExist, ChannelsAgree
    <3>2. cmd[c].ref  BY <3>1, <1>6, <1>9, TaskStored
    <3>3. \/ \E e \in EndStates, k \in CommandRecords : Worked(c, e, k) /\ UNCHANGED tasks
          \/ \E e \in EndStates : Leads(End(c), e) /\ Terminated(c, e)
      BY <3>1, <1>1, <1>6, <1>8, PostEffect
    <3>4. ASSUME NEW e \in EndStates, NEW k \in CommandRecords, Worked(c, e, k)
          PROVE  SameShape /\ UNCHANGED session
      BY <3>2, <3>4, <2>2, <1>1, <1>6, WorkKeeps DEF Worked
    <3>5. ASSUME NEW e \in EndStates, Leads(End(c), e) PROVE e.state # "none"
      BY <3>1, <3>5, <1>1, <1>6, EndType DEF Leads
    <3> QED BY <3>3, <3>4, <3>5
  <2> QED BY <2>1, <2>2
<1>11. /\ chan' \in [Channels -> ChannelRecords] /\ cmd' \in [Channels -> CommandRecords]
       /\ view' \in [Channels -> Views] /\ tasks' \in Seq(Channels)
       /\ Range(tasks') \subseteq Range(tasks) /\ Range(tasks) \ {c} \subseteq Range(tasks')
       /\ OwnersExist' /\ TasksDiffer' /\ ChannelsAgree' /\ SweepAgrees' /\ RecvAgrees'
       /\ session' = session
  <2>1. CASE SameShape /\ UNCHANGED <<tasks, session>>
    <3>1. OwnersExist' /\ TasksDiffer' /\ ChannelsAgree'  BY <2>1, <1>2, ShapeKept
    <3>2. SweepAgrees' /\ RecvAgrees'  BY <2>1, <1>2, ShapeSeen
    <3>3. tasks' \in Seq(Channels)  BY <2>1, <1>1 DEF TypeOK
    <3> QED BY <2>1, <3>1, <3>2, <3>3 DEF SameShape
  <2>2. CASE \E e \in EndStates : e.state # "none" /\ Terminated(c, e)
    <3>1. PICK e \in EndStates : e.state # "none" /\ Terminated(c, e)  BY <2>2
    <3>2. session' = session  BY <3>1 DEF Terminated
    <3>3. /\ chan' \in [Channels -> ChannelRecords] /\ cmd' \in [Channels -> CommandRecords]
          /\ view' \in [Channels -> Views] /\ tasks' \in Seq(Channels)
          /\ Range(tasks') = Range(tasks) \ {c}
          /\ \A d \in Channels : cmd'[d].exists = cmd[d].exists /\ cmd'[d].ref = cmd[d].ref
          /\ \A d \in Channels : d # c => chan'[d] = chan[d]
          /\ OwnersExist' /\ TasksDiffer' /\ ChannelsAgree'
      BY <3>1, <1>2, <1>6, TerminationKeeps
    <3>4. SweepAgrees'  BY <3>3, <1>1, <1>2 DEF SweepAgrees
    <3>5. recv.pc \notin Creating \cup {"settle"}  BY <1>1, <1>9 DEF ScheduleHeld
    <3>6. RecvAgrees'  BY <3>3, <3>5, <1>1, <1>2 DEF RecvAgrees, Creating
    <3> QED BY <3>2, <3>3, <3>4, <3>6
  <2> QED BY <1>10, <2>1, <2>2
<1>12. TypeOK'  BY <1>1, <1>2, <1>7, <1>11 DEF TypeOK
<1>13. SessionLockBalanced' /\ ScheduleHeld' /\ LifeAgrees'
  BY <1>1, <1>2, <1>3, <1>7, <1>11
  DEF SessionLockBalanced, ScheduleHeld, LifeAgrees
<1>14. TodoScheduled'
  <2>1. xp'.pc # "run"  BY <1>1, <1>2, <1>3 DEF ScheduleHeld
  <2>2. Range(post'.todo) \subseteq Range(tasks')  BY <1>5, <1>6, <1>7, <1>11
  <2>3. IsInjective(post'.todo)  BY <1>6, <1>7
  <2> QED BY <2>1, <2>2, <2>3 DEF TodoScheduled
<1> QED BY <1>11, <1>12, <1>13, <1>14 DEF IInv

\* The receive thread enters a channel in the table, or refuses the request.
LEMMA RegisterChannelStep == ASSUME IInv, RegisterChannel PROVE IInv'
<1> DEFINE c == recv.req.id
<1>1. /\ TypeOK /\ SessionLockBalanced /\ ScheduleHeld /\ LifeAgrees
      /\ SweepAgrees /\ TodoScheduled /\ RecvAgrees /\ OwnersExist /\ TasksDiffer
      /\ ChannelsAgree
  BY DEF IInv
<1>2. UNCHANGED <<flightLoop, server, schedule, session, life, registered, cmd, tasks,
                  elapsed, xp, post, net, inbox, requests, caught, fault>>
  BY DEF RegisterChannel, lockVars
<1>3. recv.pc = "handle"  BY DEF RegisterChannel, RecvAt
<1>4. c \in Channels /\ recv \in RecvStates /\ recv.req \in Requests
  BY <1>1, <1>3 DEF RecvAgrees, Requests, TypeOK
<1>5. PICK sent \in SendResults :
        \/ /\ view' = IF sent THEN [view EXCEPT ![c] = ClientSees(@, FALSE, TRUE)] ELSE view
           /\ closing' = (closing \/ ~sent)
           /\ recv' = [recv EXCEPT !.pc = "unlock"]
           /\ UNCHANGED chan
        \/ /\ chan[c] = NoChannel /\ ~TableDying
           /\ chan' = [chan EXCEPT ![c] = [state |-> "INITIAL", doomed |-> FALSE]]
           /\ recv' = [recv EXCEPT !.pc = "create"]
           /\ UNCHANGED <<view, closing>>
  BY DEF RegisterChannel, RecvGo
<1>6. sent \in BOOLEAN  BY SendResult
<1>7. LifeAgrees' /\ TodoScheduled' /\ TasksDiffer'
  BY <1>1, <1>2 DEF LifeAgrees, TodoScheduled, TasksDiffer
<1> HIDE DEF c
<1>8. CASE /\ view' = IF sent THEN [view EXCEPT ![c] = ClientSees(@, FALSE, TRUE)] ELSE view
           /\ closing' = (closing \/ ~sent)
           /\ recv' = [recv EXCEPT !.pc = "unlock"]
           /\ UNCHANGED chan
  <2>1. recv' \in RecvStates /\ recv'.pc = "unlock" /\ recv'.req = recv.req
    BY <1>4, <1>8 DEF RecvStates
  <2>2. view' \in [Channels -> Views]
    BY <1>1, <1>4, <1>6, <1>8 DEF TypeOK, ClientSees, Views
  <2>3. closing' \in BOOLEAN  BY <1>1, <1>6, <1>8 DEF TypeOK
  <2>4. TypeOK'  BY <2>1, <2>2, <2>3, <1>1, <1>2, <1>8 DEF TypeOK
  <2>5. SessionLockBalanced' /\ ScheduleHeld' /\ RecvAgrees'
    BY <2>1, <1>1, <1>2, <1>3, <1>4, <1>8
    DEF SessionLockBalanced, ScheduleHeld, RecvAgrees, Creating
  <2>6. OwnersExist' /\ ChannelsAgree'  BY <1>2, <1>8, TablesKept
  <2>7. SweepAgrees'  BY <2>1, <1>1, <1>2 DEF SweepAgrees, Creating
  <2> QED BY <2>4, <2>5, <2>6, <2>7, <1>7 DEF IInv
<1>9. CASE /\ chan[c] = NoChannel /\ ~TableDying
           /\ chan' = [chan EXCEPT ![c] = [state |-> "INITIAL", doomed |-> FALSE]]
           /\ recv' = [recv EXCEPT !.pc = "create"]
           /\ UNCHANGED <<view, closing>>
  <2>1. recv' \in RecvStates /\ recv'.pc = "create" /\ recv'.req = recv.req
    BY <1>4, <1>9 DEF RecvStates
  <2>2. chan \in [Channels -> ChannelRecords] /\ chan[c].state = "none"
    BY <1>1, <1>9 DEF TypeOK, NoChannel
  <2>3. /\ chan' \in [Channels -> ChannelRecords]
        /\ chan'[c].state = "INITIAL" /\ ~chan'[c].doomed
        /\ \A d \in Channels : d # c => chan'[d] = chan[d]
    BY <2>2, <1>4, <1>9 DEF ChannelRecords
  <2>4. TypeOK'  BY <2>1, <2>3, <1>1, <1>2, <1>9 DEF TypeOK
  <2>5. net.pc \in {"watch", "pend", "table"} /\ caught = {}
    BY <1>1, <1>9 DEF TableDying, SweepAgrees
  <2>6. ~cmd[c].exists /\ c \notin Range(tasks)
    BY <2>2, <2>5, <1>1, <1>4 DEF ChannelsAgree, OwnersExist
  <2>7. RecvAgrees'
    BY <2>1, <2>3, <2>6, <1>1, <1>2, <1>3, <1>4 DEF RecvAgrees, Creating, c
  <2>8. SessionLockBalanced' /\ ScheduleHeld'
    BY <2>1, <1>1, <1>2, <1>3 DEF SessionLockBalanced, ScheduleHeld, Creating
  <2>9. OwnersExist'
    <3>1. Range(tasks) \subseteq Channels  BY <1>1, Members DEF TypeOK
    <3> QED BY <3>1, <2>3, <1>1, <1>2 DEF OwnersExist
  <2>10. ChannelsAgree'  BY <2>3, <1>1, <1>2 DEF ChannelsAgree
  <2>11. SweepAgrees'  BY <2>5, <1>2 DEF SweepAgrees
  <2> QED BY <2>4, <2>7, <2>8, <2>9, <2>10, <2>11, <1>7 DEF IInv
<1> QED BY <1>5, <1>8, <1>9

\* What the receive thread knows while it handles a command request.
LEMMA RequestHeld ==
  ASSUME IInv, recv.pc \in Creating \cup {"settle"}
  PROVE  /\ recv.req.id \in Channels /\ ~chan[recv.req.id].doomed
         /\ schedule = "recv" /\ recv \in RecvStates /\ recv.req \in Requests
<1>1. TypeOK /\ RecvAgrees /\ ScheduleHeld  BY DEF IInv
<1>2. recv.req \in Requests /\ ~chan[recv.req.id].doomed  BY <1>1 DEF RecvAgrees, Creating
<1> QED BY <1>1, <1>2 DEF ScheduleHeld, TypeOK, Requests

\* create_command and drqv_create begin: the channel has no command yet.
LEMMA CreationMoves ==
  ASSUME IInv, recv.pc \in {"create", "check"},
         recv' \in RecvStates, recv'.req = recv.req,
         \/ recv'.pc \in {"check", "schedule"} 
         \/ recv'.pc = "settle",
         UNCHANGED <<flightLoop, server, schedule, session, life, registered, closing,
                     chan, cmd, tasks, elapsed, xp, post, net, inbox, requests, view,
                     caught, fault>>
  PROVE  IInv'
<1>1. /\ TypeOK /\ SessionLockBalanced /\ ScheduleHeld /\ LifeAgrees
      /\ SweepAgrees /\ TodoScheduled /\ RecvAgrees
  BY DEF IInv
<1>2. TypeOK'  BY <1>1 DEF TypeOK
<1>3. SessionLockBalanced' /\ ScheduleHeld' /\ RecvAgrees'
  BY <1>1 DEF SessionLockBalanced, ScheduleHeld, RecvAgrees, Creating
<1>4. LifeAgrees' /\ SweepAgrees' /\ TodoScheduled'
  BY <1>1 DEF LifeAgrees, SweepAgrees, TodoScheduled, Creating
<1>5. OwnersExist' /\ TasksDiffer' /\ ChannelsAgree'  BY TablesKept
<1> QED BY <1>2, <1>3, <1>4, <1>5 DEF IInv

\* create_command looks the command up.
LEMMA LookUpCommandStep == ASSUME IInv, LookUpCommand PROVE IInv'
<1>1. recv.pc = "create" /\ recv \in RecvStates
  BY DEF LookUpCommand, RecvAt, IInv, TypeOK
<1>2. recv' \in RecvStates /\ recv'.req = recv.req /\ recv'.pc \in {"check", "settle"}
  BY <1>1 DEF LookUpCommand, RecvGo, RecvStates
<1>3. UNCHANGED <<flightLoop, server, schedule, session, life, registered, closing,
                  chan, cmd, tasks, elapsed, xp, post, net, inbox, requests, view,
                  caught, fault>>
  BY DEF LookUpCommand, lockVars, sessionVars, clientVars
<1> QED BY <1>1, <1>2, <1>3, CreationMoves

\* drqv_create finds the session live.
LEMMA BeginDrqvStep == ASSUME IInv, BeginDrqv PROVE IInv'
<1>1. recv.pc = "check" /\ recv \in RecvStates
  BY DEF BeginDrqv, RecvAt, IInv, TypeOK
<1>2. recv' \in RecvStates /\ recv'.req = recv.req /\ recv'.pc = "schedule"
  BY <1>1 DEF BeginDrqv, RecvGo, RecvStates
<1>3. UNCHANGED <<flightLoop, server, schedule, session, life, registered, closing,
                  chan, cmd, tasks, elapsed, xp, post, net, inbox, requests, view,
                  caught, fault>>
  BY DEF BeginDrqv, lockVars, sessionVars, clientVars
<1> QED BY <1>1, <1>2, <1>3, CreationMoves

\* A command is created that schedules no task, or is refused.
LEMMA CreateWithoutTaskStep == ASSUME IInv, CreateWithoutTask PROVE IInv'
<1> DEFINE c == recv.req.id
<1>1. /\ TypeOK /\ SessionLockBalanced /\ ScheduleHeld /\ LifeAgrees
      /\ SweepAgrees /\ TodoScheduled /\ RecvAgrees /\ OwnersExist /\ TasksDiffer
      /\ ChannelsAgree
  BY DEF IInv
<1>2. UNCHANGED <<flightLoop, server, schedule, session, life, registered, closing,
                  cmd, tasks, elapsed, xp, post, net, inbox, requests, caught, fault>>
  BY DEF CreateWithoutTask, lockVars
<1>3. /\ recv.pc = "check" /\ c \in Channels /\ recv \in RecvStates
      /\ recv.req \in Requests
  BY RequestHeld DEF CreateWithoutTask, RecvAt, Creating
<1>4. recv' \in RecvStates /\ recv'.pc = "settle" /\ recv'.req = recv.req
  BY <1>3 DEF CreateWithoutTask, RecvStates
<1>5. PICK told \in BOOLEAN, s1 \in SendResults, s2 \in SendResults :
        Store(c, IF ~told THEN End(c)
                 ELSE IF recv.req.kind = "instant" THEN finish_channel(End(c), TRUE, s1, s2)
                 ELSE error_channel(End(c), s1))
  BY DEF CreateWithoutTask
<1> HIDE DEF c
<1>6. End(c) \in EndStates  BY <1>1, <1>3, EndType
<1>7. /\ Leads(End(c), End(c)) /\ Leads(End(c), finish_channel(End(c), TRUE, s1, s2))
      /\ Leads(End(c), error_channel(End(c), s1))
  BY <1>6, LeadsNowhere, FinishCloses, ErrorCloses DEF Closes
<1>8. PICK e : Leads(End(c), e) /\ Store(c, e)  BY <1>5, <1>7
<1>9. cmd' = [cmd EXCEPT ![c] = cmd[c]] /\ cmd[c] \in CommandRecords
  BY <1>1, <1>2, <1>3 DEF TypeOK
<1>10. e \in EndStates /\ Worked(c, e, cmd[c])
  BY <1>2, <1>8, <1>9 DEF Worked, Store, Leads
<1>11. SameShape  BY <1>1, <1>3, <1>9, <1>10, WorkKeeps
<1>12. TypeOK'  BY <1>1, <1>2, <1>4, <1>11 DEF TypeOK, SameShape
<1>13. SessionLockBalanced' /\ ScheduleHeld'
  BY <1>1, <1>2, <1>3, <1>4 DEF SessionLockBalanced, ScheduleHeld, Creating
<1>14. RecvAgrees'
  BY <1>1, <1>2, <1>3, <1>4, <1>11 DEF RecvAgrees, SameShape, Creating, c
<1>15. LifeAgrees' /\ SweepAgrees' /\ TodoScheduled'
  BY <1>1, <1>2, <1>4 DEF LifeAgrees, SweepAgrees, TodoScheduled, Creating
<1>16. OwnersExist' /\ TasksDiffer' /\ ChannelsAgree'  BY <1>2, <1>11, ShapeKept
<1> QED BY <1>12, <1>13, <1>14, <1>15, <1>16 DEF IInv

\* DRQV schedules its task: the one step that adds a task, for a channel that is
\* in the table unless the sweep met it.
LEMMA ScheduleDrqvStep == ASSUME IInv, ScheduleDrqv PROVE IInv'
<1> DEFINE c == recv.req.id
<1>1. /\ TypeOK /\ SessionLockBalanced /\ ScheduleHeld /\ LifeAgrees
      /\ SweepAgrees /\ TodoScheduled /\ RecvAgrees /\ OwnersExist /\ TasksDiffer
      /\ ChannelsAgree
  BY DEF IInv
<1>2. UNCHANGED <<flightLoop, server, schedule, session, life, registered, closing,
                  chan, elapsed, xp, post, net, inbox, requests, view, caught, fault>>
  BY DEF ScheduleDrqv, lockVars, clientVars
<1>3. /\ recv.pc = "schedule" /\ c \in Channels /\ recv \in RecvStates
      /\ recv.req \in Requests /\ schedule = "recv"
  BY RequestHeld DEF ScheduleDrqv, RecvAt, Creating
<1>4. recv' = [recv EXCEPT !.pc = "store"]  BY DEF ScheduleDrqv, RecvGo
<1>5. recv' \in RecvStates /\ recv'.pc = "store" /\ recv'.req = recv.req
  BY <1>3, <1>4 DEF RecvStates
<1>6. PICK times \in (1 .. MaxTimes) \cup {Infinite} :
        cmd' = [cmd EXCEPT ![c] = [NoCommand EXCEPT !.exists = TRUE, !.task = TRUE,
                                                    !.times = times]]
  BY DEF ScheduleDrqv
<1>7. tasks' = Append(tasks, c)  BY DEF ScheduleDrqv, Scheduled
<1>8. /\ ~cmd[c].exists /\ c \notin Range(tasks) /\ ~chan[c].doomed
      /\ c \notin caught => chan[c].state # "none"
      /\ \A d \in Channels : cmd[d].exists => cmd[d].ref
      /\ net.pc \notin {"watch", "pend", "table"} /\ c \notin caught => net.at <= c
  <2>1. recv.pc \in Creating /\ \A d \in Channels : cmd[d].ref \in BOOLEAN
    BY <1>1, <1>3 DEF Creating, TypeOK, CommandRecords
  <2> QED BY <2>1, <1>1, <1>3 DEF RecvAgrees, SweepAgrees
<1> DEFINE k == [NoCommand EXCEPT !.exists = TRUE, !.task = TRUE, !.times = times]
<1>9. k \in CommandRecords /\ k.exists /\ k.task /\ ~k.ref /\ ~k.init /\ ~k.failed
  <2>1. times \in Int  BY <1>6, SessionAssumption DEF Infinite
  <2> QED BY <2>1 DEF CommandRecords, NoCommand
<1>10. /\ cmd' \in [Channels -> CommandRecords] /\ cmd'[c] = k
       /\ \A d \in Channels : d # c => cmd'[d] = cmd[d]
  <2> HIDE DEF c
  <2>1. cmd' = [cmd EXCEPT ![c] = k]  BY <1>6
  <2> HIDE DEF k
  <2> QED BY <2>1, <1>1, <1>3, <1>9 DEF TypeOK
<1> HIDE DEF c, k
<1>11. tasks \in Seq(Channels) /\ Range(tasks) \subseteq Channels
  BY <1>1, Members DEF TypeOK
<1>12. /\ tasks' \in Seq(Channels) /\ Range(tasks') = Range(tasks) \cup {c}
       /\ IsInjective(tasks')
  BY <1>1, <1>3, <1>7, <1>8, <1>11, Appended DEF TasksDiffer
<1>13. TypeOK'  BY <1>1, <1>2, <1>5, <1>10, <1>12 DEF TypeOK
<1>14. SessionLockBalanced' /\ ScheduleHeld'
  BY <1>1, <1>2, <1>3, <1>5 DEF SessionLockBalanced, ScheduleHeld, Creating
<1>15. RecvAgrees'
  <2>1. recv'.req.id = c /\ recv'.pc = "store"  BY <1>5 DEF c
  <2> QED BY <2>1, <1>2, <1>3, <1>5, <1>8, <1>9, <1>10 DEF RecvAgrees, Creating
<1>16. LifeAgrees' /\ TodoScheduled'
  BY <1>1, <1>2, <1>3 DEF LifeAgrees, TodoScheduled, ScheduleHeld
<1>17. SweepAgrees'
  <2>1. recv'.req.id = c  BY <1>5 DEF c
  <2>2. net.pc \in {"unschedule", "destroy"} /\ net.at \notin caught => net.at # c
    BY <1>1, <1>8, <1>3 DEF SweepAgrees, ChannelsAgree
  <2>3. net.pc \in {"unschedule", "destroy"} =>
          net.at \in Channels /\ (net.at \notin caught => cmd'[net.at].ref)
    BY <2>2, <1>1, <1>10 DEF SweepAgrees
  <2>4. \A d \in Range(tasks') \ caught : d = c \/ d \in Range(tasks) \ caught  BY <1>12
  <2>5. net.pc = "destroy" => net.at \notin Range(tasks') \ caught
    BY <2>2, <2>4, <1>1 DEF SweepAgrees
  <2>6. net.pc \notin {"watch", "pend", "table"} =>
          net.at # 0 /\ \A d \in Range(tasks') \ caught : net.at <= d
    BY <2>4, <1>1, <1>8 DEF SweepAgrees
  <2> QED BY <2>1, <2>3, <2>5, <2>6, <1>1, <1>2, <1>8 DEF SweepAgrees
<1>18. OwnersExist'
  BY <1>1, <1>2, <1>8, <1>9, <1>10, <1>11, <1>12 DEF OwnersExist
<1>19. TasksDiffer'  BY <1>12 DEF TasksDiffer
<1>20. ChannelsAgree'  BY <1>1, <1>2, <1>8, <1>9, <1>10 DEF ChannelsAgree
<1> QED BY <1>13, <1>14, <1>15, <1>16, <1>17, <1>18, <1>19, <1>20 DEF IInv

\* DRQV stores the command in the channel.
LEMMA StoreCommandStep == ASSUME IInv, StoreCommand PROVE IInv'
<1> DEFINE c == recv.req.id
<1>1. /\ TypeOK /\ SessionLockBalanced /\ ScheduleHeld /\ LifeAgrees
      /\ SweepAgrees /\ TodoScheduled /\ RecvAgrees /\ OwnersExist /\ TasksDiffer
      /\ ChannelsAgree
  BY DEF IInv
<1>2. UNCHANGED <<flightLoop, server, schedule, session, life, registered, closing, chan,
                  tasks, elapsed, xp, post, net, inbox, requests, view, caught, fault>>
  BY DEF StoreCommand, lockVars, clientVars
<1>3. /\ recv.pc = "store" /\ c \in Channels /\ recv \in RecvStates
      /\ recv.req \in Requests /\ schedule = "recv" /\ ~chan[c].doomed
  BY RequestHeld DEF StoreCommand, RecvAt, Creating
<1>4. recv' \in RecvStates /\ recv'.pc = "settle" /\ recv'.req = recv.req
  BY <1>3 DEF StoreCommand, RecvGo, RecvStates
<1>5. cmd[c].exists /\ cmd \in [Channels -> CommandRecords]
  BY <1>1, <1>3 DEF RecvAgrees, TypeOK
<1>6. /\ cmd' \in [Channels -> CommandRecords]
      /\ \A d \in Channels : d # c => cmd'[d] = cmd[d]
      /\ cmd'[c].exists /\ cmd'[c].ref /\ cmd'[c].task = cmd[c].task
      /\ cmd'[c].init = cmd[c].init /\ cmd'[c].failed = cmd[c].failed
  BY <1>3, <1>5 DEF StoreCommand, CommandRecords
<1>7. \A d \in Channels : cmd'[d].exists => cmd'[d].ref
  <2>1. \A d \in Channels : cmd[d].ref \in BOOLEAN  BY <1>5 DEF CommandRecords
  <2> QED BY <2>1, <1>1, <1>6 DEF RecvAgrees
<1> HIDE DEF c
<1>8. TypeOK'  BY <1>1, <1>2, <1>4, <1>6 DEF TypeOK
<1>9. SessionLockBalanced' /\ ScheduleHeld'
  BY <1>1, <1>2, <1>3, <1>4 DEF SessionLockBalanced, ScheduleHeld, Creating
<1>10. RecvAgrees'
  BY <1>2, <1>3, <1>4, <1>7 DEF RecvAgrees, Creating, c
<1>11. LifeAgrees' /\ TodoScheduled'  BY <1>1, <1>2 DEF LifeAgrees, TodoScheduled
<1>12. SweepAgrees'  BY <1>1, <1>2, <1>4, <1>6 DEF SweepAgrees, Creating
<1>13. OwnersExist'
  <2>1. Range(tasks) \subseteq Channels  BY <1>1, Members DEF TypeOK
  <2> QED BY <2>1, <1>1, <1>2, <1>6 DEF OwnersExist
<1>14. TasksDiffer'  BY <1>1, <1>2 DEF TasksDiffer
<1>15. ChannelsAgree'
  BY <1>1, <1>2, <1>3, <1>5, <1>6 DEF ChannelsAgree
<1> QED BY <1>8, <1>9, <1>10, <1>11, <1>12, <1>13, <1>14, <1>15 DEF IInv

\* A channel without a command is closed and leaves the table, unless the message fails.
LEMMA SettleChannelStep == ASSUME IInv, SettleChannel PROVE IInv'
<1> DEFINE c == recv.req.id
<1>1. /\ TypeOK /\ SessionLockBalanced /\ ScheduleHeld /\ LifeAgrees
      /\ SweepAgrees /\ TodoScheduled /\ RecvAgrees /\ OwnersExist /\ TasksDiffer
      /\ ChannelsAgree
  BY DEF IInv
<1>2. UNCHANGED <<flightLoop, server, schedule, session, life, registered, cmd, tasks,
                  elapsed, xp, post, net, inbox, requests, caught, fault>>
  BY DEF SettleChannel, lockVars
<1>3. /\ recv.pc = "settle" /\ c \in Channels /\ ~chan[c].doomed
      /\ recv \in RecvStates /\ recv.req \in Requests
  BY RequestHeld DEF SettleChannel, RecvAt, Creating
<1>4. recv' = [recv EXCEPT !.pc = "unlock"]  BY DEF SettleChannel, RecvGo
<1>5. recv' \in RecvStates /\ recv'.pc = "unlock" /\ recv'.req = recv.req
  BY <1>3, <1>4 DEF RecvStates
<1>6. SessionLockBalanced' /\ ScheduleHeld'
  BY <1>1, <1>2, <1>3, <1>5 DEF SessionLockBalanced, ScheduleHeld, Creating
<1>7. RecvAgrees'
  BY <1>1, <1>2, <1>3, <1>5 DEF RecvAgrees, Creating
<1>8. LifeAgrees' /\ SweepAgrees' /\ TodoScheduled' /\ TasksDiffer'
  BY <1>1, <1>2, <1>5 DEF LifeAgrees, SweepAgrees, TodoScheduled, TasksDiffer, Creating
<1>9. CASE UNCHANGED <<view, chan, closing>>
  <2>1. TypeOK'  BY <1>1, <1>2, <1>5, <1>9 DEF TypeOK
  <2>2. OwnersExist' /\ ChannelsAgree'  BY <1>2, <1>9, TablesKept
  <2> QED BY <2>1, <2>2, <1>6, <1>7, <1>8 DEF IInv
<1>10. ASSUME ~cmd[c].exists, NEW s1 \in SendResults, NEW s2 \in SendResults, NEW e,
              e = IF recv.err = "none" THEN finish_channel(End(c), FALSE, s1, s2)
                  ELSE error_channel(End(c), s1),
              view' = [view EXCEPT ![c] = e.view],
              IF e.err = "failed"
              THEN /\ closing' = TRUE
                   /\ chan' = [chan EXCEPT ![c].state = e.state]
              ELSE /\ chan' = [chan EXCEPT ![c] = NoChannel]
                   /\ UNCHANGED closing
       PROVE  IInv'
  <2> HIDE DEF c
  <2>1. e \in EndStates
    <3>1. End(c) \in EndStates  BY <1>1, <1>3, EndType
    <3> QED BY <3>1, <1>10, FinishCloses, ErrorCloses DEF Closes, Leads
  <2>2. chan \in [Channels -> ChannelRecords] /\ view \in [Channels -> Views] /\ closing \in BOOLEAN
    BY <1>1 DEF TypeOK
  <2>3. view' \in [Channels -> Views] /\ closing' \in BOOLEAN
    BY <2>1, <2>2, <1>10 DEF EndStates
  <2>4. /\ chan' \in [Channels -> ChannelRecords] /\ ~chan'[c].doomed
        /\ \A d \in Channels : d # c => chan'[d] = chan[d]
    <3>1. CASE chan' = [chan EXCEPT ![c].state = e.state]
      BY <3>1, <2>1, <2>2, <1>3 DEF EndStates, ChannelRecords
    <3>2. CASE chan' = [chan EXCEPT ![c] = NoChannel]
      BY <3>2, <2>2, <1>3 DEF ChannelRecords, NoChannel
    <3> QED BY <3>1, <3>2, <1>10
  <2>5. TypeOK'  BY <2>3, <2>4, <1>1, <1>2, <1>5 DEF TypeOK
  <2>6. OwnersExist'
    <3>1. Range(tasks) \subseteq Channels  BY <1>1, Members DEF TypeOK
    <3> QED BY <3>1, <2>4, <1>1, <1>2, <1>10 DEF OwnersExist
  <2>7. ChannelsAgree'  BY <2>4, <1>1, <1>2, <1>10 DEF ChannelsAgree
  <2> QED BY <2>5, <2>6, <2>7, <1>6, <1>7, <1>8 DEF IInv
<1> QED BY <1>9, <1>10 DEF SettleChannel

\* Post-processing drops the doomed channels, none of which has a task.
LEMMA PostMaintainSessionStep == ASSUME IInv, PostMaintainSession PROVE IInv'
<1> DEFINE gone == IF registered /\ life = "live" THEN {c \in Channels : chan[c].doomed} ELSE {}
<1>1. /\ TypeOK /\ SessionLockBalanced /\ ScheduleHeld /\ LifeAgrees
      /\ SweepAgrees /\ TodoScheduled /\ RecvAgrees /\ OwnersExist /\ TasksDiffer
      /\ ChannelsAgree
  BY DEF IInv
<1>2. UNCHANGED <<schedule, session, life, registered, closing, tasks, elapsed, recv,
                  xp, net, inbox, requests, view, caught, fault>>
  BY DEF PostMaintainSession, clientVars
<1>3. /\ post.pc = "sessions" /\ post' = [post EXCEPT !.pc = "wait"]
      /\ server' = Free /\ flightLoop' = Free
  BY DEF PostMaintainSession
<1>4. post' \in PostStates /\ post'.pc = "wait"  BY <1>1, <1>3 DEF TypeOK, PostStates
<1>5. chan \in [Channels -> ChannelRecords] /\ cmd \in [Channels -> CommandRecords]
  BY <1>1 DEF TypeOK
<1>6. /\ chan' \in [Channels -> ChannelRecords] /\ cmd' \in [Channels -> CommandRecords]
      /\ \A d \in Channels : IF d \in gone THEN chan'[d] = NoChannel /\ cmd'[d] = NoCommand
                             ELSE chan'[d] = chan[d] /\ cmd'[d] = cmd[d]
  <2>1. NoChannel \in ChannelRecords /\ NoCommand \in CommandRecords
    BY DEF NoChannel, NoCommand, ChannelRecords, CommandRecords
  <2>2. CASE registered /\ life = "live"
    <3>1. /\ chan' = [c \in Channels |-> IF chan[c].doomed THEN NoChannel ELSE chan[c]]
          /\ cmd' = [c \in Channels |-> IF chan[c].doomed THEN NoCommand ELSE cmd[c]]
      BY <2>2 DEF PostMaintainSession, Swept
    <3> QED BY <3>1, <2>1, <2>2, <1>5
  <2>3. CASE ~(registered /\ life = "live")
    <3>1. UNCHANGED <<chan, cmd>>  BY <2>3 DEF PostMaintainSession
    <3> QED BY <3>1, <2>3, <1>5
  <2> QED BY <2>2, <2>3
<1>7. /\ gone # {} => net.pc \in {"watch", "pend"} /\ caught = {}
      /\ \A d \in gone : chan[d].doomed
  BY <1>1 DEF LifeAgrees, SweepAgrees
<1> HIDE DEF gone
<1>8. /\ ~NoChannel.doomed /\ NoChannel.state = "none" /\ ~NoCommand.exists
      /\ ~NoCommand.ref /\ ~NoCommand.init /\ ~NoCommand.failed
  BY DEF NoChannel, NoCommand
<1>9. OwnersExist' /\ TasksDiffer'
  <2>1. Range(tasks) \subseteq Channels  BY <1>1, Members DEF TypeOK
  <2>2. \A d \in Range(tasks) \ caught : d \notin gone  BY <1>1, <1>7 DEF OwnersExist
  <2> QED BY <2>1, <2>2, <1>1, <1>2, <1>6 DEF OwnersExist, TasksDiffer
<1>10. ChannelsAgree'  BY <1>1, <1>2, <1>6, <1>8 DEF ChannelsAgree
<1>11. RecvAgrees'
  <2>1. recv.pc \in Creating \cup {"settle"} =>
          recv.req.id \in Channels /\ recv.req.id \notin gone
    BY <1>1, <1>7 DEF RecvAgrees, Requests, Creating
  <2> QED BY <2>1, <1>1, <1>2, <1>6, <1>8 DEF RecvAgrees, Creating
<1>12. SweepAgrees'
  <2>1. net.pc \in {"unschedule", "destroy"} => net.at \in Channels /\ net.at \notin gone
    BY <1>1, <1>7 DEF SweepAgrees
  <2> QED BY <2>1, <1>1, <1>2, <1>6 DEF SweepAgrees
<1>13. TypeOK'  BY <1>1, <1>2, <1>3, <1>4, <1>6 DEF TypeOK
<1>14. SessionLockBalanced' /\ ScheduleHeld' /\ LifeAgrees' /\ TodoScheduled'
  BY <1>1, <1>2, <1>4 DEF SessionLockBalanced, ScheduleHeld, LifeAgrees, TodoScheduled
<1> QED BY <1>9, <1>10, <1>11, <1>12, <1>13, <1>14 DEF IInv

\* The sweep passes an unused slot, or begins to destroy a channel.
LEMMA NetVisitStep == ASSUME IInv, NetVisit PROVE IInv'
<1> DEFINE c == net.at
<1>1. /\ TypeOK /\ SessionLockBalanced /\ ScheduleHeld /\ LifeAgrees
      /\ SweepAgrees /\ TodoScheduled /\ RecvAgrees /\ OwnersExist /\ TasksDiffer
      /\ ChannelsAgree
  BY DEF IInv
<1>2. UNCHANGED <<flightLoop, server, schedule, session, life, registered, closing,
                  chan, cmd, tasks, elapsed, recv, xp, post, inbox, requests, view, fault>>
  BY DEF NetVisit, lockVars, sessionVars, clientVars
<1>3. net.pc = "sweep" /\ c \in Channels /\ net \in NetStates
  BY <1>1 DEF NetVisit, TypeOK
<1>4. SessionLockBalanced' /\ ScheduleHeld' /\ TodoScheduled' /\ TasksDiffer'
  BY <1>1, <1>2 DEF SessionLockBalanced, ScheduleHeld, TodoScheduled, TasksDiffer
<1>5. /\ caught \subseteq caught' /\ caught' \subseteq caught \cup {c}
      /\ chan[c] # NoChannel /\ ~cmd[c].ref => c \in caught'
      /\ c \in caught' \ caught => ~cmd[c].ref
  BY DEF NetVisit
<1>6. /\ caught' \in SUBSET Channels
      /\ Range(tasks) \subseteq Channels /\ Channels \subseteq Nat
  BY <1>1, <1>3, <1>5, Members, SessionAssumption DEF TypeOK, Channels
<1>7. OwnersExist'  BY <1>1, <1>2, <1>5 DEF OwnersExist
<1>8. ChannelsAgree'  BY <1>1, <1>2, <1>5 DEF ChannelsAgree
<1>9. RecvAgrees'  BY <1>1, <1>2, <1>5 DEF RecvAgrees
<1>10. /\ c # 0 /\ \A d \in Range(tasks) \ caught' : d \in Channels /\ c <= d
       /\ recv.pc \in Creating /\ recv.req.id \notin caught' =>
            recv.req.id \in Channels /\ c <= recv.req.id
  BY <1>1, <1>3, <1>5, <1>6 DEF SweepAgrees, RecvAgrees, Requests, Creating
<1>11. CASE chan[c] = NoChannel
  <2>1. net' = [net EXCEPT !.at = @ + 1]  BY <1>11 DEF NetVisit
  <2>2. net' \in NetStates /\ net'.pc = "sweep" /\ net'.at = c + 1
    BY <2>1, <1>3 DEF NetStates
  <2>3. chan[c].state = "none"  BY <1>11 DEF NoChannel
  <2>4. c \notin Range(tasks) \ caught'
    BY <2>3, <1>1, <1>3, <1>5 DEF OwnersExist, ChannelsAgree
  <2>5. recv.pc \in Creating /\ recv.req.id \notin caught' => recv.req.id # c
    BY <2>3, <1>1, <1>5 DEF RecvAgrees
  <2> HIDE DEF c
  <2>6. ASSUME NEW d \in Channels, c <= d, d # c PROVE c + 1 <= d
    <3>1. c \in Nat /\ d \in Nat /\ c <= d /\ c # d  BY <2>6, <1>3, <1>6
    <3> QED BY <3>1
  <2>7. c + 1 # 0  BY <1>3, <1>6
  <2>8. SweepAgrees'
    BY <2>2, <2>4, <2>5, <2>6, <2>7, <1>2, <1>10 DEF SweepAgrees
  <2>9. LifeAgrees'  BY <2>2, <1>1, <1>2, <1>3 DEF LifeAgrees
  <2>10. TypeOK'  BY <2>2, <1>1, <1>2, <1>6 DEF TypeOK
  <2> QED BY <2>8, <2>9, <2>10, <1>4, <1>7, <1>8, <1>9 DEF IInv
<1>12. CASE chan[c] # NoChannel
  <2>1. net' = [net EXCEPT !.pc = IF MustTerminate(c) THEN "unschedule" ELSE "destroy"]
    BY <1>12 DEF NetVisit
  <2>2. /\ net' \in NetStates /\ net'.pc \in {"unschedule", "destroy"} /\ net'.at = c
        /\ net'.pc = "destroy" => ~MustTerminate(c)
    BY <2>1, <1>3 DEF NetStates
  <2>3. c \notin caught' => cmd[c].ref  BY <1>5, <1>12
  <2>4. net'.pc = "destroy" => c \notin Range(tasks) \ caught'
    BY <2>2, <2>3, <1>1, <1>5 DEF OwnersExist, MustTerminate
  <2> HIDE DEF c
  <2>5. SweepAgrees'
    BY <2>2, <2>3, <2>4, <1>2, <1>3, <1>10 DEF SweepAgrees
  <2>6. LifeAgrees'  BY <2>2, <1>1, <1>2, <1>3 DEF LifeAgrees
  <2>7. TypeOK'  BY <2>2, <1>1, <1>2, <1>6 DEF TypeOK
  <2> QED BY <2>5, <2>6, <2>7, <1>4, <1>7, <1>8, <1>9 DEF IInv
<1> QED BY <1>11, <1>12

\* Terminating the command takes its task out of the schedule.
LEMMA NetUnscheduleStep == ASSUME IInv, NetUnschedule PROVE IInv'
<1> DEFINE c == net.at
<1>1. /\ TypeOK /\ SessionLockBalanced /\ ScheduleHeld /\ LifeAgrees
      /\ SweepAgrees /\ TodoScheduled /\ RecvAgrees /\ OwnersExist /\ TasksDiffer
      /\ ChannelsAgree
  BY DEF IInv
<1>2. UNCHANGED <<flightLoop, server, schedule, session, life, registered, closing, chan,
                  elapsed, recv, xp, post, inbox, requests, view, caught, fault>>
  BY DEF NetUnschedule, lockVars, clientVars
<1>3. /\ net.pc = "unschedule" /\ schedule = Free /\ tasks' = Unscheduled(c)
      /\ cmd' = [cmd EXCEPT ![c].task = FALSE] /\ net' = [net EXCEPT !.pc = "destroy"]
  BY DEF NetUnschedule
<1>4. /\ c \in Channels /\ net \in NetStates /\ Range(tasks) \subseteq Channels
      /\ c \notin caught => cmd[c].ref
  BY <1>1, <1>3, Members DEF SweepAgrees, TypeOK
<1>5. net' \in NetStates /\ net'.pc = "destroy" /\ net'.at = c
  BY <1>3, <1>4 DEF NetStates
<1> HIDE DEF c
<1>6. /\ tasks' \in Seq(Channels) /\ Range(tasks') = Range(tasks) \ {c}
      /\ IsInjective(tasks')
  BY <1>1, <1>3, <1>4, Dropped
<1>7. /\ cmd' \in [Channels -> CommandRecords]
      /\ \A d \in Channels : d # c => cmd'[d] = cmd[d]
      /\ cmd'[c].exists = cmd[c].exists /\ cmd'[c].ref = cmd[c].ref
      /\ cmd'[c].init = cmd[c].init /\ cmd'[c].failed = cmd[c].failed
  BY <1>1, <1>3, <1>4 DEF TypeOK, CommandRecords
<1>8. OwnersExist' /\ TasksDiffer'
  BY <1>1, <1>2, <1>4, <1>6, <1>7 DEF OwnersExist, TasksDiffer
<1>9. ChannelsAgree'  BY <1>1, <1>2, <1>7 DEF ChannelsAgree
<1>10. RecvAgrees'
  <2>1. recv.pc \notin Creating  BY <1>1, <1>3 DEF ScheduleHeld, Free
  <2> QED BY <2>1, <1>1, <1>2, <1>7 DEF RecvAgrees, Creating
<1>11. TypeOK'  BY <1>1, <1>2, <1>5, <1>6, <1>7 DEF TypeOK
<1>12. SessionLockBalanced' /\ ScheduleHeld' /\ LifeAgrees'
  BY <1>1, <1>2, <1>3, <1>5 DEF SessionLockBalanced, ScheduleHeld, LifeAgrees
<1>13. TodoScheduled'
  BY <1>1, <1>2, <1>3 DEF TodoScheduled, ScheduleHeld, Free
<1>14. SweepAgrees'
  <2>1. /\ c # 0 /\ \A d \in Range(tasks) \ caught : c <= d
        /\ recv.pc \in Creating /\ recv.req.id \notin caught => c <= recv.req.id
    BY <1>1, <1>3 DEF SweepAgrees, c
  <2> QED BY <2>1, <1>2, <1>4, <1>5, <1>6, <1>7 DEF SweepAgrees
<1> QED BY <1>8, <1>9, <1>10, <1>11, <1>12, <1>13, <1>14 DEF IInv

\* The channel is destroyed, and the command unless it was met before it was stored.
LEMMA NetDestroyStep == ASSUME IInv, NetDestroy PROVE IInv'
<1> DEFINE c == net.at
<1>1. /\ TypeOK /\ SessionLockBalanced /\ ScheduleHeld /\ LifeAgrees
      /\ SweepAgrees /\ TodoScheduled /\ RecvAgrees /\ OwnersExist /\ TasksDiffer
      /\ ChannelsAgree
  BY DEF IInv
<1>2. UNCHANGED <<flightLoop, server, schedule, session, life, registered, closing, tasks,
                  elapsed, recv, xp, post, inbox, requests, view, caught, fault>>
  BY DEF NetDestroy, lockVars, clientVars
<1>3. /\ net.pc = "destroy" /\ net' = [pc |-> "sweep", at |-> c + 1]
      /\ chan' = [chan EXCEPT ![c] = NoChannel]
      /\ cmd' = [cmd EXCEPT ![c] = IF @.ref THEN NoCommand ELSE @]
  BY DEF NetDestroy
<1>4. /\ c \in Channels /\ net \in NetStates /\ Range(tasks) \subseteq Channels
      /\ Channels \subseteq Nat
      /\ c \notin caught => cmd[c].ref
      /\ c \notin Range(tasks) \ caught
      /\ \A d \in Range(tasks) \ caught : c <= d
      /\ recv.pc \in Creating /\ recv.req.id \notin caught =>
           recv.req.id \in Channels /\ c <= recv.req.id
  BY <1>1, <1>3, Members, SessionAssumption
  DEF SweepAgrees, TypeOK, Channels, RecvAgrees, Requests, Creating
<1> HIDE DEF c
<1>5. /\ NoChannel \in ChannelRecords /\ NoCommand \in CommandRecords
      /\ ~NoChannel.doomed /\ NoChannel.state = "none" /\ ~NoCommand.exists
      /\ ~NoCommand.ref /\ ~NoCommand.init /\ ~NoCommand.failed
  BY DEF NoChannel, NoCommand, ChannelRecords, CommandRecords
<1>6. /\ chan' \in [Channels -> ChannelRecords] /\ cmd' \in [Channels -> CommandRecords]
      /\ chan'[c] = NoChannel
      /\ cmd[c].ref => cmd'[c] = NoCommand
      /\ ~cmd[c].ref => cmd'[c] = cmd[c]
      /\ \A d \in Channels : d # c => chan'[d] = chan[d] /\ cmd'[d] = cmd[d]
  BY <1>1, <1>3, <1>4, <1>5 DEF TypeOK
<1>7. OwnersExist' /\ TasksDiffer'
  BY <1>1, <1>2, <1>4, <1>6 DEF OwnersExist, TasksDiffer
<1>8. ChannelsAgree'  BY <1>1, <1>2, <1>4, <1>5, <1>6 DEF ChannelsAgree
<1>9. recv.pc \in Creating /\ recv.req.id \notin caught => recv.req.id # c
  BY <1>1, <1>4 DEF RecvAgrees, ChannelsAgree, Creating
<1>10. RecvAgrees'
  <2>1. recv.pc \notin {"idle", "exited"} => recv.req \in Requests /\ recv.req.id \in Channels
    BY <1>1 DEF RecvAgrees, Requests
  <2>2. \A d \in Channels : /\ ~cmd[d].exists => ~cmd'[d].exists
                            /\ ~cmd[d].ref => cmd'[d] = cmd[d]
                            /\ ~chan[d].doomed => ~chan'[d].doomed
                            /\ cmd'[d].exists => cmd'[d] = cmd[d]
    BY <1>1, <1>5, <1>6 DEF ChannelsAgree
  <2> QED BY <2>1, <2>2, <1>1, <1>2, <1>6, <1>9 DEF RecvAgrees, Creating
<1>11. c + 1 \in Nat /\ c + 1 # 0  BY <1>4
<1>12. TypeOK'  BY <1>1, <1>2, <1>3, <1>6, <1>11 DEF TypeOK, NetStates
<1>13. SessionLockBalanced' /\ ScheduleHeld' /\ LifeAgrees' /\ TodoScheduled'
  BY <1>1, <1>2, <1>3 DEF SessionLockBalanced, ScheduleHeld, LifeAgrees, TodoScheduled
<1>14. SweepAgrees'
  <2>1. ASSUME NEW d \in Channels, c <= d, d # c PROVE c + 1 <= d
    <3>1. c \in Nat /\ d \in Nat /\ c <= d /\ c # d  BY <2>1, <1>4
    <3> QED BY <3>1
  <2>2. net'.pc = "sweep" /\ net'.at = c + 1  BY <1>3
  <2> QED BY <2>1, <2>2, <1>2, <1>4, <1>9, <1>11 DEF SweepAgrees
<1> QED BY <1>7, <1>8, <1>10, <1>12, <1>13, <1>14 DEF IInv

-----------------------------------------------------------------------------
(* The theorems. *)

\* Init satisfies the invariant.
LEMMA InitHolds == ASSUME Init PROVE IInv
<1>1. /\ tasks = << >> /\ xp = [pc |-> "frame", todo |-> << >>]
      /\ post = [pc |-> "wait", todo |-> << >>, cycles |-> MaintenanceInterval]
      /\ net = [pc |-> "watch", at |-> 0] /\ life = "live"
      /\ recv = [pc |-> "idle", req |-> NoRequest, err |-> "none"]
      /\ session = [owner |-> Free, depth |-> 0]
      /\ chan = [c \in Channels |-> NoChannel] /\ cmd = [c \in Channels |-> NoCommand]
      /\ caught = {}
  BY DEF Init
<1>2. NoChannel \in ChannelRecords /\ NoCommand \in CommandRecords
  BY DEF NoChannel, NoCommand, ChannelRecords, CommandRecords
<1>3. tasks \in Seq(Channels) /\ Range(tasks) = {} /\ IsInjective(tasks)
  <2>1. tasks \in Seq(Channels)  BY <1>1
  <2> QED BY <2>1, <1>1, Members
<1>4. TypeOK
  <2>1. chan \in [Channels -> ChannelRecords] /\ cmd \in [Channels -> CommandRecords]
    BY <1>1, <1>2
  <2>2. recv \in RecvStates /\ xp \in XpStates /\ net \in NetStates
    BY <1>1 DEF RecvStates, XpStates, NetStates
  <2>3. post \in PostStates
    <3>1. MaintenanceInterval \in 1 .. MaintenanceInterval  BY SessionAssumption
    <3> QED BY <3>1, <1>1 DEF PostStates
  <2>4. /\ inbox = << >> /\ requests = 0 /\ view = [c \in Channels |-> "closed"]
        /\ flightLoop = Free /\ server = Free /\ schedule = Free
        /\ registered = TRUE /\ closing = FALSE /\ elapsed \in BOOLEAN /\ fault = FALSE
    BY DEF Init
  <2>5. inbox \in Seq(Requests) /\ view \in [Channels -> Views]  BY <2>4 DEF Views
  <2> QED BY <2>1, <2>2, <2>3, <2>4, <2>5, <1>1, <1>3 DEF TypeOK, Threads
<1>5. SessionLockBalanced /\ ScheduleHeld /\ LifeAgrees
  BY <1>1 DEF SessionLockBalanced, ScheduleHeld, LifeAgrees, Free, Creating
<1>6. OwnersExist /\ TasksDiffer /\ SweepAgrees /\ TodoScheduled /\ RecvAgrees
  BY <1>1, <1>3
  DEF OwnersExist, TasksDiffer, SweepAgrees, TodoScheduled, RecvAgrees, Creating, NoCommand
<1>7. ChannelsAgree  BY <1>1 DEF ChannelsAgree, NoChannel, NoCommand
<1> QED BY <1>4, <1>5, <1>6, <1>7 DEF IInv

\* Every step keeps the invariant.
LEMMA StepHolds == ASSUME IInv, [Next]_vars PROVE IInv'
<1>1. CASE RecvNext
  BY <1>1, ReceiveLineStep, RecvLockScheduleStep, RecvLockSessionStep, RecvSessionGoneStep,
     HandleTerminationStep, RegisterChannelStep, LookUpCommandStep, CreateWithoutTaskStep,
     BeginDrqvStep, ScheduleDrqvStep, StoreCommandStep, SettleChannelStep, RecvUnlockStep, RecvExitStep
  DEF RecvNext
<1>2. CASE XpNext
  BY <1>2, FrameBeginStep, XpLockScheduleStep, XpTaskStep, XpUnlockScheduleStep, FrameEndStep
  DEF XpNext
<1>3. CASE PostNext
  BY <1>3, PostWakeStep, PostLockScheduleStep, PostTaskStep, PostUnlockScheduleStep,
     PostLockServerStep, PostMaintainSessionStep
  DEF PostNext
<1>4. CASE NetNext
  BY <1>4, NetUnregisterStep, NetPendStep, NetBeginSweepStep, NetVisitStep,
     NetUnscheduleStep, NetDestroyStep, NetFreeStep, NetJoinStep
  DEF NetNext
<1>5. CASE \E r \in Requests : ClientRequest(r)  BY <1>5, ClientRequestStep
<1>6. CASE UNCHANGED vars
  <2>1. UNCHANGED <<flightLoop, server, schedule, session, life, registered, closing,
                    chan, cmd, tasks, elapsed, recv, xp, post, net, inbox, requests,
                    view, caught, fault>>
    BY <1>6 DEF vars, lockVars, sessionVars, threadVars, clientVars
  <2>2. TypeOK'  BY <2>1 DEF IInv, TypeOK
  <2>3. /\ SessionLockBalanced' /\ ScheduleHeld' /\ LifeAgrees'
        /\ SweepAgrees' /\ TodoScheduled' /\ RecvAgrees'
    BY <2>1
    DEF IInv, SessionLockBalanced, ScheduleHeld, LifeAgrees, SweepAgrees, TodoScheduled,
        RecvAgrees
  <2>4. OwnersExist' /\ TasksDiffer' /\ ChannelsAgree'  BY <2>1, TablesKept
  <2> QED BY <2>2, <2>3, <2>4 DEF IInv
<1> QED BY <1>1, <1>2, <1>3, <1>4, <1>5, <1>6, UseAfterFreeStep, DisconnectStep, TickStep
        DEF Next

\* The inductive invariant holds in every state of a session.
THEOREM SessionInvariant == Spec => []IInv
BY InitHolds, StepHolds, PTL DEF Spec

\* Every variable keeps its type.
THEOREM SessionTypeCorrect == Spec => []TypeOK
<1>1. IInv => TypeOK  BY DEF IInv
<1> QED BY <1>1, SessionInvariant, PTL

\* No thread keeps the session lock beyond handle_request: the early returns
\* of confirm, continue, finish and error_channel that forget to unlock are
\* never reached, however requests, tasks and disconnects interleave.
THEOREM LockNeverKept == Spec => []SessionLockBalanced
<1>1. IInv => SessionLockBalanced  BY DEF IInv
<1> QED BY <1>1, SessionInvariant, PTL

\* run_tasks only meets tasks whose command, channel and session exist, for any
\* number of channels and in every state of the destruction of a session; only
\* the task of a command that destroy_session met before drqv_create had stored
\* it is excepted (`caught').
THEOREM TasksHaveOwners == Spec => []TaskOwnerExists
<1>1. ASSUME IInv PROVE TaskOwnerExists
  <2>1. /\ TypeOK /\ OwnersExist /\ ChannelsAgree /\ SweepAgrees /\ LifeAgrees
        /\ Range(tasks) \subseteq Channels /\ net \in NetStates
    BY <1>1, Members DEF IInv, TypeOK
  <2>2. \A c \in Range(tasks) \ caught : chan[c] # NoChannel
    BY <2>1, InTable DEF OwnersExist, ChannelsAgree
  <2>3. ASSUME NEW c \in Range(tasks) \ caught PROVE life # "freed"
    <3>1. SUFFICES ASSUME life = "freed" PROVE FALSE  OBVIOUS
    <3>2. /\ net.pc \in {"join", "done"} /\ net.at \notin Channels /\ net.at \in Nat
          /\ net.at # 0 /\ net.at <= c
      BY <3>1, <2>1, <2>3 DEF LifeAgrees, SweepAgrees, NetStates
    <3>3. c \in 1 .. NumChannels /\ NumChannels \in Nat  BY <2>1, <2>3, SessionAssumption DEF Channels
    <3> QED BY <3>2, <3>3 DEF Channels
  <2> QED BY <2>1, <2>2, <2>3 DEF TaskOwnerExists, OwnersExist
<1> QED BY <1>1, SessionInvariant, PTL

-----------------------------------------------------------------------------
(* Session implements ChannelProtocol, as long as the connection lasts and  *)
(* the network takes every message: after a refused message the server and  *)
(* the client disagree about the channel, and after a loss nobody answers.  *)

Reliable == ~MayDisconnect /\ ~MaySendFail

\* A request for a command on channel c is on its way, or the receive thread has
\* it and has not yet looked at the channel.
Queued(q, c) == \E i \in DOMAIN q : q[i].kind # "TERM" /\ q[i].id = c
Asking(r, c) ==
  r.pc \in {"line", "locked", "handle"} /\ r.req.kind # "TERM" /\ r.req.id = c
Pending(c) == Queued(inbox, c) \/ Asking(recv, c)

Distinct(q) ==
  \A i, j \in DOMAIN q :
    q[i].kind # "TERM" /\ q[j].kind # "TERM" /\ q[i].id = q[j].id => i = j

\* Nobody ends the session.
Undisturbed == ~closing /\ net.pc = "watch"

\* A channel is not asked for twice.
OneRequest ==
  Distinct(inbox) /\ \A c \in Channels : ~(Queued(inbox, c) /\ Asking(recv, c))

\* What the client thinks of a channel, compared with the server.
ChannelViewed(c) ==
  /\ Pending(c) => view[c] = "requested" /\ chan[c].state \in {"none", "CLOSED"}
  /\ chan[c].state = "INITIAL" => view[c] = "requested"
  /\ chan[c].state = "CONFIRMED" => view[c] = "open"
  /\ chan[c].state \in {"none", "CLOSED"} /\ ~Pending(c) => view[c] = "closed"
  /\ chan[c].doomed => chan[c].state = "CLOSED"

ViewAgrees == \A c \in Channels : ChannelViewed(c)

\* A command that is being created has not confirmed its channel.
Unconfirmed ==
  recv.pc \in Creating \cup {"settle"} =>
    chan[recv.req.id].state \in {"INITIAL", "CLOSED"}

RInv == Undisturbed /\ OneRequest /\ ViewAgrees /\ Unconfirmed

Busy == {c \in Channels : chan[c] # NoChannel}

AbstractStep == [Protocol!Next]_<<view, Busy>>

\* What a reliable session knows.
LEMMA ReliableIs ==
  ASSUME Reliable, IInv, RInv
  PROVE  Calm /\ life = "live" /\ ~closing /\ net.pc = "watch"
         /\ SendResults = {TRUE}
BY DEF Reliable, IInv, RInv, Undisturbed, Calm, LifeAgrees, SendResults

\* A channel is busy while it has a state.
LEMMA BusyIs ==
  ASSUME IInv
  PROVE  Busy = {c \in Channels : chan[c].state # "none"}
<1>1. \A c \in Channels : chan[c] # NoChannel <=> chan[c].state # "none"
  BY InTable DEF IInv
<1> QED BY <1>1 DEF Busy

\* The same in the next state.
LEMMA BusyNext ==
  ASSUME IInv'
  PROVE  Busy' = {c \in Channels : chan'[c].state # "none"}
<1>1. chan' \in [Channels -> ChannelRecords]  BY DEF IInv, TypeOK
<1>2. \A c \in Channels : chan'[c].state = "none" => ~chan'[c].doomed
  BY DEF IInv, ChannelsAgree
<1>3. \A c \in Channels : chan'[c] # NoChannel <=> chan'[c].state # "none"
  BY <1>1, <1>2 DEF ChannelRecords, NoChannel
<1> QED BY <1>3 DEF Busy

\* A step that concerns neither channels nor what the client thinks of them.
LEMMA Aside ==
  ASSUME ViewAgrees, UNCHANGED <<chan, view>>,
         \A c \in Channels : Pending(c)' <=> Pending(c)
  PROVE  ViewAgrees' /\ AbstractStep
<1>1. ViewAgrees'  BY DEF ViewAgrees, ChannelViewed
<1>2. UNCHANGED <<view, Busy>>  BY DEF Busy
<1> QED BY <1>1, <1>2 DEF AbstractStep

\* A step that sends messages on one channel.
LEMMA Messages ==
  ASSUME IInv, IInv', ViewAgrees, Calm, NEW c \in Channels, NEW e,
         Leads(End(c), e), view' = [view EXCEPT ![c] = e.view],
         chan'[c].state = e.state, \A d \in Channels : d # c => chan'[d] = chan[d],
         chan'[c].doomed => e.state = "CLOSED",
         \A d \in Channels : Pending(d)' <=> Pending(d)
  PROVE  ViewAgrees' /\ AbstractStep
<1>1. TypeOK /\ view \in [Channels -> Views]  BY DEF IInv, TypeOK
<1>2. End(c).state = chan[c].state /\ End(c).view = view[c]  BY <1>1, EndType
<1>3. /\ ChannelViewed(c) /\ chan[c] \in ChannelRecords
      /\ \A d \in Channels : ChannelViewed(d)
  BY DEF ViewAgrees, IInv, TypeOK
<1>4. Agreed(End(c))  BY <1>2, <1>3 DEF Agreed, ChannelViewed
<1>5. /\ Agreed(e) /\ Follows(End(c), e) /\ e \in EndStates
      /\ e.state = "none" <=> chan[c].state = "none"
  BY <1>2, <1>4 DEF Leads
<1>6. view'[c] = e.view /\ \A d \in Channels : d # c => view'[d] = view[d]  BY <1>1
<1>7. ASSUME NEW d \in Channels PROVE ChannelViewed(d)'
  <2>1. CASE d # c  BY <2>1, <1>3, <1>6 DEF ChannelViewed
  <2>2. CASE d = c
    BY <2>2, <1>2, <1>3, <1>5, <1>6
    DEF ChannelViewed, Agreed, Follows, ChannelRecords, EndStates
  <2> QED BY <2>1, <2>2
<1>8. Busy' = Busy
  <2>1. \A d \in Channels : chan'[d].state # "none" <=> chan[d].state # "none"
    BY <1>5
  <2> QED BY <2>1, BusyIs, BusyNext
<1>9. CASE e.state = chan[c].state
  <2>1. e.view = view[c]  BY <1>2, <1>5, <1>9 DEF Follows
  <2>2. view' = view  BY <2>1, <1>1
  <2> QED BY <2>2, <1>7, <1>8 DEF ViewAgrees, AbstractStep
<1>10. CASE e.state # chan[c].state
  <2>1. /\ chan[c].state \in {"INITIAL", "CONFIRMED"} /\ e.state \in {"CONFIRMED", "CLOSED"}
        /\ e.view = IF e.state = "CLOSED" THEN "closed" ELSE "open"
    BY <1>2, <1>5, <1>10 DEF Follows
  <2>2. c \in Busy  BY <2>1, BusyIs
  <2>3. \/ view[c] = "requested" /\ e.view = "open"
        \/ view[c] = "requested" /\ e.view = "closed"
        \/ view[c] = "open" /\ e.view = "closed"
    BY <2>1, <1>3, <1>10 DEF ChannelViewed
  <2>4. Protocol!Open(c) \/ Protocol!Fail(c) \/ Protocol!Close(c)
    BY <2>2, <2>3, <1>8
    DEF Protocol!Open, Protocol!Fail, Protocol!Close, Protocol!See, Busy
  <2>5. Protocol!Next  BY <2>4 DEF Protocol!Next
  <2> QED BY <2>5, <1>7 DEF ViewAgrees, AbstractStep
<1> QED BY <1>9, <1>10

\* Requests in a queue without its first, and with one more.
LEMMA QueueHead ==
  ASSUME NEW q \in Seq(Requests), q # << >>, Distinct(q)
  PROVE  /\ Distinct(Tail(q))
         /\ \A c \in Channels : Queued(q, c) <=> (Head(q).kind # "TERM" /\ Head(q).id = c)
                                                   \/ Queued(Tail(q), c)
         /\ \A c \in Channels : ~(Head(q).kind # "TERM" /\ Head(q).id = c /\ Queued(Tail(q), c))
<1>1. /\ Head(q) = q[1] /\ Len(q) \in Nat \ {0} /\ DOMAIN q = 1 .. Len(q)
  OBVIOUS
<1>2. /\ Tail(q) \in Seq(Requests) /\ Len(Tail(q)) = Len(q) - 1
      /\ DOMAIN Tail(q) = 1 .. Len(q) - 1
      /\ \A i \in 1 .. Len(q) - 1 : Tail(q)[i] = q[i + 1]
  BY HeadTailProperties
<1> DEFINE t == Tail(q)
           h == Head(q)
<1> HIDE DEF t, h
<1>3. \A i \in DOMAIN t : i + 1 \in DOMAIN q /\ i + 1 # 1 /\ t[i] = q[i + 1]
  BY <1>1, <1>2 DEF t
<1>4. 1 \in DOMAIN q /\ h = q[1]  BY <1>1 DEF h
<1>5. \A j \in DOMAIN q : j = 1 \/ \E i \in DOMAIN t : j = i + 1
  <2> SUFFICES ASSUME NEW j \in DOMAIN q, j # 1 PROVE \E i \in DOMAIN t : j = i + 1
    OBVIOUS
  <2>1. j - 1 \in DOMAIN t /\ j = (j - 1) + 1  BY <1>1, <1>2 DEF t
  <2> QED BY <2>1
<1>6. Distinct(t)
  <2> SUFFICES ASSUME NEW i \in DOMAIN t, NEW j \in DOMAIN t, t[i].kind # "TERM",
                      t[j].kind # "TERM", t[i].id = t[j].id
               PROVE  i = j
    BY DEF Distinct
  <2>1. i + 1 = j + 1  BY <1>3 DEF Distinct
  <2>2. i \in Int /\ j \in Int  BY <1>1, <1>2 DEF t
  <2> QED BY <2>1, <2>2
<1>7. \A c \in Channels : Queued(q, c) <=> (h.kind # "TERM" /\ h.id = c) \/ Queued(t, c)
  BY <1>3, <1>4, <1>5 DEF Queued
<1>8. \A c \in Channels : ~(h.kind # "TERM" /\ h.id = c /\ Queued(t, c))
  BY <1>3, <1>4 DEF Queued, Distinct
<1> QED BY <1>6, <1>7, <1>8 DEF t, h

\* A request the client sends joins the pending ones.
LEMMA QueueMore ==
  ASSUME NEW q \in Seq(Requests), NEW r \in Requests, Distinct(q),
         r.kind # "TERM" => ~Queued(q, r.id)
  PROVE  /\ Distinct(Append(q, r))
         /\ \A c \in Channels : Queued(Append(q, r), c) <=>
                                  Queued(q, c) \/ (r.kind # "TERM" /\ r.id = c)
<1> DEFINE t == Append(q, r)
<1>1. /\ Len(q) \in Nat /\ DOMAIN q = 1 .. Len(q)
      /\ DOMAIN t = 1 .. Len(q) + 1
      /\ \A i \in 1 .. Len(q) : t[i] = q[i]
      /\ t[Len(q) + 1] = r
  BY AppendProperties, LenProperties
<1> HIDE DEF t
<1>2. \A i \in DOMAIN t : i \in DOMAIN q \/ i = Len(q) + 1  BY <1>1
<1>3. DOMAIN q \subseteq DOMAIN t /\ Len(q) + 1 \in DOMAIN t  BY <1>1
<1>4. \A i \in DOMAIN q : t[i] = q[i]  BY <1>1
<1>5. t[Len(q) + 1] = r  BY <1>1
<1>6. Distinct(t)  BY <1>2, <1>4, <1>5 DEF Distinct, Queued
<1>7. \A c \in Channels : Queued(t, c) <=> Queued(q, c) \/ (r.kind # "TERM" /\ r.id = c)
  BY <1>2, <1>3, <1>4, <1>5 DEF Queued
<1> QED BY <1>6, <1>7 DEF t

\* Steps of the abstract specification.
LEMMA TakeStep == ASSUME NEW c \in Channels, Protocol!Take(c) PROVE AbstractStep
<1>1. Protocol!Next  BY Zenon DEF Protocol!Next
<1> QED BY <1>1 DEF AbstractStep

\* Likewise for an answer.
LEMMA AnswerStep == ASSUME NEW c \in Channels, Protocol!Answer(c) PROVE AbstractStep
<1>1. Protocol!Next  BY Zenon DEF Protocol!Next
<1> QED BY <1>1 DEF AbstractStep

\* A step that concerns neither channels nor requests.
LEMMA Quiet ==
  ASSUME RInv, UNCHANGED <<chan, view, inbox, closing, net>>, recv'.req = recv.req,
         \A c \in Channels : Asking(recv', c) <=> Asking(recv, c),
         recv'.pc \in Creating \cup {"settle"} => recv.pc \in Creating \cup {"settle"}
  PROVE  RInv' /\ AbstractStep
<1>1. \A c \in Channels : Pending(c)' <=> Pending(c)  BY DEF Pending
<1>2. ViewAgrees' /\ AbstractStep  BY <1>1, Aside DEF RInv
<1>3. Undisturbed' /\ OneRequest' /\ Unconfirmed'
  BY DEF RInv, Undisturbed, OneRequest, Unconfirmed
<1> QED BY <1>2, <1>3 DEF RInv

\* In particular one that leaves the receive thread alone.
LEMMA QuietElsewhere ==
  ASSUME RInv, UNCHANGED <<chan, view, inbox, closing, net, recv>>
  PROVE  RInv' /\ AbstractStep
BY Quiet

\* Taking a line from the connection leaves the request pending: a stutter.
LEMMA ReceiveLineFollows ==
  ASSUME IInv, RInv, ReceiveLine PROVE RInv' /\ AbstractStep
<1>1. /\ inbox # << >> /\ inbox' = Tail(inbox) /\ recv.pc = "idle"
      /\ recv' = [pc |-> "line", req |-> Head(inbox), err |-> "none"]
      /\ UNCHANGED <<chan, view, closing, net>>
  BY DEF ReceiveLine, sessionVars
<1>2. /\ Undisturbed /\ OneRequest /\ ViewAgrees /\ inbox \in Seq(Requests)
      /\ Distinct(inbox)
  BY DEF RInv, OneRequest, IInv, TypeOK
<1>3. \A c \in Channels : ~Asking(recv, c)  BY <1>1 DEF Asking
<1>4. \A c \in Channels : Asking(recv', c) <=> Head(inbox).kind # "TERM" /\ Head(inbox).id = c
  BY <1>1 DEF Asking
<1>5. /\ Distinct(inbox')
      /\ \A c \in Channels : Queued(inbox, c) <=> Asking(recv', c) \/ Queued(inbox', c)
      /\ \A c \in Channels : ~(Asking(recv', c) /\ Queued(inbox', c))
  BY <1>1, <1>2, <1>4, QueueHead
<1>6. \A c \in Channels : Pending(c)' <=> Pending(c)  BY <1>3, <1>5 DEF Pending
<1>7. ViewAgrees' /\ AbstractStep  BY <1>1, <1>2, <1>6, Aside
<1>8. Undisturbed' /\ Unconfirmed'  BY <1>1, <1>2 DEF Undisturbed, Unconfirmed, Creating
<1>9. OneRequest'  BY <1>5 DEF OneRequest
<1> QED BY <1>7, <1>8, <1>9 DEF RInv

\* A request on the wire is the Request of the protocol; a TERM is a stutter.
LEMMA ClientRequestFollows ==
  ASSUME IInv, IInv', RInv, NEW r \in Requests, ClientRequest(r)
  PROVE  RInv' /\ AbstractStep
<1> DEFINE c == r.id
<1>1. /\ inbox' = Append(inbox, r) /\ UNCHANGED <<chan, closing, net, recv>>
      /\ view[c] = (IF r.kind = "TERM" THEN "open" ELSE "closed")
      /\ view' = IF r.kind = "TERM" THEN view ELSE [view EXCEPT ![c] = "requested"]
  BY DEF ClientRequest, sessionVars, threadVars
<1>2. /\ Undisturbed /\ OneRequest /\ ViewAgrees /\ Unconfirmed
      /\ inbox \in Seq(Requests) /\ Distinct(inbox)
      /\ view \in [Channels -> Views] /\ chan \in [Channels -> ChannelRecords]
  BY DEF RInv, OneRequest, IInv, TypeOK
<1>3. c \in Channels  BY DEF Requests
<1>4. r.kind # "TERM" => ~Pending(c)
  BY <1>1, <1>2, <1>3 DEF ViewAgrees, ChannelViewed
<1>5. /\ Distinct(inbox')
      /\ \A d \in Channels : Queued(inbox', d) <=> Queued(inbox, d) \/ (r.kind # "TERM" /\ c = d)
  BY <1>1, <1>2, <1>4, QueueMore DEF Pending
<1> HIDE DEF c
<1>6. Undisturbed' /\ Unconfirmed'  BY <1>1, <1>2 DEF Undisturbed, Unconfirmed
<1>7. OneRequest'
  <2>1. \A d \in Channels : Asking(recv', d) <=> Asking(recv, d)  BY <1>1
  <2> QED BY <2>1, <1>2, <1>3, <1>4, <1>5 DEF OneRequest, Pending
<1>8. CASE r.kind = "TERM"
  <2>1. \A d \in Channels : Pending(d)' <=> Pending(d)  BY <1>1, <1>5, <1>8 DEF Pending
  <2> QED BY <2>1, <1>1, <1>2, <1>6, <1>7, <1>8, Aside DEF RInv
<1>9. CASE r.kind # "TERM"
  <2>1. \A d \in Channels : Pending(d)' <=> Pending(d) \/ d = c
    BY <1>1, <1>5, <1>9 DEF Pending
  <2>2. /\ view'[c] = "requested" /\ \A d \in Channels : d # c => view'[d] = view[d]
        /\ view' = [view EXCEPT ![c] = "requested"]
    BY <1>1, <1>2, <1>3, <1>9
  <2>3. ASSUME NEW d \in Channels PROVE ChannelViewed(d)'
    <3>1. ChannelViewed(d)  BY <1>2 DEF ViewAgrees
    <3>2. CASE d # c  BY <3>1, <3>2, <2>1, <2>2, <1>1 DEF ChannelViewed
    <3>3. CASE d = c
      BY <3>1, <3>3, <2>1, <2>2, <1>1, <1>2, <1>9 DEF ChannelViewed, ChannelRecords
    <3> QED BY <3>2, <3>3
  <2>4. Protocol!Request(c)
    BY <2>2, <1>1, <1>9 DEF Protocol!Request, Protocol!See
  <2>5. AbstractStep  BY <2>4, <1>3 DEF Protocol!Next, AbstractStep
  <2> QED BY <2>3, <2>5, <1>6, <1>7 DEF RInv, ViewAgrees
<1> QED BY <1>8, <1>9

\* A TERM closes its channel, or leaves the view as it is.
LEMMA HandleTerminationFollows ==
  ASSUME Reliable, IInv, IInv', RInv, HandleTermination PROVE RInv' /\ AbstractStep
<1> DEFINE c == recv.req.id
<1>1. /\ recv.pc = "handle" /\ recv.req.kind = "TERM"
      /\ recv' = [recv EXCEPT !.pc = "unlock"]
      /\ UNCHANGED <<inbox, net>> /\ closing' = closing
  <2>1. /\ recv.pc = "handle" /\ recv.req.kind = "TERM"
        /\ recv' = [recv EXCEPT !.pc = "unlock"]
        /\ UNCHANGED <<inbox, net>>
    BY DEF HandleTermination, RecvAt, RecvGo
  <2>2. closing = FALSE /\ SendResults = {TRUE}
    BY ReliableIs DEF IInv, TypeOK
  <2>3. closing' = closing \/ \E s \in SendResults : closing' = (closing \/ ~s)
    BY Zenon DEF HandleTermination
  <2>4. closing' = closing  BY <2>2, <2>3
  <2> QED BY <2>1, <2>4
<1>2. recv \in RecvStates /\ TypeOK /\ ChannelsAgree /\ RecvAgrees  BY DEF IInv, TypeOK
<1>3. recv'.pc = "unlock" /\ recv'.req = recv.req  BY <1>1, <1>2 DEF RecvStates
<1>4. \A d \in Channels : Asking(recv', d) <=> Asking(recv, d)
  BY <1>1, <1>3 DEF Asking
<1>5. \A d \in Channels : Pending(d)' <=> Pending(d)  BY <1>1, <1>4 DEF Pending
<1>6. Undisturbed' /\ OneRequest' /\ Unconfirmed'
  BY <1>1, <1>3, <1>4 DEF RInv, Undisturbed, OneRequest, Unconfirmed, Creating
<1>7. c \in Channels /\ Calm  BY <1>1, <1>2, ReliableIs DEF RecvAgrees, Requests
<1>8. CASE UNCHANGED <<view, chan>>
  <2>1. ViewAgrees' /\ AbstractStep  BY <1>5, <1>8, Aside DEF RInv
  <2> QED BY <2>1, <1>6 DEF RInv
<1>9. ASSUME NEW s1 \in SendResults, NEW s2 \in SendResults, chan[c].state # "none",
             drqv_terminate("recv", c, End(c), s1, s2)
      PROVE  RInv' /\ AbstractStep
  <2> HIDE DEF c
  <2>1. End(c) \in EndStates /\ End(c).state # "none" /\ chan[c] # NoChannel
    BY <1>2, <1>7, <1>9, EndType, InTable
  <2>2. PICK e \in EndStates :
          /\ Leads(End(c), e) /\ Terminated(c, e)
          /\ Calm /\ End(c).state # "none" => e.state = "CLOSED"
    BY <2>1, <1>7, <1>9, LeadsNowhere, TerminateEffect
  <2>3. e.state = "CLOSED"  BY <2>1, <2>2, <1>7
  <2>4. /\ view' = [view EXCEPT ![c] = e.view]
        /\ chan' = [chan EXCEPT ![c] = [state |-> e.state, doomed |-> TRUE]]
    BY <2>2 DEF Terminated
  <2>5. chan'[c].state = e.state /\ \A d \in Channels : d # c => chan'[d] = chan[d]
    BY <2>4, <1>2, <1>7 DEF TypeOK
  <2>6. ViewAgrees' /\ AbstractStep
    BY <2>2, <2>3, <2>4, <2>5, <1>5, <1>7, Messages DEF RInv
  <2> QED BY <2>6, <1>6 DEF RInv
<1> QED BY <1>8, <1>9 DEF HandleTermination

\* A refused request is answered; an accepted one is taken.
LEMMA RegisterChannelFollows ==
  ASSUME Reliable, IInv, IInv', RInv, RegisterChannel PROVE RInv' /\ AbstractStep
<1> DEFINE c == recv.req.id
<1>1. /\ recv.pc = "handle" /\ recv.req.kind # "TERM" /\ UNCHANGED <<inbox, net>>
  BY DEF RegisterChannel, RecvAt
<1>2. /\ TypeOK /\ ChannelsAgree /\ RecvAgrees /\ recv \in RecvStates
      /\ view \in [Channels -> Views] /\ chan \in [Channels -> ChannelRecords]
      /\ Undisturbed /\ OneRequest /\ ViewAgrees
  BY DEF IInv, TypeOK, RInv
<1>3. c \in Channels /\ SendResults = {TRUE} /\ ~TableDying /\ ~closing
  BY <1>1, <1>2, ReliableIs DEF RecvAgrees, Requests, TableDying
<1>4. \/ /\ chan[c] # NoChannel
         /\ view' = [view EXCEPT ![c] = ClientSees(@, FALSE, TRUE)]
         /\ recv' = [recv EXCEPT !.pc = "unlock"]
         /\ closing' = FALSE
         /\ UNCHANGED chan
      \/ /\ chan[c] = NoChannel
         /\ chan' = [chan EXCEPT ![c] = [state |-> "INITIAL", doomed |-> FALSE]]
         /\ recv' = [recv EXCEPT !.pc = "create"]
         /\ UNCHANGED <<view, closing>>
  BY <1>3 DEF RegisterChannel, RecvGo
<1>5. /\ recv'.pc \in {"unlock", "create"} /\ recv'.req = recv.req
      /\ \A d \in Channels : ~Asking(recv', d)
  BY <1>2, <1>4 DEF RecvStates, Asking
<1>6. /\ \A d \in Channels : Asking(recv, d) <=> d = c
      /\ ~Queued(inbox, c) /\ Pending(c)
  BY <1>1, <1>2, <1>3 DEF Asking, OneRequest, Pending
<1>7. \A d \in Channels : Pending(d)' <=> Pending(d) /\ d # c
  BY <1>1, <1>5, <1>6 DEF Pending
<1>8. Undisturbed' /\ OneRequest'
  <2>1. ~closing'  BY <1>3, <1>4
  <2> QED BY <2>1, <1>1, <1>2, <1>5 DEF Undisturbed, OneRequest
<1>9. ChannelViewed(c) /\ view[c] = "requested" /\ \A d \in Channels : ChannelViewed(d)
  BY <1>2, <1>3, <1>6 DEF ViewAgrees, ChannelViewed
<1> HIDE DEF c
<1>10. CASE /\ chan[c] # NoChannel
            /\ view' = [view EXCEPT ![c] = ClientSees(@, FALSE, TRUE)]
            /\ recv' = [recv EXCEPT !.pc = "unlock"]
            /\ UNCHANGED chan
  <2>1. view' = [view EXCEPT ![c] = "closed"]  BY <1>9, <1>10 DEF ClientSees
  <2>2. view'[c] = "closed" /\ \A d \in Channels : d # c => view'[d] = view[d]
    BY <2>1, <1>2, <1>3
  <2>3. ASSUME NEW d \in Channels PROVE ChannelViewed(d)'
    <3>1. CASE d # c  BY <3>1, <2>2, <1>7, <1>9, <1>10 DEF ChannelViewed
    <3>2. CASE d = c
      BY <3>2, <2>2, <1>6, <1>7, <1>9, <1>10 DEF ChannelViewed
    <3> QED BY <3>1, <3>2
  <2>4. Busy' = Busy  BY <1>10 DEF Busy
  <2>5. PICK k \in Channels : k = c  BY <1>3
  <2>6. AbstractStep
    <3>1. Protocol!Answer(k)
      BY <2>1, <2>4, <2>5, <1>9 DEF Protocol!Answer, Protocol!See, Busy
    <3> QED BY <3>1, AnswerStep
  <2>7. Unconfirmed'  BY <1>2, <1>10 DEF Unconfirmed, RecvStates, Creating
  <2> QED BY <2>3, <2>6, <2>7, <1>8 DEF RInv, ViewAgrees
<1>11. CASE /\ chan[c] = NoChannel
            /\ chan' = [chan EXCEPT ![c] = [state |-> "INITIAL", doomed |-> FALSE]]
            /\ recv' = [recv EXCEPT !.pc = "create"]
            /\ UNCHANGED <<view, closing>>
  <2>1. /\ chan'[c].state = "INITIAL" /\ ~chan'[c].doomed
        /\ chan'[c] = [state |-> "INITIAL", doomed |-> FALSE]
        /\ \A d \in Channels : d # c => chan'[d] = chan[d]
    BY <1>2, <1>3, <1>11
  <2>2. ASSUME NEW d \in Channels PROVE ChannelViewed(d)'
    <3>1. CASE d # c  BY <3>1, <2>1, <1>7, <1>9, <1>11 DEF ChannelViewed
    <3>2. CASE d = c
      BY <3>2, <2>1, <1>7, <1>9, <1>11 DEF ChannelViewed
    <3> QED BY <3>1, <3>2
  <2>3. c \notin Busy /\ Busy' = Busy \cup {c}
    <3>1. chan'[c] # NoChannel  BY <2>1 DEF NoChannel
    <3> QED BY <3>1, <2>1, <1>3, <1>11 DEF Busy
  <2>4. PICK k \in Channels : k = c  BY <1>3
  <2>5. AbstractStep
    <3>1. Protocol!Take(k)
      BY <2>3, <2>4, <1>9, <1>11 DEF Protocol!Take, Busy
    <3> QED BY <3>1, TakeStep
  <2>6. Unconfirmed'
    <3>1. recv'.req.id = c  BY <1>5 DEF c
    <3> QED BY <3>1, <2>1 DEF Unconfirmed
  <2> QED BY <2>2, <2>5, <2>6, <1>8 DEF RInv, ViewAgrees
<1> QED BY <1>4, <1>10, <1>11

\* A command that ends at once may answer its channel before it is settled.
LEMMA CreateWithoutTaskFollows ==
  ASSUME Reliable, IInv, IInv', RInv, CreateWithoutTask PROVE RInv' /\ AbstractStep
<1> DEFINE c == recv.req.id
<1>1. UNCHANGED <<inbox, closing, net>>  BY DEF CreateWithoutTask
<1>2. /\ recv.pc = "check" /\ c \in Channels /\ chan[c].state # "none"
      /\ ~chan[c].doomed /\ recv \in RecvStates
  BY RequestHeld DEF CreateWithoutTask, RecvAt, Creating, RInv, Unconfirmed
<1>3. recv'.pc = "settle" /\ recv'.req = recv.req
  BY <1>2 DEF CreateWithoutTask, RecvStates
<1>4. \A d \in Channels : Asking(recv', d) <=> Asking(recv, d)
  BY <1>2, <1>3 DEF Asking
<1>5. \A d \in Channels : Pending(d)' <=> Pending(d)  BY <1>1, <1>4 DEF Pending
<1>6. Undisturbed' /\ OneRequest'
  BY <1>1, <1>4 DEF RInv, Undisturbed, OneRequest
<1>7. TypeOK /\ Calm /\ chan[c].state # "CONFIRMED"
  BY <1>2, ReliableIs DEF IInv, RInv, Unconfirmed, Creating
<1>8. PICK told \in BOOLEAN, s1 \in SendResults, s2 \in SendResults :
        Store(c, IF ~told THEN End(c)
                 ELSE IF recv.req.kind = "instant" THEN finish_channel(End(c), TRUE, s1, s2)
                 ELSE error_channel(End(c), s1))
  BY DEF CreateWithoutTask
<1> HIDE DEF c
<1>9. End(c) \in EndStates /\ End(c).state = chan[c].state  BY <1>2, <1>7, EndType
<1>10. /\ Leads(End(c), End(c)) /\ Closes(End(c), finish_channel(End(c), TRUE, s1, s2))
       /\ Closes(End(c), error_channel(End(c), s1))
  BY <1>9, LeadsNowhere, FinishCloses, ErrorCloses
<1>11. PICK e : Leads(End(c), e) /\ Store(c, e) /\ e.state \in {"INITIAL", "CLOSED"}
  <2>1. Leads(End(c), End(c)) /\ End(c).state \in {"INITIAL", "CLOSED"}
    BY <1>2, <1>7, <1>9, <1>10 DEF EndStates
  <2>2. \A f : Closes(End(c), f) => Leads(End(c), f) /\ f.state = "CLOSED"
    BY <1>2, <1>7, <1>9 DEF Closes
  <2> QED BY <2>1, <2>2, <1>8, <1>10
<1>12. /\ view' = [view EXCEPT ![c] = e.view]
       /\ chan'[c].state = e.state /\ chan'[c].doomed = chan[c].doomed
       /\ \A d \in Channels : d # c => chan'[d] = chan[d]
  BY <1>2, <1>7, <1>11 DEF Store, TypeOK, ChannelRecords
<1>13. ViewAgrees' /\ AbstractStep
  BY <1>2, <1>5, <1>7, <1>11, <1>12, Messages DEF RInv
<1>14. Unconfirmed'
  <2>1. recv'.req.id = c  BY <1>3 DEF c
  <2> QED BY <2>1, <1>11, <1>12 DEF Unconfirmed
<1> QED BY <1>6, <1>13, <1>14 DEF RInv

\* Settling a channel answers it, unless its command did, and releases it.
LEMMA SettleChannelFollows ==
  ASSUME Reliable, IInv, IInv', RInv, SettleChannel PROVE RInv' /\ AbstractStep
<1> DEFINE c == recv.req.id
<1>1. UNCHANGED <<inbox, net>> /\ recv' = [recv EXCEPT !.pc = "unlock"]
  BY DEF SettleChannel, RecvGo
<1>2. /\ recv.pc = "settle" /\ c \in Channels /\ chan[c].state # "none"
      /\ recv \in RecvStates
  BY RequestHeld DEF SettleChannel, RecvAt, Creating, RInv, Unconfirmed
<1>3. recv'.pc = "unlock" /\ recv'.req = recv.req  BY <1>1, <1>2 DEF RecvStates
<1>4. \A d \in Channels : Asking(recv', d) <=> Asking(recv, d)
  BY <1>2, <1>3 DEF Asking
<1>5. \A d \in Channels : Pending(d)' <=> Pending(d)  BY <1>1, <1>4 DEF Pending
<1>6. /\ TypeOK /\ Calm /\ chan[c].state # "CONFIRMED" /\ ChannelViewed(c)
      /\ \A d \in Channels : ChannelViewed(d)
      /\ view \in [Channels -> Views] /\ chan \in [Channels -> ChannelRecords]
  BY <1>2, ReliableIs DEF IInv, RInv, Unconfirmed, ViewAgrees, TypeOK, Creating
<1>0. CASE cmd[c].exists
  <2>1. UNCHANGED <<chan, view, closing>>  BY <1>0 DEF SettleChannel
  <2> QED BY <2>1, <1>1, <1>2, <1>3, <1>4, Quiet
<1> SUFFICES ASSUME ~cmd[c].exists PROVE RInv' /\ AbstractStep  BY <1>0
<1>7. PICK s1 \in SendResults, s2 \in SendResults :
        LET e == IF recv.err = "none" THEN finish_channel(End(c), FALSE, s1, s2)
                 ELSE error_channel(End(c), s1)
        IN  /\ view' = [view EXCEPT ![c] = e.view]
            /\ IF e.err = "failed"
               THEN /\ closing' = TRUE
                    /\ chan' = [chan EXCEPT ![c].state = e.state]
               ELSE /\ chan' = [chan EXCEPT ![c] = NoChannel]
                    /\ UNCHANGED closing
  BY DEF SettleChannel
<1> DEFINE e == IF recv.err = "none" THEN finish_channel(End(c), FALSE, s1, s2)
                ELSE error_channel(End(c), s1)
<1>8. Closes(End(c), e)
  <2> HIDE DEF c
  <2>1. End(c) \in EndStates  BY <1>2, <1>6, EndType
  <2> QED BY <2>1, FinishCloses, ErrorCloses
<1>9. End(c).state = chan[c].state /\ End(c).view = view[c]
  <2> HIDE DEF c
  <2> QED BY <1>2, <1>6, EndType
<1>10. Leads(End(c), e) /\ e.state = "CLOSED" /\ e.err # "failed"
  <2> HIDE DEF e, c
  <2> QED BY <1>2, <1>6, <1>8, <1>9 DEF Closes
<1>11. /\ view' = [view EXCEPT ![c] = e.view] /\ chan' = [chan EXCEPT ![c] = NoChannel]
       /\ UNCHANGED closing
  BY <1>7, <1>10
<1> HIDE DEF c, e
<1>12. Undisturbed' /\ OneRequest' /\ Unconfirmed'
  BY <1>1, <1>3, <1>4, <1>11 DEF RInv, Undisturbed, OneRequest, Unconfirmed, Creating
<1>13. Follows(End(c), e)
  BY <1>6, <1>9, <1>10 DEF Leads, Agreed, ChannelViewed
<1>14. /\ view'[c] = e.view /\ \A d \in Channels : d # c => view'[d] = view[d]
       /\ chan'[c] = NoChannel /\ \A d \in Channels : d # c => chan'[d] = chan[d]
  BY <1>2, <1>6, <1>11
<1>15. Busy' = Busy \ {c} /\ c \in Busy
  <2>1. chan[c] # NoChannel  BY <1>2 DEF NoChannel
  <2> QED BY <2>1, <1>2, <1>14 DEF Busy
<1>16. \/ chan[c].state = "INITIAL" /\ view[c] = "requested" /\ e.view = "closed"
       \/ chan[c].state = "CLOSED" /\ e.view = view[c] /\ view[c] # "open"
  <2>1. chan[c].state \in {"INITIAL", "CLOSED"}  BY <1>2, <1>6 DEF ChannelRecords
  <2> QED BY <2>1, <1>6, <1>9, <1>10, <1>13 DEF Follows, ChannelViewed
<1>17. ASSUME NEW d \in Channels PROVE ChannelViewed(d)'
  <2>1. CASE d # c  BY <2>1, <1>5, <1>6, <1>14 DEF ChannelViewed
  <2>2. CASE d = c
    BY <2>2, <1>5, <1>6, <1>14, <1>16 DEF ChannelViewed, NoChannel
  <2> QED BY <2>1, <2>2
<1>18. AbstractStep
  <2>1. CASE view[c] = "requested" /\ e.view = "closed"
    <3>1. PICK k \in Channels : k = c  BY <1>2
    <3>2. Protocol!Answer(k)
      BY <2>1, <3>1, <1>11, <1>15 DEF Protocol!Answer, Protocol!See, Busy
    <3> QED BY <3>2, AnswerStep
  <2>2. CASE e.view = view[c] /\ view[c] # "open"
    <3>1. view' = view  BY <2>2, <1>6, <1>11
    <3>2. {c} \in SUBSET Busy /\ \A d \in {c} : view[d] # "open"  BY <2>2, <1>15
    <3>3. Protocol!Release
      <4> SUFFICES \E S \in SUBSET Busy : /\ \A d \in S : view[d] # "open"
                                          /\ Busy' = Busy \ S /\ UNCHANGED view
        BY DEF Protocol!Release, Busy
      <4> DEFINE S == {c}
      <4>1. /\ S \in SUBSET Busy /\ \A d \in S : view[d] # "open"
            /\ Busy' = Busy \ S /\ UNCHANGED view
        BY <3>1, <3>2, <1>15
      <4> HIDE DEF S
      <4> QED BY <4>1
    <3> QED BY <3>3 DEF Protocol!Next, AbstractStep
  <2> QED BY <2>1, <2>2, <1>16
<1> QED BY <1>12, <1>17, <1>18 DEF RInv, ViewAgrees

\* A callback of the flight loop sends messages of its own channel only.
LEMMA XpTaskFollows ==
  ASSUME Reliable, IInv, IInv', RInv, NEW due \in BOOLEAN, XpTask(due)
  PROVE  RInv' /\ AbstractStep
<1> DEFINE c == Head(xp.todo)
<1>1. UNCHANGED <<inbox, closing, net, recv>>  BY DEF XpTask
<1>2. /\ TypeOK /\ ChannelsAgree /\ OwnersExist /\ TodoScheduled /\ ScheduleHeld
      /\ xp.pc = "run" /\ xp.todo # << >> /\ xp.todo \in Seq(Channels)
  BY DEF IInv, XpTask, TypeOK, XpStates
<1>3. c \in Channels /\ c \in Range(tasks) /\ caught = {}
  <2>1. c \in Channels /\ c \in Range(tasks)
    BY <1>2, HeadTail DEF TodoScheduled
  <2>2. net.pc = "watch" /\ SweepAgrees  BY ReliableIs DEF IInv
  <2>3. caught = {}  BY <2>2 DEF SweepAgrees
  <2> QED BY <2>1, <2>3
<1> HIDE DEF c
<1>4. cmd[c].exists /\ chan[c] # NoChannel /\ ~chan[c].doomed
  BY <1>2, <1>3, InTable DEF OwnersExist, ChannelsAgree
<1>5. PICK found \in BOOLEAN, read \in BOOLEAN, s1 \in SendResults, s2 \in SendResults :
        drqv_process_flightloop(c, found, due, read, s1, s2)
  BY DEF XpTask, c
<1>6. PICK e \in EndStates, k \in CommandRecords : Worked(c, e, k)
  BY <1>2, <1>3, <1>4, <1>5, FlightloopEffect
<1>7. /\ view' = [view EXCEPT ![c] = e.view] /\ Leads(End(c), e)
      /\ chan'[c].state = e.state /\ ~chan'[c].doomed
      /\ \A d \in Channels : d # c => chan'[d] = chan[d]
  BY <1>2, <1>3, <1>4, <1>6 DEF Worked, TypeOK, ChannelRecords
<1>8. \A d \in Channels : Pending(d)' <=> Pending(d)  BY <1>1 DEF Pending
<1>9. ViewAgrees' /\ AbstractStep
  BY <1>3, <1>7, <1>8, ReliableIs, Messages DEF RInv
<1>10. Undisturbed' /\ OneRequest'  BY <1>1 DEF RInv, Undisturbed, OneRequest
<1>11. Unconfirmed'
  BY <1>1, <1>2 DEF Unconfirmed, ScheduleHeld
<1> QED BY <1>9, <1>10, <1>11 DEF RInv

\* The same in post-processing.
LEMMA PostTaskFollows ==
  ASSUME Reliable, IInv, IInv', RInv, PostTask PROVE RInv' /\ AbstractStep
<1> DEFINE c == Head(post.todo)
<1>1. UNCHANGED <<inbox, closing, net, recv>>  BY DEF PostTask
<1>2. /\ TypeOK /\ ChannelsAgree /\ OwnersExist /\ TodoScheduled /\ ScheduleHeld
      /\ post.pc = "run" /\ post.todo # << >> /\ post.todo \in Seq(Channels)
  BY DEF IInv, PostTask, TypeOK, PostStates
<1>3. c \in Channels /\ c \in Range(tasks) /\ caught = {}
  <2>1. c \in Channels /\ c \in Range(tasks)
    BY <1>2, HeadTail DEF TodoScheduled
  <2>2. net.pc = "watch" /\ SweepAgrees  BY ReliableIs DEF IInv
  <2>3. caught = {}  BY <2>2 DEF SweepAgrees
  <2> QED BY <2>1, <2>3
<1> HIDE DEF c
<1>4. cmd[c].exists /\ chan[c] # NoChannel /\ ~chan[c].doomed /\ Calm
  BY <1>2, <1>3, InTable, ReliableIs DEF OwnersExist, ChannelsAgree
<1>5. PICK encoded \in BOOLEAN, s1 \in SendResults, s2 \in SendResults :
        drqv_process_post(c, encoded, s1, s2)
  BY DEF PostTask, c
<1>6. \/ \E e \in EndStates, k \in CommandRecords : Worked(c, e, k) /\ UNCHANGED tasks
      \/ \E e \in EndStates :
           Leads(End(c), e) /\ Terminated(c, e) /\ (Calm => e.state = "CLOSED")
  BY <1>2, <1>3, <1>4, <1>5, PostEffect
<1>7. PICK e \in EndStates :
        /\ view' = [view EXCEPT ![c] = e.view] /\ Leads(End(c), e)
        /\ chan'[c].state = e.state /\ (chan'[c].doomed => e.state = "CLOSED")
        /\ \A d \in Channels : d # c => chan'[d] = chan[d]
  <2>1. ASSUME NEW e \in EndStates, NEW k \in CommandRecords, Worked(c, e, k)
        PROVE  /\ view' = [view EXCEPT ![c] = e.view] /\ Leads(End(c), e)
               /\ chan'[c].state = e.state /\ ~chan'[c].doomed
               /\ \A d \in Channels : d # c => chan'[d] = chan[d]
    BY <2>1, <1>2, <1>3, <1>4 DEF Worked, TypeOK, ChannelRecords
  <2>2. ASSUME NEW e \in EndStates, Leads(End(c), e), Terminated(c, e), e.state = "CLOSED"
        PROVE  /\ view' = [view EXCEPT ![c] = e.view] /\ Leads(End(c), e)
               /\ chan'[c].state = e.state /\ e.state = "CLOSED"
               /\ \A d \in Channels : d # c => chan'[d] = chan[d]
    BY <2>2, <1>2, <1>3 DEF Terminated, TypeOK
  <2>3. CASE \E e \in EndStates, k \in CommandRecords : Worked(c, e, k) /\ UNCHANGED tasks
    BY <2>1, <2>3
  <2>4. CASE \E e \in EndStates :
               Leads(End(c), e) /\ Terminated(c, e) /\ (Calm => e.state = "CLOSED")
    BY <2>2, <2>4, <1>4
  <2> QED BY <2>3, <2>4, <1>6
<1>8. \A d \in Channels : Pending(d)' <=> Pending(d)  BY <1>1 DEF Pending
<1>9. ViewAgrees' /\ AbstractStep
  BY <1>3, <1>4, <1>7, <1>8, Messages DEF RInv
<1>10. Undisturbed' /\ OneRequest'  BY <1>1 DEF RInv, Undisturbed, OneRequest
<1>11. Unconfirmed'
  BY <1>1, <1>2 DEF Unconfirmed, ScheduleHeld
<1> QED BY <1>9, <1>10, <1>11 DEF RInv

\* Dropping a doomed channel: the client was told of its end before.
LEMMA PostMaintainSessionFollows ==
  ASSUME Reliable, IInv, RInv, PostMaintainSession PROVE RInv' /\ AbstractStep
<1>1. UNCHANGED <<inbox, closing, net, recv, view>>
  BY DEF PostMaintainSession, clientVars
<1>2. /\ chan \in [Channels -> ChannelRecords] /\ ViewAgrees /\ Undisturbed /\ OneRequest
      /\ Unconfirmed /\ RecvAgrees
  BY DEF IInv, TypeOK, RInv
<1>3. \A d \in Channels : Pending(d)' <=> Pending(d)  BY <1>1 DEF Pending
<1>4. CASE UNCHANGED <<chan, cmd>>
  BY <1>1, <1>4, QuietElsewhere
<1>5. CASE chan' = [c \in Channels |-> IF chan[c].doomed THEN NoChannel ELSE chan[c]]
  <2>1. \A d \in Channels : /\ chan[d].doomed => chan'[d] = NoChannel
                            /\ ~chan[d].doomed => chan'[d] = chan[d]
    BY <1>5
  <2>2. ASSUME NEW d \in Channels PROVE ChannelViewed(d)'
    <3>1. ChannelViewed(d)  BY <1>2 DEF ViewAgrees
    <3>2. CASE chan[d].doomed
      BY <3>1, <3>2, <2>1, <1>1, <1>3 DEF ChannelViewed, NoChannel
    <3>3. CASE ~chan[d].doomed
      BY <3>1, <3>3, <2>1, <1>1, <1>3 DEF ChannelViewed
    <3> QED BY <3>2, <3>3
  <2> DEFINE S == {d \in Busy : chan[d].doomed}
  <2>3. S \in SUBSET Busy /\ \A d \in S : view[d] # "open"
    BY <1>2 DEF Busy, ViewAgrees, ChannelViewed
  <2>4. Busy' = Busy \ S  BY <2>1 DEF Busy
  <2>5. Protocol!Release
    <3> SUFFICES \E T \in SUBSET Busy : /\ \A d \in T : view[d] # "open"
                                        /\ Busy' = Busy \ T /\ UNCHANGED view
      BY DEF Protocol!Release, Busy
    <3> HIDE DEF S
    <3> QED BY <2>3, <2>4, <1>1
  <2>6. AbstractStep  BY <2>5 DEF Protocol!Next, AbstractStep
  <2>7. Undisturbed' /\ OneRequest'  BY <1>1, <1>2 DEF Undisturbed, OneRequest
  <2>8. Unconfirmed'
    BY <2>1, <1>1, <1>2 DEF Unconfirmed, RecvAgrees, Requests, Creating
  <2> QED BY <2>2, <2>6, <2>7, <2>8 DEF RInv, ViewAgrees
<1> QED BY <1>4, <1>5 DEF PostMaintainSession, Swept

\* The steps of the receive thread that only move it on.
LEMMA RecvQuiet ==
  ASSUME IInv, RInv,
         \/ RecvLockSchedule \/ RecvLockSession \/ LookUpCommand
         \/ BeginDrqv \/ ScheduleDrqv \/ StoreCommand \/ RecvUnlock
  PROVE  RInv' /\ AbstractStep
<1>1. UNCHANGED <<chan, view, inbox, closing, net>>
  BY DEF RecvLockSchedule, RecvLockSession, LookUpCommand, BeginDrqv, ScheduleDrqv,
         StoreCommand, RecvUnlock, sessionVars, clientVars
<1>2. recv \in RecvStates  BY DEF IInv, TypeOK
<1>3. \/ recv.pc = "line" /\ recv' = [recv EXCEPT !.pc = "locked"]
      \/ recv.pc = "locked" /\ recv' = [recv EXCEPT !.pc = "handle"]
      \/ recv.pc = "create" /\ recv' = [recv EXCEPT !.pc = "check"]
      \/ recv.pc = "create" /\ recv' = [recv EXCEPT !.pc = "settle", !.err = "unknown"]
      \/ recv.pc = "check" /\ recv' = [recv EXCEPT !.pc = "schedule"]
      \/ recv.pc = "schedule" /\ recv' = [recv EXCEPT !.pc = "store"]
      \/ recv.pc = "store" /\ recv' = [recv EXCEPT !.pc = "settle"]
      \/ recv.pc = "unlock" /\ recv' = [recv EXCEPT !.pc = "idle"]
  <2>1. CASE RecvLockSchedule  BY <2>1 DEF RecvLockSchedule, RecvAt, RecvGo
  <2>2. CASE RecvLockSession   BY <2>2 DEF RecvLockSession, RecvAt, RecvGo
  <2>3. CASE LookUpCommand     BY <2>3 DEF LookUpCommand, RecvAt, RecvGo
  <2>4. CASE BeginDrqv         BY <2>4 DEF BeginDrqv, RecvAt, RecvGo
  <2>5. CASE ScheduleDrqv      BY <2>5 DEF ScheduleDrqv, RecvAt, RecvGo
  <2>6. CASE StoreCommand      BY <2>6 DEF StoreCommand, RecvAt, RecvGo
  <2>7. CASE RecvUnlock        BY <2>7 DEF RecvUnlock, RecvAt, RecvGo
  <2> QED BY <2>1, <2>2, <2>3, <2>4, <2>5, <2>6, <2>7
<1>4. /\ recv'.req = recv.req
      /\ recv'.pc \in {"line", "locked", "handle"} <=> recv.pc \in {"line", "locked", "handle"}
      /\ recv'.pc \in Creating \cup {"settle"} => recv.pc \in Creating \cup {"settle"}
  BY <1>2, <1>3 DEF RecvStates, Creating
<1>5. \A c \in Channels : Asking(recv', c) <=> Asking(recv, c)  BY <1>4 DEF Asking
<1> QED BY <1>1, <1>4, <1>5, Quiet

\* Every step of a reliable session is a step of the protocol or none.
LEMMA StepFollows ==
  ASSUME Reliable, IInv, IInv', RInv, [Next]_vars
  PROVE  RInv' /\ AbstractStep
<1>0. life = "live" /\ ~closing /\ net.pc = "watch"  BY ReliableIs
<1>1. CASE RecvNext
  <2>1. ~RecvSessionGone /\ ~RecvExit  BY <1>0 DEF RecvSessionGone, RecvExit
  <2> QED BY <1>1, <2>1, ReceiveLineFollows, RecvQuiet, HandleTerminationFollows,
             RegisterChannelFollows, CreateWithoutTaskFollows, SettleChannelFollows
          DEF RecvNext
<1>2. CASE XpNext
  <2>1. CASE \E due \in BOOLEAN : XpTask(due)  BY <2>1, XpTaskFollows
  <2>2. CASE FrameBegin \/ XpLockSchedule \/ XpUnlockSchedule \/ FrameEnd
    <3>1. UNCHANGED <<chan, view, inbox, closing, net, recv>>
      BY <2>2
      DEF FrameBegin, XpLockSchedule, XpUnlockSchedule, FrameEnd, sessionVars, clientVars
    <3> QED BY <3>1, QuietElsewhere
  <2> QED BY <1>2, <2>1, <2>2 DEF XpNext
<1>3. CASE PostNext
  <2>1. CASE PostWake \/ PostLockSchedule \/ PostUnlockSchedule \/ PostLockServer
    <3>1. UNCHANGED <<chan, view, inbox, closing, net, recv>>
      BY <2>1
      DEF PostWake, PostLockSchedule, PostUnlockSchedule, PostLockServer, sessionVars,
          clientVars
    <3> QED BY <3>1, QuietElsewhere
  <2> QED BY <1>3, <2>1, PostTaskFollows, PostMaintainSessionFollows DEF PostNext
<1>4. ~NetNext /\ ~Disconnect
  BY <1>0
  DEF NetNext, NetUnregister, NetPend, NetBeginSweep, NetVisit, NetUnschedule, NetDestroy,
      NetFree, NetJoin, Disconnect, Reliable
<1>5. CASE \E r \in Requests : ClientRequest(r)  BY <1>5, ClientRequestFollows
<1>6. CASE UseAfterFree \/ Tick \/ UNCHANGED vars
  <2>1. UNCHANGED <<chan, view, inbox, closing, net, recv>>
    BY <1>6 DEF UseAfterFree, Tick, vars, sessionVars, threadVars, clientVars
  <2> QED BY <2>1, QuietElsewhere
<1> QED BY <1>1, <1>2, <1>3, <1>4, <1>5, <1>6 DEF Next

\* The refinement holds in the initial states.
LEMMA InitFollows == ASSUME Init PROVE RInv /\ Protocol!Init
<1>1. /\ inbox = << >> /\ ~closing /\ net.pc = "watch" /\ recv.pc = "idle"
      /\ chan = [c \in Channels |-> NoChannel]
      /\ view = [c \in Channels |-> "closed"]
  BY DEF Init
<1>2. DOMAIN inbox = {}  BY <1>1
<1>3. \A c \in Channels : ~Queued(inbox, c) /\ ~Asking(recv, c) /\ ~Pending(c)
  BY <1>1, <1>2 DEF Queued, Asking, Pending
<1>4. Undisturbed /\ OneRequest /\ Unconfirmed
  BY <1>1, <1>2, <1>3 DEF Undisturbed, OneRequest, Unconfirmed, Distinct, Creating
<1>5. ViewAgrees  BY <1>1, <1>3 DEF ViewAgrees, ChannelViewed, NoChannel
<1>6. Protocol!Init  BY <1>1 DEF Protocol!Init
<1> QED BY <1>4, <1>5, <1>6 DEF RInv

\* On a connection that lasts and takes every message, the four threads together
\* keep the protocol of the channels: one answer to a request, nothing after a
\* closing message, no id released while the client believes the channel open
\* (session.c, handle_command_request, destroy_pending_channels).
THEOREM SessionFollowsProtocol ==
  ASSUME Reliable PROVE Spec => FollowsChannelProtocol
<1>1. Init => RInv /\ Protocol!Init  BY InitFollows
<1>2. IInv /\ IInv' /\ RInv /\ [Next]_vars => RInv' /\ AbstractStep  BY StepFollows
<1>3. AbstractStep => [Protocol!Next]_<<view, {c \in Channels : chan[c] # NoChannel}>>
  BY DEF AbstractStep, Busy
<1> QED BY <1>1, <1>2, <1>3, SessionInvariant, PTL
        DEF Spec, FollowsChannelProtocol, Protocol!Spec

-----------------------------------------------------------------------------
(* Induction, and what is known of every sequence.                           *)

\* Every set of naturals has a smallest member.
LEMMA Smallest == ASSUME NEW S, S \subseteq Nat, S # {}
                  PROVE  \E m \in S : \A k \in S : m <= k
<1>1. PICK m \in S : \A k \in S : ~(<<k, m>> \in OpToRel(<, Nat))
  <2> HIDE DEF OpToRel
  <2> QED BY NatLessThanWellFounded, WFMin, Zenon
<1>2. \A k \in S : ~(k < m)  BY <1>1 DEF OpToRel
<1> QED BY <1>2

\* A set with 0 that goes from each member to the next has all naturals.
LEMMA AllNaturals == ASSUME NEW S, 0 \in S, \A n \in Nat : n \in S => n + 1 \in S
                     PROVE  Nat \subseteq S
<1> SUFFICES ASSUME Nat \ S # {} PROVE FALSE  OBVIOUS
<1>1. PICK m \in Nat \ S : \A k \in Nat \ S : m <= k
  <2>1. Nat \ S \subseteq Nat  OBVIOUS
  <2> QED BY <2>1, Smallest
<1>2. m # 0 /\ m - 1 \in Nat /\ m - 1 < m  OBVIOUS
<1>3. m - 1 \in S  BY <1>1, <1>2
<1>4. (m - 1) + 1 \in S  BY <1>2, <1>3
<1> QED BY <1>4, <1>2

\* What is known of every sequence.
LEMMA SequenceParts ==
  ASSUME NEW S, NEW s \in Seq(S)
  PROVE  /\ Len(s) \in Nat /\ DOMAIN s = 1 .. Len(s) /\ s = [k \in 1 .. Len(s) |-> s[k]]
         /\ \A k \in 1 .. Len(s) : s[k] \in S
  OBVIOUS

-----------------------------------------------------------------------------
(* Parsing a request (requests.c): parts of a line, ...                      *)

\* r is the part of s from i to j.
PartOf(r, s, i, j, S) ==
  /\ r \in Seq(S) /\ Len(r) = j - i + 1 /\ j - i + 1 \in Nat
  /\ \A k \in 1 .. j - i + 1 : r[k] = s[i + k - 1] /\ i + k - 1 \in 1 .. Len(s)

\* SubSeq inside a sequence.
LEMMA SubParts ==
  ASSUME NEW S, NEW s \in Seq(S), NEW i \in 1 .. Len(s) + 1, NEW j \in i - 1 .. Len(s)
  PROVE  PartOf(SubSeq(s, i, j), s, i, j, S)
<1> DEFINE n == Len(s)
           r == SubSeq(s, i, j)
<1>1. n \in Nat /\ \A k \in 1 .. n : s[k] \in S
  OBVIOUS
<1>2. i \in Int /\ j \in Int /\ 1 <= i /\ i - 1 <= j /\ j <= n /\ n \in Nat
  <2> HIDE DEF n
  <2> QED BY <1>1 DEF n
<1>3. \A k \in i .. j : k \in 1 .. n
  <2> HIDE DEF n
  <2> QED BY <1>2
<1>4. /\ r \in Seq(S) /\ Len(r) = IF i <= j THEN j - i + 1 ELSE 0
      /\ \A k \in 1 .. j - i + 1 : r[k] = s[i + k - 1]
  <2>1. \A k \in i .. j : s[k] \in S
    BY <1>1, <1>3
  <2> QED BY <1>2, <2>1, SubSeqProperties
<1> HIDE DEF r, n
<1>5. Len(r) = j - i + 1 /\ j - i + 1 \in Nat
  BY <1>2, <1>4
<1>6. \A k \in 1 .. j - i + 1 : i + k - 1 \in 1 .. n
  BY <1>2
<1>7. PartOf(r, s, i, j, S)
  BY <1>4, <1>5, <1>6 DEF PartOf, n
<1> QED BY <1>7 DEF r

\* A part of a part is a part of the whole.
LEMMA SubSub ==
  ASSUME NEW S, NEW s \in Seq(S), NEW a \in 1 .. Len(s) + 1, NEW z \in a - 1 .. Len(s),
         NEW i \in 1 .. z - a + 2, NEW j \in i - 1 .. z - a + 1
  PROVE  SubSeq(SubSeq(s, a, z), i, j) = SubSeq(s, a + i - 1, a + j - 1)
<1> DEFINE n == Len(s)
           t == SubSeq(s, a, z)
           u == SubSeq(t, i, j)
           v == SubSeq(s, a + i - 1, a + j - 1)
<1>1. PartOf(t, s, a, z, S)
  BY SubParts
<1>0. n \in Nat /\ a \in 1 .. n + 1 /\ z \in a - 1 .. n
  OBVIOUS
<1>2. t \in Seq(S) /\ Len(t) = z - a + 1
  BY <1>1 DEF PartOf
<1>3. i \in 1 .. Len(t) + 1 /\ j \in i - 1 .. Len(t)
  <2> HIDE DEF t, n
  <2> QED BY <1>0, <1>2
<1>4. PartOf(u, t, i, j, S)
  BY <1>2, <1>3, SubParts
<1>5. a + i - 1 \in 1 .. n + 1 /\ a + j - 1 \in (a + i - 1) - 1 .. n
  <2> HIDE DEF n
  <2> QED BY <1>0
<1>6. PartOf(v, s, a + i - 1, a + j - 1, S)
  BY <1>5, SubParts
<1>7. (a + j - 1) - (a + i - 1) + 1 = j - i + 1
  <2> HIDE DEF n
  <2> QED BY <1>0
<1> HIDE DEF t, u, v, n
<1>8. u \in Seq(S) /\ v \in Seq(S) /\ Len(u) = Len(v) /\ Len(u) = j - i + 1
  BY <1>4, <1>6, <1>7 DEF PartOf
<1>9. ASSUME NEW k \in 1 .. j - i + 1 PROVE u[k] = v[k]
  <2>1. u[k] = t[i + k - 1] /\ i + k - 1 \in 1 .. z - a + 1
    BY <1>2, <1>4 DEF PartOf
  <2>2. t[i + k - 1] = s[a + (i + k - 1) - 1]
    BY <2>1, <1>1 DEF PartOf
  <2>3. v[k] = s[(a + i - 1) + k - 1]
    BY <1>6, <1>7 DEF PartOf
  <2>4. a + (i + k - 1) - 1 = (a + i - 1) + k - 1
    BY <1>0
  <2> QED BY <2>1, <2>2, <2>3, <2>4
<1> QED BY <1>8, <1>9, SeqEqual DEF u, v, t

\* f[k] lists the positions of c among the first k characters of s.
ListsPositions(f, s, c) ==
  f = [k \in 0 .. Len(s) |-> IF k = 0 THEN << >> ELSE IF s[k] = c THEN Append(f[k - 1], k) ELSE f[k - 1]]

\* The positions of a character, unfolded.
LEMMA PositionsStep ==
  ASSUME NEW S, NEW s \in Seq(S), NEW c
  PROVE  ListsPositions(PositionsUpTo(s, c), s, c)
<1> DEFINE m == Len(s)
           Step(f, k) == IF k = 0 THEN << >> ELSE IF s[k] = c THEN Append(f[k - 1], k) ELSE f[k - 1]
           at == CHOOSE f : f = [k \in 0 .. m |-> Step(f, k)]
           T == {n \in Nat : \E f : f = [k \in 0 .. n |-> Step(f, k)]}
<1>0. m \in Nat
  OBVIOUS
<1>1. PositionsUpTo(s, c) = at
  BY Zenon DEF PositionsUpTo
<1>2. 0 \in T
  <2> DEFINE f == [k \in 0 .. 0 |-> << >>]
  <2>1. f = [k \in 0 .. 0 |-> Step(f, k)]
    OBVIOUS
  <2> QED BY <2>1
<1>3. ASSUME NEW n \in Nat, n \in T PROVE n + 1 \in T
  <2>1. PICK f : f = [k \in 0 .. n |-> Step(f, k)]
    BY <1>3
  <2> DEFINE g == [k \in 0 .. n + 1 |-> IF k = n + 1 THEN Step(f, n + 1) ELSE f[k]]
  <2>2. ASSUME NEW k \in 0 .. n + 1 PROVE g[k] = Step(g, k)
    <3>1. CASE k = 0
      <4>1. f[0] = Step(f, 0)
        BY <2>1
      <4> QED BY <3>1, <4>1
    <3>2. CASE k # 0 /\ k # n + 1
      <4>1. k \in 0 .. n /\ k - 1 \in 0 .. n /\ k - 1 # n + 1 /\ k - 1 \in 0 .. n + 1
        BY <3>2
      <4>2. g[k] = f[k] /\ g[k - 1] = f[k - 1]
        BY <4>1, <3>2
      <4>3. f[k] = Step(f, k)
        BY <4>1, <2>1
      <4> HIDE DEF g
      <4>4. Step(g, k) = Step(f, k)
        BY <4>2, <3>2, Zenon
      <4> QED BY <4>2, <4>3, <4>4
    <3>3. CASE k = n + 1
      <4>1. g[k] = Step(f, n + 1)
        BY <3>3
      <4>2. k - 1 \in 0 .. n /\ k - 1 # n + 1 /\ k - 1 \in 0 .. n + 1 /\ k - 1 = n /\ n + 1 - 1 = n
        BY <3>3
      <4>3. g[k - 1] = f[n + 1 - 1]
        BY <4>2
      <4> HIDE DEF g
      <4>4. Step(g, k) = Step(f, n + 1)
        BY <4>2, <4>3, <3>3, Zenon
      <4> QED BY <4>1, <4>4
    <3> QED BY <3>1, <3>2, <3>3
  <2>3. g = [k \in 0 .. n + 1 |-> g[k]]
    OBVIOUS
  <2> HIDE DEF g, Step
  <2>4. g = [k \in 0 .. n + 1 |-> Step(g, k)]
    BY <2>2, <2>3
  <2> QED BY <2>4
<1>4. m \in T
  <2> HIDE DEF T
  <2> QED BY <1>0, <1>2, <1>3, AllNaturals
<1>5. at = [k \in 0 .. m |-> Step(at, k)]
  <2> HIDE DEF Step
  <2> QED BY <1>4
<1> HIDE DEF at
<1> QED BY <1>1, <1>5, Zenon DEF ListsPositions

\* at are the positions of c among the first k characters of s, in order.
Marks(at, s, c, k) ==
  /\ at \in Seq(1 .. k)
  /\ \A i, j \in 1 .. Len(at) : i < j => at[i] < at[j]
  /\ \A i \in 1 .. Len(at) : s[at[i]] = c
  /\ \A j \in 1 .. k : s[j] = c => \E i \in 1 .. Len(at) : at[i] = j

\* The positions of a character, with one more character of the text.
LEMMA MarksGrow ==
  ASSUME NEW s, NEW c, NEW k \in Nat, NEW at, Marks(at, s, c, k)
  PROVE  Marks(IF s[k + 1] = c THEN Append(at, k + 1) ELSE at, s, c, k + 1)
<1> DEFINE K == 1 .. k + 1
           m == Len(at)
<1>1. at \in Seq(1 .. k) /\ m \in Nat /\ \A i \in 1 .. m : at[i] \in 1 .. k
  BY SequenceParts DEF Marks
<1>2. at \in Seq(K)
  <2>1. 1 .. k \subseteq K
    OBVIOUS
  <2> HIDE DEF K
  <2> QED BY <1>1, <2>1, SeqMonotonic
<1>3. \A j \in 1 .. k + 1 : j \in 1 .. k \/ j = k + 1
  OBVIOUS
<1>4. CASE s[k + 1] # c
  BY <1>2, <1>3, <1>4 DEF Marks
<1>5. CASE s[k + 1] = c
  <2> DEFINE b == Append(at, k + 1)
  <2>1. b \in Seq(K) /\ Len(b) = m + 1 /\ b[m + 1] = k + 1 /\ \A i \in 1 .. m : b[i] = at[i]
    <3>1. k + 1 \in K
      OBVIOUS
    <3> HIDE DEF K
    <3> QED BY <1>2, <3>1, AppendProperties
  <2> HIDE DEF b, m
  <2>2. \A i \in 1 .. m + 1 : i \in 1 .. m \/ i = m + 1
    BY <1>1
  <2>3. ASSUME NEW i \in 1 .. m + 1, NEW j \in 1 .. m + 1, i < j PROVE b[i] < b[j]
    <3>1. i \in 1 .. m
      BY <2>3, <1>1
    <3>2. CASE j \in 1 .. m
      BY <3>1, <3>2, <2>1, <2>3 DEF Marks, m
    <3>3. CASE j = m + 1
      <4>1. b[i] \in 1 .. k /\ b[j] = k + 1
        BY <3>1, <3>3, <2>1, <1>1
      <4> QED BY <4>1
    <3> QED BY <2>2, <3>2, <3>3
  <2>4. ASSUME NEW i \in 1 .. m + 1 PROVE s[b[i]] = c
    BY <2>1, <2>2, <1>5 DEF Marks, m
  <2>5. ASSUME NEW j \in 1 .. k + 1, s[j] = c PROVE \E i \in 1 .. m + 1 : b[i] = j
    <3>1. CASE j = k + 1
      <4>1. m + 1 \in 1 .. m + 1
        BY <1>1
      <4> QED BY <4>1, <3>1, <2>1
    <3>2. CASE j \in 1 .. k
      <4>1. PICK i \in 1 .. m : at[i] = j
        BY <3>2, <2>5 DEF Marks, m
      <4>2. i \in 1 .. m + 1
        BY <1>1
      <4> QED BY <4>1, <4>2, <2>1
    <3> QED BY <1>3, <3>1, <3>2
  <2>6. Marks(b, s, c, k + 1)
    <3>1. Len(b) = m + 1 /\ b \in Seq(1 .. k + 1)
      BY <2>1
    <3> QED BY <3>1, <2>3, <2>4, <2>5 DEF Marks
  <2> QED BY <2>6, <1>5 DEF b
<1> QED BY <1>4, <1>5

\* Positions finds every occurrence of the character, in order.
LEMMA PositionsMark ==
  ASSUME NEW S, NEW s \in Seq(S), NEW c
  PROVE  Marks(Positions(s, c), s, c, Len(s))
<1> DEFINE f == PositionsUpTo(s, c)
           m == Len(s)
           G == {k \in Nat : k <= m => Marks(f[k], s, c, k)}
           Step(k) == IF k = 0 THEN << >> ELSE IF s[k] = c THEN Append(f[k - 1], k) ELSE f[k - 1]
<1>1. f = [k \in 0 .. m |-> Step(k)]
  <2>1. ListsPositions(f, s, c)
    BY PositionsStep
  <2> HIDE DEF f
  <2> QED BY ONLY <2>1, Zenon DEF ListsPositions
<1> HIDE DEF f, Step
<1>2. m \in Nat
  OBVIOUS
<1> HIDE DEF m
<1>3. 0 \in G
  <2>1. f[0] = << >>
    <3>1. f[0] = Step(0)
      BY <1>1, <1>2
    <3> QED BY <3>1 DEF Step
  <2>2. \A k \in 1 .. 0 : FALSE
    OBVIOUS
  <2>3. << >> \in Seq(1 .. 0) /\ Len(<< >>) = 0
    OBVIOUS
  <2>4. Marks(<< >>, s, c, 0)
    BY ONLY <2>2, <2>3 DEF Marks
  <2> QED BY <2>1, <2>4
<1>4. ASSUME NEW k \in Nat, k \in G PROVE k + 1 \in G
  <2> SUFFICES ASSUME k + 1 <= m PROVE Marks(f[k + 1], s, c, k + 1)
    OBVIOUS
  <2>1. Marks(f[k], s, c, k)
    BY <1>2, <1>4
  <2>2. k + 1 \in 0 .. m /\ k + 1 # 0 /\ k + 1 - 1 = k
    BY <1>2
  <2>3. f[k + 1] = IF s[k + 1] = c THEN Append(f[k], k + 1) ELSE f[k]
    <3>1. f[k + 1] = Step(k + 1)
      BY <1>1, <2>2
    <3> QED BY ONLY <2>2, <3>1 DEF Step
  <2> QED BY <2>1, <2>3, MarksGrow
<1>5. m \in G
  <2> HIDE DEF G
  <2> QED BY <1>2, <1>3, <1>4, AllNaturals
<1> QED BY <1>2, <1>5 DEF Positions, f, m

\* The positions at, with one before and one behind the k characters of s.
Edges(at, k) == [n \in 0 .. Len(at) + 1 |-> IF n = 0 THEN 0 ELSE IF n = Len(at) + 1 THEN k + 1 ELSE at[n]]

\* B are m + 1 places in line, the first before a, the last behind z, the others
\* the occurrences of c from a to z, in order.
Cuts(B, m, line, a, z, c) ==
  /\ m \in Nat /\ m # 0 /\ B = [n \in 0 .. m |-> B[n]]
  /\ \A n \in 0 .. m : B[n] \in Int /\ a - 1 <= B[n] /\ B[n] <= z + 1
  /\ B[0] = a - 1 /\ B[m] = z + 1
  /\ \A n \in 1 .. m : B[n - 1] < B[n]
  /\ \A n \in 1 .. m - 1 : line[B[n]] = c
  /\ \A n \in 1 .. m : \A k \in B[n - 1] + 1 .. B[n] - 1 : line[k] # c

\* The edges of all positions cut the text.
LEMMA EdgesCut ==
  ASSUME NEW s, NEW c, NEW k \in Nat, NEW at, Marks(at, s, c, k)
  PROVE  Cuts(Edges(at, k), Len(at) + 1, s, 1, k, c)
<1> DEFINE q == Len(at)
           m == q + 1
           E == Edges(at, k)
<1>1. q \in Nat /\ m \in Nat /\ m # 0 /\ \A n \in 1 .. q : at[n] \in 1 .. k
  BY SequenceParts DEF Marks
<1>2. /\ \A i, j \in 1 .. q : i < j => at[i] < at[j]
      /\ \A i \in 1 .. q : s[at[i]] = c
      /\ \A j \in 1 .. k : s[j] = c => \E i \in 1 .. q : at[i] = j
  BY DEF Marks
<1> HIDE DEF q
<1>3. E = [n \in 0 .. m |-> E[n]] /\ \A n \in 0 .. m : E[n] = IF n = 0 THEN 0 ELSE IF n = m THEN k + 1 ELSE at[n]
  BY DEF Edges, q
<1> HIDE DEF E
<1>4. /\ E[0] = 0 /\ E[m] = k + 1
      /\ \A n \in 1 .. q : E[n] = at[n] /\ E[n] \in 1 .. k
  <2>1. 0 \in 0 .. m /\ m \in 0 .. m
    BY <1>1
  <2>2. \A n \in 1 .. q : n \in 0 .. m /\ n # 0 /\ n # m
    BY <1>1
  <2> QED BY <2>1, <2>2, <1>1, <1>3
<1>5. \A n \in 0 .. m : n = 0 \/ n = m \/ n \in 1 .. q
  BY <1>1
<1>6. \A n \in 0 .. m : E[n] \in Int /\ 1 - 1 <= E[n] /\ E[n] <= k + 1
  <2> SUFFICES ASSUME NEW n \in 0 .. m PROVE E[n] \in Int /\ 1 - 1 <= E[n] /\ E[n] <= k + 1
    OBVIOUS
  <2>1. E[n] \in 0 .. k + 1
    BY <1>4, <1>5
  <2> QED BY <2>1
<1>7. ASSUME NEW n \in 1 .. m PROVE E[n - 1] < E[n]
  <2>1. n - 1 = 0 \/ n - 1 \in 1 .. q
    BY <1>1
  <2>2. n = m \/ n \in 1 .. q
    BY <1>1
  <2>3. CASE n = m
    <3>1. E[n - 1] \in 0 .. k /\ E[n] = k + 1
      BY <2>1, <2>3, <1>4
    <3> QED BY <3>1
  <2>4. CASE n \in 1 .. q
    <3>1. CASE n - 1 = 0
      <4>1. E[n - 1] = 0 /\ E[n] \in 1 .. k
        BY <3>1, <2>4, <1>4
      <4> QED BY <4>1
    <3>2. CASE n - 1 \in 1 .. q
      <4>1. n - 1 < n
        OBVIOUS
      <4> QED BY <3>2, <4>1, <2>4, <1>2, <1>4
    <3> QED BY <2>1, <3>1, <3>2
  <2> QED BY <2>2, <2>3, <2>4
<1>8. \A n \in 1 .. m - 1 : s[E[n]] = c
  <2>1. \A n \in 1 .. m - 1 : n \in 1 .. q
    BY <1>1
  <2> QED BY <2>1, <1>2, <1>4
<1>9. ASSUME NEW n \in 1 .. m, NEW j \in E[n - 1] + 1 .. E[n] - 1 PROVE s[j] # c
  <2>1. n \in 0 .. m /\ n - 1 \in 0 .. m
    BY <1>1
  <2>2. E[n - 1] \in 0 .. k + 1 /\ E[n] \in 0 .. k + 1
    BY <1>6, <2>1
  <2>3. j \in 1 .. k /\ E[n - 1] < j /\ j < E[n]
    BY <2>2
  <2> SUFFICES ASSUME s[j] = c PROVE FALSE
    OBVIOUS
  <2>4. PICK i \in 1 .. q : at[i] = j
    BY <1>2, <2>3
  <2>5. E[i] = j
    BY <1>4, <2>4
  <2>6. i > n - 1
    <3> SUFFICES ASSUME i <= n - 1 PROVE FALSE
      BY <1>1
    <3>1. n - 1 \in 1 .. q
      BY <1>1
    <3>2. i = n - 1 \/ i < n - 1
      BY <1>1
    <3>3. at[n - 1] < j /\ at[n - 1] \in 1 .. k
      BY <3>1, <2>3, <1>4
    <3>4. CASE i = n - 1
      BY <3>3, <3>4, <2>4, <2>3
    <3>5. CASE i < n - 1
      <4>1. at[i] < at[n - 1]
        BY <3>1, <3>5, <1>2
      <4> QED BY <4>1, <3>3, <2>4, <2>3
    <3> QED BY <3>2, <3>4, <3>5
  <2>7. i < n
    <3> SUFFICES ASSUME n <= i PROVE FALSE
      BY <1>1
    <3>1. n \in 1 .. q
      BY <1>1
    <3>2. i = n \/ n < i
      BY <1>1
    <3>3. j < at[n] /\ at[n] \in 1 .. k
      BY <3>1, <2>3, <1>4
    <3>4. CASE i = n
      BY <3>3, <3>4, <2>4, <2>3
    <3>5. CASE n < i
      <4>1. at[n] < at[i]
        BY <3>1, <3>5, <1>2
      <4> QED BY <4>1, <3>3, <2>4, <2>3
    <3> QED BY <3>2, <3>4, <3>5
  <2> QED BY <2>6, <2>7, <1>1
<1>10. Cuts(E, m, s, 1, k, c)
  <2> HIDE DEF m
  <2>1. E[0] = 1 - 1
    BY <1>4
  <2> QED BY <1>1, <1>3, <1>4, <1>6, <1>7, <1>8, <1>9, <2>1 DEF Cuts
<1> QED BY <1>10 DEF E, m, q

\* The piece between two cuts.
Piece(line, B, n) == SubSeq(line, B[n - 1] + 1, B[n] - 1)

\* Splitting a part of a line is cutting the line.
SplitsAt(line, a, z, c) ==
  \E m, B : Cuts(B, m, line, a, z, c) /\ Pieces(SubSeq(line, a, z), c) = [n \in 1 .. m |-> Piece(line, B, n)]

\* The positions of a separator cut a part of the line into pieces.
LEMMA PiecesCut ==
  ASSUME NEW S, NEW line \in Seq(S), NEW a \in 1 .. Len(line) + 1, NEW z \in a - 1 .. Len(line), NEW c
  PROVE  SplitsAt(line, a, z, c)
<1> DEFINE t == SubSeq(line, a, z)
           k == z - a + 1
           at == Positions(t, c)
           q == Len(at)
           m == q + 1
           E == Edges(at, k)
           B == [n \in 0 .. m |-> E[n] + a - 1]
<1>0. Len(line) \in Nat /\ a \in Int /\ z \in Int /\ 1 <= a /\ a - 1 <= z /\ z <= Len(line)
  <2> DEFINE L == Len(line)
  <2>1. L \in Nat /\ a \in 1 .. L + 1 /\ z \in a - 1 .. L
    OBVIOUS
  <2> HIDE DEF L
  <2>2. L \in Nat /\ a \in Int /\ z \in Int /\ 1 <= a /\ a - 1 <= z /\ z <= L
    BY <2>1
  <2> QED BY <2>2 DEF L
<1>1. PartOf(t, line, a, z, S)
  BY SubParts
<1>2. t \in Seq(S) /\ Len(t) = k /\ k \in Nat /\ \A j \in 1 .. k : t[j] = line[a + j - 1]
  BY <1>1 DEF PartOf
<1> HIDE DEF t
<1>3. Marks(at, t, c, k)
  BY <1>2, PositionsMark
<1>4. Cuts(E, m, t, 1, k, c) /\ q \in Nat
  <2>1. at \in Seq(1 .. k)
    BY <1>3 DEF Marks
  <2>2. Cuts(Edges(at, k), Len(at) + 1, t, 1, k, c)
    BY ONLY <1>2, <1>3, EdgesCut
  <2>3. Len(at) \in Nat
    BY ONLY <2>1
  <2> QED BY <2>2, <2>3
<1>x. \A n \in 0 .. m : E[n] = IF n = 0 THEN 0 ELSE IF n = q + 1 THEN k + 1 ELSE at[n]
  BY DEF Edges
<1>y. Pieces(t, c) = [n \in 1 .. q + 1 |-> SubSeq(t, IF n = 1 THEN 1 ELSE at[n - 1] + 1,
                                                     IF n = q + 1 THEN Len(t) ELSE at[n] - 1)]
  BY DEF Pieces
<1> HIDE DEF at, q, E
<1>5. /\ m \in Nat /\ m # 0
      /\ \A n \in 0 .. m : E[n] \in Int /\ 0 <= E[n] /\ E[n] <= k + 1
      /\ E[0] = 0 /\ E[m] = k + 1
      /\ \A n \in 1 .. m : E[n - 1] < E[n]
      /\ \A n \in 1 .. m - 1 : t[E[n]] = c
      /\ \A n \in 1 .. m : \A j \in E[n - 1] + 1 .. E[n] - 1 : t[j] # c
  <2> HIDE DEF k, m
  <2>1. 1 - 1 = 0
    OBVIOUS
  <2> QED BY ONLY <1>4, <2>1 DEF Cuts
<1>6. /\ B = [n \in 0 .. m |-> B[n]] /\ \A n \in 0 .. m : B[n] = E[n] + a - 1
  OBVIOUS
<1> HIDE DEF B, m
<1>7. \A n \in 1 .. m : n \in 0 .. m /\ n - 1 \in 0 .. m
  BY <1>5
<1>8. \A n \in 0 .. m : B[n] \in Int /\ a - 1 <= B[n] /\ B[n] <= z + 1
  <2> SUFFICES ASSUME NEW n \in 0 .. m PROVE B[n] \in Int /\ a - 1 <= B[n] /\ B[n] <= z + 1
    OBVIOUS
  <2>1. B[n] = E[n] + a - 1 /\ E[n] \in Int /\ 0 <= E[n] /\ E[n] <= k + 1
    BY <1>5, <1>6
  <2> QED BY ONLY <2>1, <1>0
<1>9. B[0] = a - 1 /\ B[m] = z + 1
  <2>1. 0 \in 0 .. m /\ m \in 0 .. m
    BY <1>5
  <2>2. B[0] = 0 + a - 1 /\ B[m] = k + 1 + a - 1
    BY <2>1, <1>5, <1>6
  <2> QED BY ONLY <2>2, <1>0
<1>10. ASSUME NEW n \in 1 .. m PROVE B[n - 1] < B[n]
  <2>1. /\ B[n] = E[n] + a - 1 /\ B[n - 1] = E[n - 1] + a - 1
        /\ E[n] \in Int /\ E[n - 1] \in Int /\ E[n - 1] < E[n]
    BY <1>5, <1>6, <1>7
  <2> QED BY ONLY <2>1, <1>0
<1>11. ASSUME NEW n \in 1 .. m - 1 PROVE line[B[n]] = c
  <2>1. n \in 1 .. m /\ n - 1 \in 0 .. m /\ n \in 0 .. m /\ n + 1 \in 1 .. m /\ n + 1 - 1 = n /\ n + 1 \in 0 .. m
    BY <1>5
  <2>2. E[n - 1] < E[n] /\ E[n] < E[n + 1]
    BY <2>1, <1>5
  <2>3. E[n] \in Int /\ 0 <= E[n - 1] /\ E[n + 1] <= k + 1 /\ E[n - 1] \in Int /\ E[n + 1] \in Int
    BY <2>1, <1>5
  <2>4. E[n] \in 1 .. k
    BY ONLY <2>2, <2>3, <1>0
  <2>5. t[E[n]] = line[a + E[n] - 1]
    BY <2>4, <1>2
  <2>6. B[n] = a + E[n] - 1
    <3>1. B[n] = E[n] + a - 1
      BY <2>1, <1>6
    <3> DEFINE u == E[n]
               v == B[n]
    <3>2. v = u + a - 1 /\ u \in Int
      BY <2>3, <3>1
    <3> HIDE DEF u, v
    <3>3. v = a + u - 1
      BY ONLY <3>2, <1>0
    <3> QED BY <3>3 DEF u, v
  <2> QED BY <2>5, <2>6, <1>5
<1>12. ASSUME NEW n \in 1 .. m, NEW j \in B[n - 1] + 1 .. B[n] - 1 PROVE line[j] # c
  <2>1. /\ B[n] = E[n] + a - 1 /\ B[n - 1] = E[n - 1] + a - 1
        /\ E[n] \in Int /\ E[n - 1] \in Int /\ 0 <= E[n - 1] /\ E[n] <= k + 1
        /\ j \in B[n - 1] + 1 .. B[n] - 1
    BY <1>5, <1>6, <1>7
  <2>2. j - a + 1 \in E[n - 1] + 1 .. E[n] - 1 /\ j - a + 1 \in 1 .. k /\ a + (j - a + 1) - 1 = j
    <3> DEFINE u == E[n - 1]
               v == E[n]
    <3>1. u \in Int /\ v \in Int /\ 0 <= u /\ v <= z - a + 1 + 1 /\ j \in (u + a - 1) + 1 .. (v + a - 1) - 1
      BY <2>1
    <3> HIDE DEF u, v
    <3>2. j - a + 1 \in u + 1 .. v - 1 /\ j - a + 1 \in 1 .. z - a + 1 /\ a + (j - a + 1) - 1 = j
      BY ONLY <3>1, <1>0
    <3> QED BY <3>2 DEF u, v
  <2>3. t[j - a + 1] # c /\ t[j - a + 1] = line[a + (j - a + 1) - 1]
    BY <2>2, <1>2, <1>5
  <2> QED BY <2>2, <2>3
<1>13. Cuts(B, m, line, a, z, c)
  BY <1>5, <1>6, <1>8, <1>9, <1>10, <1>11, <1>12 DEF Cuts
<1>14. ASSUME NEW n \in 1 .. m
       PROVE  SubSeq(t, IF n = 1 THEN 1 ELSE at[n - 1] + 1, IF n = q + 1 THEN Len(t) ELSE at[n] - 1) = Piece(line, B, n)
  <2> DEFINE i == E[n - 1] + 1
             j == E[n] - 1
  <2>0. m = q + 1 /\ q \in Nat
    BY <1>4 DEF m
  <2>1. /\ E[n] \in Int /\ E[n - 1] \in Int /\ 0 <= E[n - 1] /\ E[n] <= k + 1 /\ E[n - 1] < E[n]
    BY <1>5, <1>7
  <2>2. i \in 1 .. z - a + 2 /\ j \in i - 1 .. z - a + 1
    <3> DEFINE u == E[n - 1]
               v == E[n]
    <3>1. u \in Int /\ v \in Int /\ 0 <= u /\ v <= z - a + 1 + 1 /\ u < v
      BY <2>1
    <3> HIDE DEF u, v
    <3>2. u + 1 \in 1 .. z - a + 2 /\ v - 1 \in (u + 1) - 1 .. z - a + 1
      BY ONLY <3>1, <1>0
    <3> QED BY <3>2 DEF u, v
  <2>3. SubSeq(t, i, j) = SubSeq(line, a + i - 1, a + j - 1)
    <3>1. line \in Seq(S) /\ a \in 1 .. Len(line) + 1 /\ z \in a - 1 .. Len(line)
      OBVIOUS
    <3> HIDE DEF i, j
    <3>2. SubSeq(SubSeq(line, a, z), i, j) = SubSeq(line, a + i - 1, a + j - 1)
      BY ONLY <3>1, <2>2, SubSub
    <3> QED BY <3>2 DEF t
  <2>4. a + i - 1 = B[n - 1] + 1 /\ a + j - 1 = B[n] - 1
    <3>1. B[n] = E[n] + a - 1 /\ B[n - 1] = E[n - 1] + a - 1
      BY <1>6, <1>7
    <3> DEFINE u == E[n - 1]
               v == E[n]
               x == B[n - 1]
               y == B[n]
    <3>2. u \in Int /\ v \in Int /\ y = v + a - 1 /\ x = u + a - 1
      BY <2>1, <3>1
    <3> HIDE DEF u, v, x, y
    <3>3. a + (u + 1) - 1 = x + 1 /\ a + (v - 1) - 1 = y - 1
      BY ONLY <3>2, <1>0
    <3> QED BY <3>3 DEF u, v, x, y
  <2>5. i = IF n = 1 THEN 1 ELSE at[n - 1] + 1
    <3>1. E[n - 1] = IF n - 1 = 0 THEN 0 ELSE IF n - 1 = q + 1 THEN k + 1 ELSE at[n - 1]
      BY <1>x, <1>7
    <3>2. (n - 1 = 0 <=> n = 1) /\ n - 1 # q + 1
      BY <2>0
    <3> QED BY ONLY <3>1, <3>2
  <2>6. j = IF n = q + 1 THEN Len(t) ELSE at[n] - 1
    <3>1. E[n] = IF n = 0 THEN 0 ELSE IF n = q + 1 THEN k + 1 ELSE at[n]
      BY <1>x, <1>7
    <3>2. n # 0 /\ k + 1 - 1 = k /\ Len(t) = k
      BY <1>2
    <3> QED BY ONLY <3>1, <3>2
  <2> HIDE DEF i, j
  <2> QED BY <2>3, <2>4, <2>5, <2>6 DEF Piece
<1>15. Pieces(t, c) = [n \in 1 .. m |-> Piece(line, B, n)]
  <2>1. m = q + 1
    BY DEF m
  <2> QED BY <2>1, <1>y, <1>14
<1> QED BY <1>13, <1>15 DEF t, SplitsAt

-----------------------------------------------------------------------------
(* ... the loop over options, ...                                            *)

\* The loop over options before it has read anything of an option.
Fresh(options) == [o |-> NoOption, options |-> options, at |-> 0, error |-> "NONE"]

\* f[k] is the state of the loop over options after position k.
OptionsProceed(f, line) ==
  /\ f[1] = Fresh(<< >>)
  /\ \A k \in 2 .. Len(line) + 1 :
       f[k] = IF f[k - 1].at # 0 \/ f[k - 1].error # "NONE" THEN f[k - 1] ELSE ScanOption(f[k - 1], line, k)

\* The loop over options, unfolded.
LEMMA OptionsStep ==
  ASSUME NEW S, NEW line \in Seq(S)
  PROVE  OptionsProceed(OptionStates(line), line)
<1> DEFINE m == Len(line)
           Step(f, k) == IF k = 1 THEN Fresh(<< >>)
                         ELSE IF f[k - 1].at # 0 \/ f[k - 1].error # "NONE" THEN f[k - 1]
                         ELSE ScanOption(f[k - 1], line, k)
           st == CHOOSE f : f = [k \in 1 .. m + 1 |-> Step(f, k)]
           T == {n \in Nat : \E f : f = [k \in 1 .. n + 1 |-> Step(f, k)]}
<1>0. m \in Nat
  OBVIOUS
<1>1. OptionStates(line) = st
  BY Zenon DEF OptionStates, Fresh
<1>2. 0 \in T
  <2> DEFINE f == [k \in 1 .. 0 + 1 |-> Fresh(<< >>)]
  <2>1. \A k \in 1 .. 0 + 1 : k = 1
    OBVIOUS
  <2>2. \A k \in 1 .. 0 + 1 : Step(f, k) = Fresh(<< >>)
    BY <2>1
  <2>3. f = [k \in 1 .. 0 + 1 |-> Step(f, k)]
    <3> HIDE DEF Step
    <3> QED BY <2>2
  <2> QED BY <2>3
<1>3. ASSUME NEW n \in Nat, n \in T PROVE n + 1 \in T
  <2>1. PICK f : f = [k \in 1 .. n + 1 |-> Step(f, k)]
    BY <1>3
  <2> DEFINE g == [k \in 1 .. n + 1 + 1 |-> IF k <= n + 1 THEN f[k] ELSE Step(f, n + 2)]
  <2>2. ASSUME NEW k \in 1 .. n + 1 + 1 PROVE g[k] = Step(g, k)
    <3>1. CASE k = 1
      <4>1. g[k] = f[1] /\ 1 \in 1 .. n + 1
        BY <3>1
      <4>2. f[1] = Step(f, 1)
        <5> HIDE DEF Step
        <5> QED BY <2>1, <4>1
      <4> QED BY <3>1, <4>1, <4>2
    <3>2. CASE k # 1 /\ k <= n + 1
      <4>1. k \in 1 .. n + 1 /\ k - 1 \in 1 .. n + 1 + 1 /\ k - 1 <= n + 1
        BY <3>2
      <4>2. g[k] = f[k] /\ g[k - 1] = f[k - 1]
        BY <3>2, <4>1
      <4>3. f[k] = Step(f, k)
        <5> HIDE DEF Step
        <5> QED BY <2>1, <4>1
      <4> HIDE DEF g
      <4>4. Step(g, k) = Step(f, k)
        BY <4>2, Zenon
      <4> QED BY <4>2, <4>3, <4>4
    <3>3. CASE k = n + 2
      <4>1. g[k] = Step(f, n + 2)
        <5> HIDE DEF Step
        <5> QED BY <3>3
      <4>2. n + 1 \in 1 .. n + 1 + 1 /\ k - 1 = n + 1 /\ (n + 2) - 1 = n + 1
        BY <3>3
      <4>3. g[k - 1] = f[(n + 2) - 1]
        BY <4>2
      <4> HIDE DEF g
      <4>4. Step(g, k) = Step(f, n + 2)
        BY <4>2, <4>3, <3>3, Zenon
      <4> QED BY <4>1, <4>4
    <3>4. k = n + 2 \/ k <= n + 1
      OBVIOUS
    <3> QED BY <3>1, <3>2, <3>3, <3>4
  <2>3. g = [k \in 1 .. n + 1 + 1 |-> g[k]]
    OBVIOUS
  <2> HIDE DEF g, Step
  <2>4. g = [k \in 1 .. n + 1 + 1 |-> Step(g, k)]
    BY <2>2, <2>3
  <2> QED BY <2>4
<1>4. m \in T
  <2> HIDE DEF T
  <2> QED BY <1>0, <1>2, <1>3, AllNaturals
<1>5. st = [k \in 1 .. m + 1 |-> Step(st, k)]
  <2> HIDE DEF Step
  <2> QED BY <1>4
<1> HIDE DEF st, m
<1>6. st[1] = Fresh(<< >>)
  <2>1. 1 \in 1 .. m + 1
    BY <1>0
  <2>2. st[1] = Step(st, 1)
    <3> HIDE DEF Step
    <3> QED BY <1>5, <2>1
  <2> QED BY <2>2
<1>7. ASSUME NEW k \in 2 .. m + 1
      PROVE  st[k] = IF st[k - 1].at # 0 \/ st[k - 1].error # "NONE" THEN st[k - 1] ELSE ScanOption(st[k - 1], line, k)
  <2>1. k \in 1 .. m + 1 /\ k # 1
    BY <1>0
  <2>2. st[k] = Step(st, k)
    <3> HIDE DEF Step
    <3> QED BY <1>5, <2>1
  <2> QED BY <2>1, <2>2
<1>8. OptionsProceed(st, line)
  BY <1>6, <1>7 DEF OptionsProceed, m
<1> QED BY <1>1, <1>8

\* Once the loop is done or has failed its state stays.
LEMMA OptionsStay ==
  ASSUME NEW S, NEW line \in Seq(S), NEW f, OptionsProceed(f, line), NEW k \in 1 .. Len(line) + 1,
         f[k].at # 0 \/ f[k].error # "NONE"
  PROVE  f[Len(line) + 1] = f[k]
<1> DEFINE L == Len(line)
           G == {n \in Nat : k + n <= L + 1 => f[k + n] = f[k]}
<1>1. L \in Nat /\ k \in Nat /\ 1 <= k /\ k <= L + 1
  <2>1. L \in Nat /\ k \in 1 .. L + 1
    OBVIOUS
  <2> HIDE DEF L
  <2> QED BY <2>1
<1>2. \A j \in 2 .. L + 1 : f[j] = IF f[j - 1].at # 0 \/ f[j - 1].error # "NONE" THEN f[j - 1] ELSE ScanOption(f[j - 1], line, j)
  BY DEF OptionsProceed
<1> HIDE DEF L
<1>3. 0 \in G
  BY <1>1
<1>4. ASSUME NEW n \in Nat, n \in G PROVE n + 1 \in G
  <2> SUFFICES ASSUME k + (n + 1) <= L + 1 PROVE f[k + (n + 1)] = f[k]
    OBVIOUS
  <2>1. f[k + n] = f[k]
    BY <1>1, <1>4
  <2>2. k + (n + 1) \in 2 .. L + 1 /\ k + (n + 1) - 1 = k + n
    BY <1>1
  <2> QED BY <2>1, <2>2, <1>2
<1>5. L + 1 - k \in G /\ k + (L + 1 - k) = L + 1 /\ L + 1 - k \in Nat
  <2>1. L + 1 - k \in Nat /\ k + (L + 1 - k) = L + 1
    BY <1>1
  <2> HIDE DEF G
  <2> QED BY <2>1, <1>3, <1>4, AllNaturals
<1> QED BY <1>1, <1>5 DEF L

\* The first "=" behind the first character of a piece.
LEMMA KeyEndIs ==
  ASSUME NEW p, KeyEnds(p) # {}, Len(p) \in Nat
  PROVE  /\ KeyEnd(p) \in 2 .. Len(p) /\ KeyEnd(p) \in Nat /\ p[KeyEnd(p)] = "="
         /\ \A j \in 2 .. Len(p) : p[j] = "=" => KeyEnd(p) <= j
<1>1. KeyEnds(p) \subseteq Nat
  BY DEF KeyEnds
<1>2. \E k \in KeyEnds(p) : \A j \in KeyEnds(p) : k <= j
  BY <1>1, Smallest
<1>3. KeyEnd(p) \in KeyEnds(p) /\ \A j \in KeyEnds(p) : KeyEnd(p) <= j
  <2> DEFINE P(k) == \A j \in KeyEnds(p) : k <= j
  <2>1. KeyEnd(p) = CHOOSE k \in KeyEnds(p) : P(k)
    BY DEF KeyEnd
  <2>2. \E k \in KeyEnds(p) : P(k)
    BY <1>2
  <2> HIDE DEF P
  <2>3. KeyEnd(p) \in KeyEnds(p) /\ P(KeyEnd(p))
    BY <2>1, <2>2
  <2> QED BY <2>3 DEF P
<1> QED BY <1>3 DEF KeyEnds

\* p are the n characters of line behind position b, none of which ends an option.
Reads(line, b, n, p) ==
  /\ b \in Nat /\ 1 <= b /\ n \in Nat /\ Len(line) \in Nat /\ b + n <= Len(line) /\ Len(p) = n
  /\ \A j \in 1 .. n : p[j] = line[b + j] /\ p[j] # ";" /\ p[j] # " "

\* The key of p ends among its first j characters.
Found(p, j) == KeyEnds(p) # {} /\ KeyEnd(p) <= j

\* What the loop knows of the option p behind position b after j characters of it.
Known(p, b, j) ==
  IF j = 0 THEN NoOption
  ELSE [key |-> b + 1,
        length |-> IF Found(p, j) THEN KeyEnd(p) - 1 ELSE 0,
        value |-> IF Found(p, j) /\ KeyEnd(p) < j THEN b + KeyEnd(p) + 1 ELSE 0]

\* What the loop knows after a character that ends no option.
Learns(o, line, k) ==
  IF EndOfKey(o, line[k]) THEN [Noted(o, k) EXCEPT !.length = k - Noted(o, k).key] ELSE Noted(o, k)

\* Where the key of a piece ends, if the piece has one.
LEMMA KeyEndOf ==
  ASSUME NEW line, NEW b, NEW n, NEW p, Reads(line, b, n, p), KeyEnds(p) # {}
  PROVE  /\ KeyEnd(p) \in Nat /\ 2 <= KeyEnd(p) /\ KeyEnd(p) <= n /\ p[KeyEnd(p)] = "="
         /\ \A j \in 2 .. n : p[j] = "=" => KeyEnd(p) <= j
<1>1. n \in Nat /\ Len(p) = n
  BY DEF Reads
<1>2. /\ KeyEnd(p) \in 2 .. n /\ KeyEnd(p) \in Nat /\ p[KeyEnd(p)] = "="
      /\ \A j \in 2 .. n : p[j] = "=" => KeyEnd(p) <= j
  BY <1>1, KeyEndIs
<1>3. 2 <= KeyEnd(p) /\ KeyEnd(p) <= n
  BY ONLY <1>1, <1>2
<1> QED BY <1>2, <1>3

\* One character of a piece more is known of the option.
LEMMA KnownStep ==
  ASSUME NEW line, NEW b, NEW n, NEW p, Reads(line, b, n, p), NEW j \in Nat, j + 1 <= n
  PROVE  Learns(Known(p, b, j), line, b + j + 1) = Known(p, b, j + 1)
<1> DEFINE k == b + j + 1
           K == KeyEnd(p)
           c == line[k]
           o == Known(p, b, j)
<1>1. b \in Nat /\ n \in Nat /\ Len(p) = n
  BY DEF Reads
<1>2. j + 1 \in 1 .. n /\ b + (j + 1) = k
  BY <1>1
<1>3. p[j + 1] = c
  <2>1. p[j + 1] = line[b + (j + 1)]
    BY <1>2 DEF Reads
  <2> QED BY <2>1, <1>2
<1>4. KeyEnds(p) # {} => /\ K \in Nat /\ 2 <= K /\ K <= n /\ p[K] = "="
                         /\ \A i \in 2 .. n : p[i] = "=" => K <= i
  BY KeyEndOf
<1>5. KeyEnds(p) = {i \in 2 .. n : p[i] = "="}
  BY <1>1 DEF KeyEnds
<1> HIDE DEF K, c
<1>6. CASE j = 0
  <2>1. o = NoOption
    BY <1>6 DEF Known
  <2>2. Noted(o, k) = [key |-> k, length |-> 0, value |-> 0]
    BY <2>1 DEF Noted, NoOption
  <2>3. Learns(o, line, k) = [key |-> k, length |-> 0, value |-> 0]
    <3>1. k - k = 0
      BY <1>1
    <3> HIDE DEF k, o
    <3> QED BY <2>2, <3>1 DEF Learns
  <2>4. ~Found(p, j + 1)
    BY <1>4, <1>6 DEF Found, K
  <2>5. Known(p, b, j + 1) = [key |-> b + 1, length |-> 0, value |-> 0]
    <3>1. j + 1 # 0
      BY <1>6
    <3> QED BY ONLY <3>1, <2>4 DEF Known
  <2>6. k = b + 1
    BY <1>1, <1>6
  <2> QED BY <2>3, <2>5, <2>6
<1>7. CASE j # 0 /\ Found(p, j)
  <2>1. KeyEnds(p) # {} /\ K <= j
    BY <1>7 DEF Found, K
  <2>2. K \in Nat /\ 2 <= K
    BY <1>4, <2>1
  <2>3. o = [key |-> b + 1, length |-> K - 1, value |-> IF K < j THEN b + K + 1 ELSE 0]
    BY ONLY <1>7 DEF Known, K
  <2>4. Noted(o, k) = [key |-> b + 1, length |-> K - 1, value |-> b + K + 1]
    <3>1. b + 1 # 0 /\ K - 1 # 0 /\ b + K + 1 # 0
      BY <1>1, <2>2
    <3>2. CASE K < j
      <4>1. o.key = b + 1 /\ o.length = K - 1 /\ o.value = b + K + 1
        BY ONLY <3>2, <2>3
      <4> HIDE DEF k, o
      <4> QED BY ONLY <4>1, <3>1 DEF Noted
    <3>3. CASE ~(K < j)
      <4>1. o.key = b + 1 /\ o.length = K - 1 /\ o.value = 0
        BY ONLY <3>3, <2>3
      <4>2. K = j /\ k = b + K + 1
        BY <1>1, <2>1, <2>2, <3>3
      <4> HIDE DEF k, o
      <4> QED BY ONLY <4>1, <4>2, <3>1 DEF Noted
    <3> QED BY <3>2, <3>3
  <2>5. o.length # 0
    <3>1. o.length = K - 1
      BY ONLY <2>3
    <3> HIDE DEF o
    <3> QED BY <3>1, <2>2
  <2>6. Learns(o, line, k) = [key |-> b + 1, length |-> K - 1, value |-> b + K + 1]
    <3> HIDE DEF k, o
    <3> QED BY ONLY <2>4, <2>5 DEF Learns, EndOfKey
  <2>7. K <= j + 1 /\ K < j + 1 /\ j + 1 # 0
    BY <2>1, <2>2
  <2>8. Found(p, j + 1)
    BY <2>1, <2>7 DEF Found, K
  <2>9. Known(p, b, j + 1) = [key |-> b + 1, length |-> K - 1, value |-> b + K + 1]
    BY ONLY <2>7, <2>8 DEF Known, K
  <2> QED BY <2>6, <2>9
<1>8. CASE j # 0 /\ ~Found(p, j)
  <2>1. o = [key |-> b + 1, length |-> 0, value |-> 0]
    BY ONLY <1>8 DEF Known
  <2>2. o.key = b + 1 /\ o.length = 0 /\ o.value = 0
    BY ONLY <2>1
  <2>3. Noted(o, k) = [key |-> b + 1, length |-> 0, value |-> 0]
    <3>1. b + 1 # 0
      BY <1>1
    <3> HIDE DEF k, o
    <3> QED BY ONLY <2>2, <3>1 DEF Noted
  <2>4. j + 1 # 0 /\ j + 1 \in 2 .. n
    BY <1>1, <1>8
  <2>5. CASE c = "="
    <3>1. j + 1 \in KeyEnds(p)
      BY <1>3, <1>5, <2>4, <2>5
    <3>2. KeyEnds(p) # {} /\ K <= j + 1 /\ K \in Nat
      BY <3>1, <1>3, <1>4, <2>4, <2>5
    <3>3. ~(K <= j)
      BY <1>8, <3>2 DEF Found, K
    <3>4. K = j + 1 /\ ~(K < j + 1)
      BY <3>2, <3>3
    <3>5. Known(p, b, j + 1) = [key |-> b + 1, length |-> K - 1, value |-> 0]
      <4>1. Found(p, j + 1)
        BY <3>2 DEF Found, K
      <4> QED BY ONLY <4>1, <3>4, <2>4 DEF Known, K
    <3>6. Learns(o, line, k) = [key |-> b + 1, length |-> k - (b + 1), value |-> 0]
      <4> HIDE DEF k, o
      <4> QED BY ONLY <2>2, <2>3, <2>5 DEF Learns, EndOfKey, c
    <3>7. k - (b + 1) = K - 1
      BY <1>1, <3>4
    <3> QED BY <3>5, <3>6, <3>7
  <2>6. CASE c # "="
    <3>1. ~Found(p, j + 1)
      <4> SUFFICES ASSUME Found(p, j + 1) PROVE FALSE
        OBVIOUS
      <4>1. KeyEnds(p) # {} /\ K <= j + 1
        BY DEF Found, K
      <4>2. K \in Nat /\ p[K] = "="
        BY <4>1, <1>4
      <4>3. ~(K <= j)
        BY <4>1, <1>8 DEF Found, K
      <4>4. K = j + 1
        BY <4>1, <4>2, <4>3
      <4> QED BY <4>2, <4>4, <1>3, <2>6
    <3>2. Known(p, b, j + 1) = [key |-> b + 1, length |-> 0, value |-> 0]
      BY ONLY <2>4, <3>1 DEF Known
    <3>3. Learns(o, line, k) = Noted(o, k)
      <4> HIDE DEF k, o
      <4> QED BY ONLY <2>6 DEF Learns, EndOfKey, c
    <3> QED BY <3>2, <3>3, <2>3
  <2> QED BY <2>5, <2>6
<1> QED BY <1>6, <1>7, <1>8

\* A round of the loop inside an option.
LEMMA ScanInside ==
  ASSUME NEW u, NEW options, NEW line, NEW k, k # Len(line) + 1, line[k] # ";", line[k] # " "
  PROVE  ScanOption([o |-> u, options |-> options, at |-> 0, error |-> "NONE"], line, k)
           = [o |-> Learns(u, line, k), options |-> options, at |-> 0, error |-> "NONE"]
<1> DEFINE st == [o |-> u, options |-> options, at |-> 0, error |-> "NONE"]
           x == Learns(u, line, k)
<1>1. st.o = u
  OBVIOUS
<1>2. [st EXCEPT !.o = x] = [o |-> x, options |-> options, at |-> 0, error |-> "NONE"]
  <2> HIDE DEF x
  <2> QED BY ONLY SMT
<1> HIDE DEF st
<1>3. ScanOption(st, line, k) = [st EXCEPT !.o = Learns(u, line, k)]
  BY <1>1, Zenon DEF ScanOption, Learns
<1> QED BY <1>2, <1>3 DEF st

\* The loop inside an option.
LEMMA PieceStates ==
  ASSUME NEW line, NEW b, NEW n, NEW p, Reads(line, b, n, p), NEW f, OptionsProceed(f, line), NEW options,
         f[b] = Fresh(options)
  PROVE  f[b + n] = [o |-> Known(p, b, n), options |-> options, at |-> 0, error |-> "NONE"]
<1> DEFINE L == Len(line)
           State(j) == [o |-> Known(p, b, j), options |-> options, at |-> 0, error |-> "NONE"]
           G == {j \in Nat : j <= n => f[b + j] = State(j)}
<1>1. b \in Nat /\ 1 <= b /\ n \in Nat /\ L \in Nat /\ b + n <= L
  BY DEF Reads
<1> HIDE DEF L
<1>2. 0 \in G
  <2>1. b + 0 = b
    BY <1>1
  <2>2. f[b] = State(0)
    BY DEF Fresh, Known
  <2> HIDE DEF State
  <2> QED BY <2>1, <2>2
<1>3. ASSUME NEW j \in Nat, j \in G PROVE j + 1 \in G
  <2> SUFFICES ASSUME j + 1 <= n PROVE f[b + (j + 1)] = State(j + 1)
    OBVIOUS
  <2> DEFINE k == b + j + 1
  <2>1. f[b + j] = State(j)
    <3> HIDE DEF State
    <3> QED BY <1>1, <1>3
  <2>2. k \in 2 .. L + 1 /\ k - 1 = b + j /\ b + (j + 1) = k /\ k # L + 1 /\ j + 1 \in 1 .. n
    BY <1>1
  <2>3. State(j).at = 0 /\ State(j).error = "NONE"
    OBVIOUS
  <2>4. f[k] = ScanOption(State(j), line, k)
    <3>1. f[k] = IF f[k - 1].at # 0 \/ f[k - 1].error # "NONE" THEN f[k - 1] ELSE ScanOption(f[k - 1], line, k)
      BY <2>2 DEF OptionsProceed, L
    <3> HIDE DEF State
    <3> QED BY <3>1, <2>1, <2>2, <2>3
  <2>5. line[k] # ";" /\ line[k] # " "
    BY <2>2 DEF Reads
  <2>6. ScanOption(State(j), line, k)
          = [o |-> Learns(Known(p, b, j), line, k), options |-> options, at |-> 0, error |-> "NONE"]
    <3>1. k # Len(line) + 1
      BY <2>2 DEF L
    <3> HIDE DEF k
    <3> QED BY <2>5, <3>1, ScanInside
  <2>7. Learns(Known(p, b, j), line, k) = Known(p, b, j + 1)
    BY KnownStep
  <2>8. f[k] = State(j + 1)
    <3> HIDE DEF k
    <3> QED BY <2>4, <2>6, <2>7
  <2> HIDE DEF State, k
  <2> QED BY <2>2, <2>8
<1>4. n \in G
  <2> HIDE DEF G
  <2> QED BY <1>1, <1>2, <1>3, AllNaturals
<1> HIDE DEF State
<1>5. f[b + n] = State(n)
  BY <1>1, <1>4
<1> QED BY <1>5 DEF State

\* What is known of an option at the position that ends it.
LEMMA EndKnown ==
  ASSUME NEW line, NEW b, NEW n, NEW p, Reads(line, b, n, p)
  PROVE  LET o == Noted(Known(p, b, n), b + n + 1)
         IN  IF KeyEnds(p) = {} THEN o.length = 0
             ELSE o = [key |-> b + 1, length |-> KeyEnd(p) - 1, value |-> b + KeyEnd(p) + 1]
<1> DEFINE k == b + n + 1
           K == KeyEnd(p)
           u == Known(p, b, n)
<1>1. b \in Nat /\ n \in Nat
  BY DEF Reads
<1>2. CASE KeyEnds(p) = {}
  <2>1. ~Found(p, n)
    BY <1>2 DEF Found
  <2>2. u.length = 0
    <3>1. NoOption.length = 0
      BY DEF NoOption
    <3>2. CASE n = 0
      BY <3>1, <3>2 DEF Known
    <3>3. CASE n # 0
      <4>1. u = [key |-> b + 1, length |-> 0, value |-> 0]
        BY ONLY <2>1, <3>3 DEF Known
      <4> QED BY ONLY <4>1
    <3> QED BY <3>2, <3>3
  <2>3. Noted(u, k).length = u.length
    <3> HIDE DEF u, k
    <3> QED BY DEF Noted
  <2> QED BY <1>2, <2>2, <2>3
<1>3. CASE KeyEnds(p) # {}
  <2>1. K \in Nat /\ 2 <= K /\ K <= n
    BY <1>3, KeyEndOf
  <2>2. Found(p, n) /\ n # 0
    BY <1>1, <1>3, <2>1 DEF Found
  <2> HIDE DEF K
  <2>3. u = [key |-> b + 1, length |-> K - 1, value |-> IF K < n THEN b + K + 1 ELSE 0]
    BY ONLY <2>2 DEF Known, K
  <2>4. Noted(u, k) = [key |-> b + 1, length |-> K - 1, value |-> b + K + 1]
    <3>1. b + 1 # 0 /\ K - 1 # 0 /\ b + K + 1 # 0
      BY <1>1, <2>1
    <3>2. CASE K < n
      <4>1. u.key = b + 1 /\ u.length = K - 1 /\ u.value = b + K + 1
        BY ONLY <3>2, <2>3
      <4> HIDE DEF k, u
      <4> QED BY ONLY <4>1, <3>1 DEF Noted
    <3>3. CASE ~(K < n)
      <4>1. u.key = b + 1 /\ u.length = K - 1 /\ u.value = 0
        BY ONLY <3>3, <2>3
      <4>2. k = b + K + 1
        BY <1>1, <2>1, <3>3
      <4> HIDE DEF k, u
      <4> QED BY ONLY <4>1, <4>2, <3>1 DEF Noted
    <3> QED BY <3>2, <3>3
  <2> QED BY <1>3, <2>4 DEF K
<1> QED BY <1>2, <1>3

\* An option ends at position k.
EndsAt(line, k) == k = Len(line) + 1 \/ line[k] = " " \/ line[k] = ";"

\* Where parameters start after an option that ends at k, 0 if options go on.
After(line, k) == IF k = Len(line) + 1 THEN k ELSE IF line[k] = " " THEN k + 1 ELSE 0

\* The state of the loop after an option is added.
Added(st, x, y, a) == [st EXCEPT !.o = x, !.options = y, !.at = a]

\* The record of the loop over options, with new fields.
LEMMA OptionAdded ==
  ASSUME NEW u, NEW v, NEW x, NEW y, NEW a, NEW st, st = [o |-> u, options |-> v, at |-> 0, error |-> "NONE"]
  PROVE  Added(st, x, y, a) = [o |-> x, options |-> y, at |-> a, error |-> "NONE"]
<1> DEFINE w == [o |-> x, options |-> y, at |-> a, error |-> "NONE"]
           D == {"o", "options", "at", "error"}
           New(d) == IF d = "at" THEN a ELSE IF d = "options" THEN y ELSE IF d = "o" THEN x ELSE st[d]
<1>1. DOMAIN st = D /\ DOMAIN w = D /\ st = [d \in D |-> st[d]] /\ w = [d \in D |-> w[d]]
  OBVIOUS
<1>2. \A d \in D : w[d] = New(d)
  OBVIOUS
<1> HIDE DEF w
<1>3. Added(st, x, y, a) = [d \in D |-> New(d)]
  BY ONLY <1>1 DEF Added
<1> HIDE DEF D, New
<1> QED BY ONLY <1>1, <1>2, <1>3 DEF w

\* A round of the loop at the end of an option.
LEMMA ScanEnds ==
  ASSUME NEW u, NEW options, NEW line, NEW k, EndsAt(line, k)
  PROVE  LET o == Noted(u, k)
             st == [o |-> u, options |-> options, at |-> 0, error |-> "NONE"]
         IN  /\ ~OptionEnds(o) => ScanOption(st, line, k).error = "INVALID_SYNTAX"
             /\ OptionEnds(o) /\ ~DuplicateOption(line, o.key, options) =>
                  ScanOption(st, line, k)
                    = [o |-> NoOption,
                       options |-> Append(options, [name |-> SubSeq(line, o.key, o.key + o.length - 1),
                                                    value |-> SubSeq(line, o.value, k - 1)]),
                       at |-> After(line, k), error |-> "NONE"]
<1> DEFINE st == [o |-> u, options |-> options, at |-> 0, error |-> "NONE"]
           o == Noted(u, k)
           option == [name |-> SubSeq(line, o.key, o.key + o.length - 1), value |-> SubSeq(line, o.value, k - 1)]
           a == After(line, k)
<1>1. st.o = u /\ st.options = options
  OBVIOUS
<1>2. [st EXCEPT !.error = "INVALID_SYNTAX"].error = "INVALID_SYNTAX"
  OBVIOUS
<1>3. [st EXCEPT !.o = NoOption, !.options = Append(@, option), !.at = a]
        = [o |-> NoOption, options |-> Append(options, option), at |-> a, error |-> "NONE"]
  <2> DEFINE y == Append(options, option)
  <2>1. [st EXCEPT !.o = NoOption, !.options = y, !.at = a]
          = [o |-> NoOption, options |-> y, at |-> a, error |-> "NONE"]
    <3> HIDE DEF y, a
    <3>1. st = [o |-> u, options |-> options, at |-> 0, error |-> "NONE"]
      OBVIOUS
    <3> HIDE DEF st
    <3>2. Added(st, NoOption, y, a) = [o |-> NoOption, options |-> y, at |-> a, error |-> "NONE"]
      BY ONLY <3>1, OptionAdded
    <3> QED BY ONLY <3>2 DEF Added
  <2>2. [st EXCEPT !.o = NoOption, !.options = Append(@, option), !.at = a]
          = [st EXCEPT !.o = NoOption, !.options = y, !.at = a]
    <3>1. st.options = options
      BY <1>1
    <3> HIDE DEF option, a, st
    <3> QED BY ONLY <3>1 DEF y
  <2> QED BY <2>1, <2>2
<1> HIDE DEF st
<1>4. ASSUME ~OptionEnds(o) PROVE ScanOption(st, line, k) = [st EXCEPT !.error = "INVALID_SYNTAX"]
  BY <1>1, <1>4, Zenon DEF ScanOption, EndsAt
<1>5. ASSUME OptionEnds(o), ~DuplicateOption(line, o.key, options)
      PROVE  ScanOption(st, line, k) = [st EXCEPT !.o = NoOption, !.options = Append(@, option), !.at = a]
  <2>1. CASE k = Len(line) + 1
    <3>1. a = k
      BY <2>1 DEF After
    <3>2. ScanOption(st, line, k) = [st EXCEPT !.o = NoOption, !.options = Append(@, option), !.at = k]
      BY <1>1, <1>5, <2>1, Zenon DEF ScanOption
    <3> HIDE DEF a, option
    <3> QED BY <3>1, <3>2
  <2>2. CASE k # Len(line) + 1 /\ line[k] = " "
    <3>1. a = k + 1
      BY <2>2 DEF After
    <3>2. ScanOption(st, line, k) = [st EXCEPT !.o = NoOption, !.options = Append(@, option), !.at = k + 1]
      BY <1>1, <1>5, <2>2, Zenon DEF ScanOption
    <3> HIDE DEF a, option
    <3> QED BY <3>1, <3>2
  <2>3. CASE k # Len(line) + 1 /\ line[k] # " "
    <3>1. a = 0
      BY <2>3 DEF After
    <3>2. ScanOption(st, line, k) = [st EXCEPT !.o = NoOption, !.options = Append(@, option), !.at = 0]
      BY <1>1, <1>5, <2>3, Zenon DEF ScanOption, EndsAt
    <3> HIDE DEF a, option
    <3> QED BY <3>1, <3>2
  <2> QED BY <2>1, <2>2, <2>3
<1>6. ~OptionEnds(o) => ScanOption(st, line, k).error = "INVALID_SYNTAX"
  BY <1>2, <1>4
<1>7. OptionEnds(o) /\ ~DuplicateOption(line, o.key, options) =>
        ScanOption(st, line, k) = [o |-> NoOption, options |-> Append(options, option), at |-> a, error |-> "NONE"]
  BY <1>3, <1>5
<1> QED BY <1>6, <1>7 DEF st

\* The name and the value of a piece that is an option.
OptionOf(p) == [name |-> SubSeq(p, 1, KeyEnd(p) - 1), value |-> SubSeq(p, KeyEnd(p) + 1, Len(p))]

\* A name has "=" nowhere but in front.
Plain(w) == Len(w) \in Nat /\ \A j \in 2 .. Len(w) : w[j] # "="
PlainNames(options) == \A n \in 1 .. Len(options) : Plain(options[n].name)

\* The name and the value of an option, as parts of the line.
OptionReads(line, b, n, p) ==
  /\ OptionOf(p) = [name |-> SubSeq(line, b + 1, b + 1 + (KeyEnd(p) - 1) - 1),
                    value |-> SubSeq(line, b + KeyEnd(p) + 1, b + n + 1 - 1)]
  /\ Plain(OptionOf(p).name)
  /\ ~Plain(SubSeq(line, b + 1, Len(line)))

\* Key and value of a piece are the characters before and behind its first
\* equal sign.
LEMMA OptionParts ==
  ASSUME NEW S, NEW line \in Seq(S), NEW b, NEW n, NEW p, Reads(line, b, n, p), p = SubSeq(line, b + 1, b + n),
         KeyEnds(p) # {}
  PROVE  OptionReads(line, b, n, p)
<1> DEFINE K == KeyEnd(p)
           L == Len(line)
           w == SubSeq(p, 1, K - 1)
           r == SubSeq(line, b + 1, L)
<1>1. b \in Nat /\ n \in Nat /\ L \in Nat /\ b + n <= L /\ 1 <= b /\ Len(p) = n
  BY DEF Reads
<1>2. K \in Nat /\ 2 <= K /\ K <= n /\ p[K] = "=" /\ \A j \in 2 .. n : p[j] = "=" => K <= j
  BY KeyEndOf
<1> HIDE DEF L, K
<1>3. b + 1 \in 1 .. L + 1 /\ b + n \in (b + 1) - 1 .. L /\ L \in (b + 1) - 1 .. L
  BY ONLY <1>1
<1>4. SubSeq(p, 1, K - 1) = SubSeq(line, b + 1, b + 1 + (K - 1) - 1)
  <2>1. 1 \in 1 .. (b + n) - (b + 1) + 2 /\ K - 1 \in 1 - 1 .. (b + n) - (b + 1) + 1
    BY ONLY <1>1, <1>2
  <2>2. SubSeq(SubSeq(line, b + 1, b + n), 1, K - 1) = SubSeq(line, (b + 1) + 1 - 1, (b + 1) + (K - 1) - 1)
    <3> DEFINE a == b + 1
               z == b + n
               j == K - 1
    <3>1. /\ line \in Seq(S) /\ a \in 1 .. Len(line) + 1 /\ z \in a - 1 .. Len(line)
          /\ 1 \in 1 .. z - a + 2 /\ j \in 1 - 1 .. z - a + 1
      BY <1>3, <2>1 DEF L
    <3> HIDE DEF a, z, j
    <3>2. SubSeq(SubSeq(line, a, z), 1, j) = SubSeq(line, a + 1 - 1, a + j - 1)
      BY ONLY <3>1, SubSub
    <3> QED BY <3>2 DEF a, z, j
  <2>3. (b + 1) + 1 - 1 = b + 1
    BY ONLY <1>1
  <2> QED BY <2>2, <2>3
<1>5. SubSeq(p, K + 1, Len(p)) = SubSeq(line, b + K + 1, b + n + 1 - 1)
  <2>1. K + 1 \in 1 .. (b + n) - (b + 1) + 2 /\ n \in (K + 1) - 1 .. (b + n) - (b + 1) + 1
    BY ONLY <1>1, <1>2
  <2>2. SubSeq(SubSeq(line, b + 1, b + n), K + 1, n) = SubSeq(line, (b + 1) + (K + 1) - 1, (b + 1) + n - 1)
    <3> DEFINE a == b + 1
               z == b + n
               i == K + 1
    <3>1. /\ line \in Seq(S) /\ a \in 1 .. Len(line) + 1 /\ z \in a - 1 .. Len(line)
          /\ i \in 1 .. z - a + 2 /\ n \in i - 1 .. z - a + 1
      BY <1>3, <2>1 DEF L
    <3> HIDE DEF a, z, i
    <3>2. SubSeq(SubSeq(line, a, z), i, n) = SubSeq(line, a + i - 1, a + n - 1)
      BY ONLY <3>1, SubSub
    <3> QED BY <3>2 DEF a, z, i
  <2>3. (b + 1) + (K + 1) - 1 = b + K + 1 /\ (b + 1) + n - 1 = b + n + 1 - 1
    BY ONLY <1>1, <1>2
  <2> QED BY <2>2, <2>3, <1>1
<1>6. Plain(w)
  <2>1. p \in Seq(S)
    <3>1. PartOf(SubSeq(line, b + 1, b + n), line, b + 1, b + n, S)
      BY <1>3, SubParts DEF L
    <3> QED BY <3>1 DEF PartOf
  <2>2. 1 \in 1 .. Len(p) + 1 /\ K - 1 \in 1 - 1 .. Len(p)
    BY ONLY <1>1, <1>2
  <2>3. PartOf(w, p, 1, K - 1, S)
    BY <2>1, <2>2, SubParts
  <2> HIDE DEF w
  <2>4. Len(w) = (K - 1) - 1 + 1 /\ \A j \in 1 .. (K - 1) - 1 + 1 : w[j] = p[1 + j - 1]
    BY <2>3 DEF PartOf
  <2>5. Len(w) = K - 1 /\ Len(w) \in Nat
    BY ONLY <2>4, <1>2
  <2>6. ASSUME NEW j \in 2 .. Len(w) PROVE w[j] # "="
    <3>1. j \in 1 .. (K - 1) - 1 + 1 /\ 1 + j - 1 = j /\ j \in 2 .. n /\ ~(K <= j)
      BY <2>5, <1>1, <1>2
    <3>2. w[j] = p[j]
      BY <3>1, <2>4
    <3> QED BY <3>1, <3>2, <1>2
  <2> QED BY <2>5, <2>6 DEF Plain
<1>7. ~Plain(r)
  <2>1. PartOf(r, line, b + 1, L, S)
    BY <1>3, SubParts DEF L
  <2> HIDE DEF r
  <2>2. Len(r) = L - (b + 1) + 1 /\ \A j \in 1 .. L - (b + 1) + 1 : r[j] = line[(b + 1) + j - 1]
    BY <2>1 DEF PartOf
  <2>3. K \in 1 .. L - (b + 1) + 1 /\ K \in 2 .. Len(r) /\ (b + 1) + K - 1 = b + K /\ K \in 1 .. n
    BY ONLY <2>2, <1>1, <1>2
  <2>4. r[K] = line[b + K]
    BY <2>2, <2>3
  <2>5. p[K] = line[b + K]
    BY <2>3 DEF Reads
  <2> QED BY <2>3, <2>4, <2>5, <1>2 DEF Plain
<1>8. OptionOf(p) = [name |-> w, value |-> SubSeq(p, K + 1, Len(p))]
  BY DEF OptionOf, K
<1> HIDE DEF r, w
<1>9. OptionOf(p).name = w
  BY ONLY <1>8
<1>10. OptionOf(p) = [name |-> SubSeq(line, b + 1, b + 1 + (K - 1) - 1), value |-> SubSeq(line, b + K + 1, b + n + 1 - 1)]
  BY ONLY <1>4, <1>5, <1>8 DEF w
<1> QED BY <1>6, <1>7, <1>9, <1>10 DEF r, K, L, OptionReads

\* The loop has read the piece p behind b: it has failed, or has one option more.
Taken(st, line, options, p, k) ==
  IF KeyEnds(p) = {} THEN st.error = "INVALID_SYNTAX"
  ELSE st = [o |-> NoOption, options |-> Append(options, OptionOf(p)), at |-> After(line, k), error |-> "NONE"]

\* The loop from the end of one option to the end of the next.
LEMMA PieceEnds ==
  ASSUME NEW S, NEW line \in Seq(S), NEW b, NEW n, NEW p, Reads(line, b, n, p), p = SubSeq(line, b + 1, b + n),
         NEW f, OptionsProceed(f, line), NEW options, f[b] = Fresh(options), Len(options) \in Nat,
         PlainNames(options), EndsAt(line, b + n + 1)
  PROVE  Taken(f[b + n + 1], line, options, p, b + n + 1)
<1> DEFINE k == b + n + 1
           u == Known(p, b, n)
           st == [o |-> u, options |-> options, at |-> 0, error |-> "NONE"]
           o == Noted(u, k)
           L == Len(line)
<1>a. line \in Seq(S) /\ Reads(line, b, n, p) /\ p = SubSeq(line, b + 1, b + n)
  OBVIOUS
<1>1. b \in Nat /\ n \in Nat /\ L \in Nat /\ b + n <= L /\ 1 <= b
  BY DEF Reads
<1> HIDE DEF L
<1>2. k \in 2 .. L + 1 /\ k - 1 = b + n
  BY <1>1
<1>3. f[k] = ScanOption(st, line, k)
  <2>1. f[b + n] = st
    BY PieceStates
  <2>2. f[k] = IF f[k - 1].at # 0 \/ f[k - 1].error # "NONE" THEN f[k - 1] ELSE ScanOption(f[k - 1], line, k)
    BY <1>2 DEF OptionsProceed, L
  <2>3. st.at = 0 /\ st.error = "NONE"
    OBVIOUS
  <2> HIDE DEF st
  <2> QED BY <2>1, <2>2, <2>3, <1>2
<1>4. /\ ~OptionEnds(o) => ScanOption(st, line, k).error = "INVALID_SYNTAX"
      /\ OptionEnds(o) /\ ~DuplicateOption(line, o.key, options) =>
           ScanOption(st, line, k)
             = [o |-> NoOption,
                options |-> Append(options, [name |-> SubSeq(line, o.key, o.key + o.length - 1),
                                             value |-> SubSeq(line, o.value, k - 1)]),
                at |-> After(line, k), error |-> "NONE"]
  <2> HIDE DEF u, k
  <2> QED BY ScanEnds DEF k
<1>5. IF KeyEnds(p) = {} THEN o.length = 0
      ELSE o = [key |-> b + 1, length |-> KeyEnd(p) - 1, value |-> b + KeyEnd(p) + 1]
  BY EndKnown
<1> HIDE DEF o, st
<1>6. CASE KeyEnds(p) = {}
  <2>1. ~OptionEnds(o)
    BY <1>5, <1>6 DEF OptionEnds
  <2> QED BY <2>1, <1>3, <1>4, <1>6 DEF Taken
<1>7. CASE KeyEnds(p) # {}
  <2>1. o.key = b + 1 /\ o.length = KeyEnd(p) - 1 /\ o.value = b + KeyEnd(p) + 1
    BY <1>5, <1>7
  <2>2. KeyEnd(p) \in Nat /\ 2 <= KeyEnd(p)
    BY <1>7, KeyEndOf
  <2>3. OptionEnds(o)
    BY <2>1, <2>2, <1>1 DEF OptionEnds
  <2>4. /\ OptionOf(p) = [name |-> SubSeq(line, b + 1, b + 1 + (KeyEnd(p) - 1) - 1),
                          value |-> SubSeq(line, b + KeyEnd(p) + 1, b + n + 1 - 1)]
        /\ ~Plain(SubSeq(line, b + 1, Len(line)))
    <3>1. OptionReads(line, b, n, p)
      BY ONLY <1>a, <1>7, OptionParts
    <3> QED BY ONLY <3>1 DEF OptionReads
  <2>5. ~DuplicateOption(line, o.key, options)
    <3> SUFFICES ASSUME NEW i \in 1 .. Len(options) - 1, SubSeq(line, o.key, Len(line)) = options[i].name
                 PROVE  FALSE
      BY DEF DuplicateOption
    <3>1. i \in 1 .. Len(options)
      OBVIOUS
    <3> QED BY <3>1, <2>1, <2>4 DEF PlainNames
  <2>6. ScanOption(st, line, k) = [o |-> NoOption, options |-> Append(options, OptionOf(p)),
                                   at |-> After(line, k), error |-> "NONE"]
    <3> DEFINE x == [name |-> SubSeq(line, o.key, o.key + o.length - 1), value |-> SubSeq(line, o.value, k - 1)]
    <3>1. x = OptionOf(p)
      <4>1. SubSeq(line, o.key, o.key + o.length - 1) = SubSeq(line, b + 1, b + 1 + (KeyEnd(p) - 1) - 1)
        BY ONLY <2>1
      <4>2. SubSeq(line, o.value, k - 1) = SubSeq(line, b + KeyEnd(p) + 1, b + n + 1 - 1)
        <5>1. k - 1 = b + n + 1 - 1
          BY <1>1 DEF k
        <5> HIDE DEF k
        <5> QED BY ONLY <5>1, <2>1
      <4> HIDE DEF k
      <4> QED BY ONLY <2>4, <4>1, <4>2
    <3>2. ScanOption(st, line, k) = [o |-> NoOption, options |-> Append(options, x),
                                     at |-> After(line, k), error |-> "NONE"]
      BY ONLY <2>3, <2>5, <1>4
    <3> HIDE DEF x
    <3> QED BY ONLY <3>1, <3>2
  <2> QED BY <2>6, <1>3, <1>7 DEF Taken
<1> QED BY <1>6, <1>7

\* end is where the options of a line end: at its first space or behind it.
OptionsEnd(line, end) ==
  /\ Len(line) \in Nat /\ end \in Nat /\ 2 <= end /\ end <= Len(line) + 1
  /\ end = Len(line) + 1 \/ line[end] = " "
  /\ \A k \in 2 .. end - 1 : line[k] # " "

\* p is the piece of line from behind b to before k, where an option ends.
LiesBetween(line, b, k, p) ==
  /\ b \in Nat /\ k \in Nat /\ b < k /\ 1 <= b /\ k <= Len(line) + 1
  /\ Reads(line, b, k - b - 1, p) /\ p = SubSeq(line, b + 1, b + (k - b - 1)) /\ EndsAt(line, k)

\* Every piece of the options lies between two places where an option ends.
LEMMA PieceBetween ==
  ASSUME NEW S, NEW line \in Seq(S), NEW end, OptionsEnd(line, end), NEW B, NEW m, Cuts(B, m, line, 2, end - 1, ";"),
         NEW n \in 1 .. m
  PROVE  LiesBetween(line, B[n - 1], B[n], Piece(line, B, n)) /\ (n # m => line[B[n]] = ";" /\ B[n] < end)
<1> DEFINE L == Len(line)
           b == B[n - 1]
           k == B[n]
           p == Piece(line, B, n)
<1>0. L \in Nat /\ end \in Nat /\ 2 <= end /\ end <= L + 1
  BY DEF OptionsEnd
<1>1. /\ (end = L + 1 \/ line[end] = " ")
      /\ \A j \in 2 .. end - 1 : line[j] # " "
  BY DEF OptionsEnd
<1>a. m \in Nat
  BY DEF Cuts
<1>2. /\ \A i \in 0 .. m : B[i] \in Int /\ 2 - 1 <= B[i] /\ B[i] <= (end - 1) + 1
      /\ B[m] = (end - 1) + 1
      /\ \A i \in 1 .. m : B[i - 1] < B[i]
      /\ \A i \in 1 .. m - 1 : line[B[i]] = ";"
      /\ \A i \in 1 .. m : \A j \in B[i - 1] + 1 .. B[i] - 1 : line[j] # ";"
  BY DEF Cuts
<1>3. n \in 0 .. m /\ n - 1 \in 0 .. m
  BY ONLY <1>a
<1>4. b \in Int /\ 2 - 1 <= b /\ k \in Int /\ k <= (end - 1) + 1 /\ b < k
  BY <1>2, <1>3
<1>5. \A j \in b + 1 .. k - 1 : line[j] # ";"
  BY <1>2
<1>6. n = m => k = end
  <2>1. (end - 1) + 1 = end
    BY ONLY <1>0
  <2> QED BY <2>1, <1>2
<1>7. n # m => line[k] = ";" /\ k < end
  <2> SUFFICES ASSUME n # m PROVE line[k] = ";" /\ k < end
    OBVIOUS
  <2>1. n \in 1 .. m - 1 /\ n + 1 \in 1 .. m /\ (n + 1) - 1 = n /\ n + 1 \in 0 .. m
    <3>1. n # m
      OBVIOUS
    <3> QED BY ONLY <3>1, <1>a
  <2>2. B[n] < B[n + 1] /\ B[n + 1] <= (end - 1) + 1 /\ B[n + 1] \in Int
    BY <2>1, <1>2
  <2>3. k < end
    <3> DEFINE q == B[n + 1]
    <3>1. k < q /\ q <= (end - 1) + 1 /\ q \in Int
      BY <2>2
    <3> HIDE DEF k, q
    <3> QED BY ONLY <3>1, <1>0, <1>4
  <2> QED BY <2>1, <2>3, <1>2
<1>8. Piece(line, B, n) = SubSeq(line, b + 1, k - 1)
  BY DEF Piece
<1> HIDE DEF L, b, k, p
<1>9. b \in Nat /\ k \in Nat /\ b < k /\ 1 <= b /\ k <= L + 1 /\ k <= end
  BY ONLY <1>0, <1>4
<1>10. EndsAt(line, k)
  BY <1>1, <1>6, <1>7 DEF EndsAt, L
<1>11. /\ b + (k - b - 1) = k - 1 /\ k - b - 1 \in Nat /\ b + (k - b - 1) <= L
       /\ b + 1 \in 1 .. L + 1 /\ k - 1 \in (b + 1) - 1 .. L /\ (k - 1) - (b + 1) + 1 = k - b - 1
  BY ONLY <1>0, <1>9
<1>12. p = SubSeq(line, b + 1, k - 1)
  BY <1>8 DEF p
<1>13. PartOf(p, line, b + 1, k - 1, S)
  BY <1>11, <1>12, SubParts DEF L
<1>14. Len(p) = k - b - 1 /\ \A j \in 1 .. k - b - 1 : p[j] = line[(b + 1) + j - 1]
  BY <1>11, <1>13 DEF PartOf
<1>15. ASSUME NEW j \in 1 .. k - b - 1 PROVE p[j] = line[b + j] /\ p[j] # ";" /\ p[j] # " "
  <2>1. (b + 1) + j - 1 = b + j /\ b + j \in b + 1 .. k - 1 /\ b + j \in 2 .. end - 1
    BY ONLY <1>0, <1>9
  <2>2. p[j] = line[b + j]
    BY <2>1, <1>14
  <2> QED BY <2>1, <2>2, <1>1, <1>5
<1>16. Reads(line, b, k - b - 1, p)
  BY <1>0, <1>9, <1>11, <1>14, <1>15 DEF Reads, L
<1>17. LiesBetween(line, b, k, p)
  BY <1>9, <1>10, <1>11, <1>12, <1>16 DEF LiesBetween, L
<1> QED BY <1>7, <1>17 DEF b, k, p

\* The loop over one piece.
LEMMA BetweenEnds ==
  ASSUME NEW S, NEW line \in Seq(S), NEW b, NEW k, NEW p, LiesBetween(line, b, k, p), NEW f, OptionsProceed(f, line),
         NEW options, f[b] = Fresh(options), Len(options) \in Nat, PlainNames(options)
  PROVE  Taken(f[k], line, options, p, k)
<1> DEFINE n == k - b - 1
<1>1. b + n + 1 = k
  BY DEF LiesBetween
<1>2. Reads(line, b, n, p) /\ p = SubSeq(line, b + 1, b + n) /\ EndsAt(line, b + n + 1)
  <2>1. Reads(line, b, n, p) /\ p = SubSeq(line, b + 1, b + n) /\ EndsAt(line, k)
    BY DEF LiesBetween
  <2> HIDE DEF n
  <2> QED BY <1>1, <2>1
<1> HIDE DEF n
<1>3. Taken(f[b + n + 1], line, options, p, b + n + 1)
  BY <1>2, PieceEnds
<1> QED BY <1>1, <1>3

\* The options in the first n pieces.
OptionsOf(line, B, n) == [i \in 1 .. n |-> OptionOf(Piece(line, B, i))]

\* A sequence that is given by a function grows by its next value.
LEMMA FunctionGrows ==
  ASSUME NEW F, NEW n \in Nat
  PROVE  /\ Len([i \in 1 .. n |-> F[i]]) = n
         /\ Append([i \in 1 .. n |-> F[i]], F[n + 1]) = [i \in 1 .. n + 1 |-> F[i]]
<1> DEFINE s == [i \in 1 .. n |-> F[i]]
           T == {F[i] : i \in 1 .. n + 1}
           r == [i \in 1 .. n + 1 |-> F[i]]
<1>1. \A i \in 1 .. n : i \in 1 .. n + 1
  OBVIOUS
<1>2. s \in [1 .. n -> T] /\ r \in [1 .. n + 1 -> T] /\ F[n + 1] \in T
  BY <1>1
<1> HIDE DEF T
<1>3. s \in Seq(T) /\ Len(s) = n /\ r \in Seq(T) /\ Len(r) = n + 1
  BY <1>2
<1>4. /\ Append(s, F[n + 1]) \in Seq(T) /\ Len(Append(s, F[n + 1])) = n + 1
      /\ Append(s, F[n + 1])[n + 1] = F[n + 1] /\ \A i \in 1 .. n : Append(s, F[n + 1])[i] = s[i]
  <2> HIDE DEF s
  <2> QED BY <1>2, <1>3, AppendProperties
<1>5. ASSUME NEW i \in 1 .. n + 1 PROVE Append(s, F[n + 1])[i] = r[i]
  <2>1. i \in 1 .. n \/ i = n + 1
    OBVIOUS
  <2>2. r[i] = F[i]
    OBVIOUS
  <2>3. CASE i \in 1 .. n
    BY <2>2, <2>3, <1>4
  <2>4. CASE i = n + 1
    BY <2>2, <2>4, <1>4
  <2> QED BY <2>1, <2>3, <2>4
<1>6. Append(s, F[n + 1]) = r
  <2> HIDE DEF s, r
  <2> QED BY <1>3, <1>4, <1>5, SeqEqual
<1> QED BY <1>3, <1>6

\* The options of n + 1 pieces are those of n pieces and one more.
LEMMA OptionsGrow ==
  ASSUME NEW line, NEW B, NEW n \in Nat
  PROVE  /\ Len(OptionsOf(line, B, n)) = n
         /\ Append(OptionsOf(line, B, n), OptionOf(Piece(line, B, n + 1))) = OptionsOf(line, B, n + 1)
<1> DEFINE F == [i \in 1 .. n + 1 |-> OptionOf(Piece(line, B, i))]
<1>1. n + 1 \in 1 .. n + 1 /\ \A i \in 1 .. n : i \in 1 .. n + 1
  OBVIOUS
<1>2. F[n + 1] = OptionOf(Piece(line, B, n + 1))
  BY <1>1
<1>3. OptionsOf(line, B, n) = [i \in 1 .. n |-> F[i]] /\ OptionsOf(line, B, n + 1) = [i \in 1 .. n + 1 |-> F[i]]
  BY <1>1 DEF OptionsOf
<1> HIDE DEF F
<1> QED BY ONLY <1>2, <1>3, n \in Nat, FunctionGrows

\* The first n pieces are options.
GoodPieces(line, B, n) == \A i \in 1 .. n : KeyEnds(Piece(line, B, i)) # {}

\* Names of options have "=" nowhere but in front.
LEMMA OptionsPlain ==
  ASSUME NEW S, NEW line \in Seq(S), NEW end, OptionsEnd(line, end), NEW B, NEW m, Cuts(B, m, line, 2, end - 1, ";"),
         NEW n \in 0 .. m, GoodPieces(line, B, n)
  PROVE  PlainNames(OptionsOf(line, B, n))
<1>0. m \in Nat
  BY DEF Cuts
<1>1. m \in Nat /\ n \in Nat /\ n <= m
  BY ONLY <1>0
<1>2. Len(OptionsOf(line, B, n)) = n
  BY <1>1, OptionsGrow
<1> SUFFICES ASSUME NEW i \in 1 .. n PROVE Plain(OptionsOf(line, B, n)[i].name)
  BY <1>2 DEF PlainNames
<1> DEFINE p == Piece(line, B, i)
           b == B[i - 1]
           k == B[i]
<1>3. OptionsOf(line, B, n)[i] = OptionOf(p)
  BY DEF OptionsOf
<1>4. KeyEnds(p) # {}
  BY DEF GoodPieces
<1>5. LiesBetween(line, b, k, p)
  <2>1. i \in 1 .. m
    BY ONLY <1>1
  <2> QED BY <2>1, PieceBetween
<1> HIDE DEF p, b, k
<1>6. Reads(line, b, k - b - 1, p) /\ p = SubSeq(line, b + 1, b + (k - b - 1))
  BY <1>5 DEF LiesBetween
<1>7. Plain(OptionOf(p).name)
  <2> DEFINE q == k - b - 1
  <2>1. Reads(line, b, q, p) /\ p = SubSeq(line, b + 1, b + q)
    BY <1>6
  <2> HIDE DEF q
  <2> QED BY <1>4, <2>1, OptionParts DEF OptionReads
<1> QED BY <1>3, <1>7

\* The loop after the n-th piece, when more follow.
ReadUpTo(f, line, B, n) == f[B[n]] = Fresh(OptionsOf(line, B, n))

\* At every separator the loop has added the options of all pieces before it
\* (parse_request).
LEMMA OptionsRead ==
  ASSUME NEW S, NEW line \in Seq(S), NEW end, OptionsEnd(line, end), NEW B, NEW m, Cuts(B, m, line, 2, end - 1, ";"),
         NEW f, OptionsProceed(f, line), NEW n \in 0 .. m - 1, GoodPieces(line, B, n)
  PROVE  ReadUpTo(f, line, B, n)
<1> DEFINE R(i) == f[B[i]] = Fresh(OptionsOf(line, B, i))
           G == {i \in Nat : i <= n => R(i)}
<1>a. line \in Seq(S) /\ OptionsEnd(line, end) /\ Cuts(B, m, line, 2, end - 1, ";")
  OBVIOUS
<1>0. m \in Nat /\ B[0] = 2 - 1
  BY DEF Cuts
<1>1. m \in Nat /\ n \in Nat /\ n <= m - 1
  BY ONLY <1>0
<1>2. 0 \in G
  <2>1. OptionsOf(line, B, 0) = << >>
    <3> DEFINE T == {OptionOf(Piece(line, B, i)) : i \in 1 .. 0}
    <3>1. OptionsOf(line, B, 0) \in [1 .. 0 -> T]
      BY DEF OptionsOf
    <3> HIDE DEF T
    <3>2. OptionsOf(line, B, 0) \in Seq(T) /\ Len(OptionsOf(line, B, 0)) = 0
      BY ONLY <3>1
    <3>3. << >> \in Seq(T) /\ Len(<< >>) = 0 /\ \A i \in 1 .. 0 : FALSE
      BY ONLY TRUE
    <3> QED BY ONLY <3>2, <3>3, SeqEqual
  <2>2. f[1] = Fresh(<< >>)
    BY DEF OptionsProceed
  <2>3. B[0] = 1
    BY ONLY <1>0
  <2>4. R(0)
    BY <2>1, <2>2, <2>3
  <2> QED BY <2>4
<1>3. ASSUME NEW i \in Nat, i \in G PROVE i + 1 \in G
  <2>a. (i + 1 <= n => R(i + 1)) => i + 1 \in G
    <3>1. i + 1 \in Nat
      BY ONLY i \in Nat
    <3> HIDE DEF R
    <3> QED BY ONLY <3>1, Zenon
  <2> HIDE DEF G
  <2> SUFFICES ASSUME i + 1 <= n PROVE R(i + 1)
    BY <2>a, Zenon
  <2> DEFINE p == Piece(line, B, i + 1)
             k == B[i + 1]
             options == OptionsOf(line, B, i)
  <2>0. i + 1 \in 1 .. m /\ i \in 0 .. m /\ i + 1 # m /\ (i + 1) - 1 = i /\ i + 1 \in 1 .. n /\ i <= n
    BY ONLY <1>1, i + 1 <= n, i \in Nat
  <2>1. f[B[i]] = Fresh(options)
    <3>1. R(i)
      <4> HIDE DEF R
      <4> QED BY ONLY <1>3, <2>0 DEF G
    <3> QED BY <3>1
  <2>2. LiesBetween(line, B[(i + 1) - 1], k, p) /\ line[k] = ";" /\ k < end
    <3>1. \A j \in 1 .. m : LiesBetween(line, B[j - 1], B[j], Piece(line, B, j)) /\ (j # m => line[B[j]] = ";" /\ B[j] < end)
      BY PieceBetween
    <3> QED BY ONLY <2>0, <3>1
  <2>3. LiesBetween(line, B[i], k, p)
    BY <2>0, <2>2
  <2>4. PlainNames(options) /\ Len(options) \in Nat
    <3>1. GoodPieces(line, B, i)
      <4>1. \A j \in 1 .. i : j \in 1 .. n
        BY ONLY <1>1, <2>0
      <4> QED BY <4>1 DEF GoodPieces
    <3>2. Len(options) = i
      BY OptionsGrow
    <3> QED BY <3>1, <3>2, <2>0, OptionsPlain
  <2>5. KeyEnds(p) # {}
    BY <2>0 DEF GoodPieces
  <2>6. Append(options, OptionOf(p)) = OptionsOf(line, B, i + 1)
    BY OptionsGrow
  <2> HIDE DEF p, k, options
  <2>7. Taken(f[k], line, options, p, k)
    BY <2>1, <2>3, <2>4, BetweenEnds
  <2>8. After(line, k) = 0
    <3>1. k # Len(line) + 1
      <4>1. k \in Nat /\ end \in Nat /\ Len(line) \in Nat /\ end <= Len(line) + 1 /\ k < end
        BY <2>2, <2>3 DEF OptionsEnd, LiesBetween
      <4> QED BY ONLY <4>1
    <3> QED BY <3>1, <2>2 DEF After
  <2>9. f[k] = Fresh(OptionsOf(line, B, i + 1))
    BY <2>5, <2>6, <2>7, <2>8 DEF Taken, Fresh
  <2> QED BY <2>9 DEF k
<1>4. n \in G
  <2> HIDE DEF G
  <2> QED BY <1>1, <1>2, <1>3, AllNaturals
<1>5. R(n)
  <2> HIDE DEF R
  <2> QED BY ONLY <1>1, <1>4
<1> QED BY <1>5 DEF ReadUpTo

\* What the loop over options makes of a line, against splitting it.
OptionsAsSplit(st, line, B, m, end) ==
  IF GoodPieces(line, B, m)
  THEN st = [o |-> NoOption, options |-> OptionsOf(line, B, m), at |-> After(line, end), error |-> "NONE"]
  ELSE st.error = "INVALID_SYNTAX"

\* The loop over options reads what splitting finds.
LEMMA OptionsSplit ==
  ASSUME NEW S, NEW line \in Seq(S), NEW end, OptionsEnd(line, end), NEW B, NEW m, Cuts(B, m, line, 2, end - 1, ";")
  PROVE  OptionsAsSplit(ScanOptions(line), line, B, m, end)
<1> DEFINE f == OptionStates(line)
           L == Len(line)
<1>a. line \in Seq(S) /\ OptionsEnd(line, end) /\ Cuts(B, m, line, 2, end - 1, ";")
  OBVIOUS
<1>1. OptionsProceed(f, line)
  BY OptionsStep
<1>2. ScanOptions(line) = f[L + 1]
  BY DEF ScanOptions
<1> HIDE DEF f
<1>3. m \in Nat /\ m # 0 /\ B[m] = (end - 1) + 1 /\ end \in Nat /\ 2 <= end /\ end <= L + 1 /\ L \in Nat
  BY DEF Cuts, OptionsEnd
<1> HIDE DEF L
<1>4. ASSUME NEW n \in 1 .. m, GoodPieces(line, B, n - 1)
      PROVE  Taken(f[B[n]], line, OptionsOf(line, B, n - 1), Piece(line, B, n), B[n]) /\ B[n] \in 1 .. L + 1
  <2> DEFINE b == B[n - 1]
             k == B[n]
             p == Piece(line, B, n)
             options == OptionsOf(line, B, n - 1)
  <2>1. n - 1 \in 0 .. m - 1 /\ n - 1 \in 0 .. m /\ n - 1 \in Nat
    BY ONLY <1>3
  <2>2. f[b] = Fresh(options)
    <3>1. ASSUME NEW q \in 0 .. m - 1, GoodPieces(line, B, q) PROVE ReadUpTo(f, line, B, q)
      BY ONLY <1>a, <1>1, <3>1, OptionsRead
    <3> QED BY <3>1, <1>4, <2>1 DEF ReadUpTo
  <2>3. PlainNames(options) /\ Len(options) \in Nat
    BY <1>4, <2>1, OptionsPlain, OptionsGrow
  <2>4. LiesBetween(line, b, k, p)
    BY PieceBetween
  <2> HIDE DEF b, k, p, options
  <2>5. Taken(f[k], line, options, p, k)
    BY <1>1, <2>2, <2>3, <2>4, BetweenEnds
  <2>6. k \in 1 .. L + 1
    <3>1. b \in Nat /\ k \in Nat /\ b < k /\ k <= L + 1
      BY <2>4 DEF LiesBetween, L
    <3> QED BY ONLY <3>1, <1>3
  <2> QED BY <2>5, <2>6 DEF b, k, p, options
<1>5. CASE GoodPieces(line, B, m)
  <2>1. m \in 1 .. m /\ (m - 1) + 1 = m /\ m - 1 \in Nat /\ B[m] = end
    BY ONLY <1>3
  <2>2. GoodPieces(line, B, m - 1)
    <3>1. \A j \in 1 .. m - 1 : j \in 1 .. m
      BY ONLY <1>3
    <3> QED BY <3>1, <1>5 DEF GoodPieces
  <2>3. Taken(f[end], line, OptionsOf(line, B, m - 1), Piece(line, B, m), end) /\ end \in 1 .. L + 1
    BY <1>4, <2>1, <2>2
  <2>4. KeyEnds(Piece(line, B, m)) # {}
    BY <1>5, <2>1 DEF GoodPieces
  <2>5. Append(OptionsOf(line, B, m - 1), OptionOf(Piece(line, B, m))) = OptionsOf(line, B, m)
    <3> DEFINE q == m - 1
    <3>1. q \in Nat /\ q + 1 = m
      BY <2>1
    <3> HIDE DEF q
    <3>2. Append(OptionsOf(line, B, q), OptionOf(Piece(line, B, q + 1))) = OptionsOf(line, B, q + 1)
      BY <3>1, OptionsGrow
    <3>3. Append(OptionsOf(line, B, q), OptionOf(Piece(line, B, m))) = OptionsOf(line, B, m)
      BY <3>1, <3>2
    <3> QED BY <3>3 DEF q
  <2>6. f[end] = [o |-> NoOption, options |-> OptionsOf(line, B, m), at |-> After(line, end), error |-> "NONE"]
    BY ONLY <2>3, <2>4, <2>5 DEF Taken
  <2>7. f[end].at # 0
    <3>1. f[end].at = After(line, end)
      BY ONLY <2>6
    <3>2. After(line, end) # 0
      <4>1. end = Len(line) + 1 \/ line[end] = " "
        BY DEF OptionsEnd
      <4>2. end # 0 /\ end + 1 # 0
        BY ONLY <1>3
      <4> QED BY ONLY <4>1, <4>2 DEF After
    <3> QED BY <3>1, <3>2
  <2>8. f[L + 1] = f[end]
    BY <1>1, <2>3, <2>7, OptionsStay DEF L
  <2> QED BY <1>2, <1>5, <2>6, <2>8 DEF OptionsAsSplit
<1>6. CASE ~GoodPieces(line, B, m)
  <2> DEFINE A == {i \in 1 .. m : KeyEnds(Piece(line, B, i)) = {}}
  <2>1. A # {} /\ A \subseteq Nat
    <3>1. PICK i \in 1 .. m : KeyEnds(Piece(line, B, i)) = {}
      BY <1>6 DEF GoodPieces
    <3>2. i \in A
      BY <3>1
    <3>3. A \subseteq Nat
      BY ONLY <1>3
    <3> QED BY <3>2, <3>3
  <2>2. PICK n \in A : \A j \in A : n <= j
    BY <2>1, Smallest
  <2>3. n \in 1 .. m /\ KeyEnds(Piece(line, B, n)) = {}
    OBVIOUS
  <2>4. GoodPieces(line, B, n - 1)
    <3> SUFFICES ASSUME NEW i \in 1 .. n - 1, KeyEnds(Piece(line, B, i)) = {} PROVE FALSE
      BY DEF GoodPieces
    <3>1. i \in 1 .. m /\ ~(n <= i)
      BY ONLY <2>3, <1>3
    <3> QED BY <3>1, <2>2
  <2> HIDE DEF A
  <2>5. f[B[n]].error = "INVALID_SYNTAX" /\ B[n] \in 1 .. L + 1
    <3>1. Taken(f[B[n]], line, OptionsOf(line, B, n - 1), Piece(line, B, n), B[n]) /\ B[n] \in 1 .. L + 1
      BY <2>3, <2>4, <1>4
    <3> QED BY <2>3, <3>1 DEF Taken
  <2>6. f[L + 1] = f[B[n]]
    <3>1. f[B[n]].error # "NONE"
      BY <2>5
    <3> QED BY <1>1, <2>5, <3>1, OptionsStay DEF L
  <2> QED BY <1>2, <1>6, <2>5, <2>6 DEF OptionsAsSplit
<1> QED BY <1>5, <1>6

-----------------------------------------------------------------------------
(* ... the loop over parameters ...                                          *)

\* f[k] is the state of the loop over parameters after position k.
ParametersProceed(f, line, at) ==
  /\ f[at - 1] = [start |-> 0, parameters |-> << >>]
  /\ \A k \in at .. Len(line) + 1 : f[k] = ScanParameter(f[k - 1], line, k)

\* The loop over parameters, unfolded.
LEMMA ParametersStep ==
  ASSUME NEW S, NEW line \in Seq(S), NEW at \in 1 .. Len(line) + 1
  PROVE  ParametersProceed(ParameterStates(line, at), line, at)
<1> DEFINE L == Len(line)
           a == at - 1
           Start == [start |-> 0, parameters |-> << >>]
           Step(f, k) == IF k = a THEN Start ELSE ScanParameter(f[k - 1], line, k)
           st == CHOOSE f : f = [k \in a .. L + 1 |-> Step(f, k)]
           T == {n \in Nat : \E f : f = [k \in a .. a + n |-> Step(f, k)]}
<1>0. L \in Nat /\ a \in Nat /\ a <= L /\ at = a + 1
  <2>1. L \in Nat /\ at \in 1 .. L + 1
    OBVIOUS
  <2> HIDE DEF L
  <2> QED BY <2>1
<1>1. ParameterStates(line, at) = st
  BY Zenon DEF ParameterStates
<1> HIDE DEF a, Start, L
<1>2. 0 \in T
  <2> DEFINE f == [k \in a .. a + 0 |-> Start]
  <2>1. \A k \in a .. a + 0 : k = a
    BY <1>0
  <2>2. \A k \in a .. a + 0 : Step(f, k) = Start
    BY <2>1
  <2>3. f = [k \in a .. a + 0 |-> Step(f, k)]
    <3> HIDE DEF Step
    <3> QED BY <2>2
  <2> QED BY <2>3
<1>3. ASSUME NEW n \in Nat, n \in T PROVE n + 1 \in T
  <2>1. PICK f : f = [k \in a .. a + n |-> Step(f, k)]
    BY <1>3
  <2> DEFINE g == [k \in a .. a + (n + 1) |-> IF k <= a + n THEN f[k] ELSE Step(f, a + n + 1)]
  <2>2. ASSUME NEW k \in a .. a + (n + 1) PROVE g[k] = Step(g, k)
    <3>1. CASE k = a
      <4>1. k \in a .. a + n /\ k <= a + n
        BY <1>0, <3>1
      <4>2. g[k] = f[k]
        BY <4>1
      <4>3. f[k] = Step(f, k)
        <5> HIDE DEF Step
        <5> QED BY <2>1, <4>1
      <4> HIDE DEF g
      <4> QED BY <3>1, <4>2, <4>3
    <3>2. CASE k # a /\ k <= a + n
      <4>1. k \in a .. a + n /\ k - 1 \in a .. a + (n + 1) /\ k - 1 <= a + n
        BY <1>0, <3>2
      <4>2. g[k] = f[k] /\ g[k - 1] = f[k - 1]
        BY <3>2, <4>1
      <4>3. f[k] = Step(f, k)
        <5> HIDE DEF Step
        <5> QED BY <2>1, <4>1
      <4> HIDE DEF g
      <4>4. Step(g, k) = Step(f, k)
        BY <4>2, Zenon
      <4> QED BY <4>2, <4>3, <4>4
    <3>3. CASE k = a + n + 1
      <4>1. g[k] = Step(f, a + n + 1)
        <5>1. ~(k <= a + n)
          BY <1>0, <3>3
        <5> HIDE DEF Step
        <5> QED BY <5>1
      <4>2. a + n \in a .. a + (n + 1) /\ k - 1 = a + n /\ (a + n + 1) - 1 = a + n /\ a + n <= a + n
        BY <1>0, <3>3
      <4>3. g[k - 1] = f[(a + n + 1) - 1]
        BY <4>2
      <4> HIDE DEF g
      <4>4. Step(g, k) = Step(f, a + n + 1)
        BY <4>2, <4>3, <3>3, Zenon
      <4> QED BY <4>1, <4>4
    <3>4. k = a + n + 1 \/ k <= a + n
      BY <1>0
    <3> QED BY <3>1, <3>2, <3>3, <3>4
  <2>3. g = [k \in a .. a + (n + 1) |-> g[k]]
    OBVIOUS
  <2> HIDE DEF g, Step
  <2>4. g = [k \in a .. a + (n + 1) |-> Step(g, k)]
    BY <2>2, <2>3
  <2> QED BY <2>4
<1>4. L + 1 - a \in T /\ a + (L + 1 - a) = L + 1
  <2>1. L + 1 - a \in Nat /\ a + (L + 1 - a) = L + 1
    BY <1>0
  <2> HIDE DEF T
  <2> QED BY <2>1, <1>2, <1>3, AllNaturals
<1>5. st = [k \in a .. L + 1 |-> Step(st, k)]
  <2> HIDE DEF Step
  <2> QED BY <1>4
<1> HIDE DEF st
<1>6. st[a] = Start
  <2>1. a \in a .. L + 1
    BY <1>0
  <2>2. st[a] = Step(st, a)
    <3> HIDE DEF Step
    <3> QED BY <1>5, <2>1
  <2> QED BY <2>2
<1>7. ASSUME NEW k \in at .. L + 1 PROVE st[k] = ScanParameter(st[k - 1], line, k)
  <2>1. k \in a .. L + 1 /\ k # a
    BY ONLY <1>0
  <2>2. st[k] = Step(st, k)
    <3> HIDE DEF Step
    <3> QED BY <1>5, <2>1
  <2> QED BY <2>1, <2>2
<1>8. ParametersProceed(st, line, at)
  BY <1>6, <1>7 DEF ParametersProceed, L, a, Start
<1> QED BY <1>1, <1>8

\* A parameter stands between b and k.
ParameterBetween(line, at, b, k) ==
  /\ at \in Nat /\ Len(line) \in Nat /\ b \in Nat /\ k \in Nat
  /\ b < k /\ at - 1 <= b /\ k <= Len(line) + 1
  /\ (k = Len(line) + 1 \/ line[k] = ";") /\ \A j \in b + 1 .. k - 1 : line[j] # ";"

\* The loop over one parameter.
LEMMA ParameterEnds ==
  ASSUME NEW line, NEW at, NEW f, ParametersProceed(f, line, at), NEW b, NEW k, ParameterBetween(line, at, b, k),
         NEW P, f[b] = [start |-> 0, parameters |-> P]
  PROVE  f[k] = [start |-> 0, parameters |-> Append(P, SubSeq(line, b + 1, k - 1))]
<1> DEFINE L == Len(line)
           State(j) == [start |-> IF j = 0 THEN 0 ELSE b + 1, parameters |-> P]
           R(j) == f[b + j] = State(j)
           G == {j \in Nat : b + j <= k - 1 => R(j)}
<1>0. at \in Nat /\ L \in Nat /\ b \in Nat /\ k \in Nat /\ b < k /\ at - 1 <= b /\ k <= L + 1
  BY DEF ParameterBetween
<1>y. (k = L + 1 \/ line[k] = ";") /\ \A j \in b + 1 .. k - 1 : line[j] # ";"
  BY DEF ParameterBetween
<1>1. \A j \in at .. L + 1 : f[j] = ScanParameter(f[j - 1], line, j)
  BY DEF ParametersProceed
<1>2. \A j \in Nat : State(j).parameters = P /\ (IF State(j).start = 0 THEN b + j + 1 ELSE State(j).start) = b + 1
  <2> SUFFICES ASSUME NEW j \in Nat
               PROVE  State(j).parameters = P /\ (IF State(j).start = 0 THEN b + j + 1 ELSE State(j).start) = b + 1
    <3> HIDE DEF State
    <3> QED BY Zenon
  <2>1. State(j).parameters = P /\ State(j).start = IF j = 0 THEN 0 ELSE b + 1
    OBVIOUS
  <2> HIDE DEF State
  <2>2. b + 1 # 0 /\ (j = 0 => b + j + 1 = b + 1)
    BY ONLY <1>0, j \in Nat
  <2> QED BY ONLY <2>1, <2>2
<1>3. \A j \in Nat : j # 0 => State(j) = [start |-> b + 1, parameters |-> P]
  OBVIOUS
<1>x. State(0) = [start |-> 0, parameters |-> P]
  OBVIOUS
<1> HIDE DEF L, State
<1>4. 0 \in G
  <2>1. b + 0 = b
    BY ONLY <1>0
  <2> QED BY <2>1, <1>x
<1>5. ASSUME NEW j \in Nat, j \in G PROVE j + 1 \in G
  <2>a. (b + (j + 1) <= k - 1 => R(j + 1)) => j + 1 \in G
    <3>1. j + 1 \in Nat
      BY ONLY j \in Nat
    <3> HIDE DEF R
    <3> QED BY ONLY <3>1, Zenon
  <2> SUFFICES ASSUME b + (j + 1) <= k - 1 PROVE R(j + 1)
    BY <2>a, Zenon
  <2> DEFINE q == b + j + 1
  <2>0. /\ q \in at .. L + 1 /\ q - 1 = b + j /\ b + (j + 1) = q /\ q # L + 1 /\ q \in b + 1 .. k - 1
        /\ b + j <= k - 1 /\ j + 1 # 0 /\ j + 1 \in Nat
    BY ONLY <1>0, b + (j + 1) <= k - 1
  <2>1. f[q - 1] = State(j)
    <3>1. R(j)
      <4> HIDE DEF R
      <4> QED BY ONLY <1>5, <2>0
    <3> HIDE DEF q
    <3> QED BY <2>0, <3>1
  <2>2. f[q] = ScanParameter(State(j), line, q)
    BY <2>0, <2>1, <1>1
  <2>3. line[q] # ";"
    BY <1>y, <2>0
  <2>4. ScanParameter(State(j), line, q) = [start |-> b + 1, parameters |-> P]
    <3>1. State(j).parameters = P /\ (IF State(j).start = 0 THEN q ELSE State(j).start) = b + 1
      BY <1>2
    <3> HIDE DEF q
    <3> QED BY ONLY <3>1, <2>0, <2>3, Zenon DEF ScanParameter, L
  <2>5. State(j + 1) = [start |-> b + 1, parameters |-> P]
    BY <2>0, <1>3
  <2> HIDE DEF q
  <2> QED BY <2>0, <2>2, <2>4, <2>5
<1>6. R(k - 1 - b) /\ k - 1 - b \in Nat
  <2>1. k - 1 - b \in Nat /\ b + (k - 1 - b) <= k - 1
    BY ONLY <1>0
  <2>2. k - 1 - b \in G
    <3> HIDE DEF G
    <3> QED BY <2>1, <1>4, <1>5, AllNaturals
  <2> HIDE DEF R
  <2> QED BY <2>1, <2>2
<1>7. b + (k - 1 - b) = k - 1 /\ b + (k - 1 - b) + 1 = k /\ k \in at .. L + 1
  BY ONLY <1>0
<1> DEFINE j == k - 1 - b
<1>8. f[k - 1] = State(j) /\ State(j).parameters = P /\ (IF State(j).start = 0 THEN k ELSE State(j).start) = b + 1
  <2>1. j \in Nat /\ b + j = k - 1 /\ b + j + 1 = k /\ R(j)
    BY <1>6, <1>7
  <2> HIDE DEF j
  <2> QED BY <2>1, <1>2
<1> HIDE DEF j
<1>9. f[k] = ScanParameter(State(j), line, k)
  BY <1>1, <1>7, <1>8
<1>10. ScanParameter(State(j), line, k) = [start |-> 0, parameters |-> Append(P, SubSeq(line, b + 1, k - 1))]
  <2>1. k = Len(line) + 1 \/ line[k] = ";"
    BY <1>y DEF L
  <2> QED BY ONLY <1>8, <2>1, Zenon DEF ScanParameter
<1> QED BY <1>9, <1>10

\* The first n pieces.
PiecesOf(line, B, n) == [i \in 1 .. n |-> Piece(line, B, i)]

\* n + 1 pieces are n pieces and one more.
LEMMA PiecesGrow ==
  ASSUME NEW line, NEW B, NEW n \in Nat
  PROVE  Append(PiecesOf(line, B, n), Piece(line, B, n + 1)) = PiecesOf(line, B, n + 1)
<1> DEFINE F == [i \in 1 .. n + 1 |-> Piece(line, B, i)]
<1>1. n + 1 \in 1 .. n + 1 /\ \A i \in 1 .. n : i \in 1 .. n + 1
  OBVIOUS
<1>2. F[n + 1] = Piece(line, B, n + 1)
  BY <1>1
<1>3. PiecesOf(line, B, n) = [i \in 1 .. n |-> F[i]] /\ PiecesOf(line, B, n + 1) = [i \in 1 .. n + 1 |-> F[i]]
  BY <1>1 DEF PiecesOf
<1> HIDE DEF F
<1> QED BY ONLY <1>2, <1>3, n \in Nat, FunctionGrows

\* The loop over parameters reads what splitting finds.
LEMMA ParametersSplit ==
  ASSUME NEW S, NEW line \in Seq(S), NEW at \in 1 .. Len(line) + 1, NEW B, NEW m, Cuts(B, m, line, at, Len(line), ";")
  PROVE  ScanParameters(line, at) = PiecesOf(line, B, m)
<1> DEFINE L == Len(line)
           f == ParameterStates(line, at)
           R(n) == f[B[n]] = [start |-> 0, parameters |-> PiecesOf(line, B, n)]
           G == {n \in Nat : n <= m => R(n)}
<1>1. ParametersProceed(f, line, at)
  BY ParametersStep
<1>0. L \in Nat /\ at \in Nat /\ 1 <= at /\ at <= L + 1
  <2>1. L \in Nat /\ at \in 1 .. L + 1
    BY ONLY line \in Seq(S), at \in 1 .. Len(line) + 1
  <2> HIDE DEF L
  <2> QED BY ONLY <2>1
<1>2. ScanParameters(line, at) = f[L + 1].parameters
  <2>1. ~(at > L + 1)
    <3> HIDE DEF L
    <3> QED BY ONLY <1>0
  <2> QED BY <2>1 DEF ScanParameters
<1>3. m \in Nat /\ B[0] = at - 1 /\ B[m] = L + 1
  BY DEF Cuts
<1>4. /\ \A n \in 0 .. m : B[n] \in Int /\ at - 1 <= B[n] /\ B[n] <= L + 1
      /\ \A n \in 1 .. m : B[n - 1] < B[n]
      /\ \A n \in 1 .. m - 1 : line[B[n]] = ";"
      /\ \A n \in 1 .. m : \A k \in B[n - 1] + 1 .. B[n] - 1 : line[k] # ";"
  BY DEF Cuts
<1> HIDE DEF f, L
<1>5. 0 \in G
  <2>1. PiecesOf(line, B, 0) = << >>
    <3> DEFINE T == {Piece(line, B, i) : i \in 1 .. 0}
    <3>1. PiecesOf(line, B, 0) \in [1 .. 0 -> T]
      BY DEF PiecesOf
    <3> HIDE DEF T
    <3>2. PiecesOf(line, B, 0) \in Seq(T) /\ Len(PiecesOf(line, B, 0)) = 0
      BY ONLY <3>1
    <3>3. << >> \in Seq(T) /\ Len(<< >>) = 0 /\ \A i \in 1 .. 0 : FALSE
      BY ONLY TRUE
    <3> QED BY ONLY <3>2, <3>3, SeqEqual
  <2>2. f[at - 1] = [start |-> 0, parameters |-> << >>]
    BY <1>1 DEF ParametersProceed
  <2>3. R(0)
    BY ONLY <1>3, <2>1, <2>2
  <2> HIDE DEF R
  <2> QED BY ONLY <2>3
<1>6. ASSUME NEW n \in Nat, n \in G PROVE n + 1 \in G
  <2>a. (n + 1 <= m => R(n + 1)) => n + 1 \in G
    <3>1. n + 1 \in Nat
      BY ONLY n \in Nat
    <3> HIDE DEF R
    <3> QED BY ONLY <3>1, Zenon
  <2> SUFFICES ASSUME n + 1 <= m PROVE R(n + 1)
    BY <2>a, Zenon
  <2> DEFINE b == B[n]
             k == B[n + 1]
             P == PiecesOf(line, B, n)
  <2>0. n + 1 \in 1 .. m /\ n \in 0 .. m /\ n + 1 \in 0 .. m /\ (n + 1) - 1 = n /\ n <= m /\ (n + 1 = m \/ n + 1 \in 1 .. m - 1)
    BY ONLY <1>3, n + 1 <= m
  <2>1. f[b] = [start |-> 0, parameters |-> P]
    <3>1. R(n)
      <4> HIDE DEF R
      <4> QED BY ONLY <1>6, <2>0
    <3> QED BY <3>1
  <2>2. b \in Int /\ at - 1 <= b /\ k \in Int /\ k <= L + 1 /\ b < k
    BY ONLY <1>4, <2>0
  <2>3. \A j \in b + 1 .. k - 1 : line[j] # ";"
    BY ONLY <1>4, <2>0
  <2>4. k = L + 1 \/ line[k] = ";"
    BY ONLY <1>3, <1>4, <2>0
  <2>5. Piece(line, B, n + 1) = SubSeq(line, b + 1, k - 1)
    BY ONLY <2>0 DEF Piece
  <2>6. Append(P, Piece(line, B, n + 1)) = PiecesOf(line, B, n + 1)
    BY PiecesGrow
  <2> HIDE DEF b, k, P
  <2>7. b \in Nat /\ k \in Nat
    BY ONLY <2>2, <1>0
  <2>8. f[k] = [start |-> 0, parameters |-> Append(P, SubSeq(line, b + 1, k - 1))]
    <3>1. ParameterBetween(line, at, b, k)
      <4>1. b < k /\ at - 1 <= b /\ k <= Len(line) + 1 /\ (k = Len(line) + 1 \/ line[k] = ";") /\ Len(line) \in Nat
        BY ONLY <1>0, <2>2, <2>4 DEF L
      <4> QED BY ONLY <1>0, <2>3, <2>7, <4>1, Zenon DEF ParameterBetween
    <3> QED BY ONLY <1>1, <2>1, <3>1, ParameterEnds
  <2>9. f[k] = [start |-> 0, parameters |-> PiecesOf(line, B, n + 1)]
    BY ONLY <2>5, <2>6, <2>8
  <2> QED BY <2>9 DEF k
<1>7. R(m)
  <2>1. m \in G
    <3> HIDE DEF G
    <3> QED BY <1>3, <1>5, <1>6, AllNaturals
  <2> HIDE DEF R
  <2> QED BY ONLY <2>1, <1>3
<1>8. f[L + 1] = [start |-> 0, parameters |-> PiecesOf(line, B, m)]
  BY ONLY <1>3, <1>7
<1> QED BY ONLY <1>2, <1>8

\* end is the first position of c in s, or behind s.
FirstAt(s, c, end) ==
  /\ Len(s) \in Nat /\ end \in Nat /\ 1 <= end /\ end <= Len(s) + 1
  /\ (end = Len(s) + 1 \/ s[end] = c)
  /\ \A k \in 1 .. end - 1 : s[k] # c

\* The first of the positions of a character is its first occurrence.
LEMMA FirstPosition ==
  ASSUME NEW S, NEW s \in Seq(S), NEW c
  PROVE  FirstAt(s, c, IF Positions(s, c) = << >> THEN Len(s) + 1 ELSE Positions(s, c)[1])
<1> DEFINE at == Positions(s, c)
           L == Len(s)
<1>1. Marks(at, s, c, L)
  BY PositionsMark
<1>2. L \in Nat
  OBVIOUS
<1> HIDE DEF at, L
<1>3. /\ at \in Seq(1 .. L)
      /\ \A i, j \in 1 .. Len(at) : i < j => at[i] < at[j]
      /\ \A i \in 1 .. Len(at) : s[at[i]] = c
      /\ \A j \in 1 .. L : s[j] = c => \E i \in 1 .. Len(at) : at[i] = j
  BY ONLY <1>1 DEF Marks
<1>4. CASE at = << >>
  <2>1. \A i \in 1 .. Len(at) : FALSE
    <3>1. Len(at) = 0
      BY ONLY <1>4
    <3> QED BY ONLY <3>1
  <2>2. \A j \in 1 .. L : s[j] # c
    BY ONLY <1>3, <2>1
  <2>3. (L + 1) - 1 = L /\ L + 1 \in Nat /\ 1 <= L + 1 /\ L + 1 <= L + 1
    BY ONLY <1>2
  <2>4. FirstAt(s, c, L + 1)
    BY ONLY <1>2, <2>2, <2>3 DEF FirstAt, L
  <2> QED BY <1>4, <2>4 DEF at, L
<1>5. CASE at # << >>
  <2> DEFINE e == at[1]
  <2>1. 1 \in 1 .. Len(at) /\ Len(at) \in Nat
    BY ONLY <1>3, <1>5, EmptySeq
  <2>2. e \in 1 .. L /\ s[e] = c
    <3>1. at[1] \in 1 .. L
      BY ONLY <1>3, <2>1, SequenceParts
    <3> QED BY ONLY <3>1, <1>3, <2>1
  <2>3. ASSUME NEW k \in 1 .. e - 1, s[k] = c PROVE FALSE
    <3> HIDE DEF e
    <3>1. k \in 1 .. L /\ k < e /\ k \in Int
      BY ONLY <1>2, <2>2
    <3>2. PICK i \in 1 .. Len(at) : at[i] = k
      BY ONLY <1>3, <2>3, <3>1
    <3>3. i = 1 \/ 1 < i
      BY ONLY <2>1
    <3>4. CASE i = 1
      <4>1. e = k
        BY ONLY <3>2, <3>4 DEF e
      <4> QED BY ONLY <4>1, <3>1
    <3>5. CASE 1 < i
      <4>1. e < k
        BY ONLY <1>3, <2>1, <3>2, <3>5 DEF e
      <4> QED BY ONLY <4>1, <3>1, <2>2
    <3> QED BY <3>3, <3>4, <3>5
  <2> HIDE DEF e
  <2>4. e \in Nat /\ 1 <= e /\ e <= L + 1
    BY ONLY <1>2, <2>2
  <2>5. FirstAt(s, c, e)
    BY <1>2, <2>2, <2>3, <2>4 DEF FirstAt, L
  <2> QED BY <1>5, <2>5 DEF at, e
<1> QED BY <1>4, <1>5

-----------------------------------------------------------------------------
(* ... and the whole request.                                                *)

\* Every option can be asked for by its name.
OptionsAnswer(r) ==
  \A n \in DOMAIN r.options :
    /\ request_has_option(r, r.options[n].name)
    /\ \E m \in 1 .. n : request_get_option(r, r.options[n].name) = r.options[m].value

\* The first option of a name is found.
LEMMA OptionsFound ==
  ASSUME NEW r, NEW m \in Nat, DOMAIN r.options = 1 .. m
  PROVE  OptionsAnswer(r)
<1> SUFFICES ASSUME NEW n \in 1 .. m
             PROVE  /\ request_has_option(r, r.options[n].name)
                    /\ \E q \in 1 .. n : request_get_option(r, r.options[n].name) = r.options[q].value
  BY DEF OptionsAnswer
<1> DEFINE name == r.options[n].name
           First(q) == r.options[q].name = name /\ \A j \in 1 .. q - 1 : r.options[j].name # name
           A == {q \in 1 .. m : r.options[q].name = name}
           c == CHOOSE q \in 1 .. m : First(q)
<1>1. n \in A /\ A \subseteq Nat
  OBVIOUS
<1>2. PICK s \in A : \A j \in A : s <= j
  <2> HIDE DEF A
  <2> QED BY <1>1, Smallest
<1>3. s \in 1 .. m /\ First(s)
  <2>1. s \in 1 .. m /\ r.options[s].name = name
    OBVIOUS
  <2>2. ASSUME NEW j \in 1 .. s - 1, r.options[j].name = name PROVE FALSE
    <3>1. j \in 1 .. m /\ ~(s <= j)
      BY ONLY <2>1, m \in Nat
    <3> QED BY <1>2, <2>2, <3>1
  <2> QED BY <2>1, <2>2
<1>4. c \in 1 .. m /\ First(c)
  <2> HIDE DEF First
  <2> QED BY <1>3
<1>5. request_get_option(r, name) = r.options[c].value
  BY Zenon DEF request_get_option
<1>6. c \in 1 .. n
  <2> SUFFICES ASSUME ~(c <= n) PROVE FALSE
    <3> HIDE DEF c
    <3> QED BY <1>4
  <2> HIDE DEF c
  <2>1. n \in 1 .. c - 1
    BY <1>4
  <2> QED BY <1>4, <2>1
<1>7. request_has_option(r, name)
  BY DEF request_has_option
<1> HIDE DEF c
<1> QED BY <1>5, <1>6, <1>7

\* IsSplit with its abbreviations for names.
SplitAs(line, r, end, pieces, parameters) ==
  IF line[1] \notin {" ", ";"} \/ (line[1] = ";" /\ \E n \in DOMAIN pieces : KeyEnds(pieces[n]) = {})
  THEN r.error = "INVALID_SYNTAX"
  ELSE /\ r.error = "NONE"
       /\ r.parameters = parameters
       /\ r.options = IF line[1] = ";" THEN SplitOptions(pieces) ELSE << >>
       /\ OptionsAnswer(r)

\* A line without a separator, and one without options.
LEMMA SplitPlain ==
  ASSUME NEW S, NEW line \in Seq(S), line # << >>, NEW end, FirstAt(line, " ", end), line[1] # ";", NEW pieces
  PROVE  SplitAs(line, parse_request(line), end, pieces, Pieces(SubSeq(line, end + 1, Len(line)), ";"))
<1> DEFINE L == Len(line)
           r == parse_request(line)
<1>1. L \in Nat /\ L # 0
  BY EmptySeq
<1>a. end \in Nat /\ 1 <= end
  BY DEF FirstAt
<1>2. \A k \in 1 .. end - 1 : line[k] # " "
  BY DEF FirstAt
<1>3. CASE line[1] # " "
  <2>1. r = Failed("INVALID_SYNTAX")
    BY <1>3 DEF parse_request
  <2>2. r.error = "INVALID_SYNTAX"
    <3> HIDE DEF r
    <3> QED BY <2>1 DEF Failed
  <2> QED BY <1>3, <2>2 DEF SplitAs
<1>4. CASE line[1] = " "
  <2>1. end = 1
    <3> SUFFICES ASSUME end # 1 PROVE FALSE
      OBVIOUS
    <3>1. 1 \in 1 .. end - 1
      BY ONLY <1>a, end # 1
    <3> QED BY <1>2, <1>4, <3>1
  <2>2. 2 \in 1 .. L + 1 /\ L \in 2 - 1 .. L
    <3> HIDE DEF L
    <3> QED BY ONLY <1>1
  <2>3. PICK m, B : Cuts(B, m, line, 2, L, ";") /\ Pieces(SubSeq(line, 2, L), ";") = [n \in 1 .. m |-> Piece(line, B, n)]
    <3>1. SplitsAt(line, 2, L, ";")
      BY <2>2, PiecesCut
    <3> QED BY ONLY <3>1 DEF SplitsAt
  <2>4. ScanParameters(line, 2) = PiecesOf(line, B, m)
    BY <2>2, <2>3, ParametersSplit
  <2>5. r = [error |-> "NONE", options |-> << >>, parameters |-> ScanParameters(line, 2)]
    BY <1>4 DEF parse_request
  <2> HIDE DEF r
  <2>6. r.error = "NONE" /\ r.options = << >> /\ r.parameters = ScanParameters(line, 2)
    BY ONLY <2>5
  <2>7. OptionsAnswer(r)
    <3>1. DOMAIN r.options = 1 .. 0
      BY ONLY <2>6
    <3> QED BY ONLY <3>1, OptionsFound
  <2>8. end + 1 = 2
    BY ONLY <2>1
  <2>9. Pieces(SubSeq(line, end + 1, L), ";") = ScanParameters(line, 2)
    BY <2>3, <2>4, <2>8 DEF PiecesOf
  <2> QED BY <1>4, <2>6, <2>7, <2>9 DEF SplitAs, r
<1> QED BY <1>3, <1>4

\* A line with options.
LEMMA SplitWithOptions ==
  ASSUME NEW S, NEW line \in Seq(S), line # << >>, NEW end, FirstAt(line, " ", end), line[1] = ";"
  PROVE  SplitAs(line, parse_request(line), end, Pieces(SubSeq(line, 2, end - 1), ";"),
                 Pieces(SubSeq(line, end + 1, Len(line)), ";"))
<1> DEFINE L == Len(line)
           r == parse_request(line)
           st == ScanOptions(line)
           pieces == Pieces(SubSeq(line, 2, end - 1), ";")
           at == After(line, end)
<1>1. L \in Nat /\ L # 0
  BY EmptySeq
<1>2. end \in Nat /\ 1 <= end /\ end <= L + 1
  BY DEF FirstAt
<1>3. (end = L + 1 \/ line[end] = " ") /\ \A k \in 1 .. end - 1 : line[k] # " "
  BY DEF FirstAt
<1> HIDE DEF L
<1>4. end # 1
  <2> SUFFICES ASSUME end = 1 PROVE FALSE
    OBVIOUS
  <2>1. end # L + 1
    BY ONLY <1>1, end = 1
  <2> QED BY <1>3, <2>1
<1>5. 2 <= end /\ 2 \in 1 .. L + 1 /\ end - 1 \in 2 - 1 .. L /\ \A k \in 2 .. end - 1 : k \in 1 .. end - 1
  BY ONLY <1>1, <1>2, <1>4
<1>6. OptionsEnd(line, end)
  BY <1>1, <1>2, <1>3, <1>5 DEF OptionsEnd, L
<1>7. PICK m, B : Cuts(B, m, line, 2, end - 1, ";") /\ pieces = [n \in 1 .. m |-> Piece(line, B, n)]
  <2>1. SplitsAt(line, 2, end - 1, ";")
    BY <1>5, PiecesCut DEF L
  <2> QED BY ONLY <2>1 DEF SplitsAt
<1>8. OptionsAsSplit(st, line, B, m, end)
  BY <1>6, <1>7, OptionsSplit
<1>9. m \in Nat
  BY <1>7 DEF Cuts
<1>10. DOMAIN pieces = 1 .. m /\ \A n \in 1 .. m : pieces[n] = Piece(line, B, n)
  <2> HIDE DEF pieces
  <2> QED BY ONLY <1>7
<1>11. GoodPieces(line, B, m) <=> ~\E n \in DOMAIN pieces : KeyEnds(pieces[n]) = {}
  BY <1>10 DEF GoodPieces
<1>12. SplitOptions(pieces) = OptionsOf(line, B, m)
  <2> HIDE DEF pieces
  <2>1. SplitOptions(pieces) = [n \in 1 .. m |-> OptionOf(pieces[n])]
    BY ONLY <1>10 DEF SplitOptions, OptionOf
  <2> QED BY ONLY <1>10, <2>1 DEF OptionsOf
<1> HIDE DEF pieces, st
<1>13. r = IF st.error # "NONE" THEN Failed(st.error)
           ELSE [error |-> "NONE", options |-> st.options, parameters |-> ScanParameters(line, st.at)]
  BY DEF parse_request, st
<1> HIDE DEF r
<1>14. CASE ~GoodPieces(line, B, m)
  <2>1. st.error = "INVALID_SYNTAX"
    BY ONLY <1>8, <1>14 DEF OptionsAsSplit
  <2>2. r = Failed("INVALID_SYNTAX")
    BY ONLY <1>13, <2>1
  <2>3. r.error = "INVALID_SYNTAX"
    BY ONLY <2>2 DEF Failed
  <2> QED BY <1>11, <1>14, <2>3 DEF SplitAs, r, pieces
<1>15. CASE GoodPieces(line, B, m)
  <2>1. st = [o |-> NoOption, options |-> OptionsOf(line, B, m), at |-> at, error |-> "NONE"]
    BY ONLY <1>8, <1>15 DEF OptionsAsSplit
  <2> HIDE DEF at
  <2>2. st.error = "NONE" /\ st.options = OptionsOf(line, B, m) /\ st.at = at
    BY ONLY <2>1
  <2>3. r = [error |-> "NONE", options |-> OptionsOf(line, B, m), parameters |-> ScanParameters(line, at)]
    BY ONLY <1>13, <2>2
  <2>4. r.error = "NONE" /\ r.options = OptionsOf(line, B, m) /\ r.parameters = ScanParameters(line, at)
    BY ONLY <2>3
  <2>5. OptionsAnswer(r)
    <3>1. DOMAIN r.options = 1 .. m
      BY ONLY <2>4 DEF OptionsOf
    <3> QED BY ONLY <3>1, <1>9, OptionsFound
  <2>6. at = (IF end = L + 1 THEN L + 1 ELSE end + 1) /\ at \in 1 .. L + 1 /\ L \in at - 1 .. L
    <3>1. at = IF end = L + 1 THEN L + 1 ELSE end + 1
      BY <1>3 DEF After, at, L
    <3> QED BY ONLY <3>1, <1>1, <1>2
  <2>7. SubSeq(line, end + 1, L) = SubSeq(line, at, L)
    <3>1. CASE end # L + 1
      BY ONLY <3>1, <2>6
    <3>2. CASE end = L + 1
      <4>1. ~(end + 1 <= L) /\ ~(at <= L) /\ end + 1 \in Int /\ at \in Int
        BY ONLY <1>1, <2>6, <3>2
      <4>2. \A i \in Int : ~(i <= L) => SubSeq(line, i, L) = << >>
        <5> SUFFICES ASSUME NEW i \in Int, ~(i <= L) PROVE SubSeq(line, i, L) = << >>
          OBVIOUS
        <5>1. \A k \in i .. L : line[k] \in S
          BY ONLY <1>1, i \in Int, ~(i <= L)
        <5>2. SubSeq(line, i, L) \in Seq(S) /\ Len(SubSeq(line, i, L)) = IF i <= L THEN L - i + 1 ELSE 0
          BY ONLY <5>1, <1>1, i \in Int, SubSeqProperties
        <5>3. Len(SubSeq(line, i, L)) = 0
          BY ONLY <5>2, ~(i <= L)
        <5> QED BY ONLY <5>2, <5>3, EmptySeq
      <4> QED BY ONLY <4>1, <4>2
    <3> QED BY <3>1, <3>2
  <2>8. PICK q, C : Cuts(C, q, line, at, L, ";") /\ Pieces(SubSeq(line, at, L), ";") = [n \in 1 .. q |-> Piece(line, C, n)]
    <3>1. SplitsAt(line, at, L, ";")
      BY <2>6, PiecesCut DEF L
    <3> QED BY ONLY <3>1 DEF SplitsAt
  <2>9. ScanParameters(line, at) = PiecesOf(line, C, q)
    BY <2>6, <2>8, ParametersSplit DEF L
  <2>10. Pieces(SubSeq(line, end + 1, L), ";") = ScanParameters(line, at)
    BY ONLY <2>7, <2>8, <2>9 DEF PiecesOf
  <2>11. SplitAs(line, r, end, pieces, Pieces(SubSeq(line, end + 1, L), ";"))
    BY <1>11, <1>12, <1>15, <2>4, <2>5, <2>10 DEF SplitAs
  <2> QED BY <2>11 DEF r, pieces, L
<1> QED BY <1>14, <1>15

\* parse_request finds in every line what splitting finds in it.
LEMMA LineParses ==
  ASSUME NEW S, NEW line \in Seq(S), line # << >>
  PROVE  IsSplit(line, parse_request(line))
<1> DEFINE r == parse_request(line)
           spaces == Positions(line, " ")
           end == IF spaces = << >> THEN Len(line) + 1 ELSE spaces[1]
           pieces == Pieces(SubSeq(line, 2, end - 1), ";")
           parameters == Pieces(SubSeq(line, end + 1, Len(line)), ";")
<1>1. FirstAt(line, " ", end)
  BY FirstPosition
<1>2. SplitAs(line, r, end, pieces, parameters)
  <2> HIDE DEF end
  <2>1. CASE line[1] # ";"
    BY <1>1, <2>1, SplitPlain
  <2>2. CASE line[1] = ";"
    BY <1>1, <2>2, SplitWithOptions
  <2> QED BY <2>1, <2>2
<1>3. SplitAs(line, r, end, pieces, parameters) => IsSplit(line, r)
  <2> HIDE DEF r
  <2> QED BY Zenon DEF SplitAs, IsSplit, OptionsAnswer
<1> QED BY <1>2, <1>3

\* The request at hand was made by the parser from its line.
ParserInv ==
  \/ parsed = NothingParsed
  \/ parsed.line \in Lines /\ parsed.result = parse_request(parsed.line)

\* Lines are sequences of characters.
LEMMA LinesAreSequences == Lines \subseteq Seq(Characters)
<1> SUFFICES ASSUME NEW n \in 0 .. MaxLine, NEW line \in [1 .. n -> Characters] PROVE line \in Seq(Characters)
  BY DEF Lines
<1>0. MaxLine \in Nat
  BY RequestParserAssumption
<1>1. n \in Nat
  BY ONLY <1>0
<1> QED BY <1>1

\* However long a line is and whatever it is made of, options and parameters are
\* what splitting the line finds in it, and a line is refused exactly if a piece
\* of its options is none (parse_request).
THEOREM RequestsParseAsSplit == ParserSpec => []ParsesAsSplit
<1>1. ParserInit => ParserInv
  BY DEF ParserInit, ParserInv
<1>2. ParserInv /\ [ParserNext]_parsed => ParserInv'
  <2> SUFFICES ASSUME ParserInv, [ParserNext]_parsed PROVE ParserInv'
    OBVIOUS
  <2>1. CASE UNCHANGED parsed
    BY <2>1, Zenon DEF ParserInv
  <2>2. CASE Forget
    BY <2>2 DEF Forget, ParserInv
  <2>3. ASSUME NEW line \in Lines, Parse(line) PROVE ParserInv'
    <3> DEFINE r == parse_request(line)
    <3>1. parsed' = [line |-> line, result |-> r]
      BY <2>3 DEF Parse
    <3> HIDE DEF r
    <3>2. parsed'.line = line /\ parsed'.result = r
      BY ONLY <3>1
    <3> QED BY ONLY <3>2, line \in Lines DEF ParserInv, r
  <2> QED BY <2>1, <2>2, <2>3 DEF ParserNext
<1>3. ParserInv => ParsesAsSplit
  <2> SUFFICES ASSUME ParserInv, parsed.line # << >> PROVE IsSplit(parsed.line, parsed.result)
    BY DEF ParsesAsSplit
  <2>1. parsed.line \in Lines /\ parsed.result = parse_request(parsed.line)
    <3>1. NothingParsed.line = << >>
      BY DEF NothingParsed
    <3> QED BY <3>1 DEF ParserInv
  <2>2. parsed.line \in Seq(Characters)
    BY <2>1, LinesAreSequences
  <2> QED BY <2>1, <2>2, LineParses
<1> QED BY <1>1, <1>2, <1>3, PTL DEF ParserSpec

-----------------------------------------------------------------------------
(* Arrays as text (protocol.c): numbers, ...                                 *)

\* f[k] is what atoi has read after k characters of s.
AtoiProceeds(f, s) ==
  /\ f[0] = [n |-> 0, on |-> TRUE]
  /\ \A k \in 1 .. Len(s) :
       f[k] = IF f[k - 1].on /\ \E d \in Numbers : DigitOf(d) = s[k]
              THEN [n |-> 10 * f[k - 1].n + (CHOOSE d \in Numbers : DigitOf(d) = s[k]), on |-> TRUE]
              ELSE [f[k - 1] EXCEPT !.on = FALSE]

\* atoi, unfolded.
LEMMA AtoiStep ==
  ASSUME NEW s, Len(s) \in Nat
  PROVE  AtoiProceeds(AtoiStates(s), s)
<1> DEFINE L == Len(s)
           Start == [n |-> 0, on |-> TRUE]
           Read(v, k) == IF v.on /\ \E d \in Numbers : DigitOf(d) = s[k]
                         THEN [n |-> 10 * v.n + (CHOOSE d \in Numbers : DigitOf(d) = s[k]), on |-> TRUE]
                         ELSE [v EXCEPT !.on = FALSE]
           Step(f, k) == IF k = 0 THEN Start ELSE Read(f[k - 1], k)
           st == CHOOSE f : f = [k \in 0 .. L |-> Step(f, k)]
           T == {n \in Nat : \E f : f = [k \in 0 .. n |-> Step(f, k)]}
<1>0. L \in Nat
  OBVIOUS
<1>1. AtoiStates(s) = st
  BY Zenon DEF AtoiStates
<1> HIDE DEF Start, L, Read
<1>2. 0 \in T
  <2> DEFINE f == [k \in 0 .. 0 |-> Start]
  <2>1. \A k \in 0 .. 0 : k = 0
    OBVIOUS
  <2>2. \A k \in 0 .. 0 : Step(f, k) = Start
    BY <2>1
  <2>3. f = [k \in 0 .. 0 |-> Step(f, k)]
    <3> HIDE DEF Step
    <3> QED BY <2>2
  <2> QED BY <2>3
<1>3. ASSUME NEW n \in Nat, n \in T PROVE n + 1 \in T
  <2>1. PICK f : f = [k \in 0 .. n |-> Step(f, k)]
    BY <1>3
  <2> DEFINE g == [k \in 0 .. n + 1 |-> IF k <= n THEN f[k] ELSE Step(f, n + 1)]
  <2>2. ASSUME NEW k \in 0 .. n + 1 PROVE g[k] = Step(g, k)
    <3>1. CASE k = 0
      <4>1. k \in 0 .. n /\ k <= n
        BY <3>1
      <4>2. g[k] = f[k]
        BY <4>1
      <4>3. f[k] = Step(f, k)
        <5> HIDE DEF Step
        <5> QED BY <2>1, <4>1
      <4> HIDE DEF g
      <4> QED BY <3>1, <4>2, <4>3
    <3>2. CASE k # 0 /\ k <= n
      <4>1. k \in 0 .. n /\ k - 1 \in 0 .. n + 1 /\ k - 1 <= n
        BY <3>2
      <4>2. g[k] = f[k] /\ g[k - 1] = f[k - 1]
        BY <3>2, <4>1
      <4>3. f[k] = Step(f, k)
        <5> HIDE DEF Step
        <5> QED BY <2>1, <4>1
      <4> HIDE DEF g
      <4>4. Step(g, k) = Step(f, k)
        BY <4>2, Zenon
      <4> QED BY <4>2, <4>3, <4>4
    <3>3. CASE k = n + 1
      <4>1. g[k] = Step(f, n + 1)
        <5>1. ~(k <= n)
          BY <3>3
        <5> HIDE DEF Step
        <5> QED BY <5>1
      <4>2. n \in 0 .. n + 1 /\ k - 1 = n /\ (n + 1) - 1 = n /\ n <= n
        BY <3>3
      <4>3. g[k - 1] = f[(n + 1) - 1]
        BY <4>2
      <4> HIDE DEF g
      <4>4. Step(g, k) = Step(f, n + 1)
        BY <4>2, <4>3, <3>3, Zenon
      <4> QED BY <4>1, <4>4
    <3>4. k = n + 1 \/ k <= n
      OBVIOUS
    <3> QED BY <3>1, <3>2, <3>3, <3>4
  <2>3. g = [k \in 0 .. n + 1 |-> g[k]]
    OBVIOUS
  <2> HIDE DEF g, Step
  <2>4. g = [k \in 0 .. n + 1 |-> Step(g, k)]
    BY <2>2, <2>3
  <2> QED BY <2>4
<1>4. L \in T
  <2> HIDE DEF T
  <2> QED BY <1>0, <1>2, <1>3, AllNaturals
<1>5. st = [k \in 0 .. L |-> Step(st, k)]
  <2> HIDE DEF Step
  <2> QED BY <1>4
<1> HIDE DEF st
<1>6. st[0] = Start
  <2>1. 0 \in 0 .. L
    BY <1>0
  <2>2. st[0] = Step(st, 0)
    <3> HIDE DEF Step
    <3> QED BY <1>5, <2>1
  <2> QED BY <2>2
<1>7. ASSUME NEW k \in 1 .. L PROVE st[k] = Read(st[k - 1], k)
  <2>1. k \in 0 .. L /\ k # 0
    BY ONLY <1>0
  <2>2. st[k] = Step(st, k)
    <3> HIDE DEF Step
    <3> QED BY <1>5, <2>1
  <2> QED BY <2>1, <2>2
<1>8. AtoiProceeds(st, s)
  BY <1>6, <1>7, Zenon DEF AtoiProceeds, L, Start, Read
<1> QED BY <1>1, <1>8

\* The digits differ.
LEMMA DigitsDiffer == \A d, e \in Numbers : DigitOf(d) = DigitOf(e) => d = e
<1>1. \A d \in Numbers : d = 0 \/ d = 1 \/ d = 2 \/ d = 3
  BY DEF Numbers
<1>2. DigitOf(0) = "0" /\ DigitOf(1) = "1" /\ DigitOf(2) = "2" /\ DigitOf(3) = "3"
  BY DEF DigitOf, Digits
<1> QED BY <1>1, <1>2

\* atoi yields a number.
LEMMA AtoiIsNat ==
  ASSUME NEW s, Len(s) \in Nat
  PROVE  atoi(s) \in Nat
<1> DEFINE f == AtoiStates(s)
           L == Len(s)
           V == [n : Nat, on : BOOLEAN]
           G == {k \in Nat : k <= L => f[k] \in V}
<1>1. AtoiProceeds(f, s)
  BY AtoiStep
<1>0. L \in Nat
  OBVIOUS
<1> HIDE DEF f
<1>2. 0 \in G
  <2>1. f[0] = [n |-> 0, on |-> TRUE]
    BY <1>1 DEF AtoiProceeds
  <2>2. f[0] \in V
    BY ONLY <2>1
  <2> HIDE DEF V
  <2> QED BY ONLY <2>2
<1>3. ASSUME NEW k \in Nat, k \in G PROVE k + 1 \in G
  <2> DEFINE q == k + 1
             v == f[k]
             D == CHOOSE d \in Numbers : DigitOf(d) = s[q]
  <2> SUFFICES ASSUME q <= L PROVE f[q] \in V
    OBVIOUS
  <2>0. q \in 1 .. L /\ q - 1 = k /\ k <= L
    <3> HIDE DEF L
    <3> QED BY <1>0
  <2>1. v \in V
    BY <1>3, <2>0
  <2>2. f[q] = IF v.on /\ \E d \in Numbers : DigitOf(d) = s[q]
               THEN [n |-> 10 * v.n + D, on |-> TRUE] ELSE [v EXCEPT !.on = FALSE]
    <3> HIDE DEF q
    <3> QED BY <1>1, <2>0 DEF AtoiProceeds
  <2> HIDE DEF q, v
  <2>3. [v EXCEPT !.on = FALSE] \in V
    BY ONLY <2>1
  <2>4. ASSUME \E d \in Numbers : DigitOf(d) = s[q] PROVE [n |-> 10 * v.n + D, on |-> TRUE] \in V
    <3>1. D \in Numbers
      BY ONLY <2>4
    <3> HIDE DEF D
    <3>2. D \in Nat
      BY ONLY <3>1 DEF Numbers
    <3>3. v.n \in Nat
      BY ONLY <2>1
    <3>4. 10 * v.n + D \in Nat
      BY ONLY <3>2, <3>3
    <3> QED BY ONLY <3>4
  <2> HIDE DEF V, D
  <2> QED BY <2>2, <2>3, <2>4
<1>4. L \in G
  <2> HIDE DEF G, L
  <2> QED BY <1>0, <1>2, <1>3, AllNaturals
<1>5. f[L] \in V
  <2> HIDE DEF V, L
  <2> QED BY <1>0, <1>4
<1>6. f[L].n \in Nat
  <2> HIDE DEF L
  <2> QED BY ONLY <1>5
<1> QED BY <1>6 DEF atoi, f

\* atoi of one digit.
LEMMA AtoiOfDigit ==
  ASSUME NEW d \in Numbers, NEW s, Len(s) = 1, s[1] = DigitOf(d)
  PROVE  atoi(s) = d
<1> DEFINE f == AtoiStates(s)
           D == CHOOSE e \in Numbers : DigitOf(e) = s[1]
<1>1. AtoiProceeds(f, s)
  BY AtoiStep
<1> HIDE DEF f
<1>2. D = d
  <2>1. D \in Numbers /\ DigitOf(D) = s[1]
    OBVIOUS
  <2> HIDE DEF D
  <2> QED BY <2>1, DigitsDiffer
<1>3. f[0].n = 0 /\ f[0].on
  <2>1. f[0] = [n |-> 0, on |-> TRUE]
    BY <1>1 DEF AtoiProceeds
  <2> QED BY ONLY <2>1
<1>4. f[1] = [n |-> 10 * f[0].n + D, on |-> TRUE]
  <2>1. 1 \in 1 .. Len(s) /\ 1 - 1 = 0
    OBVIOUS
  <2>2. f[1] = IF f[1 - 1].on /\ \E e \in Numbers : DigitOf(e) = s[1]
               THEN [n |-> 10 * f[1 - 1].n + D, on |-> TRUE] ELSE [f[1 - 1] EXCEPT !.on = FALSE]
    BY <1>1, <2>1 DEF AtoiProceeds
  <2>3. \E e \in Numbers : DigitOf(e) = s[1]
    OBVIOUS
  <2> HIDE DEF D
  <2> QED BY ONLY <1>3, <2>1, <2>2, <2>3
<1>5. f[1].n = 10 * f[0].n + D
  <2> HIDE DEF D
  <2> QED BY ONLY <1>4
<1>6. d \in Nat
  BY DEF Numbers
<1>7. f[1].n = d
  <2> HIDE DEF D
  <2> QED BY ONLY <1>2, <1>3, <1>5, <1>6
<1> QED BY <1>7 DEF atoi, f

-----------------------------------------------------------------------------
(* ... writing an array ...                                                  *)

\* What an item is written as, without the separator of a blob.
Word(kind, items, k) == IF kind = "blob" THEN items[k] ELSE <<",", DigitOf(items[k])>>

\* E[k] are the first k items, written.
EncodeProceeds(E, kind, items) ==
  /\ E[0] = << >>
  /\ \A k \in 1 .. Len(items) : E[k] = E[k - 1] \o Word(kind, items, k)

\* The items as text, unfolded.
LEMMA EncodeStep ==
  ASSUME NEW kind, NEW items, Len(items) \in Nat
  PROVE  EncodeProceeds(EncodedItems(kind, items), kind, items)
<1> DEFINE L == Len(items)
           Step(f, k) == IF k = 0 THEN << >> ELSE f[k - 1] \o Word(kind, items, k)
           st == CHOOSE f : f = [k \in 0 .. L |-> Step(f, k)]
           T == {n \in Nat : \E f : f = [k \in 0 .. n |-> Step(f, k)]}
<1>0. L \in Nat
  OBVIOUS
<1>1. EncodedItems(kind, items) = st
  BY Zenon DEF EncodedItems, Word
<1> HIDE DEF L
<1>2. 0 \in T
  <2> DEFINE f == [k \in 0 .. 0 |-> << >>]
  <2>1. \A k \in 0 .. 0 : k = 0
    OBVIOUS
  <2>2. \A k \in 0 .. 0 : Step(f, k) = << >>
    BY <2>1
  <2>3. f = [k \in 0 .. 0 |-> Step(f, k)]
    <3> HIDE DEF Step
    <3> QED BY <2>2
  <2> QED BY <2>3
<1>3. ASSUME NEW n \in Nat, n \in T PROVE n + 1 \in T
  <2>1. PICK f : f = [k \in 0 .. n |-> Step(f, k)]
    BY <1>3
  <2> DEFINE g == [k \in 0 .. n + 1 |-> IF k <= n THEN f[k] ELSE Step(f, n + 1)]
  <2>2. ASSUME NEW k \in 0 .. n + 1 PROVE g[k] = Step(g, k)
    <3>1. CASE k = 0
      <4>1. k \in 0 .. n /\ k <= n
        BY <3>1
      <4>2. g[k] = f[k]
        BY <4>1
      <4>3. f[k] = Step(f, k)
        <5> HIDE DEF Step
        <5> QED BY <2>1, <4>1
      <4> HIDE DEF g
      <4> QED BY <3>1, <4>2, <4>3
    <3>2. CASE k # 0 /\ k <= n
      <4>1. k \in 0 .. n /\ k - 1 \in 0 .. n + 1 /\ k - 1 <= n
        BY <3>2
      <4>2. g[k] = f[k] /\ g[k - 1] = f[k - 1]
        BY <3>2, <4>1
      <4>3. f[k] = Step(f, k)
        <5> HIDE DEF Step
        <5> QED BY <2>1, <4>1
      <4> HIDE DEF g
      <4>4. Step(g, k) = Step(f, k)
        BY <4>2, Zenon
      <4> QED BY <4>2, <4>3, <4>4
    <3>3. CASE k = n + 1
      <4>1. g[k] = Step(f, n + 1)
        <5>1. ~(k <= n)
          BY <3>3
        <5> HIDE DEF Step
        <5> QED BY <5>1
      <4>2. n \in 0 .. n + 1 /\ k - 1 = n /\ (n + 1) - 1 = n /\ n <= n
        BY <3>3
      <4>3. g[k - 1] = f[(n + 1) - 1]
        BY <4>2
      <4> HIDE DEF g
      <4>4. Step(g, k) = Step(f, n + 1)
        BY <4>2, <4>3, <3>3, Zenon
      <4> QED BY <4>1, <4>4
    <3>4. k = n + 1 \/ k <= n
      OBVIOUS
    <3> QED BY <3>1, <3>2, <3>3, <3>4
  <2>3. g = [k \in 0 .. n + 1 |-> g[k]]
    OBVIOUS
  <2> HIDE DEF g, Step
  <2>4. g = [k \in 0 .. n + 1 |-> Step(g, k)]
    BY <2>2, <2>3
  <2> QED BY <2>4
<1>4. L \in T
  <2> HIDE DEF T
  <2> QED BY <1>0, <1>2, <1>3, AllNaturals
<1>5. st = [k \in 0 .. L |-> Step(st, k)]
  <2> HIDE DEF Step
  <2> QED BY <1>4
<1> HIDE DEF st
<1>6. st[0] = << >>
  <2>1. 0 \in 0 .. L
    BY <1>0
  <2>2. st[0] = Step(st, 0)
    <3> HIDE DEF Step
    <3> QED BY <1>5, <2>1
  <2> QED BY <2>2
<1>7. ASSUME NEW k \in 1 .. L PROVE st[k] = st[k - 1] \o Word(kind, items, k)
  <2>1. k \in 0 .. L /\ k # 0
    BY ONLY <1>0
  <2>2. st[k] = Step(st, k)
    <3> HIDE DEF Step
    <3> QED BY <1>5, <2>1
  <2> QED BY <2>1, <2>2
<1>8. EncodeProceeds(st, kind, items)
  BY <1>6, <1>7, Zenon DEF EncodeProceeds, L
<1> QED BY <1>1, <1>8

\* u is s of length a followed by t of length b.
BothJoined(u, s, t, a, b, S) ==
  u \in Seq(S) /\ Len(u) = a + b /\ \A i \in 1 .. a + b : u[i] = IF i <= a THEN s[i] ELSE t[i - a]

\* Two texts, one behind the other.
LEMMA Joins ==
  ASSUME NEW S, NEW s \in Seq(S), NEW t \in Seq(S), NEW a, NEW b, Len(s) = a, Len(t) = b
  PROVE  BothJoined(s \o t, s, t, a, b, S)
BY ConcatProperties DEF BothJoined

\* A text of one character.
LEMMA OneCharacter ==
  ASSUME NEW S, NEW x \in S
  PROVE  <<x>> \in Seq(S) /\ Len(<<x>>) = 1 /\ <<x>>[1] = x
OBVIOUS

\* Every item is written as two characters.
TwoCharacters(kind, items, n, S) ==
  n \in Nat /\ Len(items) = n /\ \A k \in 1 .. n : Word(kind, items, k) \in Seq(S) /\ Len(Word(kind, items, k)) = 2

\* t has the n items behind its first q characters.
HoldsWords(t, q, kind, items, n, S) ==
  /\ t \in Seq(S) /\ Len(t) = q + 2 * n
  /\ \A k \in 1 .. n : t[q + 2 * k - 1] = Word(kind, items, k)[1] /\ t[q + 2 * k] = Word(kind, items, k)[2]

\* One item more.
LEMMA HoldsOneMore ==
  ASSUME NEW S, NEW kind, NEW items, NEW n \in Nat, NEW t, HoldsWords(t, 0, kind, items, n, S),
         NEW w, w = Word(kind, items, n + 1), w \in Seq(S), Len(w) = 2
  PROVE  HoldsWords(t \o w, 0, kind, items, n + 1, S)
<1> DEFINE u == t \o w
           m == 2 * n
<1>1. t \in Seq(S) /\ Len(t) = 0 + 2 * n
  BY DEF HoldsWords
<1>2. Len(t) = m /\ m \in Nat
  BY ONLY <1>1, n \in Nat
<1>3. u \in Seq(S) /\ Len(u) = m + 2 /\ \A i \in 1 .. m + 2 : u[i] = IF i <= m THEN t[i] ELSE w[i - m]
  <2> HIDE DEF m
  <2>1. w \in Seq(S) /\ Len(w) = 2
    OBVIOUS
  <2>2. BothJoined(t \o w, t, w, m, 2, S)
    BY ONLY <1>1, <1>2, <2>1, Joins
  <2> QED BY ONLY <2>2 DEF BothJoined
<1> HIDE DEF u
<1>4. Len(u) = 0 + 2 * (n + 1)
  BY ONLY <1>3, n \in Nat
<1>5. ASSUME NEW k \in 1 .. n + 1
      PROVE  u[0 + 2 * k - 1] = Word(kind, items, k)[1] /\ u[0 + 2 * k] = Word(kind, items, k)[2]
  <2>1. CASE k \in 1 .. n
    <3>1. /\ 0 + 2 * k - 1 \in 1 .. m + 2 /\ 0 + 2 * k - 1 <= m
          /\ 0 + 2 * k \in 1 .. m + 2 /\ 0 + 2 * k <= m
      BY ONLY <2>1, n \in Nat
    <3>2. u[0 + 2 * k - 1] = t[0 + 2 * k - 1] /\ u[0 + 2 * k] = t[0 + 2 * k]
      <4> HIDE DEF m
      <4> QED BY ONLY <1>3, <3>1
    <3>3. t[0 + 2 * k - 1] = Word(kind, items, k)[1] /\ t[0 + 2 * k] = Word(kind, items, k)[2]
      BY <2>1 DEF HoldsWords
    <3> QED BY ONLY <3>2, <3>3
  <2>2. CASE k = n + 1
    <3>1. /\ 0 + 2 * k - 1 \in 1 .. m + 2 /\ ~(0 + 2 * k - 1 <= m) /\ 0 + 2 * k - 1 - m = 1
          /\ 0 + 2 * k \in 1 .. m + 2 /\ ~(0 + 2 * k <= m) /\ 0 + 2 * k - m = 2
      BY ONLY <2>2, n \in Nat
    <3> DEFINE i == 0 + 2 * k - 1
               j == 0 + 2 * k
    <3>2. i \in 1 .. m + 2 /\ ~(i <= m) /\ i - m = 1 /\ j \in 1 .. m + 2 /\ ~(j <= m) /\ j - m = 2
      BY ONLY <3>1
    <3>3. u[i] = w[1] /\ u[j] = w[2]
      <4> HIDE DEF m, i, j
      <4> QED BY ONLY <1>3, <3>2
    <3> QED BY <2>2, <3>3
  <2>3. k \in 1 .. n \/ k = n + 1
    BY ONLY n \in Nat
  <2> QED BY <2>1, <2>2, <2>3
<1> QED BY <1>3, <1>4, <1>5 DEF HoldsWords, u

\* The items as text.
LEMMA ItemsEncoded ==
  ASSUME NEW S, NEW kind, NEW items, NEW n, TwoCharacters(kind, items, n, S)
  PROVE  HoldsWords(EncodedItems(kind, items)[n], 0, kind, items, n, S)
<1> DEFINE E == EncodedItems(kind, items)
           R(k) == HoldsWords(E[k], 0, kind, items, k, S)
           G == {k \in Nat : k <= n => R(k)}
<1>0. n \in Nat /\ Len(items) = n
  BY DEF TwoCharacters
<1>1. EncodeProceeds(E, kind, items)
  BY <1>0, EncodeStep
<1> HIDE DEF E
<1>2. E[0] = << >> /\ \A k \in 1 .. n : E[k] = E[k - 1] \o Word(kind, items, k)
  BY ONLY <1>0, <1>1 DEF EncodeProceeds
<1>3. 0 \in G
  <2>1. << >> \in Seq(S) /\ Len(<< >>) = 0 + 2 * 0 /\ \A k \in 1 .. 0 : FALSE
    BY ONLY TRUE
  <2>2. R(0)
    BY ONLY <1>2, <2>1 DEF HoldsWords
  <2> HIDE DEF R
  <2> QED BY ONLY <2>2
<1>4. ASSUME NEW k \in Nat, k \in G PROVE k + 1 \in G
  <2>a. (k + 1 <= n => R(k + 1)) => k + 1 \in G
    <3>1. k + 1 \in Nat
      BY ONLY k \in Nat
    <3> HIDE DEF R
    <3> QED BY ONLY <3>1, Zenon
  <2> SUFFICES ASSUME k + 1 <= n PROVE R(k + 1)
    BY <2>a, Zenon
  <2>0. k + 1 \in 1 .. n /\ (k + 1) - 1 = k /\ k <= n
    BY ONLY <1>0, k + 1 <= n, k \in Nat
  <2>1. R(k)
    <3> HIDE DEF R
    <3> QED BY ONLY <1>4, <2>0
  <2> DEFINE w == Word(kind, items, k + 1)
  <2>2. w \in Seq(S) /\ Len(w) = 2
    BY <2>0 DEF TwoCharacters
  <2>3. E[k + 1] = E[k] \o w
    BY ONLY <1>2, <2>0
  <2>4. HoldsWords(E[k] \o w, 0, kind, items, k + 1, S)
    <3>1. w = Word(kind, items, k + 1)
      OBVIOUS
    <3> HIDE DEF w
    <3> QED BY ONLY <2>1, <2>2, <3>1, k \in Nat, HoldsOneMore
  <2> HIDE DEF w
  <2> QED BY ONLY <2>3, <2>4
<1>5. R(n)
  <2>1. n \in G
    <3> HIDE DEF G
    <3> QED BY <1>0, <1>3, <1>4, AllNaturals
  <2> HIDE DEF R
  <2> QED BY ONLY <1>0, <2>1
<1> QED BY <1>5 DEF E

\* The text of an array: its length, for blobs a comma, and its items.
LEMMA ArrayEncoded ==
  ASSUME NEW S, NEW kind, NEW items, NEW n, TwoCharacters(kind, items, n, S), n # 0, items # << >>,
         DigitOf(n) \in S, "," \in S
  PROVE  LET t == xprc_encode_array(kind, items)
             q == IF kind = "blob" THEN 2 ELSE 1
         IN  HoldsWords(t, q, kind, items, n, S) /\ t[1] = DigitOf(n) /\ (kind = "blob" => t[2] = ",")
<1> DEFINE t == xprc_encode_array(kind, items)
           q == IF kind = "blob" THEN 2 ELSE 1
           h == <<DigitOf(n)>> \o (IF kind = "blob" THEN <<",">> ELSE << >>)
           e == EncodedItems(kind, items)[n]
<1>0. n \in Nat /\ Len(items) = n
  BY DEF TwoCharacters
<1>1. HoldsWords(e, 0, kind, items, n, S)
  BY ItemsEncoded
<1>2. t = h \o e
  BY <1>0 DEF xprc_encode_array
<1>3. h \in Seq(S) /\ Len(h) = q /\ h[1] = DigitOf(n) /\ (kind = "blob" => h[2] = ",") /\ q \in Nat /\ 1 <= q
  <2> DEFINE d == DigitOf(n)
  <2>1. d \in S /\ "," \in S
    OBVIOUS
  <2> HIDE DEF d
  <2>2. <<d>> \in Seq(S) /\ Len(<<d>>) = 1 /\ <<d>>[1] = d /\ <<",">> \in Seq(S) /\ Len(<<",">>) = 1 /\ <<",">>[1] = ","
    BY ONLY <2>1, OneCharacter
  <2>3. << >> \in Seq(S) /\ Len(<< >>) = 0
    BY ONLY TRUE
  <2>4. CASE kind = "blob"
    <3>1. h = <<d>> \o <<",">>
      BY ONLY <2>4 DEF d
    <3> DEFINE u == <<d>> \o <<",">>
    <3>2. u \in Seq(S) /\ Len(u) = 2 /\ u[1] = d /\ u[2] = ","
      <4>1. BothJoined(<<d>> \o <<",">>, <<d>>, <<",">>, 1, 1, S)
        BY ONLY <2>2, Joins
      <4>2. u \in Seq(S) /\ Len(u) = 1 + 1 /\ \A i \in 1 .. 1 + 1 : u[i] = IF i <= 1 THEN <<d>>[i] ELSE <<",">>[i - 1]
        BY ONLY <4>1 DEF BothJoined
      <4> HIDE DEF u
      <4>3. Len(u) = 2 /\ u[1] = <<d>>[1] /\ u[2] = <<",">>[2 - 1] /\ 2 - 1 = 1
        <5>1. 1 + 1 = 2 /\ 2 - 1 = 1 /\ 1 \in 1 .. 1 + 1 /\ 2 \in 1 .. 1 + 1 /\ 1 <= 1 /\ ~(2 <= 1)
          BY ONLY TRUE
        <5> QED BY ONLY <4>2, <5>1, Zenon
      <4>4. u[1] = d /\ u[2] = ","
        BY ONLY <2>2, <4>3
      <4> QED BY ONLY <4>2, <4>3, <4>4
    <3>3. q = 2
      BY ONLY <2>4
    <3>4. h = u
      BY ONLY <3>1
    <3> HIDE DEF h, q, u
    <3>5. h \in Seq(S) /\ Len(h) = q /\ h[1] = d /\ h[2] = "," /\ q \in Nat /\ 1 <= q
      <4>1. q \in Nat /\ 1 <= q
        BY ONLY <3>3
      <4>2. h \in Seq(S) /\ Len(h) = q /\ h[1] = d /\ h[2] = ","
        BY ONLY <3>2, <3>3, <3>4, Zenon
      <4> QED BY ONLY <4>1, <4>2
    <3> QED BY <3>5 DEF d
  <2>5. CASE kind # "blob"
    <3>1. h = <<d>> \o << >>
      BY ONLY <2>5 DEF d
    <3>2. <<d>> \o << >> = <<d>>
      BY ONLY <2>2, ConcatEmptySeq
    <3>3. q = 1
      BY ONLY <2>5
    <3> DEFINE u == <<d>>
    <3>4. h = u /\ u \in Seq(S) /\ Len(u) = 1 /\ u[1] = d
      BY ONLY <2>2, <3>1, <3>2
    <3> HIDE DEF h, q, u
    <3>5. h \in Seq(S) /\ Len(h) = q /\ h[1] = d /\ q \in Nat /\ 1 <= q
      BY ONLY <3>3, <3>4
    <3> QED BY <2>5, <3>5 DEF d
  <2> QED BY <2>4, <2>5
<1> HIDE DEF t, q, h, e
<1>4. e \in Seq(S) /\ Len(e) = 0 + 2 * n
      /\ \A k \in 1 .. n : e[0 + 2 * k - 1] = Word(kind, items, k)[1] /\ e[0 + 2 * k] = Word(kind, items, k)[2]
  BY ONLY <1>1 DEF HoldsWords
<1> DEFINE m == 2 * n
<1>5. Len(e) = m /\ m \in Nat
  BY ONLY <1>0, <1>4
<1>6. t \in Seq(S) /\ Len(t) = q + m /\ \A i \in 1 .. q + m : t[i] = IF i <= q THEN h[i] ELSE e[i - q]
  <2> HIDE DEF m
  <2> QED BY ONLY <1>2, <1>3, <1>4, <1>5, ConcatProperties
<1>7. ASSUME NEW k \in 1 .. n
      PROVE  t[q + 2 * k - 1] = Word(kind, items, k)[1] /\ t[q + 2 * k] = Word(kind, items, k)[2]
  <2> DEFINE i == q + 2 * k - 1
             j == q + 2 * k
             x == 0 + 2 * k - 1
             y == 0 + 2 * k
  <2>2. i \in 1 .. q + m /\ ~(i <= q) /\ i - q = x /\ j \in 1 .. q + m /\ ~(j <= q) /\ j - q = y
    <3>1. q \in Nat /\ 1 <= q
      BY ONLY <1>3
    <3> QED BY ONLY <1>0, <3>1
  <2>3. t[i] = e[x] /\ t[j] = e[y]
    <3> HIDE DEF m, i, j, x, y
    <3> QED BY ONLY <1>6, <2>2
  <2>4. e[x] = Word(kind, items, k)[1] /\ e[y] = Word(kind, items, k)[2]
    BY ONLY <1>4, k \in 1 .. n
  <2> HIDE DEF x, y, i, j
  <2>5. t[i] = Word(kind, items, k)[1] /\ t[j] = Word(kind, items, k)[2]
    BY ONLY <2>3, <2>4
  <2> QED BY <2>5 DEF i, j
<1>8. t[1] = DigitOf(n) /\ (kind = "blob" => t[2] = ",")
  <2>1. 1 \in 1 .. q + m /\ 1 <= q
    <3>1. q \in Nat /\ 1 <= q
      BY ONLY <1>3
    <3> QED BY ONLY <1>0, <3>1
  <2>2. t[1] = h[1]
    <3> HIDE DEF m
    <3> QED BY ONLY <1>6, <2>1
  <2>3. ASSUME kind = "blob" PROVE t[2] = h[2]
    <3>1. q = 2
      BY <2>3 DEF q
    <3>2. 2 \in 1 .. q + m /\ 2 <= q
      BY ONLY <1>0, <3>1
    <3> HIDE DEF m
    <3> QED BY ONLY <1>6, <3>2
  <2> QED BY <1>3, <2>2, <2>3
<1>9. HoldsWords(t, q, kind, items, n, S)
  BY <1>6, <1>7 DEF HoldsWords
<1> QED BY <1>8, <1>9 DEF t, q

-----------------------------------------------------------------------------
(* ... and reading it.                                                       *)

\* No number is written with a comma.
LEMMA DigitIsNoComma == \A d \in Numbers : DigitOf(d) # "," /\ DigitOf(d) \in TextCharacters
<1>1. \A d \in Numbers : d = 0 \/ d = 1 \/ d = 2 \/ d = 3
  BY DEF Numbers
<1>2. DigitOf(0) = "0" /\ DigitOf(1) = "1" /\ DigitOf(2) = "2" /\ DigitOf(3) = "3"
  BY DEF DigitOf, Digits
<1>3. {"0", "1", "2", "3"} \subseteq TextCharacters
  <2>1. DOMAIN Digits = 1 .. 4 /\ Digits[1] = "0" /\ Digits[2] = "1" /\ Digits[3] = "2" /\ Digits[4] = "3"
    BY DEF Digits
  <2>2. 1 \in 1 .. 4 /\ 2 \in 1 .. 4 /\ 3 \in 1 .. 4 /\ 4 \in 1 .. 4
    OBVIOUS
  <2> QED BY ONLY <2>1, <2>2 DEF TextCharacters
<1> QED BY <1>1, <1>2, <1>3

\* t is the text of n numbers.
NumbersText(t, items, n) ==
  /\ n \in Numbers /\ t \in Seq(TextCharacters) /\ Len(t) = 2 * n + 1 /\ t[1] = DigitOf(n)
  /\ \A k \in 1 .. n : items[k] \in Numbers /\ t[2 * k] = "," /\ t[2 * k + 1] = DigitOf(items[k])

\* t is the text of n bytes.
BytesText(t, items, n) ==
  /\ n \in Numbers /\ t \in Seq(TextCharacters) /\ Len(t) = 2 * n + 2 /\ t[1] = DigitOf(n) /\ t[2] = ","
  /\ \A k \in 1 .. n : t[2 * k + 1] = items[k][1] /\ t[2 * k + 1] # ","
  /\ \A k \in 1 .. n : t[2 * k + 2] = items[k][2] /\ t[2 * k + 2] # ","

\* One step of looking for commas.
CommaStep(f, t, k) == f[k] = IF t[k] = "," THEN Append(f[k - 1], k) ELSE f[k - 1]

\* The positions of the commas, character by character.
LEMMA CommaSteps ==
  ASSUME NEW S, NEW t \in Seq(S)
  PROVE  LET f == PositionsUpTo(t, ",")
         IN  f[0] = << >> /\ (\A k \in 1 .. Len(t) : CommaStep(f, t, k)) /\ Commas(t) = f[Len(t)]
<1> DEFINE f == PositionsUpTo(t, ",")
           L == Len(t)
           Step(k) == IF k = 0 THEN << >> ELSE IF t[k] = "," THEN Append(f[k - 1], k) ELSE f[k - 1]
<1>1. f = [k \in 0 .. L |-> Step(k)]
  <2>1. ListsPositions(f, t, ",")
    BY PositionsStep
  <2> HIDE DEF f
  <2> QED BY ONLY <2>1, Zenon DEF ListsPositions
<1>2. Commas(t) = f[L]
  BY DEF Commas, Positions
<1>3. L \in Nat
  OBVIOUS
<1> HIDE DEF f, Step, L
<1>4. f[0] = << >>
  <2>1. f[0] = Step(0)
    BY <1>1, <1>3
  <2> QED BY <2>1 DEF Step
<1>5. ASSUME NEW k \in 1 .. L PROVE CommaStep(f, t, k)
  <2>1. k \in 0 .. L /\ k # 0
    BY ONLY <1>3
  <2>2. f[k] = Step(k)
    BY <1>1, <2>1
  <2> QED BY ONLY <2>1, <2>2 DEF Step, CommaStep
<1> QED BY <1>2, <1>4, <1>5 DEF f, L

\* The commas of a text of numbers are at the even positions.
LEMMA NumbersCommas ==
  ASSUME NEW t, NEW items, NEW n, NumbersText(t, items, n)
  PROVE  Commas(t) = [k \in 1 .. n |-> 2 * k]
<1> DEFINE f == PositionsUpTo(t, ",")
           R(k) == f[2 * k + 1] = [j \in 1 .. k |-> 2 * j]
           G == {k \in Nat : k <= n => R(k)}
<1>0. n \in Nat
  <2>1. n \in Numbers
    BY DEF NumbersText
  <2> QED BY ONLY <2>1 DEF Numbers
<1>1. f[0] = << >> /\ (\A k \in 1 .. 2 * n + 1 : CommaStep(f, t, k)) /\ Commas(t) = f[2 * n + 1]
  <2>1. t \in Seq(TextCharacters) /\ Len(t) = 2 * n + 1
    BY DEF NumbersText
  <2> QED BY <2>1, CommaSteps
<1> HIDE DEF f
<1>2. t[1] # "," /\ \A k \in 1 .. n : t[2 * k] = "," /\ t[2 * k + 1] # ","
  BY DigitIsNoComma DEF NumbersText
<1>3. 0 \in G
  <2>1. 1 \in 1 .. 2 * n + 1 /\ 1 - 1 = 0 /\ 2 * 0 + 1 = 1
    BY ONLY <1>0
  <2>2. f[1] = f[0]
    <3>1. CommaStep(f, t, 1)
      BY ONLY <1>1, <2>1
    <3> QED BY ONLY <1>2, <2>1, <3>1 DEF CommaStep
  <2>3. [j \in 1 .. 0 |-> 2 * j] = << >>
    <3> DEFINE s == [j \in 1 .. 0 |-> 2 * j]
    <3>1. s \in [1 .. 0 -> Nat]
      BY ONLY TRUE
    <3> HIDE DEF s
    <3>2. s \in Seq(Nat) /\ Len(s) = 0
      BY ONLY <3>1
    <3> QED BY ONLY <3>2, EmptySeq DEF s
  <2>4. R(0)
    <3> DEFINE s == [j \in 1 .. 0 |-> 2 * j]
    <3>1. f[1] = s
      BY ONLY <1>1, <2>2, <2>3
    <3> HIDE DEF s
    <3>2. f[2 * 0 + 1] = s
      BY ONLY <2>1, <3>1
    <3> QED BY <3>2 DEF s
  <2> HIDE DEF R
  <2> QED BY ONLY <2>4
<1>4. ASSUME NEW k \in Nat, k \in G PROVE k + 1 \in G
  <2>a. (k + 1 <= n => R(k + 1)) => k + 1 \in G
    <3>1. k + 1 \in Nat
      BY ONLY k \in Nat
    <3> HIDE DEF R
    <3> QED BY ONLY <3>1, Zenon
  <2> SUFFICES ASSUME k + 1 <= n PROVE R(k + 1)
    BY <2>a, Zenon
  <2> DEFINE a == 2 * k + 1
             b == 2 * (k + 1)
             c == 2 * (k + 1) + 1
             F == [j \in 1 .. k + 1 |-> 2 * j]
  <2>0. a \in Nat /\ b \in 1 .. 2 * n + 1 /\ c \in 1 .. 2 * n + 1 /\ b - 1 = a /\ c - 1 = b /\ k + 1 \in 1 .. n /\ k <= n
    BY ONLY <1>0, k + 1 <= n, k \in Nat
  <2>1. f[a] = [j \in 1 .. k |-> 2 * j]
    <3>1. R(k)
      <4> HIDE DEF R
      <4> QED BY ONLY <1>4, <2>0
    <3> QED BY <3>1
  <2>2. t[b] = "," /\ t[c] # ","
    BY <1>2, <2>0
  <2>3. F[k + 1] = b /\ [j \in 1 .. k |-> 2 * j] = [j \in 1 .. k |-> F[j]] /\ F = [j \in 1 .. k + 1 |-> F[j]]
    <3>1. k + 1 \in 1 .. k + 1 /\ \A j \in 1 .. k : j \in 1 .. k + 1
      BY ONLY k \in Nat
    <3> QED BY ONLY <3>1
  <2> HIDE DEF a, b, c, F
  <2>4. CommaStep(f, t, b) /\ CommaStep(f, t, c)
    BY ONLY <1>1, <2>0
  <2>5. f[b] = Append(f[a], b)
    BY ONLY <2>0, <2>2, <2>4 DEF CommaStep
  <2>6. f[c] = f[b]
    BY ONLY <2>0, <2>2, <2>4 DEF CommaStep
  <2>7. Append([j \in 1 .. k |-> F[j]], F[k + 1]) = [j \in 1 .. k + 1 |-> F[j]]
    BY ONLY k \in Nat, FunctionGrows
  <2>8. f[c] = F
    <3> DEFINE s == [j \in 1 .. k |-> F[j]]
               r == [j \in 1 .. k + 1 |-> F[j]]
    <3>1. f[a] = s /\ F = r /\ Append(s, b) = r
      BY ONLY <2>1, <2>3, <2>7
    <3> HIDE DEF s, r
    <3> QED BY ONLY <2>5, <2>6, <3>1
  <2> QED BY <2>8 DEF c, F
<1>5. R(n)
  <2>1. n \in G
    <3> HIDE DEF G
    <3> QED BY <1>0, <1>3, <1>4, AllNaturals
  <2> HIDE DEF R
  <2> QED BY ONLY <1>0, <2>1
<1> QED BY <1>1, <1>5

\* The one comma of a text of bytes is its second character.
LEMMA BytesCommas ==
  ASSUME NEW t, NEW items, NEW n, BytesText(t, items, n)
  PROVE  Commas(t) = <<2>>
<1> DEFINE f == PositionsUpTo(t, ",")
           w == <<2>>
           R(k) == f[2 * k + 2] = w
           G == {k \in Nat : k <= n => R(k)}
<1>0. n \in Nat
  <2>1. n \in Numbers
    BY DEF BytesText
  <2> QED BY ONLY <2>1 DEF Numbers
<1>1. f[0] = << >> /\ (\A k \in 1 .. 2 * n + 2 : CommaStep(f, t, k)) /\ Commas(t) = f[2 * n + 2]
  <2>1. t \in Seq(TextCharacters) /\ Len(t) = 2 * n + 2
    BY DEF BytesText
  <2> QED BY <2>1, CommaSteps
<1> HIDE DEF f
<1>2. t[1] # "," /\ t[2] = ","
  BY DigitIsNoComma DEF BytesText
<1>3. \A k \in 1 .. n : t[2 * k + 1] # "," /\ t[2 * k + 2] # ","
  BY DEF BytesText
<1>4. 0 \in G
  <2>1. 1 \in 1 .. 2 * n + 2 /\ 2 \in 1 .. 2 * n + 2 /\ 1 - 1 = 0 /\ 2 - 1 = 1 /\ 2 * 0 + 2 = 2
    BY ONLY <1>0
  <2>2. CommaStep(f, t, 1) /\ CommaStep(f, t, 2)
    BY ONLY <1>1, <2>1
  <2>3. f[1] = << >> /\ f[2] = Append(<< >>, 2)
    BY ONLY <1>1, <1>2, <2>1, <2>2 DEF CommaStep
  <2>4. Append(<< >>, 2) = w
    BY ONLY TRUE
  <2> HIDE DEF w
  <2>5. R(0)
    BY ONLY <2>1, <2>3, <2>4
  <2> HIDE DEF R
  <2> QED BY ONLY <2>5
<1> HIDE DEF w
<1>5. ASSUME NEW k \in Nat, k \in G PROVE k + 1 \in G
  <2>a. (k + 1 <= n => R(k + 1)) => k + 1 \in G
    <3>1. k + 1 \in Nat
      BY ONLY k \in Nat
    <3> HIDE DEF R
    <3> QED BY ONLY <3>1, Zenon
  <2> SUFFICES ASSUME k + 1 <= n PROVE R(k + 1)
    BY <2>a, Zenon
  <2> DEFINE a == 2 * k + 2
             b == 2 * (k + 1) + 1
             c == 2 * (k + 1) + 2
  <2>0. b \in 1 .. 2 * n + 2 /\ c \in 1 .. 2 * n + 2 /\ b - 1 = a /\ c - 1 = b /\ k + 1 \in 1 .. n /\ k <= n
    BY ONLY <1>0, k + 1 <= n, k \in Nat
  <2>1. f[a] = w
    <3>1. R(k)
      <4> HIDE DEF R
      <4> QED BY ONLY <1>5, <2>0
    <3> QED BY <3>1
  <2>2. t[b] # "," /\ t[c] # ","
    BY <1>3, <2>0
  <2> HIDE DEF a, b, c
  <2>3. CommaStep(f, t, b) /\ CommaStep(f, t, c)
    BY ONLY <1>1, <2>0
  <2>4. f[c] = w
    BY ONLY <2>0, <2>1, <2>2, <2>3 DEF CommaStep
  <2> QED BY <2>4 DEF c
<1>6. R(n)
  <2>1. n \in G
    <3> HIDE DEF G
    <3> QED BY <1>0, <1>4, <1>5, AllNaturals
  <2> HIDE DEF R
  <2> QED BY ONLY <1>0, <2>1
<1> QED BY <1>1, <1>6 DEF w

\* The number of items that a text announces.
Announced(s) == atoi(IF Commas(s) = << >> THEN s ELSE SubSeq(s, 1, Commas(s)[1] - 1))

\* xprc_parse_array by cases.
LEMMA ParseCases ==
  ASSUME NEW kind, NEW s
  PROVE  xprc_parse_array(kind, s)
           = IF s = << >> \/ s[1] = "," THEN Bad
             ELSE IF ~LengthMatches(kind, s, Announced(s), Commas(s)) THEN Bad
             ELSE IF Announced(s) = 0 THEN [ok |-> TRUE, items |-> << >>]
             ELSE Items(kind, s, Announced(s), Commas(s))
BY Zenon DEF xprc_parse_array, Announced

\* The length is read from the first character, if a comma follows it.
LEMMA OneDigitAnnounced ==
  ASSUME NEW n \in Numbers, NEW t \in Seq(TextCharacters), Len(t) # 0, t[1] = DigitOf(n),
         Commas(t) # << >>, Commas(t)[1] = 2
  PROVE  Announced(t) = n
<1> DEFINE p == SubSeq(t, 1, 2 - 1)
<1>1. Announced(t) = atoi(p)
  BY DEF Announced
<1>2. 1 \in 1 .. Len(t) + 1 /\ 2 - 1 \in 1 - 1 .. Len(t)
  OBVIOUS
<1>3. PartOf(p, t, 1, 2 - 1, TextCharacters)
  <2>1. t \in Seq(TextCharacters)
    OBVIOUS
  <2> QED BY ONLY <1>2, <2>1, SubParts
<1> HIDE DEF p
<1>4. Len(p) = (2 - 1) - 1 + 1 /\ \A k \in 1 .. (2 - 1) - 1 + 1 : p[k] = t[1 + k - 1]
  BY ONLY <1>3 DEF PartOf
<1>5. Len(p) = 1 /\ p[1] = t[1]
  <2>1. (2 - 1) - 1 + 1 = 1 /\ 1 \in 1 .. 1 /\ 1 + 1 - 1 = 1
    BY ONLY TRUE
  <2> QED BY ONLY <1>4, <2>1
<1>6. atoi(p) = n
  BY <1>5, AtoiOfDigit
<1> QED BY <1>1, <1>6

\* A piece of one character.
LEMMA OnePiece ==
  ASSUME NEW t \in Seq(TextCharacters), NEW i \in 1 .. Len(t)
  PROVE  Len(SubSeq(t, i, i)) = 1 /\ SubSeq(t, i, i)[1] = t[i] /\ SubSeq(t, i, i) # << >>
<1> DEFINE p == SubSeq(t, i, i)
           L == Len(t)
<1>0. L \in Nat /\ i \in 1 .. L /\ t \in Seq(TextCharacters)
  OBVIOUS
<1>1. i \in 1 .. L + 1 /\ i \in i - 1 .. L
  <2> HIDE DEF L
  <2> QED BY ONLY <1>0
<1>2. PartOf(p, t, i, i, TextCharacters)
  BY ONLY <1>0, <1>1, SubParts
<1> HIDE DEF p
<1>3. Len(p) = i - i + 1 /\ \A k \in 1 .. i - i + 1 : p[k] = t[i + k - 1]
  BY ONLY <1>2 DEF PartOf
<1>4. i - i + 1 = 1 /\ 1 \in 1 .. 1 /\ i + 1 - 1 = i
  <2> HIDE DEF L
  <2> QED BY ONLY <1>0
<1>5. Len(p) = 1 /\ p[1] = t[i]
  BY ONLY <1>3, <1>4
<1>6. p # << >>
  <2>1. Len(<< >>) = 0 /\ 0 # 1
    BY ONLY TRUE
  <2> QED BY ONLY <1>5, <2>1, Zenon
<1> QED BY <1>5, <1>6 DEF p

\* items is an array of n items.
Listed(items, n) == items = [k \in 1 .. n |-> items[k]]

\* The text of numbers is read as these numbers.
LEMMA NumbersRead ==
  ASSUME NEW kind, kind # "blob", NEW t, NEW items, NEW n, NumbersText(t, items, n), n # 0, Listed(items, n)
  PROVE  xprc_parse_array(kind, t) = [ok |-> TRUE, items |-> items]
<1> DEFINE C == Commas(t)
           to(k) == IF k = Len(C) THEN Len(t) ELSE C[k + 1] - 1
           piece(k) == SubSeq(t, C[k] + 1, to(k))
<1>a. n \in Numbers /\ t \in Seq(TextCharacters) /\ Len(t) = 2 * n + 1 /\ t[1] = DigitOf(n)
  BY DEF NumbersText
<1>0. n \in Nat /\ n # 0
  BY ONLY <1>a, n # 0 DEF Numbers
<1>b. \A k \in 1 .. n : items[k] \in Numbers /\ t[2 * k + 1] = DigitOf(items[k])
  BY DEF NumbersText
<1>1. C = [k \in 1 .. n |-> 2 * k]
  BY NumbersCommas
<1> HIDE DEF C
<1>2. Len(C) = n /\ (\A k \in 1 .. n : C[k] = 2 * k) /\ C # << >>
  <2>1. Len(C) = n /\ \A k \in 1 .. n : C[k] = 2 * k
    BY ONLY <1>0, <1>1
  <2>2. C # << >>
    BY ONLY <1>0, <2>1
  <2> QED BY <2>1, <2>2
<1>3. C[1] = 2 /\ Len(t) # 0 /\ t # << >>
  <2>1. 1 \in 1 .. n /\ 2 * 1 = 2 /\ 2 * n + 1 # 0
    BY ONLY <1>0
  <2>2. Len(t) # 0
    BY ONLY <1>a, <2>1
  <2>3. t # << >>
    BY ONLY <2>2
  <2>4. C[1] = 2
    BY ONLY <1>2, <2>1
  <2> QED BY <2>2, <2>3, <2>4
<1>4. Announced(t) = n
  BY ONLY <1>a, <1>2, <1>3, OneDigitAnnounced DEF C
<1>5. t[1] # ","
  BY ONLY <1>a, DigitIsNoComma
<1>6. LengthMatches(kind, t, n, C)
  BY <1>0, <1>2 DEF LengthMatches
<1>7. ASSUME NEW k \in 1 .. n PROVE piece(k) # << >> /\ atoi(piece(k)) = items[k]
  <2> DEFINE i == 2 * k + 1
  <2>1. C[k] + 1 = i /\ to(k) = i
    <3>1. C[k] = 2 * k
      BY ONLY <1>2, k \in 1 .. n
    <3>2. CASE k = n
      BY ONLY <1>a, <1>2, <3>1, <3>2
    <3>3. CASE k # n
      <4>1. k + 1 \in 1 .. n /\ 2 * (k + 1) - 1 = i
        BY ONLY <1>0, <3>3, k \in 1 .. n
      <4>2. C[k + 1] - 1 = i
        BY ONLY <1>2, <4>1
      <4> HIDE DEF i
      <4>3. to(k) = i
        BY ONLY <1>2, <3>3, <4>2
      <4> QED BY ONLY <3>1, <4>3 DEF i
    <3> QED BY <3>2, <3>3
  <2>2. i \in 1 .. Len(t)
    BY ONLY <1>0, <1>a, k \in 1 .. n
  <2>3. t[i] = DigitOf(items[k]) /\ items[k] \in Numbers
    BY ONLY <1>b, k \in 1 .. n
  <2>4. piece(k) = SubSeq(t, i, i)
    <3> HIDE DEF i, to
    <3> QED BY ONLY <2>1
  <2> HIDE DEF i, piece
  <2>5. Len(piece(k)) = 1 /\ piece(k)[1] = t[i] /\ piece(k) # << >>
    BY ONLY <1>a, <2>2, <2>4, OnePiece
  <2>6. atoi(piece(k)) = items[k]
    <3> DEFINE d == items[k]
               p == piece(k)
    <3>1. d \in Numbers /\ Len(p) = 1 /\ p[1] = DigitOf(d)
      BY ONLY <2>3, <2>5
    <3> HIDE DEF d, p
    <3>2. atoi(p) = d
      BY ONLY <3>1, AtoiOfDigit
    <3> QED BY <3>2 DEF d, p
  <2> QED BY <2>5, <2>6
<1>8. Items(kind, t, n, C) = IF \A k \in 1 .. n : piece(k) # << >>
                             THEN [ok |-> TRUE, items |-> [k \in 1 .. n |-> atoi(piece(k))]] ELSE Bad
  BY Zenon DEF Items
<1> HIDE DEF piece, to
<1>9. [k \in 1 .. n |-> atoi(piece(k))] = items
  <2>1. [k \in 1 .. n |-> atoi(piece(k))] = [k \in 1 .. n |-> items[k]]
    BY ONLY <1>7
  <2> QED BY <2>1, Zenon DEF Listed
<1>10. Items(kind, t, n, C) = [ok |-> TRUE, items |-> items]
  BY ONLY <1>7, <1>8, <1>9
<1>11. xprc_parse_array(kind, t) = Items(kind, t, n, C)
  BY ONLY <1>0, <1>3, <1>4, <1>5, <1>6, ParseCases DEF C
<1> QED BY <1>10, <1>11

\* A pair of characters.
LEMMA TwoPiece ==
  ASSUME NEW t \in Seq(TextCharacters), NEW i \in Nat, 1 <= i, i + 1 <= Len(t)
  PROVE  LET p == SubSeq(t, i, i + 1)
         IN  p \in Seq(TextCharacters) /\ Len(p) = 2 /\ p[1] = t[i] /\ p[2] = t[i + 1]
<1> DEFINE p == SubSeq(t, i, i + 1)
           L == Len(t)
<1>0. L \in Nat /\ i \in Nat /\ 1 <= i /\ i + 1 <= L /\ t \in Seq(TextCharacters)
  OBVIOUS
<1>1. i \in 1 .. L + 1 /\ i + 1 \in i - 1 .. L
  <2> HIDE DEF L
  <2> QED BY ONLY <1>0
<1>2. PartOf(p, t, i, i + 1, TextCharacters)
  <2> DEFINE j == i + 1
  <2>1. j \in i - 1 .. Len(t)
    BY ONLY <1>1
  <2> HIDE DEF j
  <2>2. PartOf(SubSeq(t, i, j), t, i, j, TextCharacters)
    BY ONLY <1>0, <1>1, <2>1, SubParts
  <2> QED BY <2>2 DEF j
<1> HIDE DEF p
<1>3. p \in Seq(TextCharacters) /\ Len(p) = (i + 1) - i + 1 /\ \A k \in 1 .. (i + 1) - i + 1 : p[k] = t[i + k - 1]
  BY ONLY <1>2 DEF PartOf
<1>4. (i + 1) - i + 1 = 2 /\ 1 \in 1 .. 2 /\ 2 \in 1 .. 2 /\ i + 1 - 1 = i /\ i + 2 - 1 = i + 1
  <2> HIDE DEF L
  <2> QED BY ONLY <1>0
<1>5. Len(p) = 2 /\ p[1] = t[i] /\ p[2] = t[i + 1]
  BY ONLY <1>3, <1>4
<1> QED BY <1>3, <1>5 DEF p

\* Sequences of two characters that agree.
LEMMA SamePair ==
  ASSUME NEW p \in Seq(TextCharacters), NEW q \in Seq(TextCharacters), Len(p) = 2, Len(q) = 2, p[1] = q[1], p[2] = q[2]
  PROVE  p = q
<1>1. \A k \in 1 .. 2 : k = 1 \/ k = 2
  OBVIOUS
<1>2. \A k \in 1 .. Len(p) : p[k] = q[k]
  BY <1>1
<1> QED BY <1>2, SeqEqual

\* Two digits of a byte.
TwoDigits(p) ==
  p \in Seq(TextCharacters) /\ Len(p) = 2 /\ p[1] \notin {",", "x"} /\ p[2] \notin {",", "x"}

\* The text of bytes is read as these bytes.
LEMMA BytesRead ==
  ASSUME NEW t, NEW items, NEW n, BytesText(t, items, n), n # 0,
         items = [k \in 1 .. n |-> items[k]], \A k \in 1 .. n : TwoDigits(items[k])
  PROVE  xprc_parse_array("blob", t) = [ok |-> TRUE, items |-> items]
<1> DEFINE C == Commas(t)
           pair(k) == SubSeq(t, FirstComma(C) + 2 * k - 1, FirstComma(C) + 2 * k)
           digit(c) == c \notin {",", "x"}
<1>a. n \in Numbers /\ t \in Seq(TextCharacters) /\ Len(t) = 2 * n + 2 /\ t[1] = DigitOf(n)
  BY DEF BytesText
<1>0. n \in Nat /\ n # 0
  BY ONLY <1>a, n # 0 DEF Numbers
<1>b. \A k \in 1 .. n : t[2 * k + 1] = items[k][1] /\ t[2 * k + 2] = items[k][2]
  BY DEF BytesText
<1>c. \A k \in 1 .. n : TwoDigits(items[k])
  OBVIOUS
<1>1. C = <<2>>
  BY BytesCommas
<1> HIDE DEF C
<1>2. C # << >> /\ C[1] = 2
  BY ONLY <1>1
<1>3. FirstComma(C) = 2
  BY ONLY <1>2 DEF FirstComma
<1>4. Len(t) # 0 /\ t # << >>
  <2>1. Len(t) # 0
    BY ONLY <1>0, <1>a
  <2>2. t # << >>
    BY ONLY <2>1
  <2> QED BY <2>1, <2>2
<1>5. Announced(t) = n
  BY ONLY <1>a, <1>2, <1>4, OneDigitAnnounced DEF C
<1>6. t[1] # ","
  BY ONLY <1>a, DigitIsNoComma
<1>7. LengthMatches("blob", t, n, C)
  <2>1. Len(t) - 2 = 2 * n
    BY ONLY <1>0, <1>a
  <2> QED BY ONLY <1>3, <2>1 DEF LengthMatches
<1>8. ASSUME NEW k \in 1 .. n PROVE pair(k) = items[k] /\ digit(pair(k)[1]) /\ digit(pair(k)[2])
  <2> DEFINE i == 2 * k + 1
             p == SubSeq(t, i, i + 1)
  <2>1. FirstComma(C) + 2 * k - 1 = i /\ FirstComma(C) + 2 * k = i + 1
    BY ONLY <1>3, <1>0, k \in 1 .. n
  <2>2. i \in Nat /\ 1 <= i /\ i + 1 <= Len(t) /\ i + 1 = 2 * k + 2
    BY ONLY <1>0, <1>a, k \in 1 .. n
  <2>3. t[i] = items[k][1] /\ t[i + 1] = items[k][2]
    BY <1>b, <2>2
  <2>4. pair(k) = p
    <3> HIDE DEF i
    <3> QED BY ONLY <2>1
  <2> HIDE DEF i, pair
  <2>5. p \in Seq(TextCharacters) /\ Len(p) = 2 /\ p[1] = t[i] /\ p[2] = t[i + 1]
    BY ONLY <1>a, <2>2, TwoPiece
  <2> HIDE DEF p
  <2> DEFINE q == items[k]
  <2>6. TwoDigits(q)
    BY ONLY <1>c, k \in 1 .. n
  <2>7. p[1] = q[1] /\ p[2] = q[2]
    BY ONLY <2>3, <2>5
  <2> HIDE DEF q
  <2>8. q \in Seq(TextCharacters) /\ Len(q) = 2 /\ digit(q[1]) /\ digit(q[2])
    BY ONLY <2>6 DEF TwoDigits
  <2> HIDE DEF digit
  <2>9. p = q
    BY ONLY <2>5, <2>7, <2>8, SamePair
  <2> QED BY <2>4, <2>8, <2>9 DEF q
<1>9. Items("blob", t, n, C) = IF \A k \in 1 .. n : digit(pair(k)[1]) /\ digit(pair(k)[2])
                               THEN [ok |-> TRUE, items |-> [k \in 1 .. n |-> pair(k)]] ELSE Bad
  BY Zenon DEF Items
<1> HIDE DEF pair, digit
<1>10. [k \in 1 .. n |-> pair(k)] = items
  <2>1. [k \in 1 .. n |-> pair(k)] = [k \in 1 .. n |-> items[k]]
    BY ONLY <1>8
  <2> QED BY <2>1, Zenon
<1>11. Items("blob", t, n, C) = [ok |-> TRUE, items |-> items]
  BY ONLY <1>8, <1>9, <1>10
<1>12. xprc_parse_array("blob", t) = Items("blob", t, n, C)
  BY ONLY <1>0, <1>4, <1>5, <1>6, <1>7, ParseCases DEF C
<1> QED BY <1>11, <1>12

\* Where the commas of a text are, and that its length is a number.
LEMMA TextParts ==
  ASSUME NEW s \in Seq(TextCharacters)
  PROVE  /\ Announced(s) \in Nat /\ Len(s) \in Nat /\ FirstComma(Commas(s)) \in Nat
         /\ Commas(s) \in Seq(1 .. Len(s))
<1> DEFINE C == Commas(s)
           L == Len(s)
           x == IF C = << >> THEN s ELSE SubSeq(s, 1, C[1] - 1)
<1>0. L \in Nat /\ s \in Seq(TextCharacters)
  OBVIOUS
<1>1. C \in Seq(1 .. L)
  <2>1. Marks(Positions(s, ","), s, ",", Len(s))
    BY ONLY <1>0, PositionsMark
  <2> QED BY ONLY <2>1 DEF Marks, Commas
<1> HIDE DEF C
<1>2. C # << >> => C[1] \in 1 .. L
  <2>1. C # << >> => 1 \in 1 .. Len(C)
    BY ONLY <1>1, EmptySeq
  <2> QED BY ONLY <1>1, <2>1, SequenceParts
<1>3. Len(x) \in Nat
  <2>1. CASE C = << >>
    BY ONLY <1>0, <2>1
  <2>2. CASE C # << >>
    <3> DEFINE j == C[1] - 1
               p == SubSeq(s, 1, j)
    <3>1. 1 \in 1 .. L + 1 /\ j \in 1 - 1 .. L
      <4> DEFINE c == C[1]
      <4>1. c \in 1 .. L
        BY <1>2, <2>2
      <4> HIDE DEF c, L
      <4>2. 1 \in 1 .. L + 1 /\ c - 1 \in 1 - 1 .. L
        BY ONLY <1>0, <4>1
      <4> QED BY <4>2 DEF c
    <3> HIDE DEF j
    <3>2. PartOf(p, s, 1, j, TextCharacters)
      BY ONLY <1>0, <3>1, SubParts
    <3> HIDE DEF p
    <3>3. Len(p) \in Nat
      BY ONLY <3>2 DEF PartOf
    <3> QED BY ONLY <2>2, <3>3 DEF p, j
  <2> QED BY <2>1, <2>2
<1>4. Announced(s) = atoi(x)
  BY Zenon DEF Announced, C
<1>5. Announced(s) \in Nat
  <2> HIDE DEF x
  <2> QED BY <1>3, <1>4, AtoiIsNat
<1>6. FirstComma(C) \in Nat
  BY <1>0, <1>2 DEF FirstComma
<1> QED BY <1>0, <1>1, <1>5, <1>6 DEF C

\* What is read has the form of an array: length, separators and bytes.
ArrayRead(kind, s, a) ==
  /\ a = [ok |-> TRUE, items |-> a.items] /\ Len(a.items) = Announced(s)
  /\ a.items # << >> =>
       /\ a.items = [k \in 1 .. Announced(s) |-> a.items[k]]
       /\ IF kind = "blob"
          THEN Len(s) = FirstComma(Commas(s)) + 2 * Announced(s) /\ \A k \in 1 .. Announced(s) : TwoDigits(a.items[k])
          ELSE Len(Commas(s)) = Announced(s)

\* Numbers that are read.
LEMMA NumbersCounted ==
  ASSUME NEW kind, kind # "blob", NEW s \in Seq(TextCharacters), Announced(s) # 0,
         LengthMatches(kind, s, Announced(s), Commas(s)), Items(kind, s, Announced(s), Commas(s)).ok
  PROVE  ArrayRead(kind, s, Items(kind, s, Announced(s), Commas(s)))
<1> DEFINE C == Commas(s)
           n == Announced(s)
           to(k) == IF k = Len(C) THEN Len(s) ELSE C[k + 1] - 1
           piece(k) == SubSeq(s, C[k] + 1, to(k))
           value(k) == atoi(piece(k))
           a == Items(kind, s, n, C)
           F == [k \in 1 .. n |-> value(k)]
<1>0. n \in Nat
  BY TextParts
<1>1. Len(C) = n
  BY DEF LengthMatches
<1>2. a = IF \A k \in 1 .. n : piece(k) # << >> THEN [ok |-> TRUE, items |-> F] ELSE Bad
  BY Zenon DEF Items
<1>3. ~Bad.ok
  BY DEF Bad
<1>4. a.ok
  OBVIOUS
<1> HIDE DEF a, C, n, piece, value
<1>5. F = [k \in 1 .. n |-> F[k]] /\ Len(F) = n
  BY ONLY <1>0
<1> HIDE DEF F
<1>6. a = [ok |-> TRUE, items |-> F]
  BY ONLY <1>2, <1>3, <1>4, Zenon
<1>7. a.items = F
  BY ONLY <1>6
<1>8. ArrayRead(kind, s, a)
  <2>1. a = [ok |-> TRUE, items |-> a.items] /\ Len(a.items) = n /\ a.items = [k \in 1 .. n |-> a.items[k]]
    BY ONLY <1>5, <1>6, <1>7
  <2>2. kind # "blob"
    OBVIOUS
  <2> QED BY ONLY <1>1, <2>1, <2>2 DEF ArrayRead, n, C
<1> QED BY <1>8 DEF a, n, C

\* Bytes that are read.
LEMMA BytesCounted ==
  ASSUME NEW s \in Seq(TextCharacters), Announced(s) # 0,
         LengthMatches("blob", s, Announced(s), Commas(s)), Items("blob", s, Announced(s), Commas(s)).ok
  PROVE  ArrayRead("blob", s, Items("blob", s, Announced(s), Commas(s)))
<1> DEFINE C == Commas(s)
           n == Announced(s)
           c == FirstComma(C)
           L == Len(s)
           pair(k) == SubSeq(s, c + 2 * k - 1, c + 2 * k)
           digit(x) == x \notin {",", "x"}
           a == Items("blob", s, n, C)
           F == [k \in 1 .. n |-> pair(k)]
<1>0. n \in Nat /\ L \in Nat /\ c \in Nat
  BY TextParts
<1>1. L - c = 2 * n
  BY DEF LengthMatches
<1>2. a = IF \A k \in 1 .. n : digit(pair(k)[1]) /\ digit(pair(k)[2]) THEN [ok |-> TRUE, items |-> F] ELSE Bad
  BY Zenon DEF Items
<1>3. ~Bad.ok
  BY DEF Bad
<1>4. a.ok
  OBVIOUS
<1>5. s \in Seq(TextCharacters)
  OBVIOUS
<1> HIDE DEF a, n, c, L
<1>6. L = c + 2 * n
  BY ONLY <1>0, <1>1
<1>7. ASSUME NEW k \in 1 .. n
      PROVE  pair(k) \in Seq(TextCharacters) /\ Len(pair(k)) = 2
  <2> DEFINE i == c + 2 * k - 1
  <2>1. i \in Nat /\ 1 <= i /\ i + 1 <= L /\ c + 2 * k = i + 1
    BY ONLY <1>0, <1>6, k \in 1 .. n
  <2>2. pair(k) = SubSeq(s, i, i + 1)
    BY ONLY <2>1
  <2> HIDE DEF i, pair
  <2>3. i + 1 <= Len(s)
    BY <2>1 DEF L
  <2>4. SubSeq(s, i, i + 1) \in Seq(TextCharacters) /\ Len(SubSeq(s, i, i + 1)) = 2
    BY ONLY <1>5, <2>1, <2>3, TwoPiece
  <2> QED BY ONLY <2>2, <2>4
<1> HIDE DEF pair, C
<1>8. F = [k \in 1 .. n |-> F[k]] /\ Len(F) = n /\ \A k \in 1 .. n : F[k] = pair(k)
  BY ONLY <1>0
<1> HIDE DEF F
<1>9. a = [ok |-> TRUE, items |-> F] /\ \A k \in 1 .. n : digit(pair(k)[1]) /\ digit(pair(k)[2])
  <2> HIDE DEF digit
  <2> QED BY ONLY <1>2, <1>3, <1>4, Zenon
<1>10. a.items = F
  BY ONLY <1>9
<1>11. \A k \in 1 .. n : TwoDigits(F[k])
  BY ONLY <1>7, <1>8, <1>9 DEF TwoDigits
<1>12. ArrayRead("blob", s, a)
  <2>1. a = [ok |-> TRUE, items |-> a.items] /\ Len(a.items) = n /\ a.items = [k \in 1 .. n |-> a.items[k]]
    BY ONLY <1>8, <1>9, <1>10
  <2>2. \A k \in 1 .. n : TwoDigits(a.items[k])
    BY ONLY <1>10, <1>11
  <2> QED BY ONLY <1>6, <2>1, <2>2 DEF ArrayRead, n, C, c, L
<1> QED BY <1>12 DEF a, n, C

\* Whatever is read has the form of an array.
LEMMA ArraysCounted ==
  ASSUME NEW kind, NEW s \in Seq(TextCharacters), xprc_parse_array(kind, s).ok
  PROVE  ArrayRead(kind, s, xprc_parse_array(kind, s))
<1> DEFINE a == xprc_parse_array(kind, s)
           C == Commas(s)
           n == Announced(s)
           e == [ok |-> TRUE, items |-> << >>]
           I == Items(kind, s, n, C)
<1>1. a = IF s = << >> \/ s[1] = "," THEN Bad ELSE IF ~LengthMatches(kind, s, n, C) THEN Bad
          ELSE IF n = 0 THEN e ELSE I
  BY ParseCases, Zenon
<1>2. ~Bad.ok /\ a.ok
  BY DEF Bad
<1> HIDE DEF a, I, n, C, e
<1>3. LengthMatches(kind, s, n, C) /\ a = IF n = 0 THEN e ELSE I
  BY ONLY <1>1, <1>2, Zenon
<1>4. CASE n = 0
  <2>1. a = [ok |-> TRUE, items |-> << >>]
    BY ONLY <1>3, <1>4 DEF e
  <2>2. a.items = << >>
    BY ONLY <2>1
  <2>3. Len(a.items) = n
    BY ONLY <1>4, <2>2
  <2>4. a = [ok |-> TRUE, items |-> a.items]
    BY ONLY <2>1, <2>2
  <2>5. ArrayRead(kind, s, a)
    BY ONLY <2>2, <2>3, <2>4 DEF ArrayRead, n
  <2> QED BY <2>5 DEF a
<1>5. CASE n # 0
  <2>1. a = I /\ I.ok
    BY ONLY <1>2, <1>3, <1>5, Zenon
  <2>2. CASE kind = "blob"
    <3>1. ArrayRead(kind, s, I)
      BY <1>3, <1>5, <2>1, <2>2, BytesCounted DEF n, C, I
    <3> QED BY <2>1, <3>1 DEF a
  <2>3. CASE kind # "blob"
    <3>1. ArrayRead(kind, s, I)
      BY <1>3, <1>5, <2>1, <2>3, NumbersCounted DEF n, C, I
    <3> QED BY <2>1, <3>1 DEF a
  <2> QED BY <2>2, <2>3
<1> QED BY <1>4, <1>5

\* A text of two characters.
LEMMA TwoInSequence ==
  ASSUME NEW S, NEW x \in S, NEW y \in S
  PROVE  <<x, y>> \in Seq(S) /\ Len(<<x, y>>) = 2 /\ <<x, y>>[1] = x /\ <<x, y>>[2] = y
OBVIOUS

\* How xprc_encode_array writes an array of numbers.
LEMMA NumbersWritten ==
  ASSUME NEW kind, kind # "blob", NEW items, NEW n \in Numbers, n # 0, items # << >>, Len(items) = n,
         \A k \in 1 .. n : items[k] \in Numbers
  PROVE  NumbersText(xprc_encode_array(kind, items), items, n)
<1> DEFINE t == xprc_encode_array(kind, items)
           S == TextCharacters
<1>0. n \in Nat
  BY ONLY n \in Numbers DEF Numbers
<1>a. "," \in S
  BY DEF TextCharacters
<1>b. \A k \in 1 .. n : items[k] \in Numbers
  OBVIOUS
<1> HIDE DEF S
<1>1. ASSUME NEW k \in 1 .. n
      PROVE  LET w == Word(kind, items, k) IN w \in Seq(S) /\ Len(w) = 2 /\ w[1] = "," /\ w[2] = DigitOf(items[k])
  <2> DEFINE d == DigitOf(items[k])
  <2>1. d \in S
    BY <1>b, DigitIsNoComma DEF S
  <2>2. Word(kind, items, k) = <<",", d>>
    BY DEF Word
  <2> HIDE DEF d
  <2>3. <<",", d>> \in Seq(S) /\ Len(<<",", d>>) = 2 /\ <<",", d>>[1] = "," /\ <<",", d>>[2] = d
    BY ONLY <1>a, <2>1, TwoInSequence
  <2> DEFINE w == <<",", d>>
  <2>4. w \in Seq(S) /\ Len(w) = 2 /\ w[1] = "," /\ w[2] = d
    BY ONLY <2>3
  <2> HIDE DEF w
  <2>5. Word(kind, items, k) = w
    BY <2>2 DEF w
  <2> QED BY ONLY <2>4, <2>5 DEF d
<1>2. TwoCharacters(kind, items, n, S)
  BY <1>0, <1>1 DEF TwoCharacters
<1>3. HoldsWords(t, 1, kind, items, n, S) /\ t[1] = DigitOf(n)
  <2>1. DigitOf(n) \in S
    BY DigitIsNoComma DEF S
  <2> QED BY <1>2, <1>a, <2>1, ArrayEncoded
<1> HIDE DEF t
<1>4. /\ t \in Seq(S) /\ Len(t) = 1 + 2 * n
      /\ \A k \in 1 .. n : t[1 + 2 * k - 1] = Word(kind, items, k)[1] /\ t[1 + 2 * k] = Word(kind, items, k)[2]
  BY ONLY <1>3 DEF HoldsWords
<1>5. Len(t) = 2 * n + 1
  BY ONLY <1>0, <1>4
<1>6. ASSUME NEW k \in 1 .. n PROVE t[2 * k] = "," /\ t[2 * k + 1] = DigitOf(items[k])
  <2>1. 1 + 2 * k - 1 = 2 * k /\ 1 + 2 * k = 2 * k + 1
    BY ONLY <1>0, k \in 1 .. n
  <2>2. Word(kind, items, k)[1] = "," /\ Word(kind, items, k)[2] = DigitOf(items[k])
    BY <1>1
  <2> QED BY <1>4, <2>1, <2>2
<1>7. NumbersText(t, items, n)
  BY <1>3, <1>4, <1>5, <1>6, <1>b DEF NumbersText, S
<1> QED BY <1>7 DEF t

\* Writing bytes.
LEMMA BytesWritten ==
  ASSUME NEW items, NEW n \in Numbers, n # 0, items # << >>, Len(items) = n, \A k \in 1 .. n : TwoDigits(items[k])
  PROVE  BytesText(xprc_encode_array("blob", items), items, n)
<1> DEFINE t == xprc_encode_array("blob", items)
           S == TextCharacters
<1>0. n \in Nat
  BY ONLY n \in Numbers DEF Numbers
<1>a. "," \in S
  BY DEF TextCharacters
<1>b. \A k \in 1 .. n : items[k] \in Seq(S) /\ Len(items[k]) = 2 /\ items[k][1] # "," /\ items[k][2] # ","
  BY DEF TwoDigits
<1> HIDE DEF S
<1>1. \A k : Word("blob", items, k) = items[k]
  BY DEF Word
<1>2. TwoCharacters("blob", items, n, S)
  BY <1>0, <1>1, <1>b DEF TwoCharacters
<1>3. HoldsWords(t, 2, "blob", items, n, S) /\ t[1] = DigitOf(n) /\ t[2] = ","
  <2>1. DigitOf(n) \in S
    BY DigitIsNoComma DEF S
  <2> QED BY <1>2, <1>a, <2>1, ArrayEncoded
<1> HIDE DEF t
<1>4. /\ t \in Seq(S) /\ Len(t) = 2 + 2 * n
      /\ \A k \in 1 .. n : t[2 + 2 * k - 1] = items[k][1] /\ t[2 + 2 * k] = items[k][2]
  BY ONLY <1>1, <1>3 DEF HoldsWords
<1>5. Len(t) = 2 * n + 2
  BY ONLY <1>0, <1>4
<1>6. ASSUME NEW k \in 1 .. n
      PROVE  /\ t[2 * k + 1] = items[k][1] /\ t[2 * k + 1] # ","
             /\ t[2 * k + 2] = items[k][2] /\ t[2 * k + 2] # ","
  <2>1. 2 + 2 * k - 1 = 2 * k + 1 /\ 2 + 2 * k = 2 * k + 2
    BY ONLY <1>0, k \in 1 .. n
  <2>2. t[2 * k + 1] = items[k][1] /\ t[2 * k + 2] = items[k][2]
    BY <1>4, <2>1
  <2> QED BY <1>b, <2>2
<1>7. BytesText(t, items, n)
  BY <1>3, <1>4, <1>5, <1>6 DEF BytesText, S
<1> QED BY <1>7 DEF t

\* What was read, written again, is read as the same.
LEMMA ArrayReadAgain ==
  ASSUME NEW kind, NEW s, NEW a, ArrayRead(kind, s, a), Announced(s) \in Nat, a.items # << >>, Len(a.items) \in Numbers,
         kind = "blob" \/ \A k \in DOMAIN a.items : a.items[k] \in Numbers
  PROVE  xprc_parse_array(kind, xprc_encode_array(kind, a.items)) = a
<1> DEFINE items == a.items
           n == Announced(s)
<1>1. a = [ok |-> TRUE, items |-> items] /\ Len(items) = n /\ items # << >>
  BY DEF ArrayRead
<1>2. items = [k \in 1 .. n |-> items[k]] /\ (kind = "blob" => \A k \in 1 .. n : TwoDigits(items[k]))
  BY DEF ArrayRead
<1>3. n \in Nat /\ n \in Numbers /\ (kind = "blob" \/ \A k \in DOMAIN items : items[k] \in Numbers)
  BY <1>1
<1> HIDE DEF items, n
<1>4. n # 0
  <2> SUFFICES ASSUME n = 0 PROVE FALSE
    OBVIOUS
  <2> DEFINE F == [k \in 1 .. 0 |-> items[k]]
             V == {items[k] : k \in 1 .. 0}
  <2>1. F \in [1 .. 0 -> V]
    BY ONLY TRUE
  <2> HIDE DEF V
  <2>2. F \in Seq(V) /\ Len(F) = 0
    <3> HIDE DEF F
    <3> QED BY ONLY <2>1
  <2>3. F = << >>
    <3> HIDE DEF F
    <3> QED BY ONLY <2>2, EmptySeq
  <2> QED BY <1>1, <1>2, <2>3
<1>5. DOMAIN items = 1 .. n
  BY ONLY <1>2
<1>6. CASE kind = "blob"
  <2>1. BytesText(xprc_encode_array("blob", items), items, n)
    BY ONLY <1>1, <1>2, <1>3, <1>4, <1>6, BytesWritten
  <2>2. xprc_parse_array("blob", xprc_encode_array("blob", items)) = [ok |-> TRUE, items |-> items]
    BY ONLY <1>2, <1>4, <1>6, <2>1, BytesRead
  <2> QED BY <1>1, <1>6, <2>2 DEF items
<1>7. CASE kind # "blob"
  <2>1. \A k \in 1 .. n : items[k] \in Numbers
    BY ONLY <1>3, <1>5, <1>7
  <2>2. NumbersText(xprc_encode_array(kind, items), items, n)
    BY ONLY <1>1, <1>3, <1>4, <1>7, <2>1, NumbersWritten
  <2> DEFINE t == xprc_encode_array(kind, items)
  <2>a. NumbersText(t, items, n)
    BY <2>2
  <2> HIDE DEF t
  <2>b. Listed(items, n) /\ n # 0
    BY ONLY <1>2, <1>4 DEF Listed
  <2>c. xprc_parse_array(kind, t) = [ok |-> TRUE, items |-> items]
    BY ONLY <1>7, <2>a, <2>b, NumbersRead
  <2>3. xprc_parse_array(kind, xprc_encode_array(kind, items)) = [ok |-> TRUE, items |-> items]
    BY ONLY <2>c DEF t
  <2> QED BY <1>1, <2>3 DEF items
<1> QED BY <1>6, <1>7

\* The empty array of numbers is read again from what it is written as.
LEMMA EmptyReadAgain ==
  ASSUME NEW kind, kind # "blob"
  PROVE  xprc_parse_array(kind, xprc_encode_array(kind, << >>)) = [ok |-> TRUE, items |-> << >>]
<1> DEFINE t == <<"0">>
<1>1. xprc_encode_array(kind, << >>) = t
  BY DEF xprc_encode_array
<1>2. "0" \in TextCharacters /\ DigitOf(0) = "0" /\ 0 \in Numbers /\ "0" # ","
  BY DEF TextCharacters, Digits, DigitOf, Numbers
<1>3. t \in Seq(TextCharacters) /\ Len(t) = 1 /\ t[1] = "0"
  BY <1>2, OneCharacter
<1> HIDE DEF t
<1>4. t # << >>
  BY <1>3
<1>5. Commas(t) = << >>
  <2> DEFINE f == PositionsUpTo(t, ",")
  <2>1. f[0] = << >> /\ (\A k \in 1 .. Len(t) : CommaStep(f, t, k)) /\ Commas(t) = f[Len(t)]
    BY <1>3, CommaSteps
  <2> HIDE DEF f
  <2>2. CommaStep(f, t, 1) /\ Commas(t) = f[1]
    BY <1>3, <2>1
  <2>3. f[1] = f[1 - 1]
    BY <1>2, <1>3, <2>2 DEF CommaStep
  <2> QED BY <2>1, <2>2, <2>3
<1>6. Announced(t) = 0
  <2>1. atoi(t) = 0
    BY <1>2, <1>3, AtoiOfDigit
  <2> QED BY <1>5, <2>1 DEF Announced
<1>7. LengthMatches(kind, t, 0, << >>)
  BY <1>3 DEF LengthMatches
<1>8. xprc_parse_array(kind, t) = [ok |-> TRUE, items |-> << >>]
  BY <1>2, <1>3, <1>4, <1>5, <1>6, <1>7, ParseCases
<1> QED BY <1>1, <1>8

\* The array at hand was read from its text.
ArrayInv ==
  \/ text = NoText
  \/ text.s \in Texts /\ text.array = xprc_parse_array(text.kind, text.s)

\* Texts are sequences of characters.
LEMMA TextsAreSequences == Texts \subseteq Seq(TextCharacters)
<1> SUFFICES ASSUME NEW n \in 1 .. MaxText, NEW s \in [1 .. n -> TextCharacters] PROVE s \in Seq(TextCharacters)
  BY DEF Texts
<1>0. MaxText \in Nat
  BY ArrayTextAssumption
<1>1. n \in Nat
  BY ONLY <1>0
<1> QED BY <1>1

\* However long a text is, it is read as an array only with as many items as it
\* announces and holds, and what was read can be written and read again, but for
\* the empty blob (xprc_parse_array, xprc_encode_array).
THEOREM ArraysAreReadRight == ArraySpec => []ArraysReadAsAnnounced
<1>1. ArrayInit => ArrayInv
  BY DEF ArrayInit, ArrayInv
<1>2. ArrayInv /\ [ArrayNext]_text => ArrayInv'
  <2> SUFFICES ASSUME ArrayInv, [ArrayNext]_text PROVE ArrayInv'
    OBVIOUS
  <2>1. CASE UNCHANGED text
    BY <2>1, Zenon DEF ArrayInv
  <2>2. CASE ForgetArray
    BY <2>2 DEF ForgetArray, ArrayInv
  <2>3. ASSUME NEW kind \in {"int[]", "blob"}, NEW s \in Texts, ReadArray(kind, s) PROVE ArrayInv'
    <3> DEFINE a == xprc_parse_array(kind, s)
    <3>1. text' = [kind |-> kind, s |-> s, array |-> a]
      BY <2>3 DEF ReadArray
    <3> HIDE DEF a
    <3>2. text'.kind = kind /\ text'.s = s /\ text'.array = a
      BY ONLY <3>1
    <3> QED BY ONLY <3>2, s \in Texts DEF ArrayInv, a
  <2> QED BY <2>1, <2>2, <2>3 DEF ArrayNext
<1>3. ArrayInv => ArraysReadAsAnnounced
  <2> DEFINE kind == text.kind
             s == text.s
             a == text.array
             C == Commas(s)
  <2> SUFFICES ASSUME ArrayInv PROVE ArraysReadAsAnnounced
    OBVIOUS
  <2>1. CASE ~a.ok
    BY <2>1, Zenon DEF ArraysReadAsAnnounced
  <2>2. CASE a.ok
    <3>1. s \in Texts /\ a = xprc_parse_array(kind, s)
      <4>1. ~NoText.array.ok
        BY DEF NoText, Bad
      <4> QED BY <2>2, <4>1 DEF ArrayInv
    <3>2. s \in Seq(TextCharacters)
      BY <3>1, TextsAreSequences
    <3> HIDE DEF kind, s, a
    <3>3. ArrayRead(kind, s, a) /\ Announced(s) \in Nat
      BY <2>2, <3>1, <3>2, ArraysCounted, TextParts
    <3>4. ASSUME kind = "blob" \/ \A n \in DOMAIN a.items : a.items[n] \in Numbers,
                 Len(a.items) \in Numbers,
                 ~(kind = "blob" /\ a.items = << >>)
          PROVE  xprc_parse_array(kind, xprc_encode_array(kind, a.items)) = a
      <4>1. CASE a.items # << >>
        BY ONLY <3>3, <3>4, <4>1, ArrayReadAgain
      <4>2. CASE a.items = << >> /\ kind # "blob"
        <5>1. a = [ok |-> TRUE, items |-> a.items]
          BY ONLY <3>3 DEF ArrayRead
        <5> QED BY ONLY <4>2, <5>1, EmptyReadAgain
      <4> QED BY ONLY <3>4, <4>1, <4>2
    <3>5. /\ Len(a.items) = Announced(s)
          /\ a.items # << >> =>
               IF kind = "blob" THEN Len(s) = FirstComma(C) + 2 * Len(a.items) ELSE Len(C) = Len(a.items)
      BY ONLY <3>3 DEF ArrayRead
    <3> QED BY <3>4, <3>5, Zenon DEF ArraysReadAsAnnounced, Announced, kind, s, a
  <2> QED BY <2>1, <2>2
<1> QED BY <1>1, <1>2, <1>3, PTL DEF ArraySpec
=============================================================================
