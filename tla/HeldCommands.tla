----------------------------- MODULE HeldCommands -----------------------------
(***************************************************************************)
(* X-Plane commands that a client triggers (CMTR) or holds (CMHD), and the *)
(* queue through which threads without an X-Plane context release them     *)
(* (command_cmtr.c, command_cmhd.c, xpqueue.c; plugin.c, task_schedule.c,  *)
(* server.c and session.c as far as they drive these).                     *)
(*                                                                         *)
(* X-Plane counts, per command, XPLMCommandBegin minus XPLMCommandEnd: a   *)
(* count that never returns to zero is a switch stuck in the cockpit.      *)
(* Begins happen in the flight loop only; Ends happen there or, for a      *)
(* command that is terminated by the receive thread, by post-processing or *)
(* with its session, through the queue.                                    *)
(*                                                                         *)
(* Times are kept as what remains of them: a counter in frames goes down   *)
(* by one per call, one in milliseconds by the time since the last call.   *)
(* Session models the locks in full, and what destroy_session does to a    *)
(* request that is being handled; here a request is handled in one step,   *)
(* because handle_request holds schedule and session throughout, or meets  *)
(* the session's destruction and leaves the schedule locked.               *)
(***************************************************************************)
EXTENDS Integers, Sequences, FiniteSets

CONSTANTS
  NumChannels,   \* channel ids 1 .. NumChannels
  XPCommands,    \* X-Plane's commands
  Requests,      \* the CMTR and CMHD requests clients may send
  MaxElapsed,    \* bound: milliseconds between two frames
  MaxRequests,   \* bound: commands a client starts in one behaviour
  MaySendFail,   \* send_to_network may refuse a message
  MayQueueFail,  \* queue_XPLMCommandEnd may fail (memory)
  MayDisconnect  \* the connection may be lost at any time

Infinite == -1                 \* INFINITE_REPETITION

ASSUME HeldCommandsAssumption ==
  /\ NumChannels \in Nat \ {0}
  /\ MaxElapsed \in Nat \ {0}
  /\ MaxRequests \in Nat
  /\ MaySendFail \in BOOLEAN /\ MayQueueFail \in BOOLEAN /\ MayDisconnect \in BOOLEAN
  /\ \A r \in Requests :
       /\ r.kind \in {"CMTR", "CMHD"}
       /\ r.entries \in Seq(XPCommands) \ {<< >>}
       /\ r.times \in {Infinite} \cup (Nat \ {0})
       /\ r.hold \in Nat /\ r.interval \in Nat \ {0}
       /\ r.holdFrames \in BOOLEAN /\ r.intervalFrames \in BOOLEAN
       /\ r.monitor \in {"holdRelease", "cycle", "none"}

VARIABLES
  flightLoop,  \* owner of flight_loop_mutex
  schedule,    \* owner of task_schedule->mutex
  closing,     \* connection->closing
  life,        \* session: "live", "pending" (destruction_pending) or "freed"
  chan,        \* channel id -> [state, doomed], or NoChannel
  cmd,         \* channel id -> its command, or NoCommand
  tasks,       \* channels whose command is scheduled
  queue,       \* xpqueue->list: commands to end
  pending,     \* xpqueue->has_pending_tasks
  begun,       \* X-Plane: begins minus ends of each command
  xp,          \* flight loop: [pc, todo]
  post,        \* post-processing: [pc, todo, at]
  net,         \* session destruction: [pc, at]
  line,        \* a line was read before the connection is closing, not yet handled
  started,     \* number of commands started
  refused,     \* history: queue_XPLMCommandEnd has failed
  abandoned,   \* history: holds of commands that were destroyed while held
  stuck,       \* history: a terminate call has failed though none was refused
  fault        \* two threads are inside the same command: undefined

xpVars == <<queue, pending, begun>>
sessionVars == <<closing, life, chan, cmd, tasks>>
history == <<started, refused, abandoned, stuck, fault>>
vars == <<flightLoop, schedule, sessionVars, xpVars, xp, post, net, line,
          history>>

Channels == 1 .. NumChannels
Free == "none"
NoChannel == [state |-> "none", doomed |-> FALSE]
NoCommand == [req |-> "none"]
SendResults == IF MaySendFail THEN BOOLEAN ELSE {TRUE}

Init ==
  /\ flightLoop = Free /\ schedule = Free
  /\ closing = FALSE /\ life = "live"
  /\ chan = [c \in Channels |-> NoChannel]
  /\ cmd = [c \in Channels |-> NoCommand]
  /\ tasks = {}
  /\ queue = << >> /\ pending = FALSE
  /\ begun = [x \in XPCommands |-> 0]
  /\ xp = [pc |-> "frame", todo |-> {}]
  /\ post = [pc |-> "wait", todo |-> {}, at |-> 0]
  /\ net = [pc |-> "watch", at |-> 1] /\ line = FALSE
  /\ abandoned = [x \in XPCommands |-> 0]
  /\ started = 0 /\ refused = FALSE /\ stuck = FALSE /\ fault = FALSE

-----------------------------------------------------------------------------
(* Channel messages, reduced to the server's state of the channel. *)

Silent(s) == life # "live" \/ s = "CLOSED"

\* continue_channel: a refused message is followed by an error.
Continued(s, sent) == IF Silent(s) \/ sent THEN s ELSE "CLOSED"

\* finish_channel and error_channel
Closed(s) == IF Silent(s) THEN s ELSE "CLOSED"

-----------------------------------------------------------------------------
(* Entries of a command: positions in the list of X-Plane commands. *)

Entries(k) == 1 .. Len(k.req.entries)

Count(k, S, x) == Cardinality({i \in S : k.req.entries[i] = x})

\* How many entries for x the commands of the channels in S hold.
Held(S, x) ==
  Cardinality(UNION {{<<c, i>> : i \in {j \in cmd[c].held : cmd[c].req.entries[j] = x}} :
                       c \in {d \in S : cmd[d] # NoCommand}})

Queued(x) == Cardinality({j \in DOMAIN queue : queue[j] = x})

\* XPLMCommandEnd for the entries in ended, XPLMCommandBegin for all in began.
Pressed(k, ended, began) ==
  [x \in XPCommands |-> begun[x] - Count(k, ended, x) + Count(k, began, x)]

-----------------------------------------------------------------------------
(* Termination (cmtr_terminate, cmhd_terminate). *)

\* MUTANT of Released: released entries stay marked as held.
ReleasedButHeld(k, failing) ==
  [k EXCEPT !.list = IF k.req.kind = "CMHD" THEN @ \ (k.held \ failing) ELSE @]

\* Every held entry is queued for release unless queueing fails; CMHD also
\* deletes it from its list.
Released(k, failing) ==
  [k EXCEPT !.held = @ \cap failing,
            !.list = IF k.req.kind = "CMHD" THEN @ \ (k.held \ failing) ELSE @]

\* CMTR fails if an entry could not be queued, CMHD if its list is not empty.
TerminateFails(k) == IF k.req.kind = "CMHD" THEN k.list # {} ELSE k.held # {}

\* From tail to head, queue_XPLMCommandEnd for the entries in S.
Ends(k, S) ==
  LET ends[n \in 0 .. Len(k.req.entries)] ==
        IF n = 0 THEN << >>
        ELSE IF n \in S THEN <<k.req.entries[n]>> \o ends[n - 1] ELSE ends[n - 1]
  IN  ends[Len(k.req.entries)]

Failures(k) == IF MayQueueFail THEN SUBSET k.held ELSE {{}}

\* MUTANT of QueueEnds: the flag is set before the lock is taken, and a flush
\* in between resets it.
QueueEndsUnflagged(k, failing) ==
  /\ queue' = queue \o Ends(k, k.held \ failing)
  /\ UNCHANGED pending
  /\ refused' = (refused \/ failing # {})

QueueEnds(k, failing) ==
  /\ queue' = queue \o Ends(k, k.held \ failing)
  /\ pending' = (pending \/ k.held \ failing # {})
  /\ refused' = (refused \/ failing # {})

\* The second half of terminate, after the channel is closed and the task is
\* unscheduled: release, then ask for the channel's destruction.
ReleaseAll(c, k, state, failing) ==
  LET after == Released(k, failing)
  IN  /\ QueueEnds(k, failing)
      /\ cmd' = [cmd EXCEPT ![c] = after]
      /\ chan' = [chan EXCEPT ![c] = [state |-> state,
                                      doomed |-> ~TerminateFails(after)]]
      /\ stuck' = (stuck \/ (TerminateFails(after) /\ failing = {}))

-----------------------------------------------------------------------------
(* CMTR in the flight loop. *)

\* A single run disables the interval (INT32_MAX ms, 24 days: never due here).
Single(k) == k.req.times = 1
RequiresTime(k) == Single(k) \/ ~k.req.intervalFrames \/ ~k.req.holdFrames

Spent(frames, elapsed) == IF frames THEN 1 ELSE elapsed

\* A counter in frames is reset; a due time is forwarded by whole intervals, so
\* that rounds are measured from the start of the command.
Forwarded(k, left) ==
  CASE k.req.intervalFrames -> k.req.interval
    [] ~k.req.intervalFrames /\ left > 0 -> left
    [] OTHER -> k.req.interval - ((0 - left) % k.req.interval)

notify_channel(k, s, held, mayClose, sent) ==
  LET wanted == k.req.monitor = "holdRelease" \/ (held /\ k.req.monitor = "cycle")
      closes == mayClose /\ (~held \/ k.req.monitor = "cycle")
  IN  IF ~wanted THEN s ELSE IF closes THEN Closed(s) ELSE Continued(s, sent)

\* MUTANT of LastRound: one round is left out.
LastRoundEarly(times) == times \in {0, 1}

LastRound(times) == times = 0

\* One call for an initialised command; first = it has just been initialised.
\* Returns the command, the channel's state and what was ended and begun.
CmtrRound(k, s, first, elapsed, sent) ==
  LET left == k.rem - Spent(k.req.intervalFrames, elapsed)
      hold == first \/ (~Single(k) /\ left <= 0)
      holdLeft == k.holdRem - Spent(k.req.holdFrames, elapsed)
      release == k.holding /\ (hold \/ holdLeft <= 0)
      finishing == release /\ LastRound(k.times)
      times == IF hold /\ k.times > 0 THEN k.times - 1 ELSE k.times
      holds == hold /\ k.req.hold > 0
      triggers == hold /\ k.req.hold = 0
      last == finishing \/ (triggers /\ LastRound(times))
      s1 == IF release THEN notify_channel(k, s, FALSE, finishing, sent) ELSE s
      s2 == IF hold THEN notify_channel(k, s1, TRUE, triggers /\ last, sent) ELSE s1
      s3 == IF triggers THEN notify_channel(k, s2, FALSE, last, sent) ELSE s2
  IN  [cmd |-> [k EXCEPT
                  !.rem = IF Single(k) THEN @
                          ELSE IF hold THEN Forwarded(k, left) ELSE left,
                  !.holdRem = IF holds THEN k.req.hold
                              ELSE IF k.holding /\ ~release THEN holdLeft ELSE 0,
                  !.times = times,
                  !.finishing = last,
                  !.holding = holds \/ (k.holding /\ ~release),
                  !.held = IF holds THEN Entries(k)
                           ELSE IF release \/ triggers THEN {} ELSE @,
                  !.rounds = IF hold /\ @ <= k.req.times THEN @ + 1 ELSE @],
       state |-> s3,
       ended |-> IF release THEN k.held ELSE {},
       began |-> IF holds THEN Entries(k) ELSE {}]

Idle(k, s) == [cmd |-> k, state |-> s, ended |-> {}, began |-> {}]

\* confirm_channel fails if the message is refused or the channel is closed.
Confirms(s, sent) == ~Silent(s) /\ sent

\* cmtr_process_flightloop; found = XPLMFindCommand knows every entry.
cmtr_process_flightloop(k, s, found, elapsed, sent) ==
  CASE k.failed \/ k.finishing -> Idle(k, s)
    [] ~k.failed /\ ~k.finishing /\ RequiresTime(k) /\ life # "live" -> Idle(k, s)
    [] OTHER ->
         IF k.init THEN CmtrRound(k, s, FALSE, elapsed, sent)
         ELSE IF found /\ Confirms(s, sent)
         THEN CmtrRound([k EXCEPT !.init = TRUE], "CONFIRMED", TRUE, elapsed, sent)
         ELSE Idle([k EXCEPT !.failed = TRUE], Closed(s))

\* cmhd_process_flightloop
cmhd_process_flightloop(k, s, found, elapsed, sent) ==
  IF k.failed \/ k.init THEN Idle(k, s)
  ELSE IF found /\ Confirms(s, sent)
  THEN [cmd |-> [k EXCEPT !.init = TRUE, !.held = Entries(k)],
        state |-> "CONFIRMED", ended |-> {}, began |-> Entries(k)]
  ELSE Idle([k EXCEPT !.failed = TRUE], Closed(s))

-----------------------------------------------------------------------------
(* xp: the flight loop callbacks. *)

\* process_flight_loop_before_flight_model: lock, then run_tasks.
FrameBegin ==
  /\ xp.pc = "frame"
  /\ flightLoop = Free /\ schedule = Free
  /\ flightLoop' = "xp" /\ schedule' = "xp"
  /\ xp' = [pc |-> "run", todo |-> tasks]
  /\ UNCHANGED <<sessionVars, xpVars, post, net, line, history>>

XpTask(c, found, elapsed, sent) ==
  LET k == cmd[c]
      r == IF k.req.kind = "CMTR"
           THEN cmtr_process_flightloop(k, chan[c].state, found, elapsed, sent)
           ELSE cmhd_process_flightloop(k, chan[c].state, found, elapsed, sent)
  IN  /\ xp.pc = "run"
      /\ c \in xp.todo
      /\ cmd' = [cmd EXCEPT ![c] = r.cmd]
      /\ chan' = [chan EXCEPT ![c].state = r.state]
      /\ begun' = Pressed(k, r.ended, r.began)
      /\ xp' = [xp EXCEPT !.todo = @ \ {c}]
      /\ UNCHANGED <<flightLoop, schedule, closing, life, tasks, queue, pending,
                     post, net, line, history>>

RunTasksEnd ==
  /\ xp.pc = "run"
  /\ xp.todo = {}
  /\ schedule' = Free
  /\ xp' = [xp EXCEPT !.pc = "after"]
  /\ UNCHANGED <<flightLoop, sessionVars, xpVars, post, net, line, history>>

\* flush_xpqueue: the flag is looked at without the lock, then everything in
\* the list is ended.
FlushQueue ==
  /\ xp.pc = "after"
  /\ IF pending
     THEN /\ begun' = [x \in XPCommands |-> begun[x] - Queued(x)]
          /\ queue' = << >>
          /\ pending' = FALSE
     ELSE UNCHANGED xpVars
  /\ xp' = [xp EXCEPT !.pc = "end"]
  /\ UNCHANGED <<flightLoop, schedule, sessionVars, post, net, line, history>>

\* cnd_broadcast wakes post-processing if it waits; then unlock.
FrameEnd ==
  /\ xp.pc = "end"
  /\ flightLoop' = Free
  /\ xp' = [xp EXCEPT !.pc = "frame"]
  /\ post' = [post EXCEPT !.pc = IF @ = "wait" THEN "woken" ELSE @]
  /\ UNCHANGED <<schedule, sessionVars, xpVars, net, line, history>>

-----------------------------------------------------------------------------
(* post: run_post_processing_thread *)

PostWake ==
  /\ post.pc = "woken"
  /\ flightLoop = Free /\ schedule = Free
  /\ flightLoop' = "post" /\ schedule' = "post"
  /\ post' = [pc |-> "run", todo |-> tasks, at |-> 0]
  /\ UNCHANGED <<sessionVars, xpVars, xp, net, line, history>>

\* cmtr_process_post and cmhd_process_post terminate a failed or finished
\* command ...
MustEnd(k) == k.failed \/ k.finishing

\* ... close the channel and drop the task first ...
PostTerminate(c) ==
  /\ post.pc = "run" /\ c \in post.todo
  /\ MustEnd(cmd[c])
  /\ chan' = [chan EXCEPT ![c].state = Closed(@)]
  /\ cmd' = [cmd EXCEPT ![c].task = FALSE]
  /\ tasks' = tasks \ {c}
  /\ post' = [pc |-> "release", todo |-> post.todo \ {c}, at |-> c]
  /\ UNCHANGED <<flightLoop, schedule, closing, life, xpVars, xp, net, line,
                 history>>

\* ... and release what it holds; the result of terminate is ignored.
PostRelease ==
  LET c == post.at
  IN  /\ post.pc = "release"
      /\ ~fault
      /\ \E failing \in Failures(cmd[c]) :
           ReleaseAll(c, cmd[c], chan[c].state, failing)
      /\ post' = [post EXCEPT !.pc = "run"]
      /\ UNCHANGED <<flightLoop, schedule, closing, life, tasks, begun, xp, net,
                     line, started, abandoned, fault>>

\* CMHD is unscheduled once it holds its commands; CMTR goes on.
PostTask(c) ==
  LET idle == cmd[c].req.kind = "CMHD" /\ cmd[c].init
  IN  /\ post.pc = "run" /\ c \in post.todo
      /\ ~MustEnd(cmd[c])
      /\ cmd' = [cmd EXCEPT ![c].task = ~idle]
      /\ tasks' = IF idle THEN tasks \ {c} ELSE tasks
      /\ post' = [post EXCEPT !.todo = @ \ {c}]
      /\ UNCHANGED <<flightLoop, schedule, closing, life, chan, xpVars, xp, net,
                     line, history>>

\* Destroying a command gives up what it still holds, with a warning.
Destroy(S) ==
  /\ chan' = [c \in Channels |-> IF c \in S THEN NoChannel ELSE chan[c]]
  /\ cmd' = [c \in Channels |-> IF c \in S THEN NoCommand ELSE cmd[c]]
  /\ abandoned' = [x \in XPCommands |-> abandoned[x] + Held(S, x)]

\* Unlock the schedule; in some cycles maintain_server then destroys the
\* channels whose destruction was requested.  Wait for the next frame.
PostEnd ==
  /\ post.pc = "run" /\ post.todo = {}
  /\ schedule' = Free /\ flightLoop' = Free
  /\ post' = [post EXCEPT !.pc = "wait"]
  /\ \/ life = "live" /\ Destroy({c \in Channels : chan[c].doomed})
     \/ UNCHANGED <<chan, cmd, abandoned>>
  /\ UNCHANGED <<closing, life, tasks, xpVars, xp, net, line, started, refused,
                 stuck, fault>>

-----------------------------------------------------------------------------
(* recv: handle_request, under the schedule and the session lock. *)

NewCommand(req) ==
  [req |-> req, task |-> TRUE, init |-> FALSE, failed |-> FALSE,
   finishing |-> FALSE, holding |-> FALSE, held |-> {},
   list |-> 1 .. Len(req.entries), times |-> req.times,
   rem |-> IF req.intervalFrames \/ req.times = 1 THEN 0 ELSE req.interval,
   holdRem |-> 0, rounds |-> 0]

\* handle_request has the schedule and the session's lock.  A line it has read
\* is handled even if the connection is closing by now.
Handling ==
  /\ life = "live" /\ schedule = Free
  /\ line \/ ~closing
  /\ line' = FALSE

\* cmtr_create, cmhd_create for a request they accept.
Create(c, req) ==
  /\ Handling
  /\ chan[c] = NoChannel
  /\ started < MaxRequests
  /\ started' = started + 1
  /\ chan' = [chan EXCEPT ![c] = [state |-> "INITIAL", doomed |-> FALSE]]
  /\ cmd' = [cmd EXCEPT ![c] = NewCommand(req)]
  /\ tasks' = tasks \cup {c}
  /\ UNCHANGED <<flightLoop, schedule, closing, life, xpVars, xp, post, net,
                 refused, abandoned, stuck, fault>>

\* handle_termination_request; if the command cannot be terminated the
\* connection is closed.
Terminate(c) ==
  /\ Handling
  /\ chan[c].state \in {"INITIAL", "CONFIRMED"} /\ ~chan[c].doomed
  /\ \E failing \in Failures(cmd[c]) :
       /\ ReleaseAll(c, [cmd[c] EXCEPT !.task = FALSE], "CLOSED", failing)
       /\ closing' = (closing \/ TerminateFails(Released(cmd[c], failing)))
  /\ tasks' = tasks \ {c}
  /\ UNCHANGED <<flightLoop, schedule, life, begun, xp, post, net, started,
                 abandoned, fault>>

\* A request that is refused, or a TERM for a channel that is closed or to be
\* destroyed: nothing here changes.
RefuseRequest ==
  /\ Handling
  /\ UNCHANGED <<flightLoop, schedule, sessionVars, xpVars, xp, post, net,
                 history>>

\* lock_session fails once destruction is pending: handle_request returns with
\* the schedule locked, for ever.
RequestTooLate ==
  /\ line /\ life = "pending" /\ schedule = Free
  /\ schedule' = "recv"
  /\ line' = FALSE
  /\ UNCHANGED <<flightLoop, sessionVars, xpVars, xp, post, net, history>>

-----------------------------------------------------------------------------
(* net: destroy_session for a closing connection; it takes no session lock. *)

NetPend ==
  /\ net.pc = "watch"
  /\ closing
  /\ life' = "pending"
  /\ net' = [net EXCEPT !.pc = "sweep"]
  /\ UNCHANGED <<flightLoop, schedule, closing, chan, cmd, tasks, xpVars, xp,
                 post, line, history>>

MustTerminate(c) == ~chan[c].doomed

\* Another thread is inside the command that net is about to use.
Contended(c) == post.pc = "release" /\ post.at = c

\* destroy_session_channel: the next channel, if any, is terminated unless its
\* destruction was requested.
NetVisit ==
  LET c == net.at
  IN  /\ net.pc = "sweep" /\ c \in Channels
      /\ net' = [net EXCEPT !.pc = IF chan[c] = NoChannel THEN "next"
                                   ELSE IF ~MustTerminate(c) THEN "destroy"
                                   ELSE IF cmd[c].task THEN "unschedule"
                                   ELSE "release"]
      /\ UNCHANGED <<flightLoop, schedule, sessionVars, xpVars, xp, post, line,
                     history>>

\* unschedule under the schedule's lock; if post-processing has dropped the
\* task in the meantime this fails, and so does terminate.
NetUnschedule ==
  LET c == net.at
  IN  /\ net.pc = "unschedule" /\ schedule = Free
      /\ net' = [net EXCEPT !.pc = IF cmd[c].task THEN "release" ELSE "destroy"]
      /\ stuck' = (stuck \/ ~cmd[c].task)
      /\ cmd' = [cmd EXCEPT ![c].task = FALSE]
      /\ tasks' = tasks \ {c}
      /\ UNCHANGED <<flightLoop, schedule, closing, life, chan, xpVars, xp,
                     post, line, started, refused, abandoned, fault>>

NetRelease ==
  LET c == net.at
  IN  /\ net.pc = "release" /\ ~Contended(c)
      /\ \E failing \in Failures(cmd[c]) :
           ReleaseAll(c, cmd[c], chan[c].state, failing)
      /\ net' = [net EXCEPT !.pc = "destroy"]
      /\ UNCHANGED <<flightLoop, schedule, closing, life, tasks, begun, xp,
                     post, line, started, abandoned, fault>>

NetDestroy ==
  LET c == net.at
  IN  /\ net.pc = "destroy" /\ ~Contended(c)
      /\ Destroy({c})
      /\ net' = [net EXCEPT !.pc = "next"]
      /\ UNCHANGED <<flightLoop, schedule, closing, life, tasks, xpVars, xp,
                     post, line, started, refused, stuck, fault>>

NetNextChannel ==
  /\ net.pc = "next"
  /\ net' = [pc |-> "sweep", at |-> net.at + 1]
  /\ UNCHANGED <<flightLoop, schedule, sessionVars, xpVars, xp, post, line,
                 history>>

NetFree ==
  /\ net.pc = "sweep" /\ net.at \notin Channels
  /\ life' = "freed"
  /\ net' = [net EXCEPT !.pc = "done"]
  /\ UNCHANGED <<flightLoop, schedule, closing, chan, cmd, tasks, xpVars, xp,
                 post, line, history>>

\* Two threads release or free the entries of one command: undefined, so the
\* two stop here.
NetRace ==
  /\ net.pc \in {"release", "destroy"} /\ Contended(net.at)
  /\ ~fault
  /\ fault' = TRUE
  /\ UNCHANGED <<flightLoop, schedule, sessionVars, xpVars, xp, post, net, line,
                 started, refused, abandoned, stuck>>

\* run_receive_thread may just have completed a line.
Disconnect ==
  /\ MayDisconnect
  /\ ~closing
  /\ closing' = TRUE
  /\ line' \in BOOLEAN
  /\ UNCHANGED <<flightLoop, schedule, life, chan, cmd, tasks, xpVars, xp, post,
                 net, history>>

XpNext ==
  \/ FrameBegin
  \/ \E c \in Channels, found \in BOOLEAN, elapsed \in 1 .. MaxElapsed,
        sent \in SendResults : XpTask(c, found, elapsed, sent)
  \/ RunTasksEnd \/ FlushQueue \/ FrameEnd

PostNext ==
  \/ PostWake \/ PostRelease \/ PostEnd
  \/ \E c \in Channels : PostTerminate(c) \/ PostTask(c)

NetNext ==
  \/ NetPend \/ NetVisit \/ NetUnschedule \/ NetRelease \/ NetDestroy
  \/ NetNextChannel \/ NetFree \/ NetRace

Next ==
  \/ XpNext \/ PostNext \/ NetNext \/ Disconnect
  \/ RefuseRequest \/ RequestTooLate
  \/ \E c \in Channels : Terminate(c) \/ \E req \in Requests : Create(c, req)

Spec == Init /\ [][Next]_vars

\* Every thread keeps running; frames go on for ever, and a mutex released in
\* every frame is not withheld from post-processing or from net for ever.
Fairness ==
  /\ WF_vars(XpNext) /\ WF_vars(PostNext) /\ WF_vars(NetNext)
  /\ SF_vars(PostWake) /\ SF_vars(NetUnschedule)

FairSpec == Spec /\ Fairness

-----------------------------------------------------------------------------
CommandRecords ==
  [req : Requests, task : BOOLEAN, init : BOOLEAN, failed : BOOLEAN, finishing : BOOLEAN,
   holding : BOOLEAN, held : SUBSET Nat, list : SUBSET Nat, times : Int, rem : Nat,
   holdRem : Nat, rounds : Nat]

TypeOK ==
  /\ flightLoop \in {Free, "xp", "post"} /\ schedule \in {Free, "xp", "post", "recv"}
  /\ closing \in BOOLEAN /\ life \in {"live", "pending", "freed"}
  /\ chan \in [Channels -> [state : {"none", "INITIAL", "CONFIRMED", "CLOSED"},
                            doomed : BOOLEAN]]
  /\ cmd \in [Channels -> CommandRecords \cup {NoCommand}]
  /\ \A c \in Channels : cmd[c] # NoCommand =>
       /\ cmd[c].held \subseteq Entries(cmd[c])
       /\ cmd[c].list \subseteq Entries(cmd[c])
       /\ cmd[c].rem \in 0 .. cmd[c].req.interval
       /\ cmd[c].holdRem \in 0 .. cmd[c].req.hold
       /\ cmd[c].times \in {Infinite} \cup 0 .. cmd[c].req.times
  /\ tasks \subseteq Channels
  /\ queue \in Seq(XPCommands) /\ pending \in BOOLEAN
  /\ begun \in [XPCommands -> Int] /\ abandoned \in [XPCommands -> Nat]
  /\ xp \in [pc : {"frame", "run", "after", "end"}, todo : SUBSET Channels]
  /\ post \in [pc : {"wait", "woken", "run", "release"}, todo : SUBSET Channels,
               at : Channels \cup {0}]
  /\ net \in [pc : {"watch", "sweep", "unschedule", "release", "destroy", "next",
                    "done"}, at : 1 .. NumChannels + 1]
  /\ line \in BOOLEAN /\ started \in 0 .. MaxRequests
  /\ refused \in BOOLEAN /\ stuck \in BOOLEAN /\ fault \in BOOLEAN

-----------------------------------------------------------------------------
(* Correctness. *)

\* X-Plane's count of every command is explained at all times: somebody holds
\* it, its end is queued, or it was given up with a warning.  So no End is
\* lost, doubled or sent without a Begin, in whichever of four threads and in
\* whichever order commands are released (cmtr_process_flightloop,
\* cmtr_terminate, cmhd_terminate, flush_xpqueue).
HoldsAccounted ==
  fault \/ \A x \in XPCommands :
             begun[x] = Held(Channels, x) + Queued(x) + abandoned[x]

\* A CMTR command that finishes by itself has run as often as it was asked to
\* (the times option of cmtr_process_flightloop).
RepetitionsPerformed ==
  \A c \in Channels : cmd[c] # NoCommand /\ cmd[c].finishing =>
    cmd[c].rounds >= cmd[c].req.times

\* Nothing is held for ever: queued releases reach X-Plane in spite of the flag
\* that flush_xpqueue reads without a lock, and a CMTR command with a number of
\* times comes to its end by itself (cmtr_process_flightloop).  Excepted is the
\* standstill after RequestTooLate: handle_request never unlocks the schedule
\* (server.c:130-134), and no frame is completed any more.
TriggersEnd ==
  /\ queue # << >> ~> (queue = << >> \/ fault \/ schedule = "recv")
  /\ \A c \in Channels :
       (cmd[c] # NoCommand /\ cmd[c].req.kind = "CMTR" /\ cmd[c].req.times # Infinite)
         ~> (chan[c].state \in {"CLOSED", "none"} \/ closing)

\* A command is destroyed while it holds X-Plane commands only if queueing
\* their release has failed: cmhd_terminate warns of commands that "may never"
\* be released (destroy_session_channel, cmhd_terminate).  TLC refutes it, see
\* the README.
NothingAbandoned == refused \/ fault \/ \A x \in XPCommands : abandoned[x] = 0

\* A CMTR command never runs more often than asked: its comment calls the last
\* release the terminal action (cmtr_process_flightloop).  TLC refutes it for an
\* interval shorter than the time to hold, see the README.
NoExtraRound ==
  \A c \in Channels :
    cmd[c] # NoCommand /\ cmd[c].req.kind = "CMTR" /\ cmd[c].req.times # Infinite =>
      cmd[c].rounds <= cmd[c].req.times

\* Termination does not fail as long as releases can be queued: command.h says
\* it should generally not fail, as that ends the whole session.  TLC refutes
\* it, see the README.
TerminationSucceeds == ~stuck
=============================================================================
