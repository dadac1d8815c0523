--------------------------- MODULE DatarefUpdate ---------------------------
(***************************************************************************)
(* DRMU: a client has datarefs changed, at once or along a line within a   *)
(* duration, once or again in an interval (command_drmu.c).  The frames of *)
(* X-Plane and post-processing take turns on the command under the         *)
(* schedule's mutex, TERM comes from the network, the clock advances on    *)
(* its own and may be set back.                                            *)
(*                                                                         *)
(* All values are counted in units of 1 / Scale, so that progress has      *)
(* fractions; every dataref has the same target.                           *)
(***************************************************************************)
EXTENDS Integers

CONSTANTS
  Updated,        \* datarefs of the request
  ReadOnly,       \* those among them that X-Plane does not let anyone change
  Scale,          \* units of one; a multiple of all durations
  Target,         \* value to reach
  GivenBase,      \* base value, if the client gives one
  OtherValues,    \* values other plugins set
  NoValue,        \* no value was written or sent
  Durations, Intervals,
  FetchedSets,    \* sets of datarefs for which requests give no base value
  MaxTime,        \* bound: milliseconds since the session's reference time
  MaxSetBacks     \* bound: how often the clock is set back

ASSUME DatarefUpdateAssumption ==
  /\ ReadOnly \subseteq Updated /\ Scale \in Nat \ {0}
  /\ Target \in Int /\ GivenBase \in Int /\ OtherValues \subseteq Int
  /\ Durations \subseteq Nat \ {0} /\ Intervals \subseteq Nat
  /\ \A n \in Durations : Scale % n = 0
  /\ {} \in FetchedSets /\ FetchedSets \subseteq SUBSET Updated
  /\ NoValue \notin Int /\ MaxTime \in Nat /\ MaxSetBacks \in Nat

VARIABLES
  update,     \* the command: its options and its progress
  clock,      \* millis_since_reference; -1 before the reference time
  setBacks,
  dataValue,  \* dataref -> value
  wrote,      \* dataref -> value the command wrote last, or NoValue
  reply       \* the channel: [state, by, data, time] of its last message, mode wanted

updateVars == <<update, clock, setBacks, dataValue, wrote, reply>>

NoData == [d \in Updated |-> NoValue]

\* Nothing requested yet, or all over.
NoUpdate == [scheduled |-> FALSE, method |-> "immediate", interval |-> 0]

UpdateInit ==
  /\ update = NoUpdate /\ clock = 0 /\ setBacks = 0
  /\ dataValue = [d \in Updated |-> 0] /\ wrote = NoData
  /\ reply = [state |-> "none", by |-> "", data |-> NoData, time |-> 0, mode |-> "none"]

ChannelOpen == reply.state \in {"requested", "confirmed"}

\* What the channel becomes; messages to a closed channel are refused, and those
\* sent with the current time while the clock is before the reference time.
Confirmed(r) == IF r.state = "requested" THEN [r EXCEPT !.state = "confirmed"] ELSE r
Closed(r, how, by) ==
  IF r.state \in {"requested", "confirmed"} /\ clock >= 0 THEN [r EXCEPT !.state = how, !.by = by, !.data = NoData] ELSE r

-----------------------------------------------------------------------------
(* Environment; after the command its steps do not matter any more. *)

Matters == update.scheduled \/ reply.state = "none"

tick == /\ Matters /\ clock < MaxTime /\ clock' = clock + 1
        /\ UNCHANGED <<update, setBacks, dataValue, wrote, reply>>

clock_set_back ==
  /\ Matters /\ setBacks < MaxSetBacks /\ setBacks' = setBacks + 1
  /\ \E t \in -1 .. clock - 1 : clock' = t
  /\ UNCHANGED <<update, dataValue, wrote, reply>>

other_plugin_writes ==
  /\ update.scheduled
  /\ \E d \in Updated, v \in OtherValues : dataValue' = [dataValue EXCEPT ![d] = v]
  /\ UNCHANGED <<update, clock, setBacks, wrote, reply>>

-----------------------------------------------------------------------------
(* The request. *)

\* The options as drmu_create takes them: parse_method, parse_monitor_mode,
\* is_suffixed_frames.  fetched are the datarefs without a base value of their
\* own (only the linear method wants one).
Options ==
  [method : {"immediate", "linear"}, monitor : {"none", "set", "get"}, integer : BOOLEAN,
   interval : Intervals, intervalFrames : BOOLEAN,
   duration : Durations, durationFrames : BOOLEAN, fetched : FetchedSets]

NewUpdate(o) ==
  [scheduled |-> TRUE, method |-> o.method, monitor |-> o.monitor, integer |-> o.integer,
   interval |-> o.interval, intervalFrames |-> o.intervalFrames,
   duration |-> o.duration, durationFrames |-> o.durationFrames, fetched |-> o.fetched,
   base_time |-> clock, remaining |-> 0, duration_frames |-> 0,
   initialized |-> FALSE, failed |-> FALSE, update_base |-> FALSE, cycle_complete |-> FALSE, done |-> FALSE,
   base |-> [d \in Updated |-> GivenBase], buffer |-> [d \in Updated |-> 0], timestamp |-> 0]

\* A dataref of type int only ever holds whole values, and a request's are
\* parsed by that type.
Whole(v) == v % Scale = 0
AllWhole == \A v \in OtherValues \union {Target, GivenBase} : Whole(v)

\* An option that has no effect has one value only.
Canonical(o) ==
  /\ o.integer => AllWhole
  /\ o.method = "immediate" => o.fetched = {} /\ ~o.durationFrames /\ ~o.integer
  /\ o.interval = 0 => o.intervalFrames

drmu_create(o) ==
  /\ update' = NewUpdate(o)
  /\ reply' = [reply EXCEPT !.state = "requested", !.mode = o.monitor]
  /\ UNCHANGED <<clock, setBacks, dataValue, wrote>>

\* complete_without_schedule: all datarefs are provided by XPRC clients and
\* there is nothing to wait for.  A dataref that fails (bad) does not keep the
\* others from being set, but then there is no monitor data.
complete_without_schedule(o, bad) ==
  LET written == [d \in Updated |-> IF d \in bad THEN dataValue[d] ELSE Target]
  IN  /\ o.method = "immediate" /\ o.interval = 0
      /\ dataValue' = written
      /\ wrote' = [d \in Updated |-> IF d \in bad THEN NoValue ELSE Target]
      /\ reply' = IF bad # {} THEN [reply EXCEPT !.state = "error", !.by = "update"]
                  ELSE [state |-> "finished", by |-> "update", time |-> clock, mode |-> o.monitor,
                        data |-> IF o.monitor = "none" THEN NoData ELSE written]
      /\ UNCHANGED <<update, clock, setBacks>>

\* An option, a dataref's specification or its values are not acceptable, or
\* the session may not write a dataref: the command is never created.
drmu_create_fails ==
  /\ reply' = Closed([reply EXCEPT !.state = "requested"], "error", "request")
  /\ UNCHANGED <<update, clock, setBacks, dataValue, wrote>>

\* Requests come early enough for their durations to pass.
Request ==
  /\ update = NoUpdate /\ reply.state = "none"
  /\ clock >= 0 /\ \A n \in Durations : clock + n <= MaxTime
  /\ \/ drmu_create_fails
     \/ \E o \in Options :
          Canonical(o) /\ (drmu_create(o) \/ \E bad \in SUBSET Updated : complete_without_schedule(o, bad))

-----------------------------------------------------------------------------
(* A frame: drmu_process_flightloop. *)

\* drmu_initialize: the dataref does not exist or has no such type.
initialize_fails ==
  /\ update.scheduled /\ ~update.failed /\ ~update.done /\ ~update.initialized
  /\ update' = [update EXCEPT !.failed = TRUE]
  /\ reply' = Closed(reply, "error", "update")
  /\ UNCHANGED <<clock, setBacks, dataValue, wrote>>

Initialized(u) ==
  IF u.initialized THEN u ELSE [u EXCEPT !.initialized = TRUE, !.update_base = u.fetched # {}]

Greater(a, b) == IF a > b THEN a ELSE b

\* A clock that was set back counts as no time.
SinceBase(u) == Greater(clock - u.base_time, 0)

Restarting(u) ==
  /\ u.interval > 0
  /\ IF u.intervalFrames THEN u.remaining - 1 <= 0 ELSE SinceBase(u) >= u.interval

\* MUTANT of Waited: the count of frames is set back to zero.
WaitedOnce(u) ==
  IF u.interval = 0 THEN u
  ELSE IF u.intervalFrames
  THEN [u EXCEPT !.remaining = IF Restarting(u) THEN 0 ELSE @ - 1,
                 !.base_time = IF Restarting(u) THEN clock ELSE @]
  ELSE [u EXCEPT !.base_time = @ + u.interval * (SinceBase(u) \div u.interval)]

\* The interval's frames are counted down, its milliseconds added to the base
\* time as often as they have passed.
Waited(u) ==
  IF u.interval = 0 THEN u
  ELSE IF u.intervalFrames
  THEN [u EXCEPT !.remaining = IF Restarting(u) THEN u.interval ELSE @ - 1,
                 !.base_time = IF Restarting(u) THEN clock ELSE @]
  ELSE [u EXCEPT !.base_time = @ + u.interval * (SinceBase(u) \div u.interval)]

Restarted(u) == [u EXCEPT !.cycle_complete = FALSE, !.duration_frames = 0, !.update_base = u.fetched # {}]

Counted(u) ==
  IF u.method = "linear" /\ u.durationFrames /\ ~u.cycle_complete THEN [u EXCEPT !.duration_frames = @ + 1] ELSE u

\* Progress, in parts of the duration.
Progress(u) ==
  IF u.method = "immediate" THEN u.duration
  ELSE IF u.durationFrames THEN u.duration_frames ELSE SinceBase(u)

\* lrint: to the nearest, halves to the even number.
lrint(v) ==
  LET whole == v \div Scale
      twice == 2 * (v % Scale)
  IN  IF twice > Scale \/ (twice = Scale /\ whole % 2 = 1) THEN (whole + 1) * Scale ELSE whole * Scale

\* calculate_linear_values
Linear(u, base) ==
  LET v == base + ((Target - base) * Progress(u)) \div u.duration
  IN  IF u.integer THEN lrint(v) ELSE v

TargetReached(u) == Progress(u) >= u.duration

\* MUTANT of MonitorValues: the last value that was computed is reported.
MonitorStays(u, submitted, after) ==
  [d \in Updated |-> IF u.monitor = "get" THEN after[d] ELSE IF TargetReached(u) THEN u.buffer[d] ELSE submitted[d]]

\* The buffer after the frame: what was set (also the target, which is copied
\* for that), or what can be read now.
MonitorValues(u, submitted, after) ==
  [d \in Updated |-> IF u.monitor = "get" THEN after[d] ELSE submitted[d]]

\* The state in which the frame comes to its datarefs.
Begun ==
  LET waited == Waited(Initialized(update))
  IN  Counted(IF Restarting(Initialized(update)) THEN Restarted(waited) ELSE waited)

\* Base values that the client left out are read when a cycle begins.
read_dataref(u) == [d \in Updated |-> IF u.update_base /\ d \in u.fetched THEN dataValue[d] ELSE u.base[d]]

\* X-Plane ignores writes to a read-only dataref without an error.
write_dataref(submitted, bad) ==
  [d \in Updated |-> IF d \in bad \union ReadOnly THEN dataValue[d] ELSE submitted[d]]

\* What a frame writes, and the command after it.
SubmittedValues(u) ==
  [d \in Updated |-> IF TargetReached(u) THEN Target ELSE Linear(u, read_dataref(u)[d])]
AfterFrame(u, submitted, after, bad) ==
  [u EXCEPT !.base = read_dataref(u), !.timestamp = clock,
            !.buffer = IF u.monitor = "none" THEN @ ELSE MonitorValues(u, submitted, after),
            !.cycle_complete = TargetReached(u),
            !.done = TargetReached(u) /\ u.interval = 0,
            !.failed = bad # {},
            !.update_base = bad # {} /\ @]

\* Datarefs in bad cannot be read or written; the others are still served.
frame_updates(u, bad) ==
  LET submitted == SubmittedValues(u)
      after == write_dataref(submitted, bad)
  IN  /\ ~u.cycle_complete
      /\ dataValue' = after
      /\ wrote' = [d \in Updated |-> IF d \in bad THEN wrote[d] ELSE submitted[d]]
      /\ update' = AfterFrame(u, submitted, after, bad)
      /\ reply' = IF bad = {} THEN Confirmed(reply) ELSE Closed(Confirmed(reply), "error", "update")
      /\ UNCHANGED <<clock, setBacks>>

\* The cycle is complete and the next one not due.
frame_waits(u) ==
  /\ u.cycle_complete
  /\ update' = u
  /\ UNCHANGED <<clock, setBacks, dataValue, wrote, reply>>

\* The clock is before the session's reference time: the first frame cannot
\* confirm the channel either.
frame_without_time ==
  /\ clock < 0
  /\ update' = [Initialized(update) EXCEPT !.failed = TRUE]
  /\ UNCHANGED <<clock, setBacks, dataValue, wrote, reply>>

-----------------------------------------------------------------------------
(* Post-processing and TERM. *)

\* submit_monitor_data sends only if a frame took place later than in
\* millisecond 0 since it did so last, and if the client wants to know.
Submits == ~update.failed /\ update.initialized /\ update.timestamp > 0 /\ update.monitor # "none"

Submitted(r) ==
  IF ~Submits \/ ~ChannelOpen THEN r
  ELSE [r EXCEPT !.state = IF update.done THEN "finished" ELSE @,
                 !.by = IF update.done THEN "update" ELSE @,
                 !.data = update.buffer, !.time = update.timestamp]

\* drmu_process_post: a channel that is closed already counts as a failure, and
\* failed commands end as well.
drmu_process_post ==
  LET failed == update.failed \/ (Submits /\ ~ChannelOpen)
      ends == failed \/ update.done
      r == Submitted(reply)
  IN  /\ update.scheduled
      /\ reply' = IF failed THEN Closed(r, "error", "update")
                  ELSE IF update.done THEN [Closed(r, "finished", "update") EXCEPT !.time = update.timestamp]
                  ELSE r
      /\ update' = IF ends THEN NoUpdate
                   ELSE IF Submits THEN [update EXCEPT !.timestamp = 0] ELSE update
      /\ UNCHANGED <<clock, setBacks, dataValue, wrote>>

\* drmu_terminate for TERM closes the channel first and waits for the schedule
\* afterwards; frames and post-processing may come between.  (A finish that is
\* refused for the time is left out as a step of its own.)
term_finishes ==
  /\ update.scheduled /\ ChannelOpen
  /\ reply' = Closed(reply, "finished", "term")
  /\ UNCHANGED <<update, clock, setBacks, dataValue, wrote>>

term_unschedules ==
  /\ update.scheduled /\ (reply.by = "term" \/ clock < 0)
  /\ update' = NoUpdate
  /\ UNCHANGED <<clock, setBacks, dataValue, wrote, reply>>

Frame ==
  /\ update.scheduled /\ ~update.failed /\ ~update.done
  /\ \/ \E u \in {Begun} : clock >= 0 /\ (frame_waits(u) \/ \E bad \in SUBSET Updated : frame_updates(u, bad))
     \/ frame_without_time

UpdateNext ==
  \/ tick \/ clock_set_back \/ other_plugin_writes
  \/ Request \/ initialize_fails \/ Frame
  \/ drmu_process_post \/ term_finishes \/ term_unschedules

UpdateSpec == UpdateInit /\ [][UpdateNext]_updateVars

\* X-Plane goes on calling the flight loop, post-processing its cycle, and time
\* passes.
UpdateFairness == WF_updateVars(tick) /\ WF_updateVars(Frame) /\ WF_updateVars(drmu_process_post)

-----------------------------------------------------------------------------
(* Properties. *)

Between(v, a, b) == (a <= v /\ v <= b) \/ (b <= v /\ v <= a)

\* Whatever the clock, other plugins and failures do, a value written lies
\* between the base of its cycle and the target; the command ends its channel
\* on its own only after it has written all targets, and if the client asked
\* for the values set, the last message shows them - unless the last frame fell
\* into millisecond 0 (drmu_process_flightloop, submit_monitor_data).
UpdateStaysOnLine ==
  /\ update.scheduled /\ ~update.failed =>
       \A d \in Updated : wrote[d] # NoValue => Between(wrote[d], update.base[d], Target)
  /\ reply.state = "finished" /\ reply.by = "update" =>
       /\ \A d \in Updated : wrote[d] = Target
       /\ ~update.scheduled
       /\ reply.mode = "set" =>
            \/ \A d \in Updated : reply.data[d] = Target
            \/ reply.data = NoData /\ reply.time = 0

\* An update that is not repeated comes to an end; one that is repeated in an
\* interval of frames not shorter than its duration reaches its target again
\* and again, until it is ended (drmu_process_flightloop, drmu_process_post).
UpdateReachesTarget ==
  /\ (update.scheduled /\ update.interval = 0) ~> ~update.scheduled
  /\ (/\ update.scheduled /\ update.method = "linear" /\ update.interval > 0
      /\ update.intervalFrames /\ update.durationFrames /\ update.interval >= update.duration)
       ~> (update = NoUpdate \/ update.cycle_complete)
=============================================================================
