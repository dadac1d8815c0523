------------------------------- MODULE Plugin -------------------------------
(***************************************************************************)
(* plugin.c, gui/gui.c and gui/license_window.c: the life of the plugin in  *)
(* X-Plane.  X-Plane's thread starts, enables, disables and stops it, runs  *)
(* its flight loop callbacks each frame and draws its windows; the plugin's *)
(* post-processing thread sleeps until the flight loop wakes it.  The two   *)
(* share flight_loop_mutex, which X-Plane's thread keeps from the "before"  *)
(* to the "after" callback of a frame.                                      *)
(*                                                                          *)
(* Where a callback of X-Plane's thread only touches that thread's own      *)
(* state it is one step.  XPluginDisable waits twice, for the flight loop   *)
(* and for the end of post-processing, and takes four.                      *)
(***************************************************************************)
EXTENDS LicenseManager, Sequences, FiniteSets, SequencesExt

CONSTANTS LaterFirst,   \* X-Plane calls later registrations of a phase first
          MayFail,      \* operations that can fail may do so
          MaxRestarts,  \* how often the simulator is started anew
          MaxStale      \* rejection loops that may be left over from earlier

ASSUME PluginAssumption ==
  /\ LaterFirst \in BOOLEAN /\ MayFail \in BOOLEAN
  /\ MaxRestarts \in Nat /\ MaxStale \in Nat

VARIABLES xplane,       \* what X-Plane thinks of the plugin
          plugin_initialized, fatal_error, auto_start,
          objects,      \* the global pointers that are not NULL
          loops,        \* the plugin's flight loops, in order of registration
          todo,         \* callbacks X-Plane still has to run in this phase
          xpc,          \* where X-Plane's thread is
          flight_loop_mutex, flight_loop_locked_by_xp,
          handled_license_acceptance, handled_license_rejection,
          window,       \* the licence window
          menu,         \* gui_complete_init has registered the menu
          managed,       \* the managed server: stopped, wanted or running
          post,         \* where the post-processing thread is
          shutdown_post_processing,
          failed,       \* an operation of the plugin has failed (history)
          restarts

xpVars == <<xplane, plugin_initialized, fatal_error, auto_start, objects, loops, todo, xpc>>
mutexVars == <<flight_loop_mutex, flight_loop_locked_by_xp>>
handledVars == <<handled_license_acceptance, handled_license_rejection>>
guiVars == <<window, menu, managed>>
postVars == <<post, shutdown_post_processing>>
vars == <<licenseVars, xpVars, mutexVars, handledVars, guiVars, postVars, failed, restarts>>

\* In the order XPluginEnable creates them.
Created == <<"license", "settings", "manager", "gui", "xpqueue", "dataproxies",
             "xpcommands", "schedule">>
\* In the order XPluginDisable destroys them once no other thread is left.
Destroyed == <<"schedule", "xpcommands", "dataproxies", "xpqueue", "settings", "license">>

Objects == Range(Created)
Loops == {"before", "after", "monitor", "rejection"}

\* The phase a flight loop is registered for.
Phase(l) == IF l = "after" THEN "after" ELSE "before"

NoWindow == [visible |-> FALSE, was_visible |-> FALSE, should_reject_on_close |-> FALSE]

Windows == [visible : BOOLEAN, was_visible : BOOLEAN, should_reject_on_close : BOOLEAN]

TypeOK ==
  /\ LicenseTypeOK
  /\ xplane \in {"stopped", "started", "enabled"}
  /\ plugin_initialized \in BOOLEAN /\ fatal_error \in BOOLEAN /\ auto_start \in BOOLEAN
  /\ flight_loop_locked_by_xp \in BOOLEAN /\ menu \in BOOLEAN
  /\ handled_license_acceptance \in BOOLEAN /\ handled_license_rejection \in BOOLEAN
  /\ shutdown_post_processing \in BOOLEAN /\ failed \in BOOLEAN
  /\ objects \subseteq Objects
  /\ loops \in Seq(Loops) /\ todo \in Seq(Loops)
  /\ xpc \in {"idle", "before", "after", "disable", "lock", "join"}
  /\ flight_loop_mutex \in {"none", "xp", "post"}
  /\ window \in Windows
  /\ managed \in {"stopped", "wanted", "running"}
  /\ post \in {"none", "lock", "wait", "woken", "run", "maintain", "ended"}
  /\ restarts \in 0..MaxRestarts

\* A freshly loaded plugin.
Fresh ==
  /\ xplane = "stopped" /\ plugin_initialized = FALSE /\ fatal_error = FALSE
  /\ auto_start = FALSE /\ objects = {} /\ loops = <<>> /\ todo = <<>> /\ xpc = "idle"
  /\ flight_loop_mutex = "none" /\ flight_loop_locked_by_xp = FALSE
  /\ handled_license_acceptance = FALSE /\ handled_license_rejection = FALSE
  /\ window = NoWindow /\ menu = FALSE /\ managed = "stopped"
  /\ post = "none" /\ shutdown_post_processing = FALSE
  /\ failed = FALSE

Init == LicenseInit /\ Fresh /\ restarts = 0

-----------------------------------------------------------------------------
(* The flight loop mutex, flight loops and the licence window. *)

Registered == Range(loops)

\* The sequence s without the members of ls, in the same order.
Without(s, ls) ==
  LET kept[n \in 0..Len(s)] == IF n = 0 THEN <<>>
                               ELSE IF s[n] \in ls THEN kept[n - 1]
                               ELSE Append(kept[n - 1], s[n])
  IN  kept[Len(s)]

\* The callbacks of a phase in the order X-Plane runs them.
Callbacks(phase) ==
  LET due == Without(loops, {l \in Loops : Phase(l) # phase})
  IN  IF LaterFirst THEN Reverse(due) ELSE due

\* imgui_show: closing the window rejects unless everything is accepted; the
\* monitor that watches for it is then scheduled.
Shown(p) == [visible |-> TRUE, was_visible |-> TRUE,
             should_reject_on_close |-> ~all_licenses_accepted(p)]

open_license_window(p, ls) ==
  /\ window' = Shown(p)
  /\ loops' = IF all_licenses_accepted(p) \/ "monitor" \in Range(ls) THEN ls
                                                              ELSE Append(ls, "monitor")

\* A button of the window: it is hidden, its monitor is gone.
Hidden == [window EXCEPT !.visible = FALSE, !.should_reject_on_close = FALSE]

\* start_managed_server: do_server_start refuses while licences are pending.
\* A start that fails otherwise stays wanted for maintenance to retry.
started(p) == {"wanted"} \union (IF all_licenses_accepted(p) THEN {"running"} ELSE {})

-----------------------------------------------------------------------------
(* Callbacks of the licence manager. *)

\* on_plugin_licenses_accepted, as far as gui_complete_init and the flight loop
\* go; ls are the loops registered so far.
on_plugin_licenses_accepted(ls, p, auto) ==
  IF handled_license_rejection
  THEN /\ fatal_error' = TRUE
       /\ loops' = ls
       /\ UNCHANGED <<handled_license_acceptance, menu, managed, failed>>
  ELSE IF handled_license_acceptance
  THEN loops' = ls /\ UNCHANGED <<fatal_error, handled_license_acceptance, menu, managed, failed>>
  ELSE /\ handled_license_acceptance' = TRUE
       /\ \/ /\ menu' = TRUE
             /\ managed' \in IF auto THEN started(p) ELSE {managed}
             /\ loops' = ls \o <<"before", "after">>
             /\ UNCHANGED <<fatal_error, failed>>
          \/ /\ MayFail
             /\ fatal_error' = TRUE /\ failed' = TRUE
             /\ loops' = ls /\ UNCHANGED <<menu, managed>>

\* MUTANT of on_plugin_licenses_rejected: the loop is created but never scheduled.
RejectionUnscheduled(ls) ==
  /\ handled_license_rejection' = TRUE
  /\ loops' = ls

\* The plugin must be disabled, but not from within this callback: a flight
\* loop of its own does it in the next frame.
on_plugin_licenses_rejected(ls) ==
  /\ handled_license_rejection' = TRUE
  /\ loops' = IF handled_license_rejection THEN ls ELSE Append(ls, "rejection")

-----------------------------------------------------------------------------
(* XPluginStart, XPluginEnable, XPluginStop. *)

XPluginStart ==
  /\ xpc = "idle" /\ xplane = "stopped"
  /\ xplane' = "started"
  /\ \/ ~plugin_initialized /\ ~fatal_error
        /\ plugin_initialized' = TRUE /\ UNCHANGED <<fatal_error, failed>>
     \/ ~plugin_initialized /\ ~fatal_error /\ MayFail   \* paths, mutex, condition, factory
        /\ fatal_error' = TRUE /\ failed' = TRUE /\ UNCHANGED plugin_initialized
     \/ plugin_initialized /\ fatal_error' = TRUE /\ UNCHANGED <<plugin_initialized, failed>>
     \/ ~plugin_initialized /\ fatal_error /\ UNCHANGED <<plugin_initialized, fatal_error, failed>>
  /\ UNCHANGED <<licenseVars, auto_start, objects, loops, todo, xpc, mutexVars, handledVars,
                 guiVars, postVars, restarts>>

\* What an earlier XPluginDisable should have cleared.
Leftovers ==
  \/ objects # {} \/ post # "none"
  \/ handled_license_acceptance \/ handled_license_rejection

Refused ==
  /\ fatal_error \/ Leftovers
  /\ fatal_error' = TRUE
  /\ UNCHANGED <<licenseVars, auto_start, objects, loops, handledVars, guiVars, postVars, failed>>

\* Creation stopped: the objects made so far stay for XPluginDisable.  Without
\* a preferences directory or a GUI the error is fatal.  The last thing to fail
\* is the manager's configuration, with post-processing already running.
EnableFails ==
  /\ ~fatal_error /\ ~Leftovers /\ MayFail
  /\ \E n \in 0..Len(Created) :
       /\ objects' = {Created[i] : i \in 1..n}
       /\ fatal_error' \in IF n = 3 THEN {TRUE} ELSE IF n = 0 THEN BOOLEAN ELSE {FALSE}
       /\ auto_start' \in IF n < 2 THEN {auto_start} ELSE BOOLEAN
       /\ post' \in IF n < Len(Created) THEN {"none"} ELSE {"none", "lock"}
       /\ shutdown_post_processing' = (shutdown_post_processing /\ n < Len(Created))
       /\ IF n = 0 THEN UNCHANGED licenseVars ELSE create_license_manager
  /\ failed' = TRUE
  /\ UNCHANGED <<loops, handledVars, guiVars>>

\* configure_settings_manager_from_storage succeeded and asks for it, or not.
EnableSucceeds ==
  /\ ~fatal_error /\ ~Leftovers
  /\ objects' = Objects
  /\ auto_start' \in BOOLEAN
  /\ create_license_manager
  /\ post' = "lock" /\ shutdown_post_processing' = FALSE
  /\ IF all_licenses_accepted(pending')
     THEN /\ on_plugin_licenses_accepted(loops, pending', auto_start')
          /\ UNCHANGED <<handled_license_rejection, window>>
     ELSE /\ open_license_window(pending', loops)
          /\ UNCHANGED <<fatal_error, handledVars, menu, managed, failed>>

XPluginEnable ==
  /\ xpc = "idle" /\ xplane = "started"
  /\ xplane' = "enabled"
  /\ Refused \/ EnableFails \/ EnableSucceeds
  /\ UNCHANGED <<plugin_initialized, todo, xpc, mutexVars, restarts>>

XPluginStop ==
  /\ xpc = "idle" /\ xplane = "started"
  /\ xplane' = "stopped"
  /\ plugin_initialized' = IF fatal_error \/ flight_loop_locked_by_xp THEN plugin_initialized
                                                                       ELSE FALSE
  /\ fatal_error' = (fatal_error \/ flight_loop_locked_by_xp)
  /\ UNCHANGED <<licenseVars, auto_start, objects, loops, todo, xpc, mutexVars, handledVars,
                 guiVars, postVars, failed, restarts>>

-----------------------------------------------------------------------------
(* XPluginDisable.  It returns to where X-Plane called it: between frames, *)
(* or in the callback of the rejection loop.                               *)

\* Back in X-Plane.  The rejection loop destroys itself after the call.
disabled(ls) ==
  /\ xplane' = "started"
  /\ xpc' = "idle" /\ todo' = <<>>
  /\ loops' = IF todo = <<>> THEN ls ELSE RemoveFirst(ls, "rejection")

\* X-Plane or the user disables the plugin between two frames.  A rejection
\* loop that has not run yet is left registered: XPluginDisable destroys only
\* the two regular loops.
UserDisables ==
  /\ xpc = "idle" /\ xplane = "enabled"
  /\ Cardinality({i \in DOMAIN loops : loops[i] = "rejection"}) <= MaxStale
  /\ xpc' = "disable"
  /\ UNCHANGED <<licenseVars, xplane, plugin_initialized, fatal_error, auto_start, objects, loops,
                 todo, mutexVars, handledVars, guiVars, postVars, failed, restarts>>

\* MUTANT of destroy_license_window: the monitor stays scheduled.
WindowLeavesMonitor(ls) == ls

\* The window's monitor goes with it.
destroy_license_window(ls) == Without(ls, {"monitor"})

\* gui_destroy, then the manager is shut down and destroyed.
DisableBegin ==
  /\ xpc = "disable"
  /\ IF fatal_error
     THEN disabled(loops) /\ UNCHANGED <<fatal_error, objects, window, menu, managed, failed>>
     ELSE /\ window' = NoWindow /\ menu' = FALSE
          /\ \/ /\ objects' = objects \ {"gui", "manager"}
                /\ managed' = "stopped"
                /\ xpc' = "lock" /\ loops' = destroy_license_window(loops)
                /\ UNCHANGED <<xplane, todo, fatal_error, failed>>
             \/ /\ MayFail /\ "manager" \in objects
                /\ objects' = objects \ {"gui"}
                /\ fatal_error' = TRUE /\ failed' = TRUE
                /\ UNCHANGED managed
                /\ disabled(destroy_license_window(loops))
  /\ UNCHANGED <<licenseVars, plugin_initialized, auto_start, mutexVars, handledVars, postVars,
                 restarts>>

\* Post-processing is told to end, with the flight loop and the schedule locked.
DisableSignals ==
  /\ xpc = "lock"
  /\ IF post = "none" THEN UNCHANGED <<post, shutdown_post_processing>>
     ELSE /\ flight_loop_mutex = "none"
          /\ shutdown_post_processing' = TRUE
          /\ post' = IF post = "wait" THEN "woken" ELSE post
  /\ loops' = Without(loops, {"before", "after"})
  /\ xpc' = "join"
  /\ UNCHANGED <<licenseVars, xplane, plugin_initialized, fatal_error, auto_start, objects, todo,
                 mutexVars, handledVars, guiVars, failed, restarts>>

\* Destroys the first n of what is left; the rest stays when n was not all.
DestroyFirst(n) == objects' = objects \ {Destroyed[i] : i \in 1..n}

\* MUTANT of ForgetDecisions: the flags survive.
KeepDecisions == UNCHANGED handledVars

\* The licence decisions belong to the managers that are now gone.
ForgetDecisions ==
  /\ handled_license_acceptance' = FALSE /\ handled_license_rejection' = FALSE

DisableEnd ==
  /\ xpc = "join" /\ post \in {"none", "ended"}
  /\ post' = "none"
  /\ IF flight_loop_locked_by_xp
     THEN flight_loop_mutex' = "none" /\ flight_loop_locked_by_xp' = FALSE
     ELSE UNCHANGED mutexVars
  /\ \/ /\ DestroyFirst(Len(Destroyed))
        /\ IF "license" \in objects THEN destroy_license_manager ELSE UNCHANGED licenseVars
        /\ ForgetDecisions
        /\ UNCHANGED <<fatal_error, failed>>
     \/ /\ MayFail
        /\ \E n \in 0..(Len(Destroyed) - 2) : Destroyed[n + 1] \in objects /\ DestroyFirst(n)
        /\ fatal_error' = TRUE /\ failed' = TRUE
        /\ UNCHANGED <<licenseVars, handledVars>>
  /\ disabled(loops)
  /\ UNCHANGED <<plugin_initialized, auto_start, guiVars, shutdown_post_processing,
                 restarts>>

-----------------------------------------------------------------------------
(* A frame: the "before" callbacks, the flight model, the "after" callbacks. *)

FrameBegins ==
  /\ xpc = "idle" /\ xplane = "enabled"
  /\ xpc' = "before" /\ todo' = Callbacks("before")
  /\ UNCHANGED <<licenseVars, xplane, plugin_initialized, fatal_error, auto_start, objects, loops,
                 mutexVars, handledVars, guiVars, postVars, failed, restarts>>

PhaseEnds ==
  /\ xpc \in {"before", "after"} /\ todo = <<>>
  /\ IF xpc = "before" THEN xpc' = "after" /\ todo' = Callbacks("after")
                       ELSE xpc' = "idle" /\ UNCHANGED todo
  /\ UNCHANGED <<licenseVars, xplane, plugin_initialized, fatal_error, auto_start, objects, loops,
                 mutexVars, handledVars, guiVars, postVars, failed, restarts>>

\* X-Plane calls the next callback.
Calls(l) == xpc \in {"before", "after"} /\ todo # <<>> /\ Head(todo) = l
done == todo' = Tail(todo)

process_flight_loop_before_flight_model ==
  /\ Calls("before") /\ flight_loop_mutex = "none"
  /\ flight_loop_mutex' = "xp" /\ flight_loop_locked_by_xp' = TRUE
  /\ done
  /\ UNCHANGED <<licenseVars, xplane, plugin_initialized, fatal_error, auto_start, objects, loops,
                 xpc, handledVars, guiVars, postVars, failed, restarts>>

\* Tasks, the X-Plane queue, dropped registrations and the menu; then
\* post-processing is woken and the mutex released.
process_flight_loop_after_flight_model ==
  /\ Calls("after")
  /\ IF flight_loop_locked_by_xp
     THEN /\ post' = IF post = "wait" THEN "woken" ELSE post
          /\ flight_loop_locked_by_xp' = FALSE /\ flight_loop_mutex' = "none"
     ELSE UNCHANGED <<post, mutexVars>>
  /\ done
  /\ UNCHANGED <<licenseVars, xplane, plugin_initialized, fatal_error, auto_start, objects, loops,
                 xpc, handledVars, guiVars, shutdown_post_processing, failed, restarts>>

\* The licence window's monitor: a window that X-Plane has closed rejects.
handle_window_state ==
  /\ Calls("monitor")
  /\ IF window.visible THEN UNCHANGED <<licenseVars, loops, handled_license_rejection>>
     ELSE IF window.should_reject_on_close /\ window.was_visible
     THEN reject_licenses /\ on_plugin_licenses_rejected(Without(loops, {"monitor"}))
     ELSE /\ loops' = Without(loops, {"monitor"})
          /\ UNCHANGED <<licenseVars, handled_license_rejection>>
  /\ done
  /\ UNCHANGED <<xplane, plugin_initialized, fatal_error, auto_start, objects, xpc, mutexVars,
                 handled_license_acceptance, guiVars, postVars, failed, restarts>>

\* XPLMDisablePlugin calls XPluginDisable from here.
on_plugin_licenses_rejected_flight_loop ==
  /\ Calls("rejection")
  /\ xpc' = "disable"
  /\ UNCHANGED <<licenseVars, xplane, plugin_initialized, fatal_error, auto_start, objects, loops,
                 todo, mutexVars, handledVars, guiVars, postVars, failed, restarts>>

-----------------------------------------------------------------------------
(* The user, between two frames. *)

UserMayAct == xpc = "idle" /\ xplane = "enabled"

\* "Save & enable XPRC", with the box ticked.
SaveButton ==
  /\ UserMayAct /\ window.visible
  /\ window' = Hidden
  /\ accept_all_licenses
  /\ on_plugin_licenses_accepted(Without(loops, {"monitor"}), pending', auto_start)
  /\ UNCHANGED <<xplane, plugin_initialized, auto_start, objects, todo, xpc, mutexVars,
                 handled_license_rejection, postVars, restarts>>

\* Declined in the licence window, or revoked in the about window.
Rejects ==
  /\ UserMayAct
  /\ reject_licenses
  /\ \/ /\ window.visible
        /\ window' = Hidden
        /\ on_plugin_licenses_rejected(Without(loops, {"monitor"}))
     \/ /\ menu
        /\ UNCHANGED window
        /\ on_plugin_licenses_rejected(loops)
  /\ UNCHANGED <<xplane, plugin_initialized, fatal_error, auto_start, objects, todo, xpc, mutexVars,
                 handled_license_acceptance, menu, managed, postVars, failed, restarts>>

\* The window's close button, which is X-Plane's.
WindowClosed ==
  /\ UserMayAct /\ window.visible
  /\ window' = [window EXCEPT !.visible = FALSE]
  /\ UNCHANGED <<licenseVars, xpVars, mutexVars, handledVars, menu, managed, postVars, failed,
                 restarts>>

MenuToggles ==
  /\ UserMayAct /\ menu
  /\ managed' \in IF managed = "stopped" THEN started(pending) ELSE {"stopped"}
  /\ UNCHANGED <<licenseVars, xpVars, mutexVars, handledVars, window, menu, postVars, failed,
                 restarts>>

\* X-Plane ends or crashes, at any point; only the files are left.
Restart ==
  /\ restarts < MaxRestarts /\ restarts' = restarts + 1
  /\ NewBuild
  /\ xplane' = "stopped" /\ plugin_initialized' = FALSE /\ fatal_error' = FALSE
  /\ auto_start' = FALSE /\ objects' = {} /\ loops' = <<>> /\ todo' = <<>> /\ xpc' = "idle"
  /\ flight_loop_mutex' = "none" /\ flight_loop_locked_by_xp' = FALSE
  /\ handled_license_acceptance' = FALSE /\ handled_license_rejection' = FALSE
  /\ window' = NoWindow /\ menu' = FALSE /\ managed' = "stopped"
  /\ post' = "none" /\ shutdown_post_processing' = FALSE
  /\ failed' = FALSE

-----------------------------------------------------------------------------
(* run_post_processing_thread.  A condition wait may end by itself. *)

PostStep(from, to) ==
  /\ post = from /\ post' = to
  /\ UNCHANGED <<licenseVars, xpVars, flight_loop_locked_by_xp, handledVars, window, menu,
                 shutdown_post_processing, failed, restarts>>

\* The head of the loop: with the mutex held, end or wait.
WaitOrEnd == IF shutdown_post_processing THEN "ended" ELSE "wait"

PostLocks ==
  /\ flight_loop_mutex = "none"
  /\ PostStep("lock", WaitOrEnd)
  /\ UNCHANGED <<flight_loop_mutex, managed>>

PostWakes ==
  /\ PostStep("wait", "woken")
  /\ UNCHANGED <<flight_loop_mutex, managed>>

PostReacquires ==
  /\ flight_loop_mutex = "none"
  /\ IF shutdown_post_processing THEN PostStep("woken", "ended") /\ UNCHANGED flight_loop_mutex
     ELSE PostStep("woken", "run") /\ flight_loop_mutex' = "post"
  /\ UNCHANGED managed

\* run_tasks, now and then clean_schedule; then perhaps the manager's turn.
PostRuns ==
  /\ \/ PostStep("run", "maintain") /\ UNCHANGED flight_loop_mutex
     \/ PostStep("run", WaitOrEnd) /\ flight_loop_mutex' = "none"
  /\ UNCHANGED managed

PostMaintainsManager ==
  /\ PostStep("maintain", WaitOrEnd)
  /\ flight_loop_mutex' = "none"
  /\ managed' \in IF managed = "wanted" /\ "manager" \in objects THEN started(pending)
                                                               ELSE {managed}

-----------------------------------------------------------------------------
XPlaneStep ==
  \/ DisableBegin \/ DisableSignals \/ DisableEnd
  \/ PhaseEnds
  \/ process_flight_loop_before_flight_model \/ process_flight_loop_after_flight_model
  \/ handle_window_state \/ on_plugin_licenses_rejected_flight_loop

PostThread == PostLocks \/ PostReacquires \/ PostRuns \/ PostMaintainsManager

Next ==
  \/ XPluginStart \/ XPluginEnable \/ XPluginStop \/ UserDisables
  \/ FrameBegins \/ XPlaneStep
  \/ SaveButton \/ Rejects \/ WindowClosed \/ MenuToggles
  \/ PostThread \/ PostWakes
  \/ Restart

\* X-Plane keeps drawing frames and finishes what it calls, and gets a mutex
\* that becomes free again and again (post-processing may keep taking it after
\* spurious wake-ups); the post-processing thread is scheduled.  The user need
\* not do anything.
Fairness ==
  /\ WF_vars(FrameBegins) /\ WF_vars(XPlaneStep) /\ WF_vars(PostThread)
  /\ SF_vars(DisableSignals) /\ SF_vars(process_flight_loop_before_flight_model)

Spec == Init /\ [][Next]_vars /\ Fairness

-----------------------------------------------------------------------------
\* What a callback dereferences without asking whether it is still there.
Used(l) ==
  CASE l = "before" -> {"schedule"}
    [] l = "after" -> {"schedule", "xpqueue", "dataproxies", "xpcommands"}
    [] l = "monitor" -> {"gui", "license"}
    [] l = "rejection" -> {}

\* What X-Plane can still call into exists: once XPluginDisable has returned no
\* flight loop, window or menu of a destroyed object is left behind, and the
\* post-processing thread runs tasks only while there is a schedule.  (Its use
\* of the server manager is not covered: see the README.)
UsesOnlyLiving ==
  /\ xpc \notin {"disable", "lock", "join"} =>
       \A l \in Registered : Used(l) \subseteq objects
  /\ window.visible => {"gui", "license"} \subseteq objects
  /\ menu => {"gui", "manager", "license"} \subseteq objects
  /\ post = "run" => "schedule" \in objects

\* The flight loop runs and the server is up only with the user's consent to
\* the very licence texts of this build, across updates, crashes, files that
\* cannot be read and writes that fail; after a rejection only until the
\* plugin is disabled.  Where the file could not be deleted on a rejection,
\* the rejection is forgotten with the next start.
RunsWithConsent ==
  /\ "before" \in Registered \/ managed = "running"
  /\ ~handled_license_rejection /\ ~removeFailed
  => \A l \in Licenses : hashes[l] \in consent[l]

\* "Simulator restart required" only after something failed: disabling and
\* enabling the plugin again, in any order with accepting, rejecting and
\* closing windows, is never mistaken for a second installation.
FatalOnlyAfterFailure == fatal_error => failed

\* A rejection gets the plugin disabled: XPluginDisable, called from a flight
\* loop, neither meets the mutex its own thread holds nor waits for a
\* post-processing thread that is not told to end.
RejectionDisables ==
  handled_license_rejection ~>
    (xplane # "enabled" \/ ~handled_license_rejection \/ fatal_error)
=============================================================================
