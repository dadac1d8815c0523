--------------------------- MODULE ServerManager ---------------------------
(* The server manager (server_manager.c): it starts, stops and restarts the  *)
(* server as the user asks, retries what failed and is shut down before it   *)
(* is destroyed. Requests come from X-Plane's main thread (menu, settings    *)
(* window, plugin callbacks); both that thread and the post-processing       *)
(* thread run maintain_server_manager. One mutex guards the manager, but     *)
(* `shutdown' is written, and `destruction_pending' first read, without it.  *)
EXTENDS Naturals

CONSTANTS MaxRequests,  \* bound: requests of the main thread
          MaxSettings   \* bound: times the settings window saves

ASSUME BoundsAssumption == MaxRequests \in Nat /\ MaxSettings \in Nat

VARIABLES
  server,       \* the managed server: "none", "up", or "broken" (see start_server)
  serverCfg,    \* version of the settings the server was started with
  change_state, wanted_state_first, wanted_state_next,
  user_intervention_needed, shutdown, destruction_pending,
  freed,        \* destroy_server_manager released the manager
  mutex,        \* thread that holds the manager's mutex
  told,         \* state last reported to the listener (the GUI's menu)
  settings,     \* version of the settings in the settings manager
  pc,           \* where each thread is in its call
  request,      \* what the main thread is about to record
  entry,        \* entry_state of the thread inside maintain_server_manager
  config,       \* settings version read by update_server_config
  asked,        \* history: final state of the last recorded request
  saved,        \* history: version of the settings saved with success
  failing,      \* the last attempt to start the server has failed
  requests

manager == <<change_state, wanted_state_first, wanted_state_next, user_intervention_needed>>
ending == <<shutdown, destruction_pending, freed>>
managerVars == <<server, serverCfg, manager, ending, mutex, told, settings, pc, request,
          entry, config, asked, saved, requests, failing>>

Threads == {"main", "post"}
NoThread == "no thread"
States == {"stopped", "started", "restarting", "shutdown"}
Pcs == {"idle", "update", "maintain", "transition", "config", "starting", "leave",
        "saved", "drain", "free", "gone"}

ManagerTypeOK ==
  /\ server \in {"none", "up", "broken"}
  /\ serverCfg \in Nat /\ settings \in Nat /\ config \in Nat /\ saved \in Nat
  /\ change_state \in BOOLEAN /\ wanted_state_first \in BOOLEAN
  /\ wanted_state_next \in BOOLEAN /\ user_intervention_needed \in BOOLEAN
  /\ shutdown \in BOOLEAN /\ destruction_pending \in BOOLEAN /\ freed \in BOOLEAN
  /\ mutex \in Threads \union {NoThread}
  /\ told \in States /\ entry \in States
  /\ pc \in [Threads -> Pcs]
  /\ request \in {"start", "stop", "restart"}
  /\ asked \in BOOLEAN
  /\ requests \in 0 .. MaxRequests /\ failing \in BOOLEAN

ManagerInit ==
  /\ server = "none" /\ serverCfg = 0 /\ settings = 0 /\ config = 0 /\ saved = 0
  /\ change_state = FALSE /\ wanted_state_first = FALSE /\ wanted_state_next = FALSE
  /\ user_intervention_needed = FALSE
  /\ shutdown = FALSE /\ destruction_pending = FALSE /\ freed = FALSE
  /\ mutex = NoThread
  /\ told = "stopped" /\ entry = "stopped"
  /\ pc = [t \in Threads |-> "idle"]
  /\ request = "stop"
  /\ asked = FALSE /\ requests = 0 /\ failing = FALSE

Goto(t, at) == pc' = [pc EXCEPT ![t] = at]
Running == server # "none"

get_managed_server_state ==
  IF shutdown THEN "shutdown"
  ELSE IF Running THEN "started"
  ELSE IF change_state /\ (wanted_state_first \/ wanted_state_next) THEN "restarting"
  ELSE "stopped"

is_running_server_state == get_managed_server_state \in {"started", "restarting"}

----------------------------------------------------------------------------
(* Requests of the main thread.                                            *)

Idle == pc["main"] = "idle" /\ ~destruction_pending

Record(what) ==
  /\ requests < MaxRequests
  /\ requests' = requests + 1
  /\ request' = what
  /\ Goto("main", "update")

start_managed_server ==
  /\ Idle /\ Record("start")
  /\ UNCHANGED <<server, serverCfg, manager, ending, mutex, told, settings, entry, config, asked, saved, failing>>

\* The flag is set without the mutex; maintenance may be under way.
shutdown_managed_server ==
  /\ Idle
  /\ shutdown' = TRUE
  /\ request' = "stop"
  /\ Goto("main", "update")
  /\ UNCHANGED <<server, serverCfg, manager, destruction_pending, freed, mutex, told,
                 settings, entry, config, asked, saved, requests, failing>>

\* The menu reads the state under the mutex and records its request later.
toggle_server_state ==
  /\ Idle /\ ~shutdown /\ mutex = NoThread
  /\ Record(IF is_running_server_state THEN "stop" ELSE "start")
  /\ UNCHANGED <<server, serverCfg, manager, ending, mutex, told, settings, entry, config, asked, saved, failing>>

\* The settings window hands its settings to the manager and stores them.
apply_settings ==
  /\ Idle /\ ~shutdown /\ settings < MaxSettings
  /\ settings' = settings + 1
  /\ saved' = settings + 1
  /\ Goto("main", "saved")
  /\ UNCHANGED <<server, serverCfg, manager, ending, mutex, told, request, entry, config,
                 asked, requests, failing>>

\* They are changed but cannot be stored: the window stops there.
SettingsNotStored ==
  /\ Idle /\ ~shutdown /\ settings < MaxSettings
  /\ settings' = settings + 1
  /\ UNCHANGED <<server, serverCfg, manager, ending, mutex, told, pc, request, entry, config,
                 asked, saved, requests, failing>>

NeedsRestart == is_running_server_state

\* MUTANT of restart_managed_server: saving only asks for a running server.
StartRequest == "start"

restart_managed_server == "restart"

\* After saving, a server that runs or is about to run is restarted.
RestartAfterSave ==
  /\ pc["main"] = "saved" /\ mutex = NoThread
  /\ \/ NeedsRestart /\ request' = restart_managed_server /\ Goto("main", "update")
     \/ ~NeedsRestart /\ UNCHANGED request /\ Goto("main", "idle")
  /\ UNCHANGED <<server, serverCfg, manager, ending, mutex, told, settings, entry, config,
                 asked, saved, requests, failing>>

\* The states a request wants first and then.
First(r) == r = "start"
Then(r) == r \in {"start", "restart"}

RefusedAfterShutdown == shutdown /\ (First(request) \/ Then(request))

update_wanted_state ==
  /\ pc["main"] = "update" /\ mutex = NoThread
  /\ user_intervention_needed' = FALSE
  /\ \/ /\ RefusedAfterShutdown
        /\ Goto("main", "idle")
        /\ UNCHANGED <<change_state, wanted_state_first, wanted_state_next, asked>>
     \/ /\ ~RefusedAfterShutdown
        /\ wanted_state_first' = First(request)
        /\ wanted_state_next' = Then(request)
        /\ change_state' = TRUE
        /\ asked' = Then(request)
        /\ Goto("main", "maintain")
  /\ UNCHANGED <<server, serverCfg, ending, mutex, told, settings, request, entry, config,
                 saved, requests, failing>>

----------------------------------------------------------------------------
(* maintain_server_manager, by either thread.                              *)

\* Post-processing calls it now and then; the first check takes no lock.
PostMaintains ==
  /\ pc["post"] = "idle" /\ ~freed /\ ~destruction_pending
  /\ Goto("post", "maintain")
  /\ UNCHANGED <<server, serverCfg, manager, ending, mutex, told, settings, request, entry,
                 config, asked, saved, requests, failing>>

lock_server_manager(t) ==
  /\ pc[t] = "maintain" /\ mutex = NoThread /\ ~freed
  /\ \/ destruction_pending /\ Goto(t, "idle") /\ UNCHANGED <<mutex, entry, failing>>
     \/ /\ ~destruction_pending
        /\ mutex' = t
        /\ failing' = FALSE
        /\ entry' = get_managed_server_state
        /\ Goto(t, "transition")
  /\ UNCHANGED <<server, serverCfg, manager, ending, told, settings, request, config, asked, saved,
                 requests>>


\* The state wanted now: once the first is reached, the next.
Forwarded == IF Running <=> wanted_state_first THEN wanted_state_next ELSE wanted_state_first

NoTransition(t) ==
  /\ pc[t] = "transition"
  /\ \/ ~change_state /\ UNCHANGED <<change_state, wanted_state_first>>
     \/ /\ change_state /\ (Forwarded <=> wanted_state_next) /\ (Running <=> Forwarded)
        /\ wanted_state_first' = Forwarded
        /\ change_state' = FALSE
  /\ Goto(t, "leave")
  /\ UNCHANGED <<server, serverCfg, wanted_state_next, user_intervention_needed, ending, mutex,
                 told, settings, request, entry, config, asked, saved, requests, failing>>

Transitions == change_state /\ ~((Forwarded <=> wanted_state_next) /\ (Running <=> Forwarded))

\* MUTANT of Remaining: one transition completes every change.
NothingRemains == FALSE

\* After a transition the change is complete unless the next state differs.
Remaining == ~(Forwarded <=> wanted_state_next)

\* stop_server has no failing path that returns an error to the manager.
do_server_stop(t) ==
  /\ pc[t] = "transition" /\ Transitions /\ ~Forwarded
  /\ wanted_state_first' = Forwarded
  /\ server' = "none"
  /\ change_state' = Remaining
  /\ Goto(t, "leave")
  /\ UNCHANGED <<serverCfg, wanted_state_next, user_intervention_needed, ending, mutex, told,
                 settings, request, entry, config, asked, saved, requests, failing>>

do_server_start(t) ==
  /\ pc[t] = "transition" /\ Transitions /\ Forwarded
  /\ wanted_state_first' = Forwarded
  /\ Goto(t, "config")
  /\ UNCHANGED <<server, serverCfg, change_state, wanted_state_next, user_intervention_needed,
                 ending, mutex, told, settings, request, entry, config, asked, saved, requests, failing>>

update_server_config(t) ==
  /\ pc[t] = "config"
  /\ config' = settings
  /\ Goto(t, "starting")
  /\ UNCHANGED <<server, serverCfg, manager, ending, mutex, told, settings, request, entry,
                 asked, saved, requests, failing>>

\* The error maintenance ends with.  No number of them makes it stop trying.
Fault == failing' = TRUE

\* Licences not accepted: maintenance tries again later.
LicensesBlockStart(t) ==
  /\ pc[t] = "config" /\ Fault /\ Goto(t, "leave")
  /\ UNCHANGED <<server, serverCfg, manager, ending, mutex, told, settings, request, entry,
                 config, asked, saved, requests>>

\* No configuration can be built: give up until the user asks again.
ConfigFails(t) ==
  /\ pc[t] = "config" /\ Fault /\ Goto(t, "leave")
  /\ user_intervention_needed' = TRUE
  /\ change_state' = FALSE
  /\ UNCHANGED <<server, serverCfg, wanted_state_first, wanted_state_next, ending, mutex, told,
                 settings, request, entry, config, asked, saved, requests>>

Started == serverCfg' = config

start_server(t) ==
  /\ pc[t] = "starting"
  /\ server' = "up" /\ Started
  /\ change_state' = ~(wanted_state_first <=> wanted_state_next)
  /\ Goto(t, "leave")
  /\ UNCHANGED <<wanted_state_first, wanted_state_next, user_intervention_needed, ending, mutex,
                 told, settings, request, entry, config, asked, saved, requests, failing>>

\* An error of start_server. If its mutex or list cannot be created it leaves
\* the half-built server behind, which then counts as running.
StartFails(t) ==
  /\ pc[t] = "starting" /\ Fault /\ Goto(t, "leave")
  /\ server' \in {"none", "broken"}
  /\ UNCHANGED <<serverCfg, manager, ending, mutex, told, settings, request, entry, config,
                 asked, saved, requests>>

\* The listener hears of a state that differs from the one on entry.
MaintainLeave(t) ==
  /\ pc[t] = "leave"
  /\ told' = IF entry # get_managed_server_state THEN get_managed_server_state ELSE told
  /\ mutex' = NoThread
  /\ Goto(t, "idle")
  /\ UNCHANGED <<server, serverCfg, manager, ending, settings, request, entry, config, asked, saved,
                 requests, failing>>

----------------------------------------------------------------------------
(* destroy_server_manager: mark, lock and unlock once more, free.           *)

\* MUTANT of MayDestroy: destroyed in whatever state it is.
AlwaysDestroy == TRUE

MayDestroy == shutdown /\ ~Running

DestroyMark ==
  /\ Idle /\ mutex = NoThread /\ MayDestroy
  /\ destruction_pending' = TRUE
  /\ Goto("main", "drain")
  /\ UNCHANGED <<server, serverCfg, manager, shutdown, freed, mutex, told, settings, request,
                 entry, config, asked, saved, requests, failing>>

DestroyDrain ==
  /\ pc["main"] = "drain" /\ mutex = NoThread
  /\ Goto("main", "free")
  /\ UNCHANGED <<server, serverCfg, manager, ending, mutex, told, settings, request, entry,
                 config, asked, saved, requests, failing>>

DestroyFree ==
  /\ pc["main"] = "free"
  /\ freed' = TRUE
  /\ Goto("main", "gone")
  /\ UNCHANGED <<server, serverCfg, manager, shutdown, destruction_pending, mutex, told,
                 settings, request, entry, config, asked, saved, requests, failing>>

\* Everything has been destroyed and nothing more happens.
Gone == freed /\ UNCHANGED managerVars

MainNext ==
  \/ start_managed_server \/ shutdown_managed_server \/ toggle_server_state
  \/ apply_settings \/ SettingsNotStored \/ RestartAfterSave \/ update_wanted_state
  \/ DestroyMark \/ DestroyDrain \/ DestroyFree

Maintain(t) ==
  \/ lock_server_manager(t) \/ NoTransition(t) \/ do_server_stop(t) \/ do_server_start(t)
  \/ update_server_config(t) \/ LicensesBlockStart(t) \/ ConfigFails(t)
  \/ start_server(t) \/ StartFails(t) \/ MaintainLeave(t)

ManagerNext == MainNext \/ PostMaintains \/ (\E t \in Threads : Maintain(t)) \/ Gone

ManagerSpec == ManagerInit /\ [][ManagerNext]_managerVars

\* Each thread that is inside a call goes on; post-processing keeps calling.
\* Whether a start fails is up to the environment, which may never let one
\* succeed.
FairSpec ==
  /\ ManagerSpec
  /\ WF_managerVars(update_wanted_state) /\ WF_managerVars(RestartAfterSave)
  /\ WF_managerVars(PostMaintains)
  /\ \A t \in Threads : WF_managerVars(Maintain(t))

----------------------------------------------------------------------------
(* Properties.                                                             *)

\* Nobody is between reading the manager's state and acting on it.
Quiet == mutex = NoThread

\* When the manager reports no pending change and has not given up, the
\* server is in the state the user asked for last, whatever restarts, retries
\* and stop requests crossed each other (maintain_server_manager).
SettledAsWanted ==
  Quiet /\ ~change_state /\ ~user_intervention_needed => (Running <=> asked)

\* Once the main thread is done with saving, a server that runs undisturbed
\* uses the saved settings or later ones: saving restarts a running server,
\* and a start that had read the old ones is noticed (apply_settings).
SettingsTakeEffect ==
  Quiet /\ pc["main"] = "idle" /\ server = "up" /\ ~change_state => serverCfg >= saved

\* The manager is never destroyed with a server behind it, and maintenance
\* does not bring one up while it is being destroyed.
DestroyedWithoutServer == destruction_pending => ~Running


\* server_manager.h: the listener is called when the managed server state
\* changes, so the listener knows the state whenever nothing is under way.
\* TLC refutes it, see the README.
ListenerKnowsState ==
  Quiet /\ pc["main"] = "idle" /\ ~change_state /\ ~shutdown => told = get_managed_server_state
=============================================================================
