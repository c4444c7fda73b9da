-------------------------------- MODULE Tray --------------------------------
(***************************************************************************)
(* The Windows and Linux tray.  It owns no runtime: every menu action runs *)
(* the CLI in a thread of its own, and the event loop handles clicks and   *)
(* the threads' answers one at a time.  A status query is polled all the   *)
(* while; the answers arrive in any order.  The CLI and another shell      *)
(* change the runtime and the saved login preferences behind its back.     *)
(* Time is abstract: the poll is due whenever no query is in flight.       *)
(***************************************************************************)
EXTENDS Integers, FiniteSets

CONSTANTS
    MaxClicks,     \* bound: menu clicks and scheduled update checks
    MaxOthers,     \* bound: steps of another shell
    MaxFailed      \* bound: CLI calls that fail although they could succeed

ASSUME TrayAssumption == MaxClicks \in Nat /\ MaxOthers \in Nat /\ MaxFailed \in Nat

VARIABLES
    runtime,   \* the state `zodex local status` would report
    saved,     \* tray.json: folder available, tunnel at login, automatic updates
    login,     \* whether the tray is registered to start at login
    tray,      \* App and its Lifecycle
    jobs,      \* threads running the CLI or a picker, and answers not yet received
    shell,     \* another shell's `local autostart enable`: idle, or login already set
    clicks, others, failed

trayVars == <<runtime, saved, login, tray, jobs, shell, clicks, others, failed>>

States == {"running", "stopped", "stale", "unconfigured"}
Lifecycles == {"start", "stop"}
Updates == {"check", "auto", "upgrade", "upgrade_stop"}
Pickers == {"folder", "port"}
NotPending == [id |-> 0, operation |-> "none"]

-----------------------------------------------------------------------------
(* Lifecycle *)

\* What is drawn: the state named, and which of Start, Stop and Liveboard are enabled.
presentation(t) ==
    LET busy == t.active # 0 \/ t.installing
        on(s) == t.observed = s /\ ~busy
    IN  IF t.pending # NotPending
        THEN [shown |-> t.pending.operation, start |-> FALSE, stop |-> FALSE, liveboard |-> FALSE]
        ELSE [shown |-> t.observed, start |-> on("stopped") /\ t.prefs.folder,
              stop |-> on("running") \/ on("stale"), liveboard |-> on("running")]

render_status(t) == [t EXCEPT !.menu = presentation(t)]

reached_target(t, s) ==
    \/ t.pending.operation = "start" /\ s = "running"
    \/ t.pending.operation = "stop" /\ s \in {"stopped", "unconfigured"}

\* Mutant of observe: the command waits for its process although its target is reached,
\* and only the active command's end clears it.
ObservesOnly(t, s) ==
    IF reached_target(t, s) THEN [t EXCEPT !.observed = s, !.active = 0] ELSE [t EXCEPT !.observed = s]

\* The command that reached its target stops counting as active.
observe(t, s) ==
    IF reached_target(t, s)
    THEN [t EXCEPT !.observed = s, !.pending = NotPending,
                   !.active = IF @ = t.pending.id THEN 0 ELSE @]
    ELSE [t EXCEPT !.observed = s]

finish(t, id) == IF t.pending.id = id THEN [t EXCEPT !.pending = NotPending] ELSE t

-----------------------------------------------------------------------------
(* App::submit.  A job of an earlier menu command is marked old: history.  *)

Job(task, id, epoch) ==
    [task |-> task, id |-> id, epoch |-> epoch, st |-> "runs", answer |-> "none", old |-> FALSE]

submit(w, task) ==
    LET t == w.tray
        id == t.next_id + 1
        begun == [t EXCEPT !.next_id = id, !.active = id, !.epoch = @ + 1,
                    !.pending = IF task \in Lifecycles THEN [id |-> id, operation |-> task] ELSE @]
    IN  CASE task = "status" ->
               IF t.status_in_flight THEN w
               ELSE [tray |-> [t EXCEPT !.status_in_flight = TRUE],
                     jobs |-> w.jobs \cup {Job(task, 0, t.epoch)}]
          [] task \in Updates ->
               IF t.update_in_flight \/ (task = "auto" /\ t.active # 0) THEN w
               ELSE [tray |-> render_status([t EXCEPT !.update_in_flight = TRUE,
                                               !.installing = task \in {"upgrade", "upgrade_stop"}]),
                     jobs |-> w.jobs \cup {Job(task, 0, t.epoch)}]
          [] OTHER ->
               IF t.active # 0 THEN w
               ELSE [tray |-> render_status(begun),
                     jobs |-> {[j EXCEPT !.old = TRUE] : j \in w.jobs} \cup {Job(task, id, t.epoch + 1)}]

Here == [tray |-> tray, jobs |-> jobs]
becomes(w) == tray' = w.tray /\ jobs' = w.jobs

refresh_login_preferences(t) ==
    LET u == [t EXCEPT !.prefs = saved']
    IN  IF saved'.folder # t.prefs.folder THEN render_status(u) ELSE u

-----------------------------------------------------------------------------
(* The CLI, run by a thread: commands::run.  Only its effect on the shared *)
(* state and its answer are kept.                                          *)

Answers(j, answer) == jobs' = (jobs \ {j}) \cup {[j EXCEPT !.st = "answered", !.answer = answer]}
fails == failed < MaxFailed /\ failed' = failed + 1

status_answers(j) ==
    /\ j.task = "status" /\ j.st = "runs"
    /\ \/ Answers(j, runtime) /\ UNCHANGED failed
       \/ Answers(j, "unavailable") /\ fails      \* an error, or killed after six seconds
    /\ UNCHANGED <<runtime, saved, login, tray, shell, clicks, others>>

\* `local start` and `local stop` take effect before their process ends.
lifecycle_acts(j) ==
    /\ j.task \in Lifecycles /\ j.st = "runs"
    /\ \/ /\ runtime' = CASE j.task = "start" /\ runtime \in {"stopped", "stale"} -> "running"
                          [] j.task = "stop" /\ runtime \in {"running", "stale"} -> "stopped"
                          [] OTHER -> runtime
          /\ UNCHANGED failed
       \/ runtime' \in {runtime, "stale"} /\ runtime # "unconfigured" /\ fails
    /\ jobs' = (jobs \ {j}) \cup {[j EXCEPT !.st = "acted"]}
    /\ UNCHANGED <<saved, login, tray, shell, clicks, others>>

command_ends(j) ==
    /\ (j.task \in Lifecycles /\ j.st = "acted") \/ (j.task = "liveboard" /\ j.st = "runs")
    /\ Answers(j, "done")
    /\ UNCHANGED <<runtime, saved, login, tray, shell, clicks, others, failed>>

\* `upgrade` refuses while Local runs unless it may stop it; an update may
\* leave Local stopped.
update_ends(j) ==
    /\ j.task \in Updates /\ j.st = "runs"
    /\ CASE j.task = "check" -> \E a \in {"found", "none"} : Answers(j, a) /\ UNCHANGED runtime
         [] j.task = "upgrade" /\ runtime = "running" -> Answers(j, "local_running") /\ UNCHANGED runtime
         [] j.task = "upgrade" /\ runtime # "running" -> Answers(j, "done") /\ UNCHANGED runtime
         [] OTHER -> Answers(j, "done") /\ runtime' \in {runtime, IF runtime = "running" THEN "stopped" ELSE runtime}
    /\ UNCHANGED <<saved, login, tray, shell, clicks, others, failed>>

update_fails(j) ==
    /\ j.task \in Updates /\ j.st = "runs" /\ fails /\ Answers(j, "failed")
    /\ UNCHANGED <<runtime, saved, login, tray, shell, clicks, others>>

picked(j) ==
    /\ j.task \in Pickers /\ j.st = "runs"
    /\ \E a \in {"chosen", "cancelled"} : Answers(j, a)
    /\ UNCHANGED <<runtime, saved, login, tray, shell, clicks, others, failed>>

-----------------------------------------------------------------------------
(* App::received *)

\* Mutant of Relevant: any status answer is believed.
AnyAnswer(j) == TRUE

\* Only an answer asked for since the last command began or ended.
Relevant(j) == j.epoch = tray.epoch

received_status(j) ==
    LET t == refresh_login_preferences([tray EXCEPT !.status_in_flight = FALSE])
    IN  /\ j.task = "status"
        /\ UNCHANGED saved
        /\ tray' = IF Relevant(j) THEN render_status(observe(t, j.answer)) ELSE t
        /\ jobs' = jobs \ {j}

received_command(j) ==
    LET done == finish([tray EXCEPT !.active = 0, !.epoch = @ + 1], j.id)
    IN  /\ j.task \in Lifecycles \cup {"liveboard"}
        /\ becomes(IF tray.active # j.id THEN [Here EXCEPT !.jobs = @ \ {j}]
                   ELSE submit([tray |-> render_status(done), jobs |-> jobs \ {j}], "status"))
        /\ UNCHANGED saved

received_update(j) ==
    LET t == [tray EXCEPT !.update_in_flight = FALSE, !.installing = FALSE,
                !.available = CASE j.task = "check" /\ j.answer # "failed" -> j.answer = "found"
                                [] j.task \in {"upgrade", "upgrade_stop"} /\ j.answer = "done" -> FALSE
                                [] OTHER -> @]
        w == [tray |-> render_status(t), jobs |-> jobs \ {j}]
    IN  /\ j.task \in Updates
        /\ \E agreed \in BOOLEAN :      \* "Stop Zodex Local and update?"
              /\ agreed => j.answer = "local_running"
              /\ becomes(IF agreed THEN submit(w, "upgrade_stop") ELSE w)
        /\ UNCHANGED saved

\* The folder is saved by the CLI, under its lock, from a fresh copy.
received_choice(j) ==
    /\ j.task \in Pickers
    /\ saved' = IF j.answer = "chosen" /\ j.task = "folder" THEN [saved EXCEPT !.folder = TRUE] ELSE saved
    /\ LET t == refresh_login_preferences(tray)
           w == [tray |-> render_status(t), jobs |-> jobs \ {j}]
       IN  becomes(IF j.answer = "cancelled" THEN [Here EXCEPT !.jobs = @ \ {j}]
                   ELSE IF j.task = "folder" THEN submit(w, "status") ELSE [w EXCEPT !.tray = t])

received(j) ==
    /\ j.st = "answered"
    /\ received_status(j) \/ received_command(j) \/ received_update(j) \/ received_choice(j)
    /\ UNCHANGED <<runtime, login, shell, clicks, others, failed>>

-----------------------------------------------------------------------------
(* App::click and the event loop *)

clicks_once == clicks < MaxClicks /\ clicks' = clicks + 1
clicked(w) == clicks_once /\ becomes(w) /\ UNCHANGED <<runtime, saved, login, shell, others, failed>>

click_command(task) ==
    /\ CASE task = "start" -> tray.menu.start /\ tray.prefs.folder
         [] task = "stop" -> tray.menu.stop
         [] task = "liveboard" -> tray.menu.liveboard
    /\ clicked(submit(Here, task))

click_update ==
    /\ ~tray.update_in_flight
    /\ clicked(submit(Here, IF tray.available THEN "upgrade" ELSE "check"))

click_picker(task) ==
    /\ \A j \in jobs : j.task # task
    /\ clicked([Here EXCEPT !.jobs = @ \cup {Job(task, 0, 0)}])

\* Registering or removing the tray; the tunnel option goes off with it.
click_launch_at_login ==
    /\ clicks_once
    /\ LET desired == ~login
           dependent == ~desired /\ tray.prefs.tunnel
       IN  \/ /\ saved' = IF dependent THEN [saved EXCEPT !.tunnel = FALSE] ELSE saved
              /\ login' = desired
              /\ UNCHANGED failed
           \/ fails /\ UNCHANGED <<saved, login>>
           \/ fails /\ dependent /\ saved' = [saved EXCEPT !.tunnel = FALSE] /\ UNCHANGED login
    /\ tray' = refresh_login_preferences(tray)
    /\ UNCHANGED <<runtime, jobs, shell, others>>

\* `local autostart enable` or `disable`, run to its end inside the click.
click_launch_tunnel_at_login ==
    /\ clicks_once
    /\ \/ /\ ~saved.tunnel /\ tray.prefs.folder
          /\ login' = TRUE /\ saved' = [saved EXCEPT !.tunnel = TRUE]
          /\ UNCHANGED failed
       \/ /\ ~saved.tunnel /\ ~tray.prefs.folder /\ UNCHANGED <<login, saved, failed>>
       \/ /\ saved.tunnel /\ saved' = [saved EXCEPT !.tunnel = FALSE]
          /\ UNCHANGED <<login, failed>>
       \/ fails /\ UNCHANGED <<login, saved>>
       \/ fails /\ ~saved.tunnel /\ login' = TRUE /\ UNCHANGED saved
    /\ tray' = refresh_login_preferences(tray)
    /\ UNCHANGED <<runtime, jobs, shell, others>>

click_automatic_updates ==
    /\ clicks_once
    /\ \/ saved' = [saved EXCEPT !.auto = ~tray.prefs.auto] /\ UNCHANGED failed
       \/ fails /\ UNCHANGED saved
    /\ tray' = refresh_login_preferences(tray)
    /\ UNCHANGED <<runtime, login, jobs, shell, others>>

poll_status ==
    /\ ~tray.status_in_flight
    /\ becomes(submit(Here, "status")) /\ UNCHANGED <<runtime, saved, login, shell, clicks, others, failed>>
poll_update == tray.prefs.auto /\ ~tray.update_in_flight /\ tray.active = 0 /\ clicked(submit(Here, "auto"))

-----------------------------------------------------------------------------
(* Another shell *)

another == others < MaxOthers /\ others' = others + 1

runtime_changes ==
    /\ another /\ runtime' \in States \ {runtime}
    /\ UNCHANGED <<saved, login, tray, jobs, shell, clicks, failed>>

autostart_registers ==
    /\ another /\ shell = "idle" /\ login' = TRUE /\ shell' = "registered"
    /\ UNCHANGED <<runtime, saved, tray, jobs, clicks, failed>>

autostart_saves ==
    /\ shell = "registered" /\ shell' = "idle" /\ saved' = [saved EXCEPT !.tunnel = TRUE]
    /\ UNCHANGED <<runtime, login, tray, jobs, clicks, others, failed>>

autostart_disables ==
    /\ another /\ saved.tunnel /\ saved' = [saved EXCEPT !.tunnel = FALSE]
    /\ UNCHANGED <<runtime, login, tray, jobs, shell, clicks, failed>>

-----------------------------------------------------------------------------
\* App::new asks for the status and, at login, starts the tunnel if asked to.
TrayInit ==
    \E f, tunnel \in BOOLEAN, s \in {"running", "stopped"} :
      LET p == [folder |-> f, tunnel |-> tunnel, auto |-> TRUE]
          t == [observed |-> "unavailable", pending |-> NotPending, active |-> 0, next_id |-> 0,
                epoch |-> 0, status_in_flight |-> FALSE, update_in_flight |-> FALSE,
                available |-> FALSE, installing |-> FALSE, prefs |-> p,
                menu |-> [shown |-> "unavailable", start |-> FALSE, stop |-> FALSE, liveboard |-> FALSE]]
          w == submit([tray |-> t, jobs |-> {}], "status")
          x == IF tunnel /\ f THEN submit(w, "start") ELSE w
      IN  /\ runtime = s /\ saved = p /\ login = tunnel
          /\ tray = x.tray /\ jobs = x.jobs
          /\ shell = "idle" /\ clicks = 0 /\ others = 0 /\ failed = 0

TrayNext ==
    \/ \E j \in jobs : \/ status_answers(j) \/ lifecycle_acts(j) \/ command_ends(j)
                       \/ update_ends(j) \/ update_fails(j) \/ picked(j) \/ received(j)
    \/ \E task \in {"start", "stop", "liveboard"} : click_command(task)
    \/ \E task \in Pickers : click_picker(task)
    \/ click_update \/ click_launch_at_login \/ click_launch_tunnel_at_login \/ click_automatic_updates
    \/ poll_status \/ poll_update
    \/ runtime_changes \/ autostart_registers \/ autostart_saves \/ autostart_disables

\* What goes on without a click.
status_received == \E j \in jobs : j.task = "status" /\ received(j)
lifecycle_received == \E j \in jobs : j.task \in Lifecycles \cup {"liveboard"} /\ received(j)
status_progress == \E j \in jobs : status_answers(j)
lifecycle_progress == \E j \in jobs : lifecycle_acts(j)
command_progress == \E j \in jobs : command_ends(j)

TraySpec == TrayInit /\ [][TrayNext]_trayVars

-----------------------------------------------------------------------------
\* A status asked for before Start, Stop or Liveboard was clicked never changes
\* what the tray believes, however late it answers.
OldStatusIgnored ==
    [][\A j \in jobs : j.task = "status" /\ j.old /\ j \notin jobs' => tray'.observed = tray.observed]_trayVars
=============================================================================

