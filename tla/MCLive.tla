------------------------------- MODULE MCLive -------------------------------
(* What must eventually happen in the session runtime, in the Local         *)
(* lifecycle, in the host's shutdown and in the tray, for TLC.  They share  *)
(* no variable: a behaviour exercises one of them, and the others stay in   *)
(* an initial state.                                                        *)
EXTENDS SessionManager, LocalLifecycle, HostRuntime, Tray

VARIABLE subject

On == subject = "tray"
MCInit == /\ subject \in {"session", "lifecycle", "host", "tray"}
          /\ Init /\ LifecycleInit /\ HostInit /\ TrayInit
          /\ On \/ (runtime = "stopped" /\ ~saved.folder /\ ~saved.tunnel)
MCNext ==
    /\ UNCHANGED subject
    /\ \/ subject = "session" /\ Next /\ UNCHANGED <<lifecycleVars, hostVars, trayVars>>
       \/ subject = "lifecycle" /\ LifecycleNext /\ UNCHANGED <<vars, hostVars, trayVars>>
       \/ subject = "host" /\ HostNext /\ UNCHANGED <<vars, lifecycleVars, trayVars>>
       \/ subject = "tray" /\ TrayNext /\ UNCHANGED <<vars, lifecycleVars, hostVars>>

\* While another part is the subject there is no session, no command and no
\* call to be fair to; the tray, which polls from the beginning, runs only as
\* the subject.  Its event loop runs, a status query is killed after six
\* seconds, and `local start` and `local stop` wait no longer than their own
\* time limits.
MCSpec ==
    /\ MCInit /\ [][MCNext]_<<subject, vars, lifecycleVars, hostVars, trayVars>>
    /\ Fairness /\ LifecycleFairness /\ HostFairness
    /\ WF_trayVars(On /\ poll_status) /\ WF_trayVars(On /\ status_received)
    /\ WF_trayVars(On /\ lifecycle_received) /\ WF_trayVars(On /\ status_progress)
    /\ WF_trayVars(On /\ lifecycle_progress) /\ WF_trayVars(On /\ command_progress)

\* When the runtime stops changing, which the bounds make it do, the tray comes
\* to show its state and keeps showing it, whatever commands and late answers
\* were on their way.
TrayShowsRuntime == <>[](On => tray.menu.shown = runtime)
=============================================================================
