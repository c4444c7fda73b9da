---------------------------- MODULE LocalLifecycle ----------------------------
(***************************************************************************)
(* zodex local start and stop, and the hidden runtime they manage: the     *)
(* commands hold the lifecycle lock, the runtime processes do not, and all *)
(* of them read, write and clear the same runtime directory (lifecycle.rs, *)
(* lifecycle_start.rs, tunnel.rs; the Linux build, where launchd is a      *)
(* no-op).                                                                 *)
(*                                                                         *)
(* The n-th launch is named n: it is the runtime_id in the files and the   *)
(* process that was spawned for it.  A process may read the files of       *)
(* another launch.  Pids are not reused here (StaleRecovery has that), and *)
(* a runtime has one tunnel child and one session.                         *)
(***************************************************************************)
EXTENDS Naturals, FiniteSets

CONSTANTS
    Commands,       \* invocations of zodex local start or stop
    MaxLaunches,    \* bound on the launches
    SlowStart,      \* START_READY_TIMEOUT may end while the launched process is at work
    LateErrors,     \* supervise_runtime or the shutdown after it may return an error
    Nil            \* no file, nobody

Launch == 1..MaxLaunches
\* dir.state, when there is one, names the launch that wrote it and the process that
\* runs; the registry's record belongs to the process that wrote it.
StateRecord == [id : Launch, process : Launch \cup {Nil}, lifecycle : {"starting", "ready", "stopping"},
                healthy : BOOLEAN]
RegistryRecord == [id : Launch, owner : Launch]

ASSUME LifecycleAssumption ==
    /\ MaxLaunches \in Nat \ {0}
    /\ SlowStart \in BOOLEAN /\ LateErrors \in BOOLEAN
    /\ Nil \notin Commands /\ Nil \notin Nat \cup StateRecord \cup RegistryRecord

VARIABLES
    dir,        \* the files of the runtime directory
    rt,         \* runtime processes: step, bootstrap read, supervising, SIGTERM pending, error
    child,      \* their tunnel child
    session,    \* their session; "ended" until the reaper has seen it
    launches,   \* launches so far
    lock,       \* the command that holds the lifecycle lock
    cmd         \* the commands

lifecycleVars == <<dir, rt, child, session, launches, lock, cmd>>

EmptyDirectory == [bootstrap |-> Nil, handoff |-> FALSE, state |-> Nil, discovery |-> Nil,
                   tunnel |-> Nil, registry |-> Nil]
NoProcess(pc) == [pc |-> pc, boot |-> Nil, serving |-> FALSE, term |-> FALSE, error |-> FALSE]
NewCommand == [pc |-> "idle", goal |-> "start", launch |-> Nil, attempt |-> 0, retry |-> FALSE,
               seen |-> Nil, result |-> "none"]

LifecycleInit ==
    /\ dir = EmptyDirectory
    /\ rt = [r \in Launch |-> NoProcess("none")]
    /\ child = [r \in Launch |-> "none"]
    /\ session = [r \in Launch |-> "none"]
    /\ launches = 0
    /\ lock = Nil
    /\ cmd = [c \in Commands |-> NewCommand]

-----------------------------------------------------------------------------
(* Shared by commands and runtimes *)

Live(r) == rt[r].pc \notin {"none", "dead"}

clear_runtime_state == dir' = EmptyDirectory

\* SIGTERM, then SIGKILL, to the recorded child.
cleanup_stale_tunnel_child ==
    /\ dir' = [dir EXCEPT !.tunnel = Nil]
    /\ child' = [r \in Launch |-> IF r = dir.tunnel THEN "none" ELSE child[r]]

\* terminate_matching_stale_processes refuses a registry of another runtime_id
\* than the one it is given.
same_runtime(st) == dir.registry # Nil /\ (st # Nil => st.id = dir.registry.id)

TerminateRecorded ==
    session' = [session EXCEPT ![dir.registry.owner] = IF @ = "up" THEN "ended" ELSE @]

\* Only supervise_runtime catches the signal.
SigTerm(r) ==
    rt' = [rt EXCEPT ![r] = IF @.serving THEN [@ EXCEPT !.term = TRUE] ELSE NoProcess("dead")]

-----------------------------------------------------------------------------
(* The hidden runtime *)

Goto(r, pc) == rt' = [rt EXCEPT ![r].pc = pc]
Exits(r) == rt' = [rt EXCEPT ![r] = NoProcess("dead")]

\* An error of supervise_runtime goes through the coordinated shutdown, an
\* earlier one straight to the error path of run_hidden_runtime.
Fails(r) ==
    /\ rt[r].serving => LateErrors
    /\ rt' = [rt EXCEPT ![r].pc = IF rt[r].serving THEN "stopping" ELSE "abort", ![r].error = TRUE]

write_runtime_state(r, lifecycle, healthy) ==
    dir' = [dir EXCEPT !.state = [id |-> rt[r].boot, process |-> r,
                                  lifecycle |-> lifecycle, healthy |-> healthy]]

\* The command line reads the bootstrap once to find the paths, and an error there
\* is outside run_hidden_runtime; the runtime itself then reads it again.
paths_from_runtime_bootstrap(r) ==
    /\ rt[r].pc = "exec"
    /\ IF dir.bootstrap = Nil THEN Exits(r) ELSE Goto(r, "boot")
    /\ UNCHANGED <<dir, child, session, launches, lock, cmd>>

load_runtime_bootstrap(r) ==
    /\ rt[r].pc = "boot"
    /\ \/ /\ dir.bootstrap # Nil
          /\ rt' = [rt EXCEPT ![r].boot = dir.bootstrap, ![r].pc = "handoff"]
       \/ dir.bootstrap = Nil /\ Fails(r)
    /\ UNCHANGED <<dir, child, session, launches, lock, cmd>>

\* The file is unlinked; of two readers the one whose unlink fails returns an
\* error.
consume_environment_handoff(r) ==
    /\ rt[r].pc = "handoff"
    /\ \/ dir.handoff /\ dir' = [dir EXCEPT !.handoff = FALSE] /\ Goto(r, "publish")
       \/ ~dir.handoff /\ Fails(r) /\ UNCHANGED dir
    /\ UNCHANGED <<child, session, launches, lock, cmd>>

Publish(r) ==
    /\ rt[r].pc = "publish"
    /\ write_runtime_state(r, "starting", FALSE)
    /\ Goto(r, "host")
    /\ UNCHANGED <<child, session, launches, lock, cmd>>

\* start_local_host_runtime wants an empty registry; then probe_local_mcp.
StartHost(r) ==
    /\ rt[r].pc = "host" /\ dir.registry = Nil
    /\ write_runtime_state(r, "starting", FALSE)
    /\ Goto(r, "spawn")
    /\ UNCHANGED <<child, session, launches, lock, cmd>>

\* A configuration error, a registry that is not empty, a failed probe, spawn or
\* write.  A child that was spawned and not recorded goes on running.
RunFails(r) ==
    /\ rt[r].pc \in {"publish", "host", "spawn", "record", "discover", "serve"}
    /\ Fails(r)
    /\ UNCHANGED <<dir, child, session, launches, lock, cmd>>

spawn_tunnel_client(r) ==
    /\ rt[r].pc = "spawn"
    /\ child' = [child EXCEPT ![r] = "up"]
    /\ Goto(r, "record")
    /\ UNCHANGED <<dir, session, launches, lock, cmd>>

write_tunnel_process_state(r) ==
    /\ rt[r].pc = "record"
    /\ dir' = [dir EXCEPT !.tunnel = r,
                          !.state = [id |-> rt[r].boot, process |-> r, healthy |-> FALSE,
                                     lifecycle |-> IF rt[r].serving THEN "ready" ELSE "starting"]]
    /\ Goto(r, "wait")
    /\ UNCHANGED <<child, session, launches, lock, cmd>>

\* The tunnel is ready, or it has exited or TUNNEL_INITIAL_READY_TIMEOUT is over.
wait_for_initial_tunnel_readiness(r) ==
    /\ rt[r].pc = "wait"
    /\ \/ /\ child[r] = "up"
          /\ write_runtime_state(r, "ready", TRUE)
          /\ Goto(r, IF rt[r].serving THEN "serve" ELSE "discover")
       \/ Fails(r) /\ UNCHANGED dir
    /\ UNCHANGED <<child, session, launches, lock, cmd>>

write_runtime_discovery(r) ==
    /\ rt[r].pc = "discover"
    /\ dir' = [dir EXCEPT !.discovery = rt[r].boot]
    /\ rt' = [rt EXCEPT ![r].pc = "serve", ![r].serving = TRUE]
    /\ UNCHANGED <<child, session, launches, lock, cmd>>

\* A client's command through the tunnel: the record is written before it runs.
SessionStarts(r) ==
    /\ rt[r].pc \in {"record", "wait", "discover", "serve", "stopping"}
    /\ child[r] = "up" /\ session[r] = "none"
    /\ session' = [session EXCEPT ![r] = "up"]
    /\ dir' = [dir EXCEPT !.registry = [id |-> rt[r].boot, owner |-> r]]
    /\ UNCHANGED <<rt, child, launches, lock, cmd>>

SessionExits(r) ==
    /\ session[r] = "up"
    /\ session' = [session EXCEPT ![r] = "ended"]
    /\ UNCHANGED <<dir, rt, child, launches, lock, cmd>>

\* The runtime's reaper removes its last record, and with it the registry file.
SessionReaped(r) ==
    /\ Live(r) /\ session[r] = "ended"
    /\ session' = [session EXCEPT ![r] = "none"]
    /\ dir' = [dir EXCEPT !.registry = Nil]
    /\ UNCHANGED <<rt, child, launches, lock, cmd>>

ChildExits(r) ==
    /\ child[r] = "up"
    /\ child' = [child EXCEPT ![r] = "none"]
    /\ UNCHANGED <<dir, rt, session, launches, lock, cmd>>

\* supervise_runtime: a dead tunnel is spawned again, health is reported, and
\* SIGTERM or the TTL ends it.
RestartTunnel(r) ==
    /\ rt[r].pc = "serve" /\ child[r] = "none"
    /\ write_runtime_state(r, "ready", FALSE)
    /\ Goto(r, "spawn")
    /\ UNCHANGED <<child, session, launches, lock, cmd>>

ReportHealth(r) ==
    /\ rt[r].pc = "serve"
    /\ \E healthy \in {FALSE, child[r] = "up"} : write_runtime_state(r, "ready", healthy)
    /\ UNCHANGED <<rt, child, session, launches, lock, cmd>>

StopRequested(r) ==
    /\ rt[r].pc = "serve"
    /\ Goto(r, "stopping")
    /\ UNCHANGED <<dir, child, session, launches, lock, cmd>>

\* coordinated_hidden_shutdown, in its order.
Stopping(r) ==
    /\ rt[r].pc = "stopping"
    /\ write_runtime_state(r, "stopping", FALSE)
    /\ Goto(r, "ingress")
    /\ UNCHANGED <<child, session, launches, lock, cmd>>

RemoveDiscovery(r) ==
    /\ rt[r].pc = "ingress"
    /\ dir' = [dir EXCEPT !.discovery = Nil]
    /\ Goto(r, "detach")
    /\ UNCHANGED <<child, session, launches, lock, cmd>>

TerminateTunnel(r) ==
    /\ rt[r].pc = "detach"
    /\ child' = [child EXCEPT ![r] = "none"]
    /\ dir' = [dir EXCEPT !.tunnel = Nil]
    /\ Goto(r, "halt")
    /\ UNCHANGED <<session, launches, lock, cmd>>

\* host.shutdown: the session ends, or is left when its termination fails;
\* another part of it may fail too.
HostShutdown(r) ==
    /\ rt[r].pc = "halt"
    /\ \/ /\ session' = [session EXCEPT ![r] = "none"]
          /\ dir' = IF session[r] = "none" THEN dir ELSE [dir EXCEPT !.registry = Nil]
          /\ \E error \in {rt[r].error, rt[r].error \/ LateErrors} :
                rt' = [rt EXCEPT ![r].pc = "clear", ![r].error = error]
       \/ /\ LateErrors /\ session[r] # "none"
          /\ rt' = [rt EXCEPT ![r].pc = "clear", ![r].error = TRUE]
          /\ UNCHANGED <<session, dir>>
    /\ UNCHANGED <<child, launches, lock, cmd>>

ClearRuntime(r) ==
    /\ rt[r].pc = "clear"
    /\ clear_runtime_state
    /\ IF rt[r].error THEN Goto(r, "abort") ELSE Exits(r)
    /\ UNCHANGED <<child, session, launches, lock, cmd>>

\* The error path of run_hidden_runtime works on whatever the directory holds.
AbortDiscovery(r) ==
    /\ rt[r].pc = "abort"
    /\ dir' = [dir EXCEPT !.discovery = Nil]
    /\ Goto(r, "abort_tunnel")
    /\ UNCHANGED <<child, session, launches, lock, cmd>>

AbortTunnel(r) ==
    /\ rt[r].pc = "abort_tunnel"
    /\ cleanup_stale_tunnel_child
    /\ Goto(r, "abort_sessions")
    /\ UNCHANGED <<session, launches, lock, cmd>>

AbortSessions(r) ==
    /\ rt[r].pc = "abort_sessions"
    /\ \/ same_runtime(dir.state) /\ TerminateRecorded
       \/ UNCHANGED session
    /\ Goto(r, "abort_state")
    /\ UNCHANGED <<dir, child, launches, lock, cmd>>

AbortState(r) ==
    /\ rt[r].pc = "abort_state"
    /\ \/ /\ dir.bootstrap # Nil /\ dir.state = Nil
          /\ dir' = [dir EXCEPT !.state = [id |-> dir.bootstrap, process |-> r,
                                           lifecycle |-> "starting", healthy |-> FALSE]]
       \/ /\ dir.bootstrap # Nil /\ dir.state # Nil
          /\ dir' = [dir EXCEPT !.state.process = IF @ = Nil THEN r ELSE @]
       \/ dir.bootstrap = Nil /\ UNCHANGED dir
    /\ Exits(r)
    /\ UNCHANGED <<child, session, launches, lock, cmd>>

RuntimeCrash(r) ==
    /\ Live(r)
    /\ Exits(r)
    /\ UNCHANGED <<dir, child, session, launches, lock, cmd>>

-----------------------------------------------------------------------------
(* zodex local start and stop *)

At(c, pc) == cmd[c].pc = pc
Step(c, pc) == cmd' = [cmd EXCEPT ![c].pc = pc]
See(c, pc) == cmd' = [cmd EXCEPT ![c].pc = pc, ![c].seen = dir.state]

\* The lock is released when the command returns; the mutant keeps it.
FinishHolding(c, result) ==
    /\ cmd' = [cmd EXCEPT ![c] = [NewCommand EXCEPT !.pc = "done", !.goal = cmd[c].goal,
                                                    !.result = result]]
    /\ UNCHANGED lock

Finish(c, result) ==
    /\ cmd' = [cmd EXCEPT ![c] = [NewCommand EXCEPT !.pc = "done", !.goal = cmd[c].goal,
                                                    !.result = result]]
    /\ lock' = Nil

ProcessAlive(st) == st # Nil /\ st.process # Nil /\ Live(st.process)

Invoke(c, goal) ==
    /\ At(c, "idle")
    /\ cmd' = [cmd EXCEPT ![c].pc = "lock", ![c].goal = goal]
    /\ UNCHANGED <<dir, rt, child, session, launches, lock>>

\* LocalLifecycleLock::acquire blocks.
Acquire(c) ==
    /\ At(c, "lock") /\ lock = Nil
    /\ lock' = c
    /\ Step(c, "check")
    /\ UNCHANGED <<dir, rt, child, session, launches>>

healthy_existing_discovery ==
    LET st == dir.state IN
    /\ st # Nil /\ st.lifecycle = "ready" /\ st.healthy
    /\ ProcessAlive(st) /\ dir.discovery = st.id

\* The mutant drops the check for a live process.
NeverRefused == FALSE
still_running == ProcessAlive(dir.state)

\* start answers with the running runtime, refuses to replace a live one, or
\* goes on with cleanup_stale_runtime.
CheckExisting(c) ==
    /\ At(c, "check") /\ cmd[c].goal = "start"
    /\ \/ healthy_existing_discovery /\ Finish(c, "ok")
       \/ ~healthy_existing_discovery /\ still_running /\ Finish(c, "error")
       \/ ~healthy_existing_discovery /\ ~still_running /\ See(c, "tunnel") /\ UNCHANGED lock
    /\ UNCHANGED <<dir, rt, child, session, launches>>

StopSignal(c) ==
    /\ At(c, "check") /\ cmd[c].goal = "stop"
    /\ \/ ProcessAlive(dir.state) /\ SigTerm(dir.state.process) /\ See(c, "stopwait")
       \/ ~ProcessAlive(dir.state) /\ See(c, "tunnel") /\ UNCHANGED rt
    /\ UNCHANGED <<dir, child, session, launches, lock>>

\* The runtime has exited, or STOP_GRACE is over and it is killed.
StopWait(c) ==
    /\ At(c, "stopwait")
    /\ Exits(cmd[c].seen.process)
    /\ Step(c, "tunnel")
    /\ UNCHANGED <<dir, child, session, launches, lock>>

\* The recovery of what a dead runtime left, shared by stop, by a new start and
\* by a start that failed; a child or a session that survives ends it.
CleanTunnel(c) ==
    /\ At(c, "tunnel")
    /\ \/ /\ cleanup_stale_tunnel_child
          /\ Step(c, "sessions") /\ UNCHANGED lock
       \/ /\ dir.tunnel # Nil /\ child[dir.tunnel] = "up"
          /\ Finish(c, "error") /\ UNCHANGED <<dir, child>>
    /\ UNCHANGED <<rt, session, launches>>

\* terminate_matching_stale_processes ends what the registry records, or the
\* cleanup is unresolved or the registry is another runtime's; the mutant does
\* not look at the report.
ReportIgnored(c) ==
    /\ At(c, "sessions")
    /\ Step(c, "clear")
    /\ UNCHANGED <<dir, rt, child, session, launches, lock>>

CleanSessions(c) ==
    /\ At(c, "sessions")
    /\ \/ dir.registry = Nil /\ Step(c, "clear") /\ UNCHANGED <<session, lock>>
       \/ same_runtime(cmd[c].seen) /\ TerminateRecorded /\ Step(c, "clear") /\ UNCHANGED lock
       \/ dir.registry # Nil /\ Finish(c, "error") /\ UNCHANGED session
    /\ UNCHANGED <<dir, rt, child, launches>>

ClearState(c) ==
    /\ At(c, "clear")
    /\ clear_runtime_state
    /\ \/ cmd[c].goal = "stop" /\ Finish(c, "ok")
       \/ /\ cmd[c].goal = "start" /\ (cmd[c].launch = Nil \/ cmd[c].retry)
          /\ Step(c, "prepare") /\ UNCHANGED lock
       \/ /\ cmd[c].goal = "start" /\ cmd[c].launch # Nil /\ ~cmd[c].retry
          /\ Finish(c, "error")
    /\ UNCHANGED <<rt, child, session, launches>>

\* The handoff and the bootstrap are there before the state; a write that fails
\* ends the command where it is.
prepare_local_launch(c) ==
    /\ At(c, "prepare") /\ launches < MaxLaunches
    /\ launches' = launches + 1
    /\ dir' = [dir EXCEPT !.handoff = TRUE, !.bootstrap = launches']
    /\ cmd' = [cmd EXCEPT ![c].pc = "state", ![c].launch = launches',
                          ![c].attempt = @ + 1, ![c].retry = FALSE]
    /\ UNCHANGED <<rt, child, session, lock>>

PublishStarting(c) ==
    /\ At(c, "state")
    /\ dir' = [dir EXCEPT !.state = [id |-> cmd[c].launch, process |-> Nil,
                                     lifecycle |-> "starting", healthy |-> FALSE]]
    /\ Step(c, "spawn")
    /\ UNCHANGED <<rt, child, session, launches, lock>>

PrepareFails(c) ==
    /\ cmd[c].pc \in {"prepare", "state"}
    /\ Finish(c, "error")
    /\ UNCHANGED <<dir, rt, child, session, launches>>

SpawnRuntime(c) ==
    /\ At(c, "spawn")
    /\ \/ Goto(cmd[c].launch, "exec") /\ Step(c, "await")
       \/ Step(c, "partial") /\ UNCHANGED rt
    /\ UNCHANGED <<dir, child, session, launches, lock>>

\* wait_for_runtime_ready
Ready(c) ==
    LET st == dir.state IN
    /\ st # Nil /\ st.id = cmd[c].launch /\ st.lifecycle = "ready" /\ st.healthy
    /\ dir.discovery = cmd[c].launch

AwaitReady(c) ==
    /\ At(c, "await") /\ Ready(c)
    /\ Finish(c, "ok")
    /\ UNCHANGED <<dir, rt, child, session, launches>>

\* The state belongs to another launch, its process has exited, or
\* START_READY_TIMEOUT is over.
GivesUp(c) ==
    LET st == dir.state IN
    \/ st # Nil /\ (st.id # cmd[c].launch \/ (st.process # Nil /\ ~Live(st.process)))
    \/ SlowStart
    \/ ~Live(cmd[c].launch)

runtime_never_published_process(c) ==
    dir.state # Nil /\ dir.state.id = cmd[c].launch /\ dir.state.process = Nil

\* The first attempt is repeated if its process never published itself.
AwaitFails(c) ==
    /\ At(c, "await") /\ ~Ready(c) /\ GivesUp(c)
    /\ cmd' = [cmd EXCEPT ![c].pc = "partial",
                          ![c].retry = cmd[c].attempt = 1 /\ runtime_never_published_process(c)]
    /\ UNCHANGED <<dir, rt, child, session, launches, lock>>

\* SIGTERM without waiting for the exit.
cleanup_partial_start(c) ==
    /\ At(c, "partial")
    /\ \/ ProcessAlive(dir.state) /\ SigTerm(dir.state.process)
       \/ ~ProcessAlive(dir.state) /\ UNCHANGED rt
    /\ See(c, "tunnel")
    /\ UNCHANGED <<dir, child, session, launches, lock>>

-----------------------------------------------------------------------------
RuntimeStep(r) ==
    \/ paths_from_runtime_bootstrap(r) \/ load_runtime_bootstrap(r)
    \/ consume_environment_handoff(r) \/ Publish(r)
    \/ StartHost(r) \/ spawn_tunnel_client(r) \/ write_tunnel_process_state(r)
    \/ wait_for_initial_tunnel_readiness(r) \/ write_runtime_discovery(r)
    \/ RestartTunnel(r) \/ Stopping(r) \/ RemoveDiscovery(r) \/ TerminateTunnel(r)
    \/ HostShutdown(r) \/ ClearRuntime(r)
    \/ AbortDiscovery(r) \/ AbortTunnel(r) \/ AbortSessions(r) \/ AbortState(r)

CommandStep(c) ==
    \/ Acquire(c) \/ CheckExisting(c) \/ StopSignal(c) \/ StopWait(c)
    \/ CleanTunnel(c) \/ CleanSessions(c) \/ ClearState(c)
    \/ prepare_local_launch(c) \/ PublishStarting(c) \/ SpawnRuntime(c) \/ AwaitReady(c) \/ AwaitFails(c)
    \/ cleanup_partial_start(c)

LifecycleNext ==
    \/ \E r \in Launch :
          \/ RuntimeStep(r) \/ RunFails(r) \/ ReportHealth(r) \/ StopRequested(r)
          \/ SessionStarts(r) \/ SessionExits(r) \/ SessionReaped(r) \/ ChildExits(r) \/ RuntimeCrash(r)
    \/ \E c \in Commands :
          CommandStep(c) \/ PrepareFails(c) \/ \E goal \in {"start", "stop"} : Invoke(c, goal)

LifecycleSpec == LifecycleInit /\ [][LifecycleNext]_lifecycleVars

\* Processes and commands run on; select! is fair between its branches, so a
\* pending SIGTERM is taken by a supervisor that keeps coming back to it.
LifecycleFairness ==
    /\ \A r \in Launch : WF_lifecycleVars(RuntimeStep(r)) /\ SF_lifecycleVars(rt[r].term /\ StopRequested(r))
    /\ \A c \in Commands : WF_lifecycleVars(CommandStep(c))

-----------------------------------------------------------------------------
(* Properties *)

\* At most one runtime serves clients: healthy_existing_discovery, the refusal of
\* cleanup_stale_runtime and the wait of stop keep a second one from coming up.
OneServing == \A r, q \in Launch : rt[r].pc = "serve" /\ rt[q].pc = "serve" => r = q

\* The error path of run_hidden_runtime ends no tunnel and no session of another
\* runtime that is alive.
LeavesOthers ==
    \A r, v \in Launch :
        rt[r].pc \in {"abort_tunnel", "abort_sessions"} /\ rt'[r].pc # rt[r].pc /\ v # r /\ Live(v)
           => child'[v] = child[v] /\ session'[v] = session[v]
Untouched == [][LeavesOthers]_lifecycleVars

\* A command clears the runtime directory only when the runtime, the tunnel and
\* the session that its files name are dead.
ClearsOnlyDead ==
    \A c \in Commands : At(c, "clear") /\ ~At(c, "clear")' =>
        /\ ~ProcessAlive(dir.state)
        /\ dir.tunnel # Nil => child[dir.tunnel] = "none"
        /\ dir.registry # Nil => session[dir.registry.owner] # "up"

\* A session outlives its runtime only as long as the registry records it: what
\* clears the directory has ended the session before.
EvidenceKept ==
    \A r \in Launch : session[r] = "up" /\ ~Live(r) => dir.registry # Nil /\ dir.registry.owner = r

\* clear_runtime_state at the end of a runtime's own shutdown removes no files of
\* a later launch.
OwnFilesOnly ==
    \A r \in Launch : rt[r].pc = "clear" /\ rt'[r].pc # "clear" /\ dir' # dir
        => dir.state = Nil \/ dir.state.id = rt[r].boot

\* Whoever ends what the runtime directory names or clears it has ended, and
\* hits, only what is its own or dead.
EvidenceRespected == [][LeavesOthers /\ ClearsOnlyDead /\ OwnFilesOnly]_lifecycleVars

\* Every start and stop returns, whatever the runtime does: each wait has a
\* deadline and the lifecycle lock is always released.  (A command that waits at
\* the bound on launches is exempt.)  And a runtime that gets SIGTERM while it
\* serves ends, also when the signal finds it in the middle of a tunnel restart.
LifecycleEnds ==
    []<>(/\ \/ \A c \in Commands : At(c, "idle") \/ At(c, "done")
            \/ \E d \in Commands : At(d, "prepare") /\ launches = MaxLaunches
         /\ \A r \in Launch : rt[r].term => ~Live(r))
=============================================================================
