--------------------------- MODULE SessionManager ---------------------------
(***************************************************************************)
(* The command-session runtime of zodex (src/session): clients run         *)
(* exec_command and write_stdin against a bounded map of sessions, a       *)
(* background reaper task watches each child, and shutdown_all stops the   *)
(* whole runtime.  Every session owns one process-group leader and the     *)
(* group members it discovers.                                             *)
(*                                                                         *)
(* A critical section of SessionRuntime::inner contains no await, so it is *)
(* one step here; op_lock and admission_lock are held across awaits and    *)
(* are variables.  The operating system moves between any two steps, and   *)
(* between the scan and the wait inside reap_exit_code.                    *)
(* The idle timeout and the yield time elapse at any poll; the grace       *)
(* periods, which liveness rests on, are flags a timer raises.  Text,      *)
(* handles, working directories and the last_used_at clock are left out:   *)
(* eviction takes any exited session where the code takes the oldest.      *)
(***************************************************************************)
EXTENDS Naturals, FiniteSets

CONSTANTS
    Sessions,     \* sessions that may ever be created (internal_session_id)
    Procs,        \* birth identities a session's group members may have
    Clients,      \* concurrent tool calls
    None,         \* no session, no client
    CallKinds,    \* the write_stdin calls clients make: "poll", "input", "kill"
    Stops,        \* TRUE when shutdown_all may be called
    MaxSessions,  \* SessionManager::max_sessions
    MaxFaults     \* bound on failing writes of the ownership registry

ASSUME SessionManagerAssumption ==
    /\ None \notin Sessions \cup Clients
    /\ CallKinds \subseteq {"poll", "input", "kill"}
    /\ Stops \in BOOLEAN
    /\ MaxSessions \in Nat \ {0}
    /\ MaxFaults \in Nat

VARIABLES
    \* the operating system
    leader,      \* the group leader (the spawned child) of each session
    group,       \* its live group members other than the leader
    born,        \* member identities already used
    doomed,      \* live members with a pending SIGKILL
    reused,      \* the numeric group id now names somebody else's group
    stray,       \* signals sent to a numeric group id that was reused
    \* SessionRuntime
    inner,       \* the mutex-protected SessionInner
    observed,    \* owned_process.is_some()
    released,    \* ownership_released
    ends,        \* number of process_ended calls
    evidence,    \* termination reason passed to process_ended
    op,          \* holder of op_lock
    reaping,     \* the background reaper task is running
    graceOver,   \* terminate_started_at.elapsed() >= TERMINATE_GRACE_PERIOD_MS
    \* SessionManager
    sessions,    \* the session map
    admission,   \* holder of admission_lock
    closed,      \* admission_closed
    todo,        \* candidates the evicting client has not examined yet
    victim,      \* oldest_exited
    \* LocalOwnedProcessRegistry
    registry,    \* sessions with a durable ownership record
    recorded,    \* group members in that record
    faults,      \* failed registry writes so far
    \* tool calls
    pc, at, kind, reason,
    \* shutdown_all
    sd, runtimes, pending, survivors, deadline, discovered

osVars == <<leader, group, born, doomed, reused, stray>>
sessionVars == <<inner, observed, released, ends, evidence, op, reaping, graceOver>>
managerVars == <<sessions, admission, closed, todo, victim>>
registryVars == <<registry, recorded, faults>>
clientVars == <<pc, at, kind, reason>>
shutdownVars == <<sd, runtimes, pending, survivors, deadline, discovered>>
vars == <<osVars, sessionVars, managerVars, registryVars, clientVars, shutdownVars>>

-----------------------------------------------------------------------------
(* State *)

LeaderStates == {"none", "running", "killed", "zombie", "reaped"}
Reasons == {"exit", "killed", "timeout"}

\* SessionInner without its handles, clocks and paths; reaped_exit_code is
\* known exactly when reaped holds.
Inner == [reaped : BOOLEAN, members : SUBSET Procs, persisted : SUBSET Procs,
          timed_out : BOOLEAN, kill_requested : BOOLEAN, terminate_started : BOOLEAN,
          force_killed : BOOLEAN, require_exit : BOOLEAN, input_writer : BOOLEAN]

FreshInner == [reaped |-> FALSE, members |-> {}, persisted |-> {},
               timed_out |-> FALSE, kill_requested |-> FALSE, terminate_started |-> FALSE,
               force_killed |-> FALSE, require_exit |-> FALSE, input_writer |-> TRUE]

ClientStates == {"idle", "admit", "evict", "scan", "spawn", "register", "rollback",
                 "begin", "continue", "input", "poll", "exited"}
AdmissionStates == {"evict", "scan", "spawn", "register", "rollback"}
SessionStates == {"register", "rollback", "begin", "continue", "input", "poll", "exited"}
Kinds == {"exec", "poll", "input", "kill"}
ShutdownStates == {"off", "barrier", "snapshot", "signal", "grace", "force", "final",
                   "done", "failed"}

ProcessesTypeOK ==
    /\ leader \in [Sessions -> LeaderStates]
    /\ group \in [Sessions -> SUBSET Procs]
    /\ born \in [Sessions -> SUBSET Procs]
    /\ doomed \in [Sessions -> SUBSET Procs]
    /\ reused \in [Sessions -> BOOLEAN]
    /\ stray \in SUBSET {"kill_process", "terminate", "force_kill"}

RuntimeTypeOK ==
    /\ inner \in [Sessions -> Inner]
    /\ observed \in [Sessions -> BOOLEAN]
    /\ released \in [Sessions -> BOOLEAN]
    /\ ends \in [Sessions -> Nat]
    /\ evidence \in [Sessions -> Reasons \cup {"none", "incomplete"}]
    /\ op \in [Sessions -> Clients \cup {None}]
    /\ reaping \in [Sessions -> BOOLEAN]
    /\ graceOver \in [Sessions -> BOOLEAN]

ManagerTypeOK ==
    /\ sessions \in SUBSET Sessions
    /\ admission \in Clients \cup {None}
    /\ closed \in BOOLEAN
    /\ todo \in SUBSET Sessions
    /\ victim \in Sessions \cup {None}

RegistryTypeOK ==
    /\ registry \in SUBSET Sessions
    /\ recorded \in [Sessions -> SUBSET Procs]
    /\ faults \in Nat

\* A call past its admission names the session it works on.
CallTypeOK ==
    /\ pc \in [Clients -> ClientStates]
    /\ at \in [Clients -> Sessions \cup {None}]
    /\ kind \in [Clients -> Kinds]
    /\ reason \in [Clients -> Reasons]
    /\ \A c \in Clients : pc[c] \in SessionStates => at[c] \in Sessions

ShutdownTypeOK ==
    /\ sd \in ShutdownStates
    /\ runtimes \in SUBSET Sessions
    /\ pending \in SUBSET Sessions
    /\ survivors \in BOOLEAN
    /\ deadline \in BOOLEAN
    /\ discovered \in SUBSET (Sessions \X Procs)

\* Every variable has its type.
TypeOK ==
    /\ ProcessesTypeOK
    /\ RuntimeTypeOK
    /\ ManagerTypeOK
    /\ RegistryTypeOK
    /\ CallTypeOK
    /\ ShutdownTypeOK

Init ==
    /\ leader = [s \in Sessions |-> "none"]
    /\ group = [s \in Sessions |-> {}]
    /\ born = [s \in Sessions |-> {}]
    /\ doomed = [s \in Sessions |-> {}]
    /\ reused = [s \in Sessions |-> FALSE]
    /\ stray = {}
    /\ inner = [s \in Sessions |-> FreshInner]
    /\ observed = [s \in Sessions |-> FALSE]
    /\ released = [s \in Sessions |-> FALSE]
    /\ ends = [s \in Sessions |-> 0]
    /\ evidence = [s \in Sessions |-> "none"]
    /\ op = [s \in Sessions |-> None]
    /\ reaping = [s \in Sessions |-> FALSE]
    /\ graceOver = [s \in Sessions |-> FALSE]
    /\ sessions = {}
    /\ admission = None
    /\ closed = FALSE
    /\ todo = {}
    /\ victim = None
    /\ registry = {}
    /\ recorded = [s \in Sessions |-> {}]
    /\ faults = 0
    /\ pc = [c \in Clients |-> "idle"]
    /\ at = [c \in Clients |-> None]
    /\ kind = [c \in Clients |-> "poll"]
    /\ reason = [c \in Clients |-> "exit"]
    /\ sd = "off"
    /\ runtimes = {}
    /\ pending = {}
    /\ survivors = FALSE
    /\ deadline = FALSE
    /\ discovered = {}

-----------------------------------------------------------------------------
(* The operating system.  A process may exit whenever it likes, which is   *)
(* all that SIGTERM adds; SIGKILL makes it exit eventually.                *)

LeaderExits(s) ==
    /\ leader[s] \in {"running", "killed"}
    /\ leader' = [leader EXCEPT ![s] = "zombie"]
    /\ UNCHANGED <<group, born, doomed, reused, stray, sessionVars, managerVars,
                   registryVars, clientVars, shutdownVars>>

MemberExits(s, p) ==
    /\ p \in group[s]
    /\ group' = [group EXCEPT ![s] = @ \ {p}]
    /\ doomed' = [doomed EXCEPT ![s] = @ \ {p}]
    /\ UNCHANGED <<leader, born, reused, stray, sessionVars, managerVars,
                   registryVars, clientVars, shutdownVars>>

\* The leader, or a member that outlived it, forks into the group.
Fork(s, p) ==
    /\ p \notin born[s]
    /\ leader[s] = "running" \/ group[s] \ doomed[s] # {}
    /\ group' = [group EXCEPT ![s] = @ \cup {p}]
    /\ born' = [born EXCEPT ![s] = @ \cup {p}]
    /\ UNCHANGED <<leader, doomed, reused, stray, sessionVars, managerVars,
                   registryVars, clientVars, shutdownVars>>

\* Once the leader is reaped and the group is empty its number may be reused.
\* That only matters while the session can still be signalled through the map.
ReuseGroupId(s) ==
    /\ leader[s] = "reaped" /\ group[s] = {} /\ ~reused[s] /\ s \in sessions
    /\ reused' = [reused EXCEPT ![s] = TRUE]
    /\ UNCHANGED <<leader, group, born, doomed, stray, sessionVars, managerVars,
                   registryVars, clientVars, shutdownVars>>

KilledLeaderDies(s) == leader[s] = "killed" /\ LeaderExits(s)
DoomedMemberDies(s) == \E p \in doomed[s] : MemberExits(s, p)

-----------------------------------------------------------------------------
(* Timers *)

GraceElapses(s) ==
    /\ inner[s].terminate_started /\ ~inner[s].force_killed /\ ~graceOver[s]
    /\ graceOver' = [graceOver EXCEPT ![s] = TRUE]
    /\ UNCHANGED <<osVars, inner, observed, released, ends, evidence, op, reaping,
                   managerVars, registryVars, clientVars, shutdownVars>>

-----------------------------------------------------------------------------
(* Reaping *)

\* The members recorded at the wait that finds the leader gone: the scan made
\* just before it, or a second scan of what the leader left (late) when the
\* first found nobody.  A reused group id is rejected by the second scan; it
\* can only be reused when the group is empty, so the result is the same.
MembersKeepLeader(scan, late) == IF scan = {} THEN late \cup {None} ELSE scan
members_at_reap(scan, late) == IF scan = {} THEN late ELSE scan

\* Members recorded before the leader was reaped stay while their identity matches.
MembersDrained(s) == {}
surviving_members(s) == inner[s].members \cap group[s]

\* What reap_exit_code may find: the leader still there; the leader gone; or a
\* leader that exits, after more forks perhaps, between the scan and the wait.
reap_exit_code(s) ==
    LET seen == [leader |-> leader[s], group |-> group[s], born |-> born[s],
                 reaped |-> inner[s].reaped, members |-> group[s]]
        gone == [seen EXCEPT !.leader = "reaped", !.reaped = TRUE]
    IN  IF inner[s].reaped
        THEN {[seen EXCEPT !.members = surviving_members(s)]}
        ELSE (IF leader[s] \in {"running", "killed"} THEN {seen} ELSE {})
             \cup (IF leader[s] = "zombie"
                   THEN {[gone EXCEPT !.members = members_at_reap(group[s], group[s])]} ELSE {})
             \cup (IF leader[s] = "running"
                   THEN {[gone EXCEPT !.group = @ \cup late, !.born = @ \cup late,
                                      !.members = members_at_reap(group[s], late)] :
                            late \in SUBSET (Procs \ born[s])}
                   ELSE {})

\* process_group_members_updated is called only when the members changed, and
\* may fail to write the registry.
record_outcomes(s, o) ==
    IF observed[s] /\ o.members # inner[s].persisted /\ faults < MaxFaults
    THEN BOOLEAN ELSE {TRUE}

\* SessionInner i after reap_and_record_exit found o.
after_reap(i, o, ok) ==
    [i EXCEPT !.reaped = o.reaped, !.members = o.members,
              !.persisted = IF ok THEN o.members ELSE @]

record_members(s, o, ok) ==
    recorded' = IF ok /\ observed[s] /\ s \in registry
                THEN [recorded EXCEPT ![s] = o.members] ELSE recorded

process_termination_reason(i) ==
    IF i.timed_out THEN "timeout"
    ELSE IF i.kill_requested \/ i.force_killed THEN "killed"
    ELSE "exit"

\* owned_process_end is Some exactly when this holds.
is_exited(i) == i.reaped /\ i.members = {}

end_outcomes(s) ==
    IF observed[s] /\ ~released[s] /\ faults < MaxFaults THEN BOOLEAN ELSE {TRUE}

\* release_process_ownership: one process_ended call, whose error is dropped.
ReleaseWithoutSwap(s, i) ==
    /\ released' = [released EXCEPT ![s] = TRUE]
    /\ ends' = [ends EXCEPT ![s] = @ + 1]
    /\ evidence' = [evidence EXCEPT ![s] = process_termination_reason(i)]
    /\ registry' = registry \ {s}
    /\ UNCHANGED faults
release_process_ownership(s, i) ==
    \E ok \in end_outcomes(s) :
        /\ released' = [released EXCEPT ![s] = TRUE]
        /\ faults' = IF ok THEN faults ELSE faults + 1
        /\ IF released[s] \/ ~observed[s]
           THEN UNCHANGED <<ends, evidence, registry>>
           ELSE /\ ends' = [ends EXCEPT ![s] = @ + 1]
                /\ evidence' = [evidence EXCEPT ![s] = process_termination_reason(i)]
                /\ registry' = IF ok THEN registry \ {s} ELSE registry

KeepOwnership(ok) ==
    /\ faults' = IF ok THEN faults ELSE faults + 1
    /\ UNCHANGED <<released, ends, evidence, registry>>

\* The number of the group is signalled only while the leader is unreaped.
KillsAnyGroup(o) == TRUE
kills_group(o) == ~o.reaped

\* The processes after a reap that found o, a group SIGTERM when term holds,
\* and the force kill of maybe_force_kill and shutdown_all when force holds.
Processes(s, o, term, force) ==
    /\ leader' = [leader EXCEPT ![s] = IF force /\ o.leader = "running"
                                       THEN "killed" ELSE o.leader]
    /\ group' = [group EXCEPT ![s] = o.group]
    /\ born' = [born EXCEPT ![s] = o.born]
    /\ doomed' = [doomed EXCEPT ![s] = IF ~force THEN @
                                       ELSE IF kills_group(o) THEN o.group
                                       ELSE @ \cup (o.members \cap o.group)]
    /\ stray' = stray \cup (IF term /\ reused[s] THEN {"terminate"} ELSE {})
                      \cup (IF force /\ kills_group(o) /\ reused[s] THEN {"force_kill"} ELSE {})
    /\ UNCHANGED reused

\* The reaper task stops on an error and once the end was recorded.
ReaperStopsAtLeader(ok, i) == ~ok \/ i.reaped
reaper_done(ok, i) == ~ok \/ is_exited(i)

\* spawn_child_reaper: one turn of the background task.
ReaperStep(s) ==
    /\ reaping[s]
    /\ \E o \in reap_exit_code(s) : \E ok \in record_outcomes(s, o) :
        LET i == after_reap(inner[s], o, ok) IN
        /\ Processes(s, o, FALSE, FALSE)
        /\ record_members(s, o, ok)
        /\ inner' = [inner EXCEPT ![s] = i]
        /\ reaping' = [reaping EXCEPT ![s] = ~reaper_done(ok, i)]
        /\ IF ok /\ is_exited(i) THEN release_process_ownership(s, i) ELSE KeepOwnership(ok)
    /\ UNCHANGED <<observed, op, graceOver, managerVars, clientVars, shutdownVars>>

\* session_counts: is_exited on one retained session.
CountProbe(s) ==
    /\ s \in sessions
    /\ \E o \in reap_exit_code(s) : \E ok \in record_outcomes(s, o) :
        /\ Processes(s, o, FALSE, FALSE)
        /\ record_members(s, o, ok)
        /\ inner' = [inner EXCEPT ![s] = after_reap(@, o, ok)]
        /\ KeepOwnership(ok)
    /\ UNCHANGED <<observed, op, reaping, graceOver, managerVars, clientVars,
                   shutdownVars>>

-----------------------------------------------------------------------------
(* exec_command: admission *)

\* The call returns to its caller.
Return(c) ==
    /\ pc' = [pc EXCEPT ![c] = "idle"]
    /\ at' = [at EXCEPT ![c] = None]
    /\ kind' = [kind EXCEPT ![c] = "poll"]
    /\ reason' = [reason EXCEPT ![c] = "exit"]

GoTo(c, state) ==
    /\ pc' = [pc EXCEPT ![c] = state]
    /\ UNCHANGED <<at, kind, reason>>

\* The unlocked admission check.
ExecBegin(c) ==
    /\ pc[c] = "idle" /\ ~closed
    /\ pc' = [pc EXCEPT ![c] = "admit"]
    /\ kind' = [kind EXCEPT ![c] = "exec"]
    /\ UNCHANGED <<osVars, sessionVars, managerVars, registryVars, at, reason,
                   shutdownVars>>

\* admission_lock is taken and the flag read again.
AdmittedOnFirstCheck == TRUE
admitted == ~closed

ExecAdmit(c) ==
    /\ pc[c] = "admit" /\ admission = None
    /\ IF admitted
       THEN admission' = c /\ GoTo(c, "evict")
       ELSE UNCHANGED admission /\ Return(c)
    /\ UNCHANGED <<osVars, sessionVars, sessions, closed, todo, victim, registryVars,
                   shutdownVars>>

\* evict_if_needed: the head of the loop.
HasRoomOffByOne == Cardinality(sessions) <= MaxSessions
has_room == Cardinality(sessions) < MaxSessions

EvictIfNeeded(c) ==
    /\ pc[c] = "evict"
    /\ IF has_room
       THEN GoTo(c, "spawn") /\ UNCHANGED <<todo, victim>>
       ELSE GoTo(c, "scan") /\ todo' = sessions /\ victim' = None
    /\ UNCHANGED <<osVars, sessionVars, sessions, admission, closed, registryVars, shutdownVars>>

\* is_exited on one candidate; the oldest exited one so far is kept.
EvictProbe(c, s) ==
    /\ pc[c] = "scan" /\ s \in todo
    /\ \E o \in reap_exit_code(s) : \E ok \in record_outcomes(s, o) :
        LET i == after_reap(inner[s], o, ok) IN
        /\ Processes(s, o, FALSE, FALSE)
        /\ record_members(s, o, ok)
        /\ inner' = [inner EXCEPT ![s] = i]
        /\ KeepOwnership(ok)
        /\ IF ok
           THEN /\ GoTo(c, "scan")
                /\ todo' = todo \ {s}
                /\ victim' \in IF ~is_exited(i) THEN {victim}
                               ELSE IF victim = None THEN {s} ELSE {s, victim}
                /\ UNCHANGED admission
           ELSE /\ Return(c)
                /\ todo' = {} /\ victim' = None /\ admission' = None
    /\ UNCHANGED <<observed, op, reaping, graceOver, sessions, closed, shutdownVars>>

\* remove_session, given the inner state i it reads.
RemoveWithoutEvidence(s, i) ==
    IF s \in sessions
    THEN sessions' = sessions \ {s} /\ release_process_ownership(s, i)
    ELSE sessions' = sessions /\ KeepOwnership(TRUE)
remove_session(s, i) ==
    IF s \in sessions /\ is_exited(i)
    THEN sessions' = sessions \ {s} /\ release_process_ownership(s, i)
    ELSE sessions' = sessions /\ KeepOwnership(TRUE)

EvictPick(c) ==
    /\ pc[c] = "scan" /\ todo = {}
    /\ IF victim # None
       THEN /\ remove_session(victim, inner[victim])
            /\ GoTo(c, "evict") /\ UNCHANGED admission
       ELSE /\ KeepOwnership(TRUE) /\ UNCHANGED sessions     \* capacity reached
            /\ Return(c) /\ admission' = None
    /\ victim' = None
    /\ UNCHANGED <<osVars, inner, observed, op, reaping, graceOver, closed, todo,
                   recorded, shutdownVars>>

\* The child is spawned as the leader of a new process group.
Spawn(c, s) ==
    /\ pc[c] = "spawn" /\ leader[s] = "none"
    /\ leader' = [leader EXCEPT ![s] = "running"]
    /\ pc' = [pc EXCEPT ![c] = "register"]
    /\ at' = [at EXCEPT ![c] = s]
    /\ UNCHANGED <<group, born, doomed, reused, stray, sessionVars, managerVars, registryVars,
                   kind, reason, shutdownVars>>

\* A PTY, a reader thread or the child could not be created.
SpawnFails(c) ==
    /\ pc[c] = "spawn"
    /\ admission' = None
    /\ Return(c)
    /\ UNCHANGED <<osVars, sessionVars, sessions, closed, todo, victim, registryVars, shutdownVars>>

\* process_started records the owner, then the runtime enters the map and the
\* admission lock is dropped.  A child that exited before its identity could
\* be read is admitted without an owner record.
Register(c) ==
    /\ pc[c] = "register"
    /\ LET s == at[c] IN
        /\ \E known \in IF leader[s] = "zombie" THEN BOOLEAN ELSE {TRUE} :
            /\ observed' = [observed EXCEPT ![s] = known]
            /\ registry' = IF known THEN registry \cup {s} ELSE registry
        /\ sessions' = sessions \cup {s}
        /\ reaping' = [reaping EXCEPT ![s] = TRUE]
    /\ admission' = None
    /\ GoTo(c, "begin")
    /\ UNCHANGED <<osVars, inner, released, ends, evidence, op, graceOver, closed, todo,
                   victim, recorded, faults, shutdownVars>>

\* No stable identity for a running child, or process_started failed: the group
\* is killed and the call waits for the child before it gives up the lock.
RegisterFails(c) ==
    /\ pc[c] = "register"
    /\ LET s == at[c] IN
        /\ \E known \in BOOLEAN :
            /\ IF known THEN faults < MaxFaults ELSE leader[s] # "zombie"
            /\ observed' = [observed EXCEPT ![s] = known]
            /\ faults' = IF known THEN faults + 1 ELSE faults
        /\ leader' = [leader EXCEPT ![s] = IF @ = "running" THEN "killed" ELSE @]
        /\ doomed' = [doomed EXCEPT ![s] = group[s]]
    /\ GoTo(c, "rollback")
    /\ UNCHANGED <<group, born, reused, stray, inner, released, ends, evidence, op, reaping,
                   graceOver, managerVars, registry, recorded, shutdownVars>>

Rollback(c) ==
    /\ pc[c] = "rollback"
    /\ LET s == at[c] IN
        /\ leader[s] = "zombie"
        /\ leader' = [leader EXCEPT ![s] = "reaped"]
        /\ IF observed[s]
           THEN /\ ends' = [ends EXCEPT ![s] = @ + 1]
                /\ evidence' = [evidence EXCEPT ![s] = "incomplete"]
                /\ registry' = registry \ {s}
           ELSE UNCHANGED <<ends, evidence, registry>>
    /\ admission' = None
    /\ Return(c)
    /\ UNCHANGED <<group, born, doomed, reused, stray, inner, observed, released, op, reaping,
                   graceOver, sessions, closed, todo, victim, recorded, faults,
                   shutdownVars>>

-----------------------------------------------------------------------------
(* Waiting on a session, and write_stdin *)

\* initial_wait takes op_lock.
InitialWait(c) ==
    /\ pc[c] = "begin" /\ op[at[c]] = None
    /\ op' = [op EXCEPT ![at[c]] = c]
    /\ GoTo(c, "poll")
    /\ UNCHANGED <<osVars, inner, observed, released, ends, evidence, reaping, graceOver,
                   managerVars, registryVars, shutdownVars>>

\* write_stdin looks the handle up; an unknown handle is an error.
WriteStdin(c, s, k) ==
    /\ pc[c] = "idle" /\ s \in sessions
    /\ pc' = [pc EXCEPT ![c] = "continue"]
    /\ at' = [at EXCEPT ![c] = s]
    /\ kind' = [kind EXCEPT ![c] = k]
    /\ UNCHANGED <<osVars, sessionVars, managerVars, registryVars, reason, shutdownVars>>

\* request_termination: once per session, SIGTERM to the group id.
request_termination(i) == [i EXCEPT !.terminate_started = TRUE]

ContinueSession(c) ==
    /\ pc[c] = "continue" /\ op[at[c]] = None
    /\ LET s == at[c]
           kill == kind[c] = "kill"
       IN
        /\ op' = [op EXCEPT ![s] = c]
        /\ inner' = [inner EXCEPT ![s] =
                        IF kill THEN request_termination([@ EXCEPT !.kill_requested = TRUE,
                                                                   !.require_exit = TRUE])
                        ELSE @]
        /\ stray' = IF kill /\ ~inner[s].terminate_started /\ reused[s]
                    THEN stray \cup {"kill_process"} ELSE stray
        /\ GoTo(c, IF kind[c] = "input" THEN "input" ELSE "poll")
    /\ UNCHANGED <<leader, group, born, doomed, reused, observed, released, ends, evidence,
                   reaping, graceOver, managerVars, registryVars, shutdownVars>>

\* The writer is taken out of inner; a failed write loses it for good.
WriteInput(c) ==
    /\ pc[c] = "input"
    /\ LET s == at[c] IN
        \/ GoTo(c, "poll") /\ UNCHANGED <<inner, op>>
        \/ /\ inner[s].input_writer
           /\ inner' = [inner EXCEPT ![s].input_writer = FALSE]
           /\ op' = [op EXCEPT ![s] = None]
           /\ Return(c)
    /\ UNCHANGED <<osVars, observed, released, ends, evidence, reaping, graceOver,
                   managerVars, registryVars, shutdownVars>>

\* The idle timeout inside the wait loop.
check_idle(s, elapsed) ==
    IF elapsed /\ ~inner[s].timed_out
    THEN request_termination([inner[s] EXCEPT !.timed_out = TRUE, !.require_exit = TRUE])
    ELSE inner[s]

\* maybe_force_kill
forces(s, i) == i.terminate_started /\ ~i.force_killed /\ graceOver[s]

must_keep_waiting(i) == i.require_exit /\ i.members # {}

\* One turn of wait_for_yield_or_exit_locked: idle and yielded are its two
\* comparisons with the clock.
Poll(c) ==
    /\ pc[c] = "poll"
    /\ LET s == at[c] IN
       \E idle, yielded \in BOOLEAN :
       \E o \in reap_exit_code(s) : \E ok \in record_outcomes(s, o) :
        LET i0 == check_idle(s, idle)
            term == i0.terminate_started /\ ~inner[s].terminate_started
            i1 == after_reap(i0, o, ok)
            force == ok /\ forces(s, i1)
            i2 == IF force THEN [i1 EXCEPT !.force_killed = TRUE] ELSE i1
            finished == ok /\ i2.reaped /\ ~must_keep_waiting(i2)
            yields == ok /\ ~i2.reaped /\ yielded /\ ~i2.require_exit
        IN
        /\ Processes(s, o, term, force)
        /\ record_members(s, o, ok)
        /\ KeepOwnership(ok)
        /\ inner' = [inner EXCEPT ![s] = i2]
        /\ op' = [op EXCEPT ![s] = IF ~ok \/ finished \/ yields THEN None ELSE @]
        /\ CASE finished ->
                  /\ pc' = [pc EXCEPT ![c] = "exited"]
                  /\ reason' = [reason EXCEPT ![c] = process_termination_reason(i2)]
                  /\ UNCHANGED <<at, kind>>
             [] ~ok \/ yields -> Return(c)
             [] OTHER -> GoTo(c, "poll")
    /\ UNCHANGED <<observed, reaping, graceOver, managerVars, shutdownVars>>

\* exec_command and write_stdin after an Exited answer: is_exited, then
\* remove_session.
Cleanup(c) ==
    /\ pc[c] = "exited"
    /\ LET s == at[c] IN
       \E o \in reap_exit_code(s) : \E ok \in record_outcomes(s, o) :
        LET i == after_reap(inner[s], o, ok) IN
        /\ Processes(s, o, FALSE, FALSE)
        /\ record_members(s, o, ok)
        /\ inner' = [inner EXCEPT ![s] = i]
        /\ IF ok THEN remove_session(s, i) ELSE KeepOwnership(ok) /\ UNCHANGED sessions
    /\ Return(c)
    /\ UNCHANGED <<observed, op, reaping, graceOver, admission, closed, todo, victim,
                   shutdownVars>>

-----------------------------------------------------------------------------
(* shutdown_all *)

ShutdownClose ==
    /\ sd = "off" /\ Stops
    /\ closed' = TRUE
    /\ sd' = "barrier"
    /\ UNCHANGED <<osVars, sessionVars, sessions, admission, todo, victim, registryVars, clientVars,
                   runtimes, pending, survivors, deadline, discovered>>

\* admission_lock is taken and dropped.
barrier_open == admission = None

ShutdownBarrier ==
    /\ sd = "barrier" /\ barrier_open
    /\ sd' = "snapshot"
    /\ UNCHANGED <<osVars, sessionVars, managerVars, registryVars, clientVars, runtimes, pending,
                   survivors, deadline, discovered>>

\* The runtimes, and the descendants still reachable from a live leader.
ShutdownSnapshot ==
    /\ sd = "snapshot"
    /\ runtimes' = sessions
    /\ pending' = sessions
    /\ discovered' \in SUBSET {d \in sessions \X Procs :
                                 leader[d[1]] = "running" /\ d[2] \in group[d[1]]}
    /\ sd' = "signal"
    /\ UNCHANGED <<osVars, sessionVars, managerVars, registryVars, clientVars, survivors, deadline>>

\* The SIGTERM pass: one runtime.
ShutdownSignal(s) ==
    /\ sd = "signal" /\ s \in pending
    /\ \E o \in reap_exit_code(s) : \E ok \in record_outcomes(s, o) :
        LET i1 == after_reap(inner[s], o, ok)
            stop == ok /\ ~is_exited(i1)
            i2 == IF stop THEN request_termination([i1 EXCEPT !.kill_requested = TRUE,
                                                              !.require_exit = TRUE])
                  ELSE i1
        IN
        /\ Processes(s, o, stop /\ ~i1.reaped /\ ~i1.terminate_started, FALSE)
        /\ record_members(s, o, ok)
        /\ inner' = [inner EXCEPT ![s] = i2]
        /\ IF ok /\ is_exited(i1) THEN release_process_ownership(s, i1) ELSE KeepOwnership(ok)
        /\ sd' = IF ok THEN sd ELSE "failed"
    /\ pending' = pending \ {s}
    /\ UNCHANGED <<observed, op, reaping, graceOver, managerVars, clientVars, runtimes,
                   survivors, deadline, discovered>>

ShutdownStartWait ==
    /\ sd \in {"signal", "force"} /\ pending = {}
    /\ doomed' = IF sd = "force"      \* SIGKILL to the surviving discovered descendants
                 THEN [s \in Sessions |-> doomed[s] \cup
                          {p \in group[s] : <<s, p>> \in discovered}]
                 ELSE doomed
    /\ sd' = IF sd = "signal" THEN "grace" ELSE "final"
    /\ pending' = runtimes
    /\ survivors' = FALSE
    /\ deadline' = FALSE
    /\ UNCHANGED <<leader, group, born, reused, stray, sessionVars, managerVars, registryVars,
                   clientVars, runtimes, discovered>>

\* wait_for_session_exits_until: one runtime of a pass.
LeaderSurvives(i) == ~i.reaped
survives(i) == ~is_exited(i)

ShutdownWait(s) ==
    /\ sd \in {"grace", "final"} /\ s \in pending
    /\ \E o \in reap_exit_code(s) : \E ok \in record_outcomes(s, o) :
        LET i == after_reap(inner[s], o, ok) IN
        /\ Processes(s, o, FALSE, FALSE)
        /\ record_members(s, o, ok)
        /\ inner' = [inner EXCEPT ![s] = i]
        /\ IF ok /\ is_exited(i) THEN release_process_ownership(s, i) ELSE KeepOwnership(ok)
        /\ survivors' = (survivors \/ survives(i))
        /\ sd' = IF ok THEN sd ELSE "failed"
    /\ pending' = pending \ {s}
    /\ UNCHANGED <<observed, op, reaping, graceOver, managerVars, clientVars, runtimes,
                   deadline, discovered>>

\* try_lock failed: the session counts as alive in this pass.
ShutdownContended(s) ==
    /\ sd \in {"grace", "final"} /\ s \in pending
    /\ pending' = pending \ {s}
    /\ survivors' = TRUE
    /\ UNCHANGED <<osVars, sessionVars, managerVars, registryVars, clientVars, sd, runtimes,
                   deadline, discovered>>

DeadlineElapses ==
    /\ sd \in {"grace", "final"} /\ ~deadline
    /\ deadline' = TRUE
    /\ UNCHANGED <<osVars, sessionVars, managerVars, registryVars, clientVars, sd, runtimes,
                   pending, survivors, discovered>>

\* The end of a pass: next pass, force pass, or the result.
wait_over == ~survivors \/ deadline

ShutdownPassEnd ==
    /\ sd \in {"grace", "final"} /\ pending = {}
    /\ IF ~wait_over
       THEN sd' = sd /\ pending' = runtimes /\ UNCHANGED sessions
       ELSE IF sd = "grace"
       THEN sd' = "force" /\ pending' = runtimes /\ UNCHANGED sessions
       ELSE IF survivors
       THEN sd' = "failed" /\ UNCHANGED <<pending, sessions>>
       ELSE sd' = "done" /\ sessions' = {} /\ UNCHANGED pending
    /\ survivors' = FALSE
    /\ UNCHANGED <<osVars, sessionVars, admission, closed, todo, victim, registryVars, clientVars,
                   runtimes, deadline, discovered>>

\* The SIGKILL pass: one runtime.
ShutdownForce(s) ==
    /\ sd = "force" /\ s \in pending
    /\ \E o \in reap_exit_code(s) : \E ok \in record_outcomes(s, o) :
        LET i == after_reap(inner[s], o, ok)
            force == ok /\ ~is_exited(i)
        IN
        /\ Processes(s, o, FALSE, force)
        /\ record_members(s, o, ok)
        /\ inner' = [inner EXCEPT ![s] = IF force THEN [i EXCEPT !.force_killed = TRUE] ELSE i]
        /\ KeepOwnership(ok)
        /\ sd' = IF ok THEN sd ELSE "failed"
    /\ pending' = pending \ {s}
    /\ UNCHANGED <<observed, op, reaping, graceOver, managerVars, clientVars, runtimes,
                   survivors, deadline, discovered>>

-----------------------------------------------------------------------------
OperatingSystem ==
    \E s \in Sessions :
        \/ LeaderExits(s)
        \/ ReuseGroupId(s)
        \/ \E p \in Procs : MemberExits(s, p) \/ Fork(s, p)

Timers ==
    \/ \E s \in Sessions : GraceElapses(s)
    \/ DeadlineElapses

ClientStep(c) ==
    \/ ExecAdmit(c)
    \/ EvictIfNeeded(c)
    \/ \E s \in Sessions : EvictProbe(c, s)
    \/ EvictPick(c)
    \/ \E s \in Sessions : Spawn(c, s)
    \/ SpawnFails(c)
    \/ Register(c)
    \/ RegisterFails(c)
    \/ Rollback(c)
    \/ InitialWait(c)
    \/ ContinueSession(c)
    \/ Poll(c)
    \/ Cleanup(c)

NewCall(c) ==
    \/ ExecBegin(c)
    \/ \E s \in Sessions, k \in CallKinds : WriteStdin(c, s, k)

ShutdownStep ==
    \/ ShutdownBarrier
    \/ ShutdownSnapshot
    \/ \E s \in Sessions : \/ ShutdownSignal(s) \/ ShutdownWait(s)
                           \/ ShutdownContended(s) \/ ShutdownForce(s)
    \/ ShutdownStartWait
    \/ ShutdownPassEnd

Next ==
    \/ OperatingSystem
    \/ Timers
    \/ \E s \in Sessions : ReaperStep(s) \/ CountProbe(s)
    \/ \E c \in Clients : NewCall(c) \/ ClientStep(c) \/ WriteInput(c)
    \/ ShutdownClose
    \/ ShutdownStep

Spec == Init /\ [][Next]_vars

\* The tokio tasks keep being polled, timers fire and SIGKILL is delivered.  No
\* call has to be made, no process has to exit by itself, and a blocked write to
\* the PTY may stay blocked.
Fairness ==
    /\ \A s \in Sessions : /\ WF_vars(KilledLeaderDies(s)) /\ WF_vars(DoomedMemberDies(s))
                           /\ WF_vars(GraceElapses(s)) /\ WF_vars(ReaperStep(s))
    /\ \A c \in Clients : WF_vars(ClientStep(c))
    /\ WF_vars(DeadlineElapses)
    /\ WF_vars(ShutdownStep)

FairSpec == Spec /\ Fairness

-----------------------------------------------------------------------------
(* Properties *)

\* The map never holds more than max_sessions sessions, although evict_if_needed
\* counts before the child is spawned and inserts after it (admission_lock).
CapacityRespected == Cardinality(sessions) <= MaxSessions

Admitting(s) == \E c \in Clients : pc[c] \in {"register", "rollback"} /\ at[c] = s

\* A session with an unreaped leader, or with a tracked group member that is
\* still alive, can be reached through the map or is being admitted: neither
\* eviction nor the cleanup after an answer loses a process (remove_session).
NoOrphan ==
    \A s \in Sessions :
        (leader[s] \in {"running", "killed", "zombie"} \/ inner[s].members \cap group[s] # {})
            => s \in sessions \/ Admitting(s)

\* As long as an admitted session has an unreaped leader or a tracked live
\* member, its ownership record is in the registry, so that a crash of the
\* runtime at any point leaves stale recovery the evidence it needs.
OwnedProcessIsRecorded ==
    \A s \in Sessions :
        /\ observed[s] /\ s \in sessions
        /\ leader[s] \in {"running", "killed", "zombie"} \/ inner[s].members \cap group[s] # {}
        => s \in registry

\* No process of a session is ever lost from view, of the running manager or of
\* the recovery after a crash.
ProcessesAccounted == NoOrphan /\ OwnedProcessIsRecorded

\* process_ended is called at most once per process, whoever of the reaper, the
\* answering call, eviction and shutdown gets there first, and with an exit
\* reason only after the leader was reaped and every tracked member is gone.
ProcessEndedOnce ==
    \A s \in Sessions :
        /\ ends[s] <= 1
        /\ evidence[s] \in Reasons => is_exited(inner[s])

\* An Exited answer that says killed or timeout means the leader was reaped and
\* no tracked member is left (require_exit_before_return).
TerminatedReplyIsFinal ==
    \A c \in Clients :
        pc[c] = "exited" /\ reason[c] # "exit" => is_exited(inner[at[c]])

\* The end of a process is reported once, to the observer and to the caller, and
\* only when it is one.
EndsAreFinal == ProcessEndedOnce /\ TerminatedReplyIsFinal

\* After shutdown_all passed its barrier no call is still between the admission
\* check and the map, and the snapshot of runtimes covers every later session.
AdmissionBarrier ==
    sd \notin {"off", "barrier", "snapshot"} =>
        /\ sessions \subseteq runtimes
        /\ \A c \in Clients : pc[c] \notin AdmissionStates

\* When shutdown_all returns Ok every leader was reaped, no tracked member is
\* alive, each observed process has its process_ended, and the registry is
\* empty unless one of its writes failed.
ShutdownSettles ==
    sd = "done" =>
        /\ \A s \in Sessions :
              /\ leader[s] \in {"none", "reaped"}
              /\ inner[s].members \cap group[s] = {}
              /\ observed[s] => ends[s] = 1
        /\ faults = 0 => registry = {}

\* SIGKILL is never sent to a group number that was reused: the force kill of
\* a poll (maybe_force_kill) and of shutdown_all checks that the leader is
\* unreaped, with any number of steps between the SIGTERM and the deadline.
NoStrayKill == "force_kill" \notin stray

\* After the leader was reaped a tracked member leaves the tracked set only by
\* dying (the identity check of reap_exit_code).
TrackedUntilDead ==
    [][\A s \in Sessions :
          inner[s].reaped => (inner[s].members \ inner'[s].members) \cap group'[s] = {}]_vars

\* No call that ends processes waits for ever, whatever the other calls, the
\* reapers and the processes do: a kill_process call escalates to SIGKILL after
\* the grace period even when every process ignores SIGTERM, and shutdown_all
\* comes back.
TerminationReturns ==
    \A c \in Clients : []<>(/\ pc[c] = "poll" => kind[c] # "kill"
                            /\ sd \in {"off", "done", "failed"})

\* The end of a session whose processes are all gone is recorded without any
\* further call (spawn_child_reaper), when registry writes succeed.
ExitIsRecorded ==
    \A s \in Sessions :
        []<>(s \in sessions /\ leader[s] \in {"zombie", "reaped"} /\ group[s] = {} => released[s])

\* Calls come back and ends are recorded.
SessionsSettle == TerminationReturns /\ ExitIsRecorded

\* The SIGTERM of kill_process reaches a group the session still owns.
KillSignalsOwnedGroup == "kill_process" \notin stray

\* Reaping the leader captures every member that remains in the group.
ReapCapturesGroup ==
    [][\A s \in Sessions :
          ~inner[s].reaped /\ inner'[s].reaped => group'[s] \subseteq inner'[s].members]_vars
=============================================================================
