---------------------------- MODULE StaleRecovery ----------------------------
(***************************************************************************)
(* The owned-process registry of a Local runtime and the recovery that a   *)
(* later start or stop makes from it after the runtime is gone             *)
(* (src/local/process_registry.rs and its callers in lifecycle.rs).        *)
(*                                                                         *)
(* A process is named by its birth identity <<pid, birth>>; a pid is free  *)
(* again when no process and no process group bears it.  Every call into   *)
(* the operating system is a step of its own, so processes exit, fork,     *)
(* leave their group and reuse pids between any two of them.  Only         *)
(* "compare the identity, then signal" is one step: a pid is not recycled  *)
(* within it.  Signals do not force an exit here, a process may exit at    *)
(* any time, so the grace periods need no clock.                           *)
(***************************************************************************)
EXTENDS Naturals, FiniteSets

CONSTANTS
    Pids,       \* process ids
    Sessions,   \* sessions of the runtime
    MaxBirth,   \* bound on the processes that ever bear one pid
    None        \* no record

ASSUME StaleRecoveryAssumption ==
    /\ MaxBirth \in Nat
    /\ None \notin Sessions

VARIABLES
    \* the operating system
    births,      \* processes that have borne each pid
    alive,       \* identities of live processes
    pgid,        \* their process group
    root,        \* the process they descend from: a session's leader or a stranger
    \* the runtime and its registry file
    up,          \* the runtime is running
    records,     \* LocalProcessRegistryDocument.processes
    reaped,      \* sessions whose leader the runtime has waited for
    leaders,     \* every leader the runtimes ever started
    \* terminate_matching_stale_processes
    pc, todo, cur, discovered, matched,
    mismatch, unresolved,        \* report counters, as "not zero"
    scanned, late,               \* groups already scanned; processes forked into them since
    strayGroup, strayProcess     \* a stranger was signalled through a group; by itself

osVars == <<births, alive, pgid, root>>
runtimeVars == <<up, records, reaped, leaders>>
reportVars == <<mismatch, unresolved>>
ghostVars == <<scanned, late, strayGroup, strayProcess>>
cleanupVars == <<pc, todo, cur, discovered, matched, reportVars>>
vars == <<osVars, runtimeVars, cleanupVars, ghostVars>>

Identity == Pids \X (1..MaxBirth)
Record == [leader : Identity, members : SUBSET Identity]

pid(i) == i[1]
Recorded == {s \in Sessions : records[s] # None}

\* Every variable has its type; the cleanup works on recorded sessions.
TypeOK ==
    /\ births \in [Pids -> 0..MaxBirth]
    /\ alive \in SUBSET Identity
    /\ pgid \in [Identity -> Pids]
    /\ root \in [Identity -> Identity]
    /\ up \in BOOLEAN
    /\ records \in [Sessions -> Record \cup {None}]
    /\ reaped \in SUBSET Sessions
    /\ leaders \in SUBSET Identity
    /\ pc \in {"idle", "probe", "scan", "check", "leaderless", "kill_groups", "kill", "final"}
    /\ todo \in SUBSET Recorded
    /\ cur \in todo \cup {None}
    /\ pc \in {"scan", "check", "leaderless"} => cur \in todo
    /\ discovered \in SUBSET Identity
    /\ matched \in SUBSET Identity
    /\ mismatch \in BOOLEAN
    /\ unresolved \in BOOLEAN
    /\ scanned \in SUBSET Sessions
    /\ late \in SUBSET Identity
    /\ strayGroup \in BOOLEAN
    /\ strayProcess \in BOOLEAN

Init ==
    /\ births = [p \in Pids |-> 0]
    /\ alive = {}
    /\ pgid = [i \in Identity |-> pid(i)]
    /\ root = [i \in Identity |-> i]
    /\ up = TRUE
    /\ records = [s \in Sessions |-> None]
    /\ reaped = {}
    /\ leaders = {}
    /\ pc = "idle"
    /\ todo = {}
    /\ cur = None
    /\ discovered = {}
    /\ matched = {}
    /\ mismatch = FALSE
    /\ unresolved = FALSE
    /\ scanned = {}
    /\ late = {}
    /\ strayGroup = FALSE
    /\ strayProcess = FALSE

-----------------------------------------------------------------------------
(* The operating system *)

\* A leader that its parent has not waited for keeps its pid.
Zombie(p) == up /\ \E s \in Recorded \ reaped : pid(records[s].leader) = p
Free(p) == ~Zombie(p) /\ \A i \in alive : pid(i) # p /\ pgid[i] # p
NextBirth(p) == <<p, births[p] + 1>>

\* A new process at the free pid p, in group g.
Create(p, g, r) ==
    /\ births[p] < MaxBirth /\ Free(p)
    /\ births' = [births EXCEPT ![p] = @ + 1]
    /\ alive' = alive \cup {NextBirth(p)}
    /\ pgid' = [pgid EXCEPT ![NextBirth(p)] = g]
    /\ root' = [root EXCEPT ![NextBirth(p)] = r]

Exit(i) ==
    /\ i \in alive
    /\ alive' = alive \ {i}
    /\ pgid' = [pgid EXCEPT ![i] = pid(i)] /\ root' = [root EXCEPT ![i] = i]
    /\ UNCHANGED <<births, runtimeVars, cleanupVars, ghostVars>>

Fork(i, p) ==
    /\ i \in alive
    /\ Create(p, pgid[i], root[i])
    /\ late' = IF \E s \in scanned : records[s] # None /\ pgid[i] = pid(records[s].leader)
               THEN late \cup {NextBirth(p)} ELSE late
    /\ UNCHANGED <<runtimeVars, cleanupVars, scanned, strayGroup, strayProcess>>

\* A process that is not a group leader moves to a group of its own.
Setsid(i) ==
    /\ i \in alive /\ pgid[i] # pid(i)
    /\ pgid' = [pgid EXCEPT ![i] = pid(i)]
    /\ UNCHANGED <<births, alive, root, runtimeVars, cleanupVars, ghostVars>>

\* A process that has nothing to do with zodex.
Stranger(p) ==
    /\ Create(p, p, NextBirth(p))
    /\ UNCHANGED <<runtimeVars, cleanupVars, ghostVars>>

-----------------------------------------------------------------------------
(* The runtime and its registry *)

\* The scan of one process group.
process_group_members(p) == {i \in alive : pgid[i] = p}

\* exec_command spawns a leader; process_started writes its record.
process_started(s, p) ==
    /\ up /\ records[s] = None
    /\ Create(p, p, NextBirth(p))
    /\ records' = [records EXCEPT ![s] = [leader |-> NextBirth(p), members |-> {}]]
    /\ leaders' = leaders \cup {NextBirth(p)}
    /\ UNCHANGED <<up, reaped, cleanupVars, ghostVars>>

\* reap_exit_code: the group is scanned until the leader is reaped, and once
\* more after that if the scan before it found nobody; later the members that
\* are left.
process_group_members_updated(s) ==
    /\ up /\ records[s] # None
    /\ LET l == records[s].leader
           known == records[s].members
           group == process_group_members(pid(l)) \ {l}
       IN \/ /\ s \notin reaped /\ l \in alive
             /\ records' = [records EXCEPT ![s].members = group]
             /\ UNCHANGED reaped
          \/ /\ s \notin reaped /\ l \notin alive
             /\ \E m \in {group, IF known = {} THEN group ELSE known} :
                   records' = [records EXCEPT ![s].members = m]
             /\ reaped' = reaped \cup {s}
          \/ /\ s \in reaped
             /\ records' = [records EXCEPT ![s].members = known \cap alive]
             /\ UNCHANGED reaped
    /\ UNCHANGED <<osVars, up, leaders, cleanupVars, ghostVars>>

process_ended(s) ==
    /\ up /\ records[s] # None
    /\ s \in reaped /\ records[s].members \cap alive = {}
    /\ records' = [records EXCEPT ![s] = None]
    /\ reaped' = reaped \ {s}
    /\ UNCHANGED <<osVars, up, leaders, cleanupVars, ghostVars>>

\* The runtime dies, or gives up its sessions, and leaves the file behind.
Crash ==
    /\ up
    /\ up' = FALSE /\ reaped' = {}
    /\ UNCHANGED <<osVars, records, leaders, cleanupVars, ghostVars>>

\* A new runtime starts only on an empty registry.
fresh ==
    /\ ~up /\ pc = "idle" /\ Recorded = {}
    /\ up' = TRUE
    /\ UNCHANGED <<osVars, records, reaped, leaders, cleanupVars, ghostVars>>

-----------------------------------------------------------------------------
(* terminate_matching_stale_processes, called with the lifecycle lock held *)

CleanupBegin ==
    /\ ~up /\ pc = "idle" /\ Recorded # {}
    /\ pc' = "probe"
    /\ todo' = Recorded
    /\ UNCHANGED <<osVars, runtimeVars, cur, discovered, matched, reportVars, ghostVars>>

persisted_members(s) == records[s].members \ {records[s].leader}

\* The record is done: the next one.
NextRecord(s) == pc' = "probe" /\ todo' = todo \ {s} /\ cur' = None

\* identity(pid) of the recorded leader.
ProbeLeader(s) ==
    /\ pc = "probe" /\ s \in todo
    /\ discovered' = discovered \cup persisted_members(s)
    /\ LET l == records[s].leader IN
        \/ /\ l \in alive
           /\ pc' = "scan" /\ cur' = s /\ UNCHANGED <<todo, mismatch>>
        \/ /\ l \notin alive /\ \E i \in alive : pid(i) = pid(l)
           /\ mismatch' = TRUE /\ NextRecord(s)
        \/ /\ \A i \in alive : pid(i) # pid(l)
           /\ pc' = "leaderless" /\ cur' = s /\ UNCHANGED <<todo, mismatch>>
    /\ UNCHANGED <<osVars, runtimeVars, matched, unresolved, ghostVars>>

\* The members of the group, and the descendants whose ancestry is still
\* visible, of whoever bears the pid now.
ScanGroup ==
    /\ pc = "scan"
    /\ LET l == records[cur].leader
           kin == {i \in alive : pid(root[i]) = pid(l) /\ root[i] \in alive}
       IN \E descendants \in SUBSET kin :
            discovered' = discovered
                \cup ((process_group_members(pid(l)) \cup descendants) \ {l})
    /\ pc' = "check"
    /\ scanned' = scanned \cup {cur}
    /\ UNCHANGED <<osVars, runtimeVars, todo, cur, matched, reportVars, late, strayGroup,
                   strayProcess>>

Strangers(procs) == \E i \in procs : root[i] \notin leaders

\* identity_matches a second time, then SIGTERM to the group.
LeaderTrusted(l) == TRUE
leader_confirmed(l) == l \in alive

CheckLeader ==
    /\ pc = "check"
    /\ LET l == records[cur].leader IN
       IF leader_confirmed(l)
       THEN /\ matched' = matched \cup {l}
            /\ strayGroup' = (strayGroup \/ Strangers(process_group_members(pid(l))))
            /\ UNCHANGED mismatch
       ELSE /\ mismatch' = TRUE
            /\ UNCHANGED <<matched, strayGroup>>
    /\ NextRecord(cur)
    /\ UNCHANGED <<osVars, runtimeVars, discovered, unresolved, scanned, late, strayProcess>>

\* Nobody bears the leader's pid: the group is empty, proved to be ours by one
\* recorded member, or left alone.
continues_owned_group(s, members) == members \cap records[s].members # {}

ScanLeaderless ==
    /\ pc = "leaderless"
    /\ LET members == process_group_members(pid(records[cur].leader)) IN
       IF members # {} /\ continues_owned_group(cur, members)
       THEN discovered' = discovered \cup members /\ UNCHANGED unresolved
       ELSE unresolved' = (unresolved \/ members # {}) /\ UNCHANGED discovered
    /\ scanned' = scanned \cup {cur}
    /\ NextRecord(cur)
    /\ UNCHANGED <<osVars, runtimeVars, matched, mismatch, late, strayGroup, strayProcess>>

\* SIGTERM to every discovered process that still has its identity; then the
\* first wait.
TermDiscovered ==
    /\ pc = "probe" /\ todo = {}
    /\ discovered' = discovered \ matched
    /\ strayProcess' = (strayProcess \/ Strangers((discovered \ matched) \cap alive))
    /\ pc' = "kill_groups"
    /\ UNCHANGED <<osVars, runtimeVars, todo, cur, matched, reportVars, scanned, late, strayGroup>>

\* SIGKILL to the groups of the leaders that are still there.
KillGroups ==
    /\ pc = "kill_groups"
    /\ strayGroup' = (strayGroup \/ \E l \in matched :
                          l \in alive /\ Strangers(process_group_members(pid(l))))
    /\ pc' = "kill"
    /\ UNCHANGED <<osVars, runtimeVars, todo, cur, discovered, matched, reportVars, scanned, late,
                   strayProcess>>

\* SIGKILL to the discovered processes; then the second wait.
KillDiscovered ==
    /\ pc = "kill"
    /\ strayProcess' = (strayProcess \/ Strangers(discovered \cap alive))
    /\ pc' = "final"
    /\ UNCHANGED <<osVars, runtimeVars, todo, cur, discovered, matched, reportVars, scanned, late,
                   strayGroup>>

\* The report, and what stop and start do with it: the runtime directory is
\* cleared, or kept when something is unresolved.
LeadersSurvive == matched \cap alive # {}
survivors == (matched \cup discovered) \cap alive # {}
UnresolvedIgnored == ~mismatch /\ ~survivors
resolved == ~mismatch /\ ~unresolved /\ ~survivors

\* The locals of the call are gone when it returns.
Return ==
    /\ pc' = "idle" /\ todo' = {} /\ cur' = None
    /\ discovered' = {} /\ matched' = {} /\ scanned' = {} /\ late' = {}
    /\ mismatch' = FALSE /\ unresolved' = FALSE

CleanupEnd ==
    /\ pc = "final"
    /\ records' = IF resolved THEN [s \in Sessions |-> None] ELSE records
    /\ Return
    /\ UNCHANGED <<osVars, up, reaped, leaders, strayGroup, strayProcess>>

\* A signal or a probe fails, or the command is killed: the registry is kept.
CleanupInterrupted ==
    /\ pc # "idle"
    /\ Return
    /\ UNCHANGED <<osVars, runtimeVars, strayGroup, strayProcess>>

-----------------------------------------------------------------------------
OperatingSystem ==
    \/ \E i \in Identity : Exit(i) \/ Setsid(i) \/ \E p \in Pids : Fork(i, p)
    \/ \E p \in Pids : Stranger(p)

Runtime ==
    \/ \E s \in Sessions :
          \/ \E p \in Pids : process_started(s, p)
          \/ process_group_members_updated(s)
          \/ process_ended(s)
    \/ Crash
    \/ fresh

Cleanup ==
    \/ CleanupBegin
    \/ \E s \in Sessions : ProbeLeader(s)
    \/ ScanGroup \/ CheckLeader \/ ScanLeaderless
    \/ TermDiscovered \/ KillGroups \/ KillDiscovered
    \/ CleanupEnd \/ CleanupInterrupted

Next == OperatingSystem \/ Runtime \/ Cleanup

Spec == Init /\ [][Next]_vars

-----------------------------------------------------------------------------
(* Properties *)

Clears == pc = "final" /\ Recorded # {} /\ records' = [s \in Sessions |-> None]

\* Recovery discards the registry only when every process the registry names is
\* dead, also one that left its group, whatever was reused in between.
ClearedMeansRecordedDead ==
    [][Clears => \A s \in Recorded : records[s].leader \notin alive
                                     /\ records[s].members \cap alive = {}]_vars

\* The group that leader l started: while a member is left nobody else gets its
\* pid, so it is gone once another process bears it.
OwnedGroup(l) == {i \in alive : pgid[i] = pid(l) /\ births[pid(l)] = l[2]}

\* Recovery discards the registry only when nobody of an owned group is left
\* but children forked after the group was scanned: a member the crashed
\* runtime had no time to record is killed too, or the registry is kept.
ClearedMeansGroupDead ==
    [][Clears => \A s \in Recorded : OwnedGroup(records[s].leader) \subseteq late]_vars

\* A group signal never reaches a stranger: the leader's identity is compared
\* again after the scan, and again before SIGKILL.
GroupSignalsOwned == ~strayGroup

\* No stranger is signalled by itself either.
StrangersUntouched == ~strayProcess
=============================================================================
