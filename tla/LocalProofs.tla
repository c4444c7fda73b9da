----------------------------- MODULE LocalProofs -------------------------------
(***************************************************************************)
(* Proofs about what Local does with the processes and files of a runtime  *)
(* that may be gone: the recovery of its sessions, and the starts, stops   *)
(* and shutdowns that share its directory; and about the timeline of the   *)
(* calls it served.                                                        *)
(***************************************************************************)
EXTENDS StaleRecovery, LocalLifecycle, Timeline, WellFoundedInduction, FiniteSetTheorems, SequenceTheorems, TLAPS

-----------------------------------------------------------------------------
(***************************************************************************)
(* A recovery clears the registry only over groups it owns and answers     *)
(* for, for every set of pids and sessions and every number of reuses of a *)
(* pid.                                                                    *)
(***************************************************************************)
(* The inductive invariant *)

Born(i) == i[2] <= births[i[1]]

\* A live process is the last one that bore its pid; a pid borne by a live
\* process names no group but the one that process is in; the members of a
\* group descend from one process.
ProcessInv ==
    /\ \A i \in alive : i[2] = births[i[1]]
    /\ \A i, j \in alive : pgid[i] = pid(j) => pgid[j] = pid(j)
    /\ \A i, j \in alive : pgid[i] = pgid[j] => root[i] = root[j]

\* A leader that lives leads its own group; every recorded process was alive
\* once, so when it is dead it stays dead whoever takes its pid.
LeaderInv ==
    /\ \A l \in leaders : Born(l)
    /\ \A l \in leaders \cap alive : pgid[l] = pid(l) /\ root[l] = l
    /\ \A s \in Recorded :
          records[s].leader \in leaders /\ \A i \in records[s].members : Born(i)

\* The leader and the recorded members of s are among the processes that the
\* cleanup answers for, or it knows that it must keep the registry.
Covered(s) ==
    /\ persisted_members(s) \subseteq discovered \cup matched
    /\ mismatch \/ (s \in scanned /\ (records[s].leader \in matched
                                      \/ records[s].leader \notin alive))

\* So is the rest of the group, from the moment it is scanned.
GroupCovered(s) ==
    unresolved \/ OwnedGroup(records[s].leader)
                     \subseteq discovered \cup matched \cup late \cup {records[s].leader}

CleanupInv ==
    /\ pc # "idle" => ~up /\ \A s \in Recorded \ todo : Covered(s)
    /\ pc = "idle" => todo = {} /\ scanned = {} /\ matched = {}
    /\ \A s \in scanned : s \in Recorded /\ GroupCovered(s)
    /\ pc \in {"scan", "check", "leaderless"} => persisted_members(cur) \subseteq discovered
    /\ pc = "check" => cur \in scanned
    /\ pc = "leaderless" => records[cur].leader \notin alive
    /\ pc \in {"kill_groups", "kill", "final"} => todo = {}
    /\ matched \subseteq leaders

RecoveryInv == TypeOK /\ ProcessInv /\ LeaderInv /\ CleanupInv /\ ~strayGroup

-----------------------------------------------------------------------------
(* Type correctness *)

\* The step that creates a process keeps the operating system's types.
LEMMA CreateTypes ==
    ASSUME TypeOK, StaleRecoveryAssumption,
           NEW p \in Pids, NEW g \in Pids, NEW r \in Identity, Create(p, g, r)
    PROVE  /\ NextBirth(p) \in Identity
           /\ births' \in [Pids -> 0..MaxBirth]
           /\ alive' \in SUBSET Identity
           /\ pgid' \in [Identity -> Pids]
           /\ root' \in [Identity -> Identity]
  <1>1. births[p] \in 0..MaxBirth /\ births[p] < MaxBirth /\ MaxBirth \in Nat
    BY DEF TypeOK, StaleRecoveryAssumption, Create
  <1>2. NextBirth(p) \in Identity
    BY <1>1 DEF NextBirth, Identity
  <1>3. births' \in [Pids -> 0..MaxBirth]
    BY <1>1 DEF TypeOK, Create
  <1>4. QED
    BY <1>2, <1>3 DEF TypeOK, Create

LEMMA NewIdentity ==
    ASSUME TypeOK, StaleRecoveryAssumption, NEW p \in Pids, births[p] < MaxBirth
    PROVE  NextBirth(p) \in Identity
  BY DEF TypeOK, StaleRecoveryAssumption, NextBirth, Identity

LEMMA TypeOKOS ==
    ASSUME TypeOK, StaleRecoveryAssumption, OperatingSystem
    PROVE  TypeOK'
  <1>1. ASSUME NEW i \in Identity, Exit(i) PROVE TypeOK'
    <2>1. pid(i) \in Pids
      BY DEF Identity, pid
    <2>2. QED
      BY <1>1, <2>1 DEF TypeOK, Exit, runtimeVars, cleanupVars, ghostVars, reportVars, Recorded
  <1>2. ASSUME NEW i \in Identity, Setsid(i) PROVE TypeOK'
    <2>1. pid(i) \in Pids
      BY DEF Identity, pid
    <2>2. QED
      BY <1>2, <2>1 DEF TypeOK, Setsid, runtimeVars, cleanupVars, ghostVars, reportVars, Recorded
  <1>3. ASSUME NEW i \in Identity, NEW p \in Pids, Fork(i, p) PROVE TypeOK'
    <2>1. pgid[i] \in Pids /\ root[i] \in Identity
      BY DEF TypeOK
    <2>2. /\ NextBirth(p) \in Identity
          /\ births' \in [Pids -> 0..MaxBirth]
          /\ alive' \in SUBSET Identity
          /\ pgid' \in [Identity -> Pids]
          /\ root' \in [Identity -> Identity]
      BY <1>3, <2>1, CreateTypes DEF Fork
    <2>3. late' \in SUBSET Identity
      BY <1>3, <2>2 DEF TypeOK, Fork
    <2>4. QED
      BY <1>3, <2>2, <2>3 DEF TypeOK, Fork, runtimeVars, cleanupVars, reportVars, Recorded
  <1>4. ASSUME NEW p \in Pids, Stranger(p) PROVE TypeOK'
    <2>1. NextBirth(p) \in Identity
      BY <1>4, NewIdentity DEF Stranger, Create
    <2>2. /\ births' \in [Pids -> 0..MaxBirth]
          /\ alive' \in SUBSET Identity
          /\ pgid' \in [Identity -> Pids]
          /\ root' \in [Identity -> Identity]
      BY <1>4, <2>1, CreateTypes DEF Stranger
    <2>3. QED
      BY <1>4, <2>2 DEF TypeOK, Stranger, runtimeVars, cleanupVars, ghostVars, reportVars, Recorded
  <1>5. QED
    BY <1>1, <1>2, <1>3, <1>4 DEF OperatingSystem

\* While the runtime runs no cleanup does, so the records may change.
IdleCleanup == pc = "idle" /\ todo = {}

LEMMA TypeOKRuntime ==
    ASSUME TypeOK, StaleRecoveryAssumption, Runtime, up => IdleCleanup
    PROVE  TypeOK'
  <1>1. ASSUME NEW s \in Sessions, NEW p \in Pids, process_started(s, p) PROVE TypeOK'
    <2>1. NextBirth(p) \in Identity
      BY <1>1, NewIdentity DEF process_started, Create
    <2>2. /\ births' \in [Pids -> 0..MaxBirth]
          /\ alive' \in SUBSET Identity
          /\ pgid' \in [Identity -> Pids]
          /\ root' \in [Identity -> Identity]
      BY <1>1, <2>1, CreateTypes DEF process_started
    <2>3. [leader |-> NextBirth(p), members |-> {}] \in Record
      BY <2>1 DEF Record
    <2>4. /\ records' \in [Sessions -> Record \cup {None}]
          /\ leaders' \in SUBSET Identity
      BY <1>1, <2>1, <2>3 DEF TypeOK, process_started
    <2>5. QED
      BY <1>1, <2>2, <2>4 DEF TypeOK, process_started, cleanupVars, ghostVars, reportVars,
                               IdleCleanup
  <1>2. ASSUME NEW s \in Sessions, process_group_members_updated(s) PROVE TypeOK'
    <2>1. records[s] \in Record
      BY <1>2 DEF TypeOK, process_group_members_updated
    <2>2. PICK m \in SUBSET Identity : records' = [records EXCEPT ![s].members = m]
      <3>1. process_group_members(pid(records[s].leader)) \ {records[s].leader}
               \in SUBSET Identity
        BY DEF TypeOK, process_group_members
      <3>2. records[s].members \in SUBSET Identity
            /\ records[s].members \cap alive \in SUBSET Identity
        BY <2>1 DEF TypeOK, Record
      <3>3. QED
        BY <1>2, <3>1, <3>2 DEF process_group_members_updated
    <2>3. records' \in [Sessions -> Record \cup {None}]
      BY <2>1, <2>2 DEF TypeOK, Record
    <2>4. QED
      BY <1>2, <2>3 DEF TypeOK, process_group_members_updated, osVars, cleanupVars, ghostVars,
                         reportVars, IdleCleanup
  <1>3. ASSUME NEW s \in Sessions, process_ended(s) PROVE TypeOK'
    <2>1. records' \in [Sessions -> Record \cup {None}]
      BY <1>3 DEF TypeOK, process_ended
    <2>2. QED
      BY <1>3, <2>1 DEF TypeOK, process_ended, osVars, cleanupVars, ghostVars, reportVars,
                         IdleCleanup
  <1>4. CASE Crash
    BY <1>4 DEF TypeOK, Crash, osVars, cleanupVars, ghostVars, reportVars, Recorded
  <1>5. CASE fresh
    BY <1>5 DEF TypeOK, fresh, osVars, cleanupVars, ghostVars, reportVars, Recorded
  <1>6. QED
    BY <1>1, <1>2, <1>3, <1>4, <1>5 DEF Runtime

LEMMA TypeOKCleanup ==
    ASSUME TypeOK, StaleRecoveryAssumption, Cleanup
    PROVE  TypeOK'
  <1> USE DEF TypeOK
  <1>1. CASE CleanupBegin
    BY <1>1 DEF CleanupBegin, osVars, runtimeVars, ghostVars, reportVars, Recorded
  <1>2. ASSUME NEW s \in Sessions, ProbeLeader(s) PROVE TypeOK'
    <2>1. records[s] \in Record /\ s \in Recorded
      BY <1>2 DEF ProbeLeader, Recorded
    <2>2. persisted_members(s) \in SUBSET Identity
      BY <2>1 DEF persisted_members, Record
    <2>3. QED
      BY <1>2, <2>1, <2>2 DEF ProbeLeader, NextRecord, osVars, runtimeVars, ghostVars, Recorded
  <1>3. CASE ScanGroup
    <2>1. discovered' \in SUBSET Identity
      BY <1>3 DEF ScanGroup, process_group_members
    <2>2. QED
      BY <1>3, <2>1 DEF ScanGroup, osVars, runtimeVars, reportVars, Recorded
  <1>4. CASE CheckLeader
    <2>1. records[cur] \in Record
      BY <1>4 DEF CheckLeader, Recorded
    <2>2. records[cur].leader \in Identity
      BY <2>1 DEF Record
    <2>3. QED
      BY <1>4, <2>2 DEF CheckLeader, NextRecord, Strangers, osVars, runtimeVars, Recorded
  <1>5. CASE ScanLeaderless
    <2>1. process_group_members(pid(records[cur].leader)) \in SUBSET Identity
      BY DEF process_group_members
    <2>2. discovered' \in SUBSET Identity /\ unresolved' \in BOOLEAN
      BY <1>5, <2>1 DEF ScanLeaderless
    <2>3. QED
      BY <1>5, <2>2 DEF ScanLeaderless, NextRecord, osVars, runtimeVars, Recorded
  <1>6. CASE TermDiscovered
    BY <1>6 DEF TermDiscovered, Strangers, osVars, runtimeVars, reportVars, Recorded
  <1>7. CASE KillGroups
    BY <1>7 DEF KillGroups, Strangers, osVars, runtimeVars, reportVars, Recorded
  <1>8. CASE KillDiscovered
    BY <1>8 DEF KillDiscovered, Strangers, osVars, runtimeVars, reportVars, Recorded
  <1>9. CASE CleanupEnd
    BY <1>9 DEF CleanupEnd, Return, osVars, Recorded
  <1>10. CASE CleanupInterrupted
    BY <1>10 DEF CleanupInterrupted, Return, osVars, runtimeVars, Recorded
  <1>11. QED
    BY <1>1, <1>2, <1>3, <1>4, <1>5, <1>6, <1>7, <1>8, <1>9, <1>10 DEF Cleanup

-----------------------------------------------------------------------------
(* The operating system *)

\* Which steps change the process table.
LEMMA OSUnchanged ==
    ASSUME [Next]_vars
    PROVE  \/ OperatingSystem
           \/ \E s \in Sessions, p \in Pids : process_started(s, p)
           \/ UNCHANGED osVars
  <1>1. CASE Runtime
    BY <1>1 DEF Runtime, process_group_members_updated, process_ended, Crash, fresh
  <1>2. CASE Cleanup
    BY <1>2 DEF Cleanup, CleanupBegin, ProbeLeader, ScanGroup, CheckLeader, ScanLeaderless,
                TermDiscovered, KillGroups, KillDiscovered, CleanupEnd, CleanupInterrupted
  <1>3. QED
    BY <1>1, <1>2 DEF Next, vars

LEMMA CreateProcess ==
    ASSUME TypeOK, StaleRecoveryAssumption, ProcessInv,
           NEW p \in Pids, NEW g \in Pids, NEW r \in Identity, Create(p, g, r),
           g = p \/ \E k \in alive : g = pgid[k] /\ r = root[k]
    PROVE  ProcessInv'
  <1> DEFINE n == NextBirth(p)
  <1>1. /\ n \in Identity /\ n[1] = p /\ n[2] = births[p] + 1 /\ pid(n) = p
        /\ births' = [births EXCEPT ![p] = @ + 1]
        /\ alive' = alive \cup {n}
        /\ pgid' = [pgid EXCEPT ![n] = g]
        /\ root' = [root EXCEPT ![n] = r]
    BY CreateTypes DEF Create, NextBirth, pid
  <1>2. \A i \in alive : i \in Identity /\ i[1] # p /\ pid(i) # p /\ pgid[i] # p
    BY DEF TypeOK, Create, Free, pid
  <1>3. n \notin alive
    BY <1>1, <1>2
  <1>4. /\ pgid'[n] = g /\ root'[n] = r
        /\ \A i \in alive : pgid'[i] = pgid[i] /\ root'[i] = root[i]
    BY <1>1, <1>2, <1>3 DEF TypeOK
  <1>5. \A i \in alive' : i[2] = births'[i[1]]
    BY <1>1, <1>2 DEF TypeOK, ProcessInv, Identity
  <1>6. \A i, j \in alive' : pgid'[i] = pid(j) => pgid'[j] = pid(j)
    BY <1>1, <1>2, <1>4 DEF ProcessInv
  <1>7. \A i, j \in alive' : pgid'[i] = pgid'[j] => root'[i] = root'[j]
    BY <1>1, <1>2, <1>4 DEF ProcessInv
  <1>8. QED
    BY <1>5, <1>6, <1>7 DEF ProcessInv, pid

LEMMA OnePerPid ==
    ASSUME TypeOK, ProcessInv, NEW i \in alive, NEW j \in Identity,
           pid(i) = pid(j), j[2] = births[pid(j)]
    PROVE  i = j
  BY DEF TypeOK, ProcessInv, Identity, pid

LEMMA ProcessStep ==
    ASSUME TypeOK, StaleRecoveryAssumption, ProcessInv, [Next]_vars
    PROVE  ProcessInv'
  <1>1. ASSUME NEW i \in Identity, Exit(i) PROVE ProcessInv'
    <2>1. alive' = alive \ {i} /\ births' = births
          /\ \A j \in alive' : pgid'[j] = pgid[j] /\ root'[j] = root[j]
      BY <1>1 DEF Exit, TypeOK
    <2>2. QED
      BY <2>1 DEF ProcessInv, pid
  <1>2. ASSUME NEW i \in Identity, Setsid(i) PROVE ProcessInv'
    \* Nobody is in the group that bears i's pid, i is not.
    <2>1. /\ i \in alive /\ alive' = alive /\ births' = births /\ root' = root
          /\ pgid[i] # pid(i) /\ pgid'[i] = pid(i)
          /\ \A j \in alive \ {i} : pgid'[j] = pgid[j]
      BY <1>2 DEF Setsid, TypeOK
    <2>2. \A j \in alive : pgid[j] # pid(i)
      BY <2>1 DEF ProcessInv
    <2>3. \A j \in alive : pid(j) = pid(i) => j = i
      BY <2>1, OnePerPid DEF TypeOK, ProcessInv, pid
    <2>4. QED
      BY <2>1, <2>2, <2>3 DEF ProcessInv, pid
  <1>3. ASSUME NEW i \in Identity, NEW p \in Pids, Fork(i, p) PROVE ProcessInv'
    <2>1. pgid[i] \in Pids /\ root[i] \in Identity
      BY DEF TypeOK
    <2>2. QED
      BY <1>3, <2>1, CreateProcess DEF Fork
  <1>4. ASSUME NEW p \in Pids, Stranger(p) PROVE ProcessInv'
    <2>1. NextBirth(p) \in Identity
      BY <1>4, NewIdentity DEF Stranger, Create
    <2>2. QED
      BY <1>4, <2>1, CreateProcess DEF Stranger
  <1>5. ASSUME NEW s \in Sessions, NEW p \in Pids, process_started(s, p) PROVE ProcessInv'
    <2>1. NextBirth(p) \in Identity
      BY <1>5, NewIdentity DEF process_started, Create
    <2>2. QED
      BY <1>5, <2>1, CreateProcess DEF process_started
  <1>6. ASSUME UNCHANGED osVars PROVE ProcessInv'
    BY <1>6 DEF osVars, ProcessInv, pid
  <1>7. QED
    BY <1>1, <1>2, <1>3, <1>4, <1>5, <1>6, OSUnchanged DEF Next, OperatingSystem

\* Births only grow, so a process that has died never comes back.
LEMMA StillDead ==
    ASSUME TypeOK, StaleRecoveryAssumption, [Next]_vars, NEW i \in Identity, Born(i)
    PROVE  Born(i)' /\ (i \notin alive => i \notin alive')
  <1>1. ASSUME NEW p \in Pids, NEW g, NEW r, Create(p, g, r)
        PROVE  Born(i)' /\ (i \notin alive => i \notin alive')
    <2>1. births[p] \in Nat /\ births[i[1]] \in Nat /\ i[2] \in Nat /\ i[1] \in Pids
      BY DEF TypeOK, Identity
    <2>2. births' = [births EXCEPT ![p] = @ + 1] /\ alive' = alive \cup {<<p, births[p] + 1>>}
      BY <1>1 DEF Create, NextBirth
    <2>3. i # <<p, births[p] + 1>>
      BY <2>1 DEF Born
    <2>4. Born(i)'
      BY <2>1, <2>2 DEF Born, TypeOK
    <2>5. QED
      BY <2>2, <2>3, <2>4
  <1>2. ASSUME births' = births, alive' \subseteq alive
        PROVE  Born(i)' /\ (i \notin alive => i \notin alive')
    BY <1>2 DEF Born
  <1>3. CASE OperatingSystem
    BY <1>1, <1>2, <1>3 DEF OperatingSystem, Exit, Setsid, Fork, Stranger
  <1>4. CASE \E s \in Sessions, p \in Pids : process_started(s, p)
    BY <1>1, <1>4 DEF process_started
  <1>5. CASE UNCHANGED osVars
    BY <1>2, <1>5 DEF osVars
  <1>6. QED
    BY <1>3, <1>4, <1>5, OSUnchanged

LEMMA LeaderStep ==
    ASSUME TypeOK, StaleRecoveryAssumption, ProcessInv, LeaderInv, [Next]_vars
    PROVE  LeaderInv'
  <1> DEFINE Kept == /\ leaders' = leaders
                     /\ \A s \in Sessions : records'[s] \in {records[s], None}
  <1>1. /\ \A i \in Identity : Born(i) => Born(i)'
        /\ \A i \in Identity : Born(i) /\ i \notin alive => i \notin alive'
    BY StillDead
  <1>2. leaders \subseteq Identity /\ alive \subseteq Identity
        /\ \A s \in Recorded : records[s] \in Record /\ records[s].members \subseteq Identity
    BY DEF TypeOK, Recorded, Record
  <1>3. ASSUME Kept
        PROVE  /\ \A l \in leaders' : Born(l)'
               /\ \A s \in Recorded' : records'[s].leader \in leaders'
                                       /\ \A i \in records'[s].members : Born(i)'
    <2>1. Recorded' \subseteq Recorded /\ \A s \in Recorded' : records'[s] = records[s]
      BY <1>3 DEF Recorded
    <2>2. QED
      BY <1>1, <1>2, <1>3, <2>1 DEF LeaderInv
  <1>4. ASSUME leaders' = leaders,
               \A l \in leaders \cap alive' : pgid'[l] = pgid[l] /\ root'[l] = root[l]
        PROVE  \A l \in leaders' \cap alive' : pgid'[l] = pid(l) /\ root'[l] = l
    BY <1>1, <1>2, <1>4 DEF LeaderInv
  <1>5. ASSUME NEW p \in Pids, NEW g, NEW r, Create(p, g, r)
        PROVE  /\ NextBirth(p) \notin leaders
               /\ \A l \in leaders \cap alive' : pgid'[l] = pgid[l] /\ root'[l] = root[l]
    <2>1. births[p] \in Nat /\ NextBirth(p)[2] = births[p] + 1 /\ NextBirth(p)[1] = p
      BY DEF TypeOK, NextBirth
    <2>2. NextBirth(p) \notin leaders
      BY <2>1 DEF LeaderInv, Born
    <2>3. QED
      BY <1>2, <1>5, <2>2 DEF Create, TypeOK
  <1>6. CASE OperatingSystem
    <2>1. Kept
      BY <1>6 DEF OperatingSystem, Exit, Setsid, Fork, Stranger, runtimeVars
    <2>2. \A l \in leaders \cap alive' : pgid'[l] = pgid[l] /\ root'[l] = root[l]
      <3>1. ASSUME NEW i \in Identity, Exit(i)
            PROVE  \A l \in leaders \cap alive' : pgid'[l] = pgid[l] /\ root'[l] = root[l]
        BY <1>2, <3>1 DEF Exit, TypeOK
      <3>2. ASSUME NEW i \in Identity, Setsid(i)
            PROVE  \A l \in leaders \cap alive' : pgid'[l] = pgid[l] /\ root'[l] = root[l]
        BY <1>2, <3>2 DEF Setsid, TypeOK, LeaderInv
      <3>3. QED
        BY <1>5, <1>6, <3>1, <3>2 DEF OperatingSystem, Fork, Stranger
    <2>3. QED
      BY <1>3, <1>4, <2>1, <2>2 DEF LeaderInv, Kept, pid, Recorded
  <1>7. ASSUME NEW s \in Sessions, NEW p \in Pids, process_started(s, p) PROVE LeaderInv'
    <2> DEFINE n == NextBirth(p)
    <2>1. /\ n \in Identity /\ n[1] = p /\ n[2] = births[p] + 1 /\ pid(n) = p
          /\ births[p] \in Nat
          /\ Create(p, p, n)
          /\ leaders' = leaders \cup {n}
          /\ records' = [records EXCEPT ![s] = [leader |-> n, members |-> {}]]
      BY <1>7, NewIdentity DEF process_started, NextBirth, pid, TypeOK, Create
    <2>2. births'[p] = births[p] + 1 /\ pgid'[n] = p /\ root'[n] = n
      BY <2>1 DEF Create, TypeOK
    <2>3. \A l \in leaders' : Born(l)'
      BY <1>1, <1>2, <2>1, <2>2 DEF LeaderInv, Born
    <2>4. \A l \in leaders \cap alive' : pgid'[l] = pgid[l] /\ root'[l] = root[l]
      BY <1>5, <2>1
    <2>5. \A l \in leaders' \cap alive' : pgid'[l] = pid(l) /\ root'[l] = l
      BY <1>1, <1>2, <2>1, <2>2, <2>4 DEF LeaderInv
    <2>6. \A t \in Recorded' : records'[t].leader \in leaders'
                               /\ \A i \in records'[t].members : Born(i)'
      <3>1. records'[s] = [leader |-> n, members |-> {}]
            /\ \A t \in Sessions \ {s} : records'[t] = records[t]
        BY <2>1 DEF TypeOK
      <3>2. QED
        BY <1>1, <1>2, <2>1, <3>1 DEF LeaderInv, Recorded
    <2>7. QED
      BY <2>3, <2>5, <2>6 DEF LeaderInv, pid
  <1>8. ASSUME NEW s \in Sessions, process_group_members_updated(s) PROVE LeaderInv'
    <2>1. UNCHANGED <<births, alive, pgid, root, leaders>>
      BY <1>8 DEF process_group_members_updated, osVars
    <2>2. PICK m \in SUBSET (alive \cup records[s].members) :
              records' = [records EXCEPT ![s].members = m]
      BY <1>8 DEF process_group_members_updated, process_group_members
    <2>3. s \in Recorded /\ records[s] \in Record
      BY <1>8 DEF process_group_members_updated, TypeOK, Recorded
    <2>4. records'[s].leader = records[s].leader /\ records'[s].members = m
          /\ \A t \in Sessions \ {s} : records'[t] = records[t]
      BY <2>2, <2>3 DEF TypeOK, Record
    <2>5. \A i \in m : Born(i)
      <3>1. \A i \in alive : Born(i)
        BY <1>2 DEF ProcessInv, Born, TypeOK, Identity
      <3>2. QED
        BY <2>3, <3>1 DEF LeaderInv
    <2>6. QED
      BY <2>1, <2>3, <2>4, <2>5 DEF LeaderInv, Born, Recorded, pid
  <1>9. ASSUME UNCHANGED osVars, Kept PROVE LeaderInv'
    BY <1>3, <1>4, <1>9 DEF osVars, LeaderInv, pid, Recorded
  <1>10. CASE Runtime
    BY <1>7, <1>8, <1>9, <1>10 DEF Runtime, process_ended, Crash, fresh, TypeOK
  <1>11. CASE Cleanup
    BY <1>9, <1>11 DEF Cleanup, CleanupBegin, ProbeLeader, ScanGroup, CheckLeader, ScanLeaderless,
                TermDiscovered, KillGroups, KillDiscovered, CleanupEnd, CleanupInterrupted,
                runtimeVars
  <1>12. CASE UNCHANGED vars
    BY <1>9, <1>12 DEF vars, runtimeVars
  <1>13. QED
    BY <1>6, <1>10, <1>11, <1>12 DEF Next

-----------------------------------------------------------------------------
(* The cleanup *)

\* While a cleanup runs the processes only exit, move out of an owned group or
\* fork; what was covered stays covered.
LEMMA CoveredOS ==
    ASSUME TypeOK, StaleRecoveryAssumption, ProcessInv, LeaderInv, CleanupInv, OperatingSystem
    PROVE  CleanupInv'
  <1>1. UNCHANGED <<runtimeVars, cleanupVars, scanned>> /\ late \subseteq late'
    BY DEF OperatingSystem, Exit, Setsid, Fork, Stranger, ghostVars
  <1> USE <1>1 DEF runtimeVars, cleanupVars, reportVars
  <1>2. \A s \in Recorded : /\ records[s].leader \in Identity
                            /\ records[s].leader \notin alive => records[s].leader \notin alive'
    BY StillDead DEF LeaderInv, TypeOK, Next
  <1>3. ASSUME NEW s \in Recorded, Covered(s) PROVE Covered(s)'
    BY <1>2, <1>3 DEF Covered, persisted_members
  <1>4. ASSUME NEW s \in scanned, s \in Recorded, GroupCovered(s) PROVE GroupCovered(s)'
    <2> DEFINE l == records[s].leader
    <2>1. l \in leaders /\ l \in Identity /\ Born(l) /\ births[pid(l)] \in Nat /\ l[2] \in Nat
      BY <1>2, <1>4 DEF LeaderInv, TypeOK, Identity, pid
    <2>2. SUFFICES ASSUME ~unresolved, NEW i \in OwnedGroup(l)'
                   PROVE  i \in OwnedGroup(l) \cup late'
      BY <1>4 DEF GroupCovered
    <2>3. i \in alive' /\ pgid'[i] = pid(l) /\ births'[pid(l)] = l[2]
      BY <2>2 DEF OwnedGroup, pid
    <2>4. ASSUME NEW j \in Identity, Exit(j) PROVE i \in OwnedGroup(l)
      BY <2>3, <2>4 DEF Exit, TypeOK, OwnedGroup
    <2>5. ASSUME NEW j \in Identity, Setsid(j) PROVE i \in OwnedGroup(l)
      <3>1. CASE i = j
        \* j would be the last process that bore the leader's pid: the leader.
        <4>1. pid(i) = pid(l) /\ i \in alive /\ births[pid(l)] = l[2] /\ pgid[i] # pid(i)
          BY <2>3, <2>5, <3>1 DEF Setsid, TypeOK
        <4>2. i = l
          BY <2>1, <4>1, OnePerPid
        <4>3. QED
          BY <2>1, <4>1, <4>2 DEF LeaderInv
      <3>2. CASE i # j
        BY <2>3, <2>5, <3>2 DEF Setsid, TypeOK, OwnedGroup
      <3>3. QED
        BY <3>1, <3>2
    <2>6. ASSUME NEW p \in Pids, NEW g, NEW r, Create(p, g, r), i # NextBirth(p)
          PROVE  i \in OwnedGroup(l)
      <3>1. p # pid(l)
        BY <2>1, <2>3, <2>6 DEF Create, TypeOK, Born, pid
      <3>2. QED
        BY <2>3, <2>6, <3>1 DEF Create, TypeOK, OwnedGroup
    <2>7. ASSUME NEW j \in Identity, NEW p \in Pids, Fork(j, p), i = NextBirth(p)
          PROVE  i \in late'
      <3>1. pgid'[i] = pgid[j]
        BY <2>3, <2>7, NewIdentity DEF Fork, Create, TypeOK
      <3>2. QED
        BY <1>4, <2>3, <2>7, <3>1 DEF Fork, Recorded
    <2>8. ASSUME NEW p \in Pids, Stranger(p), i = NextBirth(p) PROVE FALSE
      <3>1. pgid'[i] = p
        BY <2>3, <2>8, NewIdentity DEF Stranger, Create, TypeOK
      <3>2. births'[p] = births[p] + 1
        BY <2>8 DEF Stranger, Create, TypeOK
      <3>3. QED
        BY <2>1, <2>3, <3>1, <3>2 DEF Born, pid
    <2>9. QED
      BY <2>4, <2>5, <2>6, <2>7, <2>8 DEF OperatingSystem, Fork, Stranger
  <1>5. pc # "idle" => ~up /\ \A s \in (Recorded \ todo)' : Covered(s)'
    BY <1>3 DEF CleanupInv, Recorded
  <1>6. \A s \in scanned' : s \in Recorded' /\ GroupCovered(s)'
    BY <1>4 DEF CleanupInv, Recorded
  <1>7. pc = "leaderless" => records[cur].leader \notin alive'
    BY <1>2 DEF CleanupInv, TypeOK
  <1>8. QED
    BY <1>5, <1>6, <1>7 DEF CleanupInv, persisted_members

\* The runtime only runs between cleanups.
LEMMA CoveredRuntime ==
    ASSUME TypeOK, CleanupInv, Runtime
    PROVE  CleanupInv'
  <1>1. pc = "idle"
    BY DEF Runtime, process_started, process_group_members_updated, process_ended, Crash, fresh,
           CleanupInv
  <1>2. UNCHANGED <<cleanupVars, ghostVars>> /\ leaders \subseteq leaders'
    BY DEF Runtime, process_started, process_group_members_updated, process_ended, Crash, fresh
  <1>3. QED
    BY <1>1, <1>2 DEF CleanupInv, cleanupVars, ghostVars

LEMMA CoveredCleanup ==
    ASSUME TypeOK, LeaderInv, CleanupInv, Cleanup
    PROVE  CleanupInv'
  <1>1. UNCHANGED osVars
    BY DEF Cleanup, CleanupBegin, ProbeLeader, ScanGroup, CheckLeader, ScanLeaderless,
           TermDiscovered, KillGroups, KillDiscovered, CleanupEnd, CleanupInterrupted
  <1> USE <1>1 DEF osVars
  <1>2. CASE CleanupBegin
    BY <1>2 DEF CleanupBegin, CleanupInv, GroupCovered, OwnedGroup, Recorded, runtimeVars,
                 ghostVars, reportVars
  <1>3. ASSUME NEW s \in Sessions, ProbeLeader(s) PROVE CleanupInv'
    <2>1. /\ UNCHANGED <<runtimeVars, matched, unresolved, ghostVars>>
          /\ discovered' = discovered \cup persisted_members(s)
          /\ mismatch => mismatch'
      BY <1>3 DEF ProbeLeader
    <2> USE <2>1 DEF runtimeVars, ghostVars
    <2>2. \A t \in Recorded : Covered(t) => Covered(t)'
      BY DEF Covered, persisted_members
    <2>3. \A t \in Recorded : GroupCovered(t) => GroupCovered(t)'
      BY DEF GroupCovered, OwnedGroup
    <2>4. Recorded' = Recorded /\ persisted_members(s)' = persisted_members(s)
      BY DEF Recorded, persisted_members
    <2>5. CASE NextRecord(s) /\ mismatch'
      <3>1. Covered(s)'
        BY <2>4, <2>5 DEF Covered
      <3>2. QED
        BY <1>3, <2>2, <2>3, <2>4, <2>5, <3>1 DEF ProbeLeader, NextRecord, CleanupInv
    <2>6. CASE pc' = "scan" /\ cur' = s /\ todo' = todo
      BY <1>3, <2>2, <2>3, <2>4, <2>6 DEF ProbeLeader, CleanupInv, persisted_members
    <2>7. CASE pc' = "leaderless" /\ cur' = s /\ todo' = todo /\ records[s].leader \notin alive
      BY <1>3, <2>2, <2>3, <2>4, <2>7 DEF ProbeLeader, CleanupInv, persisted_members
    <2>8. QED
      BY <1>3, <2>5, <2>6, <2>7 DEF ProbeLeader, pid
  <1>4. CASE ScanGroup
    <2>1. /\ UNCHANGED <<runtimeVars, todo, cur, matched, reportVars, late>>
          /\ scanned' = scanned \cup {cur} /\ cur \in todo /\ cur \in Recorded
          /\ discovered \subseteq discovered'
          /\ process_group_members(pid(records[cur].leader))
                \subseteq discovered' \cup {records[cur].leader}
      BY <1>4 DEF ScanGroup, TypeOK
    <2> USE <2>1 DEF runtimeVars, reportVars
    <2>2. \A t \in Recorded : Covered(t) => Covered(t)'
      BY DEF Covered, persisted_members
    <2>3. \A t \in Recorded : GroupCovered(t) => GroupCovered(t)'
      BY DEF GroupCovered, OwnedGroup
    <2>4. GroupCovered(cur)'
      BY DEF GroupCovered, OwnedGroup, process_group_members
    <2>5. QED
      BY <1>4, <2>2, <2>3, <2>4 DEF ScanGroup, CleanupInv, Recorded, persisted_members
  <1>5. CASE CheckLeader
    <2>1. /\ UNCHANGED <<runtimeVars, discovered, unresolved, scanned, late>>
          /\ matched \subseteq matched' /\ (mismatch => mismatch')
          /\ cur \in todo /\ cur \in Recorded /\ pc = "check"
          /\ mismatch' \/ records[cur].leader \in matched'
          /\ matched' \subseteq matched \cup {records[cur].leader}
      BY <1>5 DEF CheckLeader, TypeOK
    <2> USE <2>1 DEF runtimeVars
    <2>2. \A t \in Recorded : Covered(t) => Covered(t)'
      BY DEF Covered, persisted_members
    <2>3. \A t \in Recorded : GroupCovered(t) => GroupCovered(t)'
      BY DEF GroupCovered, OwnedGroup
    <2>5. /\ persisted_members(cur) \subseteq discovered
          /\ cur \in scanned /\ records[cur].leader \in leaders
      BY DEF CleanupInv, LeaderInv
    <2>6. \A t \in Recorded : t = cur => Covered(t)'
      BY <2>5 DEF Covered, persisted_members
    <2>7. \A t \in (Recorded \ todo)' : Covered(t)'
      <3>1. (Recorded \ todo)' = (Recorded \ todo) \cup {cur}
        BY <1>5 DEF CheckLeader, NextRecord, Recorded
      <3>2. QED
        BY <2>2, <2>6, <3>1 DEF CleanupInv
    <2>8. QED
      BY <1>5, <2>3, <2>5, <2>7 DEF CheckLeader, NextRecord, CleanupInv, Recorded
  <1>6. CASE ScanLeaderless
    <2>1. /\ UNCHANGED <<runtimeVars, matched, mismatch, late>>
          /\ scanned' = scanned \cup {cur} /\ (unresolved => unresolved')
          /\ discovered \subseteq discovered'
          /\ cur \in todo /\ cur \in Recorded /\ pc = "leaderless"
          /\ unresolved' \/ process_group_members(pid(records[cur].leader)) \subseteq discovered'
      BY <1>6 DEF ScanLeaderless, TypeOK
    <2> USE <2>1 DEF runtimeVars
    <2>2. \A t \in Recorded : Covered(t) => Covered(t)'
      BY DEF Covered, persisted_members
    <2>3. \A t \in Recorded : GroupCovered(t) => GroupCovered(t)'
      BY DEF GroupCovered, OwnedGroup
    <2>4. \A t \in Recorded : t = cur => GroupCovered(t)'
      BY DEF GroupCovered, OwnedGroup, process_group_members
    <2>5. /\ persisted_members(cur) \subseteq discovered
          /\ records[cur].leader \notin alive
      BY DEF CleanupInv
    <2>6. \A t \in (Recorded \ todo)' : Covered(t)'
      <3>1. (Recorded \ todo)' = (Recorded \ todo) \cup {cur}
        BY <1>6 DEF ScanLeaderless, NextRecord, Recorded
      <3>2. QED
        BY <2>2, <2>5, <3>1 DEF Covered, CleanupInv, persisted_members
    <2>7. QED
      BY <1>6, <2>3, <2>4, <2>6 DEF ScanLeaderless, NextRecord, CleanupInv, Recorded
  <1>7. CASE TermDiscovered \/ KillGroups \/ KillDiscovered
    <2>1. /\ UNCHANGED <<runtimeVars, todo, cur, matched, reportVars, scanned, late>>
          /\ discovered' \cup matched' = discovered \cup matched
          /\ todo = {} /\ pc # "idle" /\ pc' \in {"kill_groups", "kill", "final"}
      BY <1>7 DEF TermDiscovered, KillGroups, KillDiscovered, CleanupInv
    <2> USE <2>1 DEF runtimeVars, reportVars
    <2>2. \A t \in Recorded : Covered(t) => Covered(t)'
      BY DEF Covered, persisted_members
    <2>3. \A t \in Recorded : GroupCovered(t) => GroupCovered(t)'
      BY DEF GroupCovered, OwnedGroup
    <2>4. QED
      BY <2>2, <2>3 DEF CleanupInv, Recorded
  <1>8. CASE CleanupEnd \/ CleanupInterrupted
    BY <1>8 DEF CleanupEnd, CleanupInterrupted, Return, CleanupInv, runtimeVars
  <1>9. QED
    BY <1>2, <1>3, <1>4, <1>5, <1>6, <1>7, <1>8 DEF Cleanup

\* A group is only signalled while its leader lives, and then all of its
\* members descend from that leader.
LEMMA GroupStep ==
    ASSUME TypeOK, ProcessInv, LeaderInv, CleanupInv, ~strayGroup, [Next]_vars
    PROVE  ~strayGroup'
  <1>1. \A l \in leaders \cap alive : ~Strangers(process_group_members(pid(l)))
    BY DEF ProcessInv, LeaderInv, Strangers, process_group_members
  <1>2. CASE CheckLeader
    BY <1>1, <1>2 DEF CheckLeader, leader_confirmed, LeaderInv, TypeOK
  <1>3. CASE KillGroups
    BY <1>1, <1>3 DEF KillGroups, CleanupInv
  <1>4. CASE OperatingSystem \/ Runtime
    BY <1>4 DEF OperatingSystem, Exit, Setsid, Fork, Stranger, Runtime, process_started,
                process_group_members_updated, process_ended, Crash, fresh, ghostVars
  <1>5. QED
    BY <1>2, <1>3, <1>4 DEF Next, Cleanup, CleanupBegin, ProbeLeader, ScanGroup, ScanLeaderless,
                TermDiscovered, KillDiscovered, CleanupEnd, CleanupInterrupted, ghostVars, vars

-----------------------------------------------------------------------------
(* Theorems *)

LEMMA RecoveryInit ==
    ASSUME StaleRecoveryAssumption, Init
    PROVE  RecoveryInv
  <1>1. \A i \in Identity : pid(i) \in Pids
    BY DEF Identity, pid
  <1>2. TypeOK
    <2>1. births \in [Pids -> 0..MaxBirth]
      BY DEF Init, StaleRecoveryAssumption
    <2>2. pgid \in [Identity -> Pids] /\ root \in [Identity -> Identity]
      BY <1>1 DEF Init
    <2>3. records \in [Sessions -> Record \cup {None}]
      BY DEF Init
    <2>4. QED
      BY <2>1, <2>2, <2>3 DEF Init, TypeOK
  <1>3. ProcessInv /\ LeaderInv /\ CleanupInv /\ ~strayGroup
    BY DEF Init, ProcessInv, LeaderInv, CleanupInv, Recorded
  <1>4. QED
    BY <1>2, <1>3 DEF RecoveryInv

LEMMA RecoveryStep ==
    ASSUME StaleRecoveryAssumption, RecoveryInv, [Next]_vars
    PROVE  RecoveryInv'
  <1> USE DEF RecoveryInv
  <1>1. TypeOK'
    <2>1. up => IdleCleanup
      BY DEF CleanupInv, IdleCleanup
    <2>2. CASE UNCHANGED vars
      BY <2>2 DEF vars, osVars, runtimeVars, cleanupVars, reportVars, ghostVars, TypeOK, Recorded
    <2>3. QED
      BY <2>1, <2>2, TypeOKOS, TypeOKRuntime, TypeOKCleanup DEF Next
  <1>2. ProcessInv' /\ LeaderInv'
    BY ProcessStep, LeaderStep
  <1>3. CleanupInv'
    <2>1. CASE UNCHANGED vars
      BY <2>1 DEF vars, osVars, runtimeVars, cleanupVars, reportVars, ghostVars, CleanupInv,
                  Covered, GroupCovered, OwnedGroup, Recorded, persisted_members
    <2>2. QED
      BY <2>1, CoveredOS, CoveredRuntime, CoveredCleanup DEF Next
  <1>4. ~strayGroup'
    BY GroupStep
  <1>5. QED
    BY <1>1, <1>2, <1>3, <1>4

\* The inductive invariant of the registry and its recovery.
THEOREM RecoveryInvariant == Spec => []RecoveryInv
  <1>1. Init => RecoveryInv
    BY RecoveryInit, StaleRecoveryAssumption
  <1>2. RecoveryInv /\ [Next]_vars => RecoveryInv'
    BY RecoveryStep, StaleRecoveryAssumption
  <1>3. QED
    BY <1>1, <1>2, PTL DEF Spec

\* Every variable of the recovery keeps its type.
THEOREM RecoveryTypeCorrect == Spec => []TypeOK
  BY RecoveryInvariant, PTL DEF RecoveryInv

\* However pids are reused, the group signals of
\* terminate_matching_stale_processes reach descendants of owned leaders only.
THEOREM GroupSignalsSafe == Spec => []GroupSignalsOwned
  <1>1. RecoveryInv => GroupSignalsOwned
    BY DEF RecoveryInv, GroupSignalsOwned
  <1>2. QED
    BY <1>1, RecoveryInvariant, PTL

\* What the last step of a cleanup that clears the registry knows.
LEMMA ClearingStep ==
    ASSUME RecoveryInv, [Next]_vars, Clears
    PROVE  /\ CleanupEnd /\ resolved
           /\ \A s \in Recorded : Covered(s) /\ GroupCovered(s) /\ s \in scanned
  <1>1. pc = "final" /\ ~up /\ todo = {} /\ \A s \in Recorded : Covered(s)
    BY DEF Clears, RecoveryInv, CleanupInv
  <1>2. PICK s \in Recorded : records'[s] = None
    BY DEF Clears, Recorded
  <1>3. records' # records
    BY <1>2 DEF Recorded
  <1>4. CleanupEnd /\ resolved
    <2>1. ~OperatingSystem
      BY <1>3 DEF OperatingSystem, Exit, Setsid, Fork, Stranger, runtimeVars
    <2>2. ~Runtime
      BY <1>1, <1>3 DEF Runtime, process_started, process_group_members_updated, process_ended,
                         Crash, fresh
    <2>3. CleanupEnd
      BY <1>1, <1>3, <2>1, <2>2 DEF Next, vars, runtimeVars, Cleanup, CleanupBegin, ProbeLeader,
             ScanGroup, CheckLeader, ScanLeaderless, TermDiscovered, KillGroups, KillDiscovered,
             CleanupInterrupted
    <2>4. QED
      BY <1>3, <2>3 DEF CleanupEnd
  <1>5. \A t \in Recorded : GroupCovered(t) /\ t \in scanned
    BY <1>1, <1>4 DEF resolved, Covered, RecoveryInv, CleanupInv
  <1>6. QED
    BY <1>1, <1>4, <1>5

\* The registry is cleared only when every process that it names is dead.
THEOREM ClearedSafe == Spec => ClearedMeansRecordedDead
  <1>1. ASSUME RecoveryInv, [Next]_vars, Clears
        PROVE  \A s \in Recorded : records[s].leader \notin alive
                                   /\ records[s].members \cap alive = {}
    BY <1>1, ClearingStep DEF resolved, survivors, Covered, persisted_members
  <1>2. RecoveryInv /\ [Next]_vars =>
            [Clears => \A s \in Recorded : records[s].leader \notin alive
                                           /\ records[s].members \cap alive = {}]_vars
    BY <1>1
  <1>3. QED
    BY <1>2, RecoveryInvariant, PTL DEF Spec, ClearedMeansRecordedDead

\* The registry is cleared only when the owned groups are empty but for
\* children forked after the scan.
THEOREM ClearedGroupSafe == Spec => ClearedMeansGroupDead
  <1>1. ASSUME RecoveryInv, [Next]_vars, Clears
        PROVE  \A s \in Recorded : OwnedGroup(records[s].leader) \subseteq late
    <2>1. \A s \in Recorded : OwnedGroup(records[s].leader) \subseteq alive
      BY DEF OwnedGroup
    <2>2. QED
      BY <1>1, <2>1, ClearingStep DEF resolved, survivors, Covered, GroupCovered
  <1>2. RecoveryInv /\ [Next]_vars =>
            [Clears => \A s \in Recorded : OwnedGroup(records[s].leader) \subseteq late]_vars
    BY <1>1
  <1>3. QED
    BY <1>2, RecoveryInvariant, PTL DEF Spec, ClearedMeansGroupDead

-----------------------------------------------------------------------------
(***************************************************************************)
(* Starts, stops, crashes and shutdowns share one runtime directory and do *)
(* not disturb one another, for any number of commands and launches, while *)
(* START_READY_TIMEOUT suffices and the shutdown of a runtime reports no   *)
(* error (Timely).                                                         *)
(***************************************************************************)
ComingUp == {"exec", "boot", "handoff", "publish", "host"}
Aborting == {"abort", "abort_tunnel", "abort_sessions", "abort_state"}
Shutdown == {"stopping", "ingress", "detach", "halt", "clear"}
AfterHost == {"spawn", "record", "wait", "discover", "serve"} \cup Shutdown
RuntimeSteps == {"none", "dead"} \cup ComingUp \cup AfterHost \cup Aborting
Waiting == {"idle", "lock", "done"}
CommandSteps == Waiting \cup {"check", "stopwait", "tunnel", "sessions", "clear", "prepare", "state",
                              "spawn", "await", "partial"}

RuntimeRecord == [pc : RuntimeSteps, boot : Launch \cup {Nil}, serving : BOOLEAN, term : BOOLEAN,
                  error : BOOLEAN]
DirectoryRecord ==
    [bootstrap : Launch \cup {Nil}, handoff : BOOLEAN, state : StateRecord \cup {Nil},
     discovery : Launch \cup {Nil}, tunnel : Launch \cup {Nil}, registry : RegistryRecord \cup {Nil}]
CommandRecord ==
    [pc : CommandSteps, goal : {"start", "stop"}, launch : Launch \cup {Nil}, attempt : Nat,
     retry : BOOLEAN, seen : StateRecord \cup {Nil}, result : {"none", "ok", "error"}]

LifecycleTyped ==
    /\ dir \in DirectoryRecord /\ rt \in [Launch -> RuntimeRecord]
    /\ child \in [Launch -> {"none", "up"}] /\ session \in [Launch -> {"none", "up", "ended"}]
    /\ launches \in 0..MaxLaunches /\ lock \in Commands \cup {Nil} /\ cmd \in [Commands -> CommandRecord]

\* The lock is held by the command that works on the directory.
LockHeld == \A c \in Commands : cmd[c].pc \notin Waiting <=> lock = c

\* A process goes through the steps it was launched for, and shuts down
\* without an error only from serving.
StepsOf(r) ==
    /\ rt[r].pc = "none" => session[r] = "none"
    /\ rt[r].pc \in {"serve"} \cup Shutdown => rt[r].serving
    /\ rt[r].serving => rt[r].pc \in AfterHost
    /\ rt[r].pc \notin Aborting => rt[r].error = FALSE
    /\ rt[r].pc \in {"handoff", "publish", "host"} \cup AfterHost => rt[r].boot = r
Steps == \A r \in Launch : StepsOf(r)

\* The files name the process, and while it is coming up a start waits for it.
Named(r) ==
    /\ dir.bootstrap = r
    /\ dir.state # Nil /\ dir.state.id = r /\ dir.state.process \in {Nil, r}
    /\ rt[r].pc \in {"host"} \cup AfterHost => dir.state.process = r
    /\ dir.discovery = r => rt[r].serving
    /\ rt[r].serving \/ \E c \in Commands : At(c, "await")
\* Only the last launch can be alive.
OnlyLast == \A r \in Launch : Live(r) => r = launches /\ Named(r)
Unlaunched == \A r \in Launch : r > launches => rt[r].pc = "none"

\* What the command that holds the lock relies on at each step.
ReliesOn(c) ==
    /\ cmd[c].pc \notin Waiting \cup {"check", "stopwait", "await"} => \A r \in Launch : ~Live(r)
    /\ At(c, "stopwait") => cmd[c].seen # Nil /\ cmd[c].seen.process = launches /\ launches # 0
    /\ cmd[c].pc \in {"state", "spawn", "await"} => cmd[c].launch = launches /\ launches # 0
    /\ cmd[c].pc \in {"state", "spawn"} => rt[launches].pc = "none" /\ dir.bootstrap = launches
    /\ cmd[c].pc \in {"prepare", "state", "spawn"} => dir.discovery = Nil
    /\ At(c, "spawn") => dir.state # Nil /\ dir.state.id = launches /\ dir.state.process = Nil
    /\ cmd[c].pc \in {"sessions", "clear"} => dir.tunnel = Nil
    /\ At(c, "clear") => \A r \in Launch : session[r] # "up"
Undisturbed == \A c \in Commands : ReliesOn(c)

\* A session that runs is the one the registry records.
SessionRecorded == \A r \in Launch : session[r] = "up" => dir.registry # Nil /\ dir.registry.owner = r
\* A process that could have had a session met no other.
AloneInRegistry(r) == \A q \in Launch \ {r} : session[q] # "up"
OwnOf(r) ==
    /\ Live(r) /\ (rt[r].pc \in AfterHost \/ session[r] # "none") => AloneInRegistry(r)
    /\ rt[r].pc \in ComingUp \cup {"clear"} => session[r] = "none"
OwnSession == \A r \in Launch : OwnOf(r)

LifecycleInv ==
    /\ LifecycleTyped /\ LockHeld /\ Steps /\ OnlyLast /\ Unlaunched
    /\ Undisturbed /\ SessionRecorded /\ OwnSession

\* The code's deadlines are met and its shutdown does not fail.
Timely == ~SlowStart /\ ~LateErrors

-----------------------------------------------------------------------------
(* What the helpers do to the records *)

LEMMA NilIsNothing ==
    /\ MaxLaunches \in Nat /\ Nil \notin Launch /\ Nil \notin Commands
    /\ \A st \in StateRecord : st # Nil
    /\ \A x \in RegistryRecord : x # Nil
BY LifecycleAssumption DEF Launch

LEMMA StepNames ==
    /\ {"none", "dead", "exec", "boot", "handoff", "publish", "host"} \subseteq RuntimeSteps
    /\ AfterHost \subseteq RuntimeSteps /\ Aborting \subseteq RuntimeSteps
    /\ ComingUp \cap AfterHost = {} /\ Aborting \cap (ComingUp \cup AfterHost) = {}
    /\ "dead" \notin ComingUp \cup AfterHost \cup Aborting
BY DEF RuntimeSteps, ComingUp, Aborting, AfterHost, Shutdown

\* Of the processes only r moves.
OnlyMoves(r) == rt' \in [Launch -> RuntimeRecord] /\ \A q \in Launch \ {r} : rt'[q] = rt[q]

LEMMA Goes ==
    ASSUME LifecycleTyped, NEW r \in Launch, NEW at \in RuntimeSteps, Goto(r, at)
    PROVE  /\ OnlyMoves(r) /\ rt'[r].pc = at /\ rt'[r].boot = rt[r].boot
           /\ rt'[r].serving = rt[r].serving /\ rt'[r].error = rt[r].error
<1>1. rt[r] \in RuntimeRecord
  BY DEF LifecycleTyped
<1>2. [rt[r] EXCEPT !.pc = at] \in RuntimeRecord
  BY <1>1 DEF RuntimeRecord
<1>3. rt' = [rt EXCEPT ![r] = [rt[r] EXCEPT !.pc = at]]
  BY DEF Goto
<1>4. [rt[r] EXCEPT !.pc = at].pc = at /\ [rt[r] EXCEPT !.pc = at].boot = rt[r].boot
      /\ [rt[r] EXCEPT !.pc = at].serving = rt[r].serving /\ [rt[r] EXCEPT !.pc = at].error = rt[r].error
  BY <1>1 DEF RuntimeRecord
<1> QED
  BY <1>2, <1>3, <1>4 DEF OnlyMoves, LifecycleTyped

LEMMA NoProcessIs ==
    ASSUME NEW at \in RuntimeSteps
    PROVE  /\ NoProcess(at) \in RuntimeRecord /\ NoProcess(at).pc = at
           /\ NoProcess(at).serving = FALSE /\ NoProcess(at).error = FALSE
BY DEF NoProcess, RuntimeRecord

LEMMA Ends ==
    ASSUME LifecycleTyped, NEW r \in Launch, Exits(r)
    PROVE  /\ OnlyMoves(r) /\ rt'[r].pc = "dead"
           /\ rt'[r].serving = FALSE /\ rt'[r].error = FALSE
<1>1. "dead" \in RuntimeSteps
  BY DEF RuntimeSteps
<1>2. rt' = [rt EXCEPT ![r] = NoProcess("dead")]
  BY DEF Exits
<1> QED
  BY <1>1, <1>2, NoProcessIs DEF OnlyMoves, LifecycleTyped

\* Without a late error only a process that does not serve yet fails.
LEMMA Failed ==
    ASSUME LifecycleTyped, Timely, NEW r \in Launch, Fails(r)
    PROVE  /\ OnlyMoves(r) /\ rt'[r].pc = "abort" /\ rt[r].serving = FALSE
           /\ rt'[r].serving = FALSE /\ rt'[r].boot = rt[r].boot
<1>1. rt[r] \in RuntimeRecord /\ "abort" \in RuntimeSteps /\ rt[r].serving = FALSE
  BY DEF LifecycleTyped, RuntimeSteps, Aborting, Timely, Fails, RuntimeRecord
<1> DEFINE x == [[rt[r] EXCEPT !.pc = "abort"] EXCEPT !.error = TRUE]
<1>2. x \in RuntimeRecord /\ x.pc = "abort" /\ x.serving = rt[r].serving /\ x.boot = rt[r].boot
  BY <1>1 DEF RuntimeRecord
<1>3. rt' = [rt EXCEPT ![r] = x]
  BY <1>1 DEF Fails
<1> HIDE DEF x
<1> QED
  BY <1>1, <1>2, <1>3 DEF OnlyMoves, LifecycleTyped

LEMMA Signalled ==
    ASSUME LifecycleTyped, NEW r \in Launch, SigTerm(r)
    PROVE  /\ OnlyMoves(r)
           /\ \/ /\ rt[r].serving /\ rt'[r].pc = rt[r].pc /\ rt'[r].serving = rt[r].serving
                 /\ rt'[r].boot = rt[r].boot /\ rt'[r].error = rt[r].error
              \/ rt'[r].pc = "dead" /\ rt'[r].serving = FALSE /\ rt'[r].error = FALSE
<1>1. rt[r] \in RuntimeRecord /\ "dead" \in RuntimeSteps
  BY DEF LifecycleTyped, RuntimeSteps
<1>2. CASE ~rt[r].serving
  BY <1>1, <1>2, NoProcessIs DEF OnlyMoves, LifecycleTyped, SigTerm
<1>3. CASE rt[r].serving
  <2> DEFINE x == [rt[r] EXCEPT !.term = TRUE]
  <2>1. x \in RuntimeRecord /\ x.pc = rt[r].pc /\ x.serving = rt[r].serving /\ x.boot = rt[r].boot
        /\ x.error = rt[r].error
    BY <1>1 DEF RuntimeRecord
  <2>2. rt' = [rt EXCEPT ![r] = x]
    BY <1>3 DEF SigTerm
  <2> HIDE DEF x
  <2> QED
    BY <1>3, <2>1, <2>2 DEF OnlyMoves, LifecycleTyped
<1> QED
  BY <1>2, <1>3

\* The directory but for its state.
OtherFiles(d, e) ==
    /\ e.bootstrap = d.bootstrap /\ e.handoff = d.handoff /\ e.discovery = d.discovery
    /\ e.tunnel = d.tunnel /\ e.registry = d.registry

LEMMA StatePut ==
    ASSUME NEW d \in DirectoryRecord, NEW st \in StateRecord
    PROVE  /\ [d EXCEPT !.state = st] \in DirectoryRecord
           /\ OtherFiles(d, [d EXCEPT !.state = st])
           /\ [d EXCEPT !.state = st].state = st /\ st # Nil
BY NilIsNothing DEF DirectoryRecord, OtherFiles

LEMMA StateWritten ==
    ASSUME NEW d \in DirectoryRecord, NEW id \in Launch, NEW p \in Launch \cup {Nil},
           NEW l \in {"starting", "ready", "stopping"}, NEW h \in BOOLEAN
    PROVE  LET st == [id |-> id, process |-> p, lifecycle |-> l, healthy |-> h]
               e == [d EXCEPT !.state = st]
           IN  /\ e \in DirectoryRecord /\ OtherFiles(d, e)
               /\ e.state # Nil /\ e.state.id = id /\ e.state.process = p
<1> DEFINE st == [id |-> id, process |-> p, lifecycle |-> l, healthy |-> h]
<1>1. st \in StateRecord /\ st.id = id /\ st.process = p
  BY DEF StateRecord
<1> HIDE DEF st
<1>2. /\ [d EXCEPT !.state = st] \in DirectoryRecord /\ OtherFiles(d, [d EXCEPT !.state = st])
      /\ [d EXCEPT !.state = st].state = st /\ st # Nil
  BY <1>1, StatePut
<1> QED
  BY <1>1, <1>2 DEF st

LEMMA DiscoveryWritten ==
    ASSUME NEW d \in DirectoryRecord, NEW l \in Launch \cup {Nil}
    PROVE  /\ [d EXCEPT !.discovery = l] \in DirectoryRecord
           /\ [d EXCEPT !.discovery = l].state = d.state
           /\ [d EXCEPT !.discovery = l].discovery = l
           /\ [d EXCEPT !.discovery = l].bootstrap = d.bootstrap
           /\ [d EXCEPT !.discovery = l].registry = d.registry
           /\ [d EXCEPT !.discovery = l].tunnel = d.tunnel
BY DEF DirectoryRecord

LEMMA TunnelWritten ==
    ASSUME NEW d \in DirectoryRecord, NEW l \in Launch \cup {Nil}
    PROVE  /\ [d EXCEPT !.tunnel = l] \in DirectoryRecord
           /\ [d EXCEPT !.tunnel = l].state = d.state
           /\ [d EXCEPT !.tunnel = l].discovery = d.discovery
           /\ [d EXCEPT !.tunnel = l].bootstrap = d.bootstrap
           /\ [d EXCEPT !.tunnel = l].registry = d.registry
           /\ [d EXCEPT !.tunnel = l].tunnel = l
BY DEF DirectoryRecord

LEMMA HandoffWritten ==
    ASSUME NEW d \in DirectoryRecord, NEW b \in BOOLEAN
    PROVE  /\ [d EXCEPT !.handoff = b] \in DirectoryRecord
           /\ [d EXCEPT !.handoff = b].state = d.state
           /\ [d EXCEPT !.handoff = b].discovery = d.discovery
           /\ [d EXCEPT !.handoff = b].bootstrap = d.bootstrap
           /\ [d EXCEPT !.handoff = b].registry = d.registry
           /\ [d EXCEPT !.handoff = b].tunnel = d.tunnel
BY DEF DirectoryRecord

LEMMA BootstrapWritten ==
    ASSUME NEW d \in DirectoryRecord, NEW l \in Launch \cup {Nil}
    PROVE  /\ [d EXCEPT !.bootstrap = l] \in DirectoryRecord
           /\ [d EXCEPT !.bootstrap = l].state = d.state
           /\ [d EXCEPT !.bootstrap = l].discovery = d.discovery
           /\ [d EXCEPT !.bootstrap = l].bootstrap = l
           /\ [d EXCEPT !.bootstrap = l].registry = d.registry
           /\ [d EXCEPT !.bootstrap = l].tunnel = d.tunnel
BY DEF DirectoryRecord

LEMMA RegistryWritten ==
    ASSUME NEW d \in DirectoryRecord, NEW x \in RegistryRecord \cup {Nil}
    PROVE  /\ [d EXCEPT !.registry = x] \in DirectoryRecord
           /\ [d EXCEPT !.registry = x].state = d.state
           /\ [d EXCEPT !.registry = x].discovery = d.discovery
           /\ [d EXCEPT !.registry = x].bootstrap = d.bootstrap
           /\ [d EXCEPT !.registry = x].registry = x
           /\ [d EXCEPT !.registry = x].tunnel = d.tunnel
BY DEF DirectoryRecord

LEMMA Emptied ==
    /\ EmptyDirectory \in DirectoryRecord /\ EmptyDirectory.registry = Nil
    /\ EmptyDirectory.tunnel = Nil /\ EmptyDirectory.state = Nil /\ EmptyDirectory.discovery = Nil
BY DEF EmptyDirectory, DirectoryRecord

-----------------------------------------------------------------------------
(* The runtime's steps *)

\* A step of the live process r, which no other process and no command sees
\* but in the directory.
RuntimeMoves(r) ==
    /\ Live(r) /\ OnlyMoves(r) /\ dir' \in DirectoryRecord
    /\ child' \in [Launch -> {"none", "up"}] /\ session' \in [Launch -> {"none", "up", "ended"}]
    /\ UNCHANGED <<launches, lock, cmd>>

LEMMA LiveStep ==
    ASSUME LifecycleInv, NEW r \in Launch, RuntimeMoves(r),
           \A q \in Launch \ {r} : session'[q] = session[q] \/ (session[q] # "none" /\ session'[q] # "up"),
           StepsOf(r)', Live(r)' => Named(r)', OwnOf(r)', SessionRecorded'
    PROVE  LifecycleInv'
<1>1. LifecycleTyped'
  BY DEF RuntimeMoves, OnlyMoves, LifecycleInv, LifecycleTyped
<1>2. LockHeld'
  BY DEF RuntimeMoves, LifecycleInv, LockHeld
<1>3. \A q \in Launch \ {r} : rt'[q] = rt[q] /\ ~Live(q)
  BY DEF RuntimeMoves, OnlyMoves, LifecycleInv, OnlyLast
<1>4. r = launches /\ launches # 0 /\ rt[r].pc # "none"
  BY NilIsNothing DEF RuntimeMoves, LifecycleInv, OnlyLast, Live, Launch
<1>5. Steps'
  BY <1>3 DEF Steps, StepsOf, LifecycleInv
<1>6. OnlyLast'
  BY <1>3, <1>4 DEF OnlyLast, Live, RuntimeMoves
<1>7. Unlaunched'
  BY <1>3, <1>4 DEF Unlaunched, RuntimeMoves, LifecycleInv, Launch
<1>8. \A c \in Commands : cmd'[c] = cmd[c] /\ cmd[c].pc \in Waiting \cup {"check", "stopwait", "await"}
  BY DEF RuntimeMoves, LifecycleInv, Undisturbed, ReliesOn
<1>9. Undisturbed'
  BY <1>8 DEF Undisturbed, ReliesOn, At, Waiting, RuntimeMoves, LifecycleInv
<1>10. OwnSession'
  BY <1>3 DEF OwnSession, OwnOf, Live, LifecycleInv
<1> QED
  BY <1>1, <1>2, <1>5, <1>6, <1>7, <1>9, <1>10 DEF LifecycleInv

\* Most steps leave the sessions and their record alone.
LEMMA SessionsStay ==
    ASSUME LifecycleInv, NEW r \in Launch, UNCHANGED session, dir'.registry = dir.registry, Live(r),
           rt'[r].pc \in AfterHost => rt[r].pc \in AfterHost \/ dir.registry = Nil,
           rt'[r].pc \in ComingUp \cup {"clear"} => session[r] = "none"
    PROVE  OwnOf(r)' /\ SessionRecorded' /\ session' \in [Launch -> {"none", "up", "ended"}]
<1>1. SessionRecorded' /\ session' \in [Launch -> {"none", "up", "ended"}]
  BY DEF SessionRecorded, LifecycleInv, LifecycleTyped
<1>2. dir.registry = Nil => \A q \in Launch : session[q] # "up"
  BY DEF SessionRecorded, LifecycleInv
<1> QED
  BY <1>1, <1>2 DEF OwnOf, AloneInRegistry, Live, LifecycleInv, OwnSession

LEMMA ReadingSteps ==
    ASSUME LifecycleInv, Timely, NEW r \in Launch,
           \/ paths_from_runtime_bootstrap(r) \/ load_runtime_bootstrap(r)
           \/ consume_environment_handoff(r)
    PROVE  LifecycleInv'
<1> USE DEF ComingUp, Aborting, AfterHost, Shutdown
<1>0. /\ LifecycleTyped /\ dir \in DirectoryRecord /\ child \in [Launch -> {"none", "up"}]
      /\ UNCHANGED <<child, session, launches, lock, cmd>>
  BY DEF LifecycleInv, LifecycleTyped, paths_from_runtime_bootstrap, load_runtime_bootstrap,
         consume_environment_handoff
<1>1. Live(r) /\ r = launches /\ Named(r) /\ StepsOf(r) /\ OwnOf(r)
      /\ rt[r].pc \in {"exec", "boot", "handoff"}
  BY DEF LifecycleInv, OnlyLast, Steps, OwnSession, Live, paths_from_runtime_bootstrap,
         load_runtime_bootstrap, consume_environment_handoff
<1>2. rt[r].serving = FALSE /\ rt[r].error = FALSE
  BY <1>0, <1>1 DEF StepsOf, LifecycleTyped, RuntimeRecord
<1>3. /\ OnlyMoves(r) /\ rt'[r].pc \in {"dead", "boot", "handoff", "publish", "abort"}
      /\ rt'[r].serving = FALSE
      /\ rt'[r].pc \in {"handoff", "publish"} => rt'[r].boot = r
      /\ rt'[r].pc # "abort" => rt'[r].error = FALSE
  <2>1. CASE paths_from_runtime_bootstrap(r)
    <3>1. CASE Exits(r)
      BY <1>0, <3>1, Ends
    <3>2. CASE Goto(r, "boot")
      <4>1. /\ OnlyMoves(r) /\ rt'[r].pc = "boot" /\ rt'[r].boot = rt[r].boot
            /\ rt'[r].serving = rt[r].serving /\ rt'[r].error = rt[r].error
        BY <1>0, <3>2, Goes, StepNames
      <4> QED
        BY <1>2, <4>1
    <3> QED
      BY <2>1, <3>1, <3>2 DEF paths_from_runtime_bootstrap
  <2>2. CASE load_runtime_bootstrap(r)
    <3>1. CASE dir.bootstrap # Nil
      <4>1. rt[r] \in RuntimeRecord /\ dir.bootstrap = r
        BY <1>0, <1>1 DEF LifecycleTyped, Named
      <4> DEFINE x == [[rt[r] EXCEPT !.boot = r] EXCEPT !.pc = "handoff"]
      <4>2. x \in RuntimeRecord /\ x.pc = "handoff" /\ x.serving = rt[r].serving /\ x.boot = r
              /\ x.error = rt[r].error
        BY <4>1, StepNames DEF RuntimeRecord
      <4>3. rt' = [rt EXCEPT ![r] = x]
        BY <2>2, <3>1, <4>1 DEF load_runtime_bootstrap
      <4> HIDE DEF x
      <4> QED
        BY <1>0, <1>2, <4>2, <4>3 DEF OnlyMoves, LifecycleTyped
    <3>2. CASE dir.bootstrap = Nil
      BY <1>0, <1>1, <3>2, NilIsNothing DEF Named
    <3> QED
      BY <3>1, <3>2
  <2>3. CASE consume_environment_handoff(r)
    <3>1. rt[r].boot = r
      BY <1>1, <2>3 DEF consume_environment_handoff, StepsOf
    <3>2. CASE Goto(r, "publish")
      <4>1. "publish" \in RuntimeSteps
        BY StepNames
      <4>2. /\ OnlyMoves(r) /\ rt'[r].pc = "publish" /\ rt'[r].boot = rt[r].boot
            /\ rt'[r].serving = rt[r].serving /\ rt'[r].error = rt[r].error
        BY <1>0, <3>2, <4>1, Goes
      <4> QED
        BY <1>2, <3>1, <4>2
    <3>3. CASE Fails(r)
      BY <1>0, <3>3, Failed
    <3> QED
      BY <2>3, <3>2, <3>3 DEF consume_environment_handoff
  <2> QED
    BY <2>1, <2>2, <2>3
<1>4. /\ dir' \in DirectoryRecord /\ dir'.state = dir.state /\ dir'.bootstrap = dir.bootstrap
      /\ dir'.registry = dir.registry /\ dir'.discovery = dir.discovery
  <2>1. \/ UNCHANGED dir
        \/ dir' = [dir EXCEPT !.handoff = FALSE]
    BY DEF paths_from_runtime_bootstrap, load_runtime_bootstrap, consume_environment_handoff
  <2> QED
    BY <1>0, <2>1, HandoffWritten
<1>5. OwnOf(r)' /\ SessionRecorded' /\ session' \in [Launch -> {"none", "up", "ended"}]
  BY <1>0, <1>1, <1>3, <1>4, SessionsStay DEF OwnOf
<1>6. StepsOf(r)'
  BY <1>3, <1>0 DEF StepsOf, LifecycleTyped
<1>7. Named(r)'
  BY <1>0, <1>1, <1>2, <1>3, <1>4 DEF Named, At
<1> QED
  BY <1>0, <1>1, <1>3, <1>4, <1>5, <1>6, <1>7, LiveStep DEF RuntimeMoves

\* A step of the process that keeps the files its own.
LEMMA FilesKept ==
    ASSUME LifecycleInv, NEW r \in Launch, Live(r), OnlyMoves(r), UNCHANGED <<session, launches, lock, cmd>>,
           child' \in [Launch -> {"none", "up"}], dir' \in DirectoryRecord,
           dir'.registry = dir.registry, dir'.bootstrap = dir.bootstrap,
           dir'.discovery \in {dir.discovery, Nil} \/ rt'[r].serving,
           \/ dir'.state = dir.state /\ rt'[r].pc \notin {"host"} \cup AfterHost
           \/ dir'.state = dir.state /\ rt[r].pc \in {"host"} \cup AfterHost
           \/ dir'.state # Nil /\ dir'.state.id = r /\ dir'.state.process = r,
           StepsOf(r)', rt[r].serving => rt'[r].serving,
           rt'[r].pc \in AfterHost => rt[r].pc \in AfterHost \/ dir.registry = Nil,
           rt'[r].pc \in ComingUp \cup {"clear"} => session[r] = "none"
    PROVE  LifecycleInv'
<1>1. Named(r) /\ r = launches
  BY DEF LifecycleInv, OnlyLast
<1>2. Named(r)'
  BY <1>1, NilIsNothing DEF Named, At
<1>3. OwnOf(r)' /\ SessionRecorded' /\ session' \in [Launch -> {"none", "up", "ended"}]
  BY SessionsStay
<1> QED
  BY <1>2, <1>3, LiveStep DEF RuntimeMoves

LEMMA AliveIs ==
    ASSUME LifecycleInv, NEW r \in Launch, Live(r)
    PROVE  /\ LifecycleTyped /\ r = launches /\ Named(r) /\ StepsOf(r) /\ OwnOf(r)
           /\ rt[r] \in RuntimeRecord /\ dir \in DirectoryRecord /\ rt[r].serving \in BOOLEAN
BY DEF LifecycleInv, OnlyLast, Steps, OwnSession, LifecycleTyped, RuntimeRecord

\* The state is written, and the process goes on.
LEMMA WritesState ==
    ASSUME LifecycleInv, NEW r \in Launch, Live(r), UNCHANGED <<session, launches, lock, cmd>>,
           child' \in [Launch -> {"none", "up"}],
           NEW l \in {"starting", "ready", "stopping"}, NEW h \in BOOLEAN, write_runtime_state(r, l, h),
           NEW at \in {"host"} \cup AfterHost, Goto(r, at), at # "clear",
           rt[r].pc \in {"publish", "host"} \cup AfterHost,
           at = "host" => session[r] = "none",
           at \in {"serve"} \cup Shutdown => rt[r].serving,
           at \in AfterHost => rt[r].pc \in AfterHost \/ dir.registry = Nil,
           at = "host" => ~rt[r].serving
    PROVE  LifecycleInv'
<1> USE DEF ComingUp, Aborting, AfterHost, Shutdown
<1>1. LifecycleTyped /\ StepsOf(r) /\ dir \in DirectoryRecord /\ rt[r].boot = r /\ rt[r].error = FALSE
  BY AliveIs DEF StepsOf
<1>2. /\ OnlyMoves(r) /\ rt'[r].pc = at /\ rt'[r].boot = r
      /\ rt'[r].serving = rt[r].serving /\ rt'[r].error = FALSE
  BY <1>1, Goes, StepNames
<1>3. /\ dir' \in DirectoryRecord /\ OtherFiles(dir, dir')
      /\ dir'.state # Nil /\ dir'.state.id = r /\ dir'.state.process = r
  BY <1>1, StateWritten DEF write_runtime_state
<1>4. StepsOf(r)'
  BY <1>1, <1>2 DEF StepsOf
<1> QED
  BY <1>1, <1>2, <1>3, <1>4, FilesKept DEF OtherFiles

LEMMA WritingSteps ==
    ASSUME LifecycleInv, NEW r \in Launch,
           \/ Publish(r) \/ StartHost(r) \/ RestartTunnel(r) \/ ReportHealth(r) \/ Stopping(r)
    PROVE  LifecycleInv'
<1> USE DEF ComingUp, AfterHost, Shutdown
<1>0. Live(r)
  BY DEF Live, Publish, StartHost, RestartTunnel, ReportHealth, Stopping
<1>1. LifecycleTyped /\ StepsOf(r) /\ OwnOf(r) /\ rt[r] \in RuntimeRecord /\ child \in [Launch -> {"none", "up"}]
  BY <1>0, AliveIs DEF LifecycleTyped
<1>2. CASE Publish(r)
  BY <1>0, <1>1, <1>2, WritesState DEF Publish, StepsOf, OwnOf
<1>3. CASE StartHost(r)
  BY <1>0, <1>1, <1>3, WritesState DEF StartHost
<1>4. CASE RestartTunnel(r)
  BY <1>0, <1>1, <1>4, WritesState DEF RestartTunnel
<1>5. CASE ReportHealth(r)
  <2>1. rt' = [rt EXCEPT ![r].pc = "serve"]
    BY <1>1, <1>5 DEF ReportHealth, RuntimeRecord, LifecycleTyped
  <2> QED
    <3>1. PICK healthy \in BOOLEAN : write_runtime_state(r, "ready", healthy)
      BY <1>5 DEF ReportHealth
    <3>2. Goto(r, "serve") /\ rt[r].pc = "serve" /\ rt[r].serving
      BY <1>1, <1>5, <2>1 DEF ReportHealth, StepsOf, Goto
    <3>3. UNCHANGED <<child, session, launches, lock, cmd>>
      BY <1>5 DEF ReportHealth
    <3> QED
      BY <1>0, <1>1, <3>1, <3>2, <3>3, WritesState
<1>6. CASE Stopping(r)
  BY <1>0, <1>1, <1>6, WritesState DEF Stopping, StepsOf
<1> QED
  BY <1>2, <1>3, <1>4, <1>5, <1>6

\* The state stays, and the process goes on.
LEMMA LeavesState ==
    ASSUME LifecycleInv, NEW r \in Launch, Live(r), UNCHANGED <<session, launches, lock, cmd>>,
           child' \in [Launch -> {"none", "up"}], dir' \in DirectoryRecord,
           dir'.registry = dir.registry, dir'.bootstrap = dir.bootstrap, dir'.state = dir.state,
           dir'.discovery \in {dir.discovery, Nil},
           NEW at \in AfterHost, Goto(r, at), at # "clear", rt[r].pc \in AfterHost,
           at \in {"serve"} \cup Shutdown => rt[r].serving
    PROVE  LifecycleInv'
<1> USE DEF ComingUp, Aborting, AfterHost, Shutdown
<1>1. LifecycleTyped /\ StepsOf(r) /\ rt[r].boot = r /\ rt[r].error = FALSE
  BY AliveIs DEF StepsOf
<1>2. /\ OnlyMoves(r) /\ rt'[r].pc = at /\ rt'[r].boot = r
      /\ rt'[r].serving = rt[r].serving /\ rt'[r].error = FALSE
  BY <1>1, Goes, StepNames
<1>3. StepsOf(r)'
  BY <1>1, <1>2 DEF StepsOf
<1> QED
  BY <1>1, <1>2, <1>3, FilesKept

\* It fails before it serves, which changes no file.
LEMMA FailsEarly ==
    ASSUME LifecycleInv, Timely, NEW r \in Launch, Live(r), Fails(r),
           UNCHANGED <<dir, child, session, launches, lock, cmd>>
    PROVE  LifecycleInv'
<1> USE DEF ComingUp, Aborting, AfterHost, Shutdown
<1>1. LifecycleTyped /\ dir \in DirectoryRecord /\ child \in [Launch -> {"none", "up"}]
  BY AliveIs DEF LifecycleTyped
<1>2. OnlyMoves(r) /\ rt'[r].pc = "abort" /\ rt[r].serving = FALSE /\ rt'[r].serving = FALSE
  BY <1>1, Failed
<1>3. StepsOf(r)'
  BY <1>2 DEF StepsOf
<1> QED
  BY <1>1, <1>2, <1>3, FilesKept

LEMMA TunnelSteps ==
    ASSUME LifecycleInv, Timely, NEW r \in Launch,
           \/ spawn_tunnel_client(r) \/ write_tunnel_process_state(r)
           \/ wait_for_initial_tunnel_readiness(r) \/ write_runtime_discovery(r)
           \/ RunFails(r) \/ StopRequested(r) \/ RemoveDiscovery(r) \/ TerminateTunnel(r)
    PROVE  LifecycleInv'
<1> USE DEF ComingUp, AfterHost, Shutdown
<1>0. Live(r)
  BY DEF Live, spawn_tunnel_client, write_tunnel_process_state, wait_for_initial_tunnel_readiness,
         write_runtime_discovery, RunFails, StopRequested, RemoveDiscovery, TerminateTunnel
<1>1. /\ LifecycleTyped /\ StepsOf(r) /\ rt[r] \in RuntimeRecord /\ dir \in DirectoryRecord
      /\ child \in [Launch -> {"none", "up"}] /\ rt[r].boot \in Launch \cup {Nil}
      /\ \A x \in {"none", "up"} : [child EXCEPT ![r] = x] \in [Launch -> {"none", "up"}]
  BY <1>0, AliveIs DEF LifecycleTyped, RuntimeRecord
<1>2. CASE spawn_tunnel_client(r)
  BY <1>0, <1>1, <1>2, LeavesState DEF spawn_tunnel_client
<1>3. CASE write_tunnel_process_state(r)
  <2>1. rt[r].boot = r /\ rt[r].error = FALSE
    BY <1>1, <1>3 DEF write_tunnel_process_state, StepsOf, Aborting
  <2>2. /\ OnlyMoves(r) /\ rt'[r].pc = "wait" /\ rt'[r].boot = r
        /\ rt'[r].serving = rt[r].serving /\ rt'[r].error = FALSE
    BY <1>1, <1>3, <2>1, Goes, StepNames DEF write_tunnel_process_state
  <2> DEFINE d == [dir EXCEPT !.tunnel = r]
             st == [id |-> rt[r].boot, process |-> r, healthy |-> FALSE,
                    lifecycle |-> IF rt[r].serving THEN "ready" ELSE "starting"]
  <2>3. /\ d \in DirectoryRecord /\ d.registry = dir.registry /\ d.bootstrap = dir.bootstrap
        /\ d.discovery = dir.discovery
    BY <1>1, TunnelWritten
  <2>4. st \in StateRecord /\ st.id = r /\ st.process = r
    BY <2>1 DEF StateRecord
  <2>5. dir' = [d EXCEPT !.state = st]
    BY <1>1, <1>3 DEF write_tunnel_process_state
  <2> HIDE DEF d, st
  <2>6. /\ dir' \in DirectoryRecord /\ OtherFiles(d, dir')
        /\ dir'.state # Nil /\ dir'.state.id = r /\ dir'.state.process = r
    BY <2>3, <2>4, <2>5, StatePut
  <2>7. StepsOf(r)'
    BY <1>1, <2>2 DEF StepsOf
  <2> QED
    BY <1>0, <1>1, <1>3, <2>2, <2>3, <2>6, <2>7, FilesKept DEF OtherFiles, write_tunnel_process_state
<1>4. CASE wait_for_initial_tunnel_readiness(r)
  <2>1. CASE UNCHANGED dir /\ Fails(r)
    BY <1>0, <1>4, <2>1, FailsEarly DEF wait_for_initial_tunnel_readiness
  <2>2. CASE write_runtime_state(r, "ready", TRUE) /\ Goto(r, IF rt[r].serving THEN "serve" ELSE "discover")
    BY <1>0, <1>1, <1>4, <2>2, WritesState DEF wait_for_initial_tunnel_readiness
  <2> QED
    BY <1>4, <2>1, <2>2 DEF wait_for_initial_tunnel_readiness
<1>5. CASE write_runtime_discovery(r)
  <2>1. rt[r].pc = "discover" /\ rt[r].boot = r /\ rt[r].error = FALSE
    BY <1>1, <1>5 DEF write_runtime_discovery, StepsOf, Aborting
  <2> DEFINE x == [[rt[r] EXCEPT !.pc = "serve"] EXCEPT !.serving = TRUE]
  <2>2. x \in RuntimeRecord /\ x.pc = "serve" /\ x.serving = TRUE /\ x.boot = r /\ x.error = FALSE
    BY <1>1, <2>1, StepNames DEF RuntimeRecord
  <2>3. rt' = [rt EXCEPT ![r] = x]
    BY <1>1, <1>5 DEF write_runtime_discovery
  <2> HIDE DEF x
  <2>4. /\ OnlyMoves(r) /\ rt'[r].pc = "serve" /\ rt'[r].boot = r
        /\ rt'[r].serving = TRUE /\ rt'[r].error = FALSE
    BY <1>1, <2>2, <2>3 DEF OnlyMoves, LifecycleTyped
  <2>5. /\ dir' \in DirectoryRecord /\ dir'.registry = dir.registry
        /\ dir'.bootstrap = dir.bootstrap /\ dir'.state = dir.state
    BY <1>1, <1>5, <2>1, DiscoveryWritten DEF write_runtime_discovery
  <2>6. StepsOf(r)'
    BY <2>4 DEF StepsOf
  <2> QED
    BY <1>0, <1>1, <1>5, <2>1, <2>4, <2>5, <2>6, FilesKept DEF write_runtime_discovery
<1>6. CASE RunFails(r)
  BY <1>0, <1>6, FailsEarly DEF RunFails
<1>7. CASE StopRequested(r)
  BY <1>0, <1>1, <1>7, LeavesState DEF StopRequested, StepsOf
<1>8. CASE RemoveDiscovery(r)
  <2>1. /\ dir' \in DirectoryRecord /\ dir'.registry = dir.registry
        /\ dir'.discovery \in {dir.discovery, Nil}
        /\ dir'.bootstrap = dir.bootstrap /\ dir'.state = dir.state
    BY <1>1, <1>8, NilIsNothing, DiscoveryWritten DEF RemoveDiscovery
  <2> QED
    BY <1>0, <1>1, <1>8, <2>1, LeavesState DEF RemoveDiscovery, StepsOf
<1>9. CASE TerminateTunnel(r)
  <2>1. /\ dir' \in DirectoryRecord /\ dir'.registry = dir.registry
        /\ dir'.discovery \in {dir.discovery, Nil}
        /\ dir'.bootstrap = dir.bootstrap /\ dir'.state = dir.state
    BY <1>1, <1>9, TunnelWritten DEF TerminateTunnel
  <2> QED
    BY <1>0, <1>1, <1>9, <2>1, LeavesState DEF TerminateTunnel, StepsOf
<1> QED
  BY <1>2, <1>3, <1>4, <1>5, <1>6, <1>7, <1>8, <1>9

-----------------------------------------------------------------------------
(* The end of a runtime, and its session *)

\* A step of a process that is dead after it, or leaves a state that is its own.
LEMMA Dies ==
    ASSUME LifecycleInv, NEW r \in Launch, Live(r), Exits(r), dir' \in DirectoryRecord,
           UNCHANGED <<child, session, launches, lock, cmd>>,
           dir'.registry = dir.registry \/ \A q \in Launch : session[q] # "up"
    PROVE  LifecycleInv'
<1> USE DEF ComingUp, Aborting, AfterHost, Shutdown
<1>1. LifecycleTyped
  BY DEF LifecycleInv
<1>2. OnlyMoves(r) /\ rt'[r].pc = "dead" /\ rt'[r].serving = FALSE /\ rt'[r].error = FALSE
  BY <1>1, Ends
<1>3. StepsOf(r)' /\ ~Live(r)' /\ OwnOf(r)'
  BY <1>2 DEF StepsOf, Live, OwnOf
<1>4. SessionRecorded'
  BY DEF SessionRecorded, LifecycleInv
<1> QED
  BY <1>1, <1>2, <1>3, <1>4, LiveStep DEF RuntimeMoves, LifecycleTyped

LEMMA RuntimeEnds ==
    ASSUME LifecycleInv, NEW r \in Launch, RuntimeCrash(r) \/ ClearRuntime(r) \/ AbortState(r)
    PROVE  LifecycleInv'
<1> USE DEF Aborting
<1>0. Live(r)
  BY DEF Live, RuntimeCrash, ClearRuntime, AbortState
<1>1. LifecycleTyped /\ StepsOf(r) /\ OwnOf(r) /\ Named(r) /\ dir \in DirectoryRecord
  BY <1>0, AliveIs
<1>2. CASE RuntimeCrash(r)
  BY <1>0, <1>1, <1>2, Dies DEF RuntimeCrash
<1>3. CASE ClearRuntime(r)
  <2>1. rt[r].error = FALSE /\ Exits(r)
    BY <1>1, <1>3 DEF ClearRuntime, StepsOf
  <2>2. \A q \in Launch : session[q] # "up"
    BY <1>0, <1>1, <1>3 DEF ClearRuntime, OwnOf, AloneInRegistry, AfterHost, Shutdown
  <2> QED
    BY <1>0, <1>3, <2>1, <2>2, Emptied, Dies DEF ClearRuntime, clear_runtime_state
<1>4. CASE AbortState(r)
  <2>1. dir.state # Nil /\ dir.state \in StateRecord
    BY <1>1 DEF Named, DirectoryRecord
  <2>2. \/ UNCHANGED dir
        \/ dir' = [dir EXCEPT !.state.process = IF @ = Nil THEN r ELSE @]
    BY <1>4, <2>1 DEF AbortState
  <2>3. CASE UNCHANGED dir
    BY <1>0, <1>1, <1>4, <2>3, Dies DEF AbortState
  <2>4. CASE dir' = [dir EXCEPT !.state.process = IF @ = Nil THEN r ELSE @]
    <3> DEFINE st == [dir.state EXCEPT !.process = IF @ = Nil THEN r ELSE @]
    <3>1. st \in StateRecord
      BY <2>1 DEF StateRecord
    <3>2. dir' = [dir EXCEPT !.state = st]
      BY <1>1, <2>4
    <3> HIDE DEF st
    <3>3. dir' \in DirectoryRecord /\ dir'.registry = dir.registry
      BY <1>1, <3>1, <3>2, StatePut DEF OtherFiles
    <3> QED
      BY <1>0, <1>4, <3>3, Dies DEF AbortState
  <2> QED
    BY <2>2, <2>3, <2>4
<1> QED
  BY <1>2, <1>3, <1>4

\* The error path, while the sessions stay.
LEMMA AbortSteps ==
    ASSUME LifecycleInv, NEW r \in Launch, AbortDiscovery(r) \/ AbortTunnel(r) \/ AbortSessions(r)
    PROVE  LifecycleInv'
<1> USE DEF Aborting
<1>0. Live(r) /\ rt[r].pc \in Aborting /\ UNCHANGED <<launches, lock, cmd>>
  BY DEF Live, AbortDiscovery, AbortTunnel, AbortSessions
<1>1. /\ LifecycleTyped /\ StepsOf(r) /\ OwnOf(r) /\ Named(r) /\ dir \in DirectoryRecord
      /\ child \in [Launch -> {"none", "up"}] /\ session \in [Launch -> {"none", "up", "ended"}]
  BY <1>0, AliveIs DEF LifecycleTyped
<1>2. /\ OnlyMoves(r) /\ rt'[r].pc \in Aborting /\ rt'[r].serving = rt[r].serving
  BY <1>1, Goes, StepNames DEF AbortDiscovery, AbortTunnel, AbortSessions
<1>3. /\ dir' \in DirectoryRecord /\ dir'.registry = dir.registry /\ dir'.discovery \in {dir.discovery, Nil}
      /\ dir'.bootstrap = dir.bootstrap /\ dir'.state = dir.state
  <2>1. UNCHANGED dir \/ dir' = [dir EXCEPT !.discovery = Nil] \/ dir' = [dir EXCEPT !.tunnel = Nil]
    BY DEF AbortDiscovery, AbortTunnel, AbortSessions, cleanup_stale_tunnel_child
  <2>2. CASE dir' = [dir EXCEPT !.discovery = Nil]
    BY <1>1, <2>2, DiscoveryWritten
  <2>3. CASE dir' = [dir EXCEPT !.tunnel = Nil]
    BY <1>1, <2>3, TunnelWritten
  <2> QED
    BY <1>1, <2>1, <2>2, <2>3
<1>4. child' \in [Launch -> {"none", "up"}]
  BY <1>1 DEF AbortDiscovery, AbortTunnel, AbortSessions, cleanup_stale_tunnel_child
<1>5. StepsOf(r)'
  BY <1>0, <1>1, <1>2, StepNames DEF StepsOf, AfterHost, Shutdown, ComingUp
<1>6. UNCHANGED session \/ (TerminateRecorded /\ dir.registry # Nil)
  BY DEF AbortDiscovery, AbortTunnel, AbortSessions, same_runtime
<1>7. CASE UNCHANGED session
  BY <1>0, <1>1, <1>2, <1>3, <1>4, <1>5, <1>7, FilesKept DEF AfterHost, Shutdown, ComingUp
<1>8. CASE TerminateRecorded /\ dir.registry # Nil
  \* The session that the registry records was the only one up, and has ended.
  <2>1. PICK o \in Launch : session' = [session EXCEPT ![o] = IF @ = "up" THEN "ended" ELSE @]
                            /\ o = dir.registry.owner
    BY <1>1, <1>8 DEF TerminateRecorded, DirectoryRecord, RegistryRecord
  <2>2. /\ session' \in [Launch -> {"none", "up", "ended"}]
        /\ \A q \in Launch : session'[q] = session[q] \/ (session[q] # "none" /\ session'[q] # "up")
    BY <1>1, <2>1
  <2>3. \A q \in Launch : session'[q] # "up"
    BY <1>1, <2>1 DEF LifecycleInv, SessionRecorded
  <2>4. OwnOf(r)' /\ SessionRecorded'
    BY <1>2, <2>3 DEF OwnOf, AloneInRegistry, SessionRecorded, ComingUp
  <2>5. Named(r)'
    BY <1>0, <1>1, <1>2, <1>3, NilIsNothing DEF Named, At, AfterHost, Shutdown
  <2> QED
    BY <1>0, <1>2, <1>3, <1>4, <1>5, <2>2, <2>4, <2>5, LiveStep DEF RuntimeMoves
<1> QED
  BY <1>6, <1>7, <1>8

\* While the host is up, and the runtime shuts it down.
LEMMA SessionSteps ==
    ASSUME LifecycleInv, Timely, NEW r \in Launch,
           \/ SessionStarts(r) \/ SessionReaped(r) \/ HostShutdown(r)
    PROVE  LifecycleInv'
<1> USE DEF AfterHost, Shutdown, ComingUp, Aborting
<1>0. Live(r) /\ UNCHANGED <<child, launches, lock, cmd>>
  BY DEF Live, SessionStarts, SessionReaped, HostShutdown
<1>1. /\ LifecycleTyped /\ StepsOf(r) /\ OwnOf(r) /\ Named(r) /\ dir \in DirectoryRecord
      /\ child \in [Launch -> {"none", "up"}] /\ session \in [Launch -> {"none", "up", "ended"}]
      /\ rt \in [Launch -> RuntimeRecord]
  BY <1>0, AliveIs DEF LifecycleTyped
<1>2. AloneInRegistry(r)
  BY <1>0, <1>1 DEF OwnOf, SessionStarts, SessionReaped, HostShutdown
<1>3. CASE SessionStarts(r)
  <2>1. rt[r].boot = r /\ session' = [session EXCEPT ![r] = "up"] /\ UNCHANGED rt
    BY <1>1, <1>3 DEF SessionStarts, StepsOf
  <2> DEFINE x == [id |-> r, owner |-> r]
  <2>2. x \in RegistryRecord /\ x.owner = r /\ x # Nil
    BY NilIsNothing DEF RegistryRecord
  <2>3. dir' = [dir EXCEPT !.registry = x]
    BY <1>3, <2>1 DEF SessionStarts
  <2> HIDE DEF x
  <2>4. /\ dir' \in DirectoryRecord /\ dir'.registry = x
        /\ dir'.bootstrap = dir.bootstrap /\ dir'.state = dir.state /\ dir'.discovery = dir.discovery
    BY <1>1, <2>2, <2>3, RegistryWritten
  <2>5. SessionRecorded'
    BY <1>1, <1>2, <2>1, <2>2, <2>4 DEF SessionRecorded, AloneInRegistry
  <2>6. StepsOf(r)' /\ Named(r)' /\ OwnOf(r)'
    BY <1>0, <1>1, <1>2, <1>3, <2>1, <2>4
       DEF StepsOf, Named, OwnOf, At, AloneInRegistry, SessionStarts, Live
  <2> QED
    BY <1>0, <1>1, <2>1, <2>4, <2>5, <2>6, LiveStep DEF RuntimeMoves, OnlyMoves
<1>4. CASE SessionReaped(r)
  <2>1. session' = [session EXCEPT ![r] = "none"] /\ UNCHANGED rt /\ session[r] = "ended"
    BY <1>4 DEF SessionReaped
  <2>2. /\ dir' \in DirectoryRecord /\ dir'.registry = Nil
        /\ dir'.bootstrap = dir.bootstrap /\ dir'.state = dir.state /\ dir'.discovery = dir.discovery
    BY <1>1, <1>4, RegistryWritten DEF SessionReaped
  <2>3. SessionRecorded'
    BY <1>1, <1>2, <2>1 DEF SessionRecorded, AloneInRegistry
  <2>4. StepsOf(r)' /\ Named(r)' /\ OwnOf(r)'
    BY <1>0, <1>1, <1>2, <2>1, <2>2 DEF StepsOf, Named, OwnOf, At, AloneInRegistry, Live
  <2> QED
    BY <1>0, <1>1, <2>1, <2>2, <2>3, <2>4, LiveStep DEF RuntimeMoves, OnlyMoves
<1>5. CASE HostShutdown(r)
  <2>1. /\ session' = [session EXCEPT ![r] = "none"]
        /\ dir' = IF session[r] = "none" THEN dir ELSE [dir EXCEPT !.registry = Nil]
        /\ rt[r].pc = "halt" /\ rt[r].error = FALSE
        /\ rt' = [rt EXCEPT ![r].pc = "clear", ![r].error = FALSE]
    BY <1>1, <1>5 DEF HostShutdown, Timely, StepsOf
  <2>2. /\ dir' \in DirectoryRecord
        /\ dir'.bootstrap = dir.bootstrap /\ dir'.state = dir.state /\ dir'.discovery = dir.discovery
    <3>1. CASE dir' = [dir EXCEPT !.registry = Nil]
      BY <1>1, <3>1, RegistryWritten
    <3> QED
      BY <1>1, <2>1, <3>1
  <2>3. SessionRecorded'
    BY <1>1, <1>2, <2>1 DEF SessionRecorded, AloneInRegistry, LifecycleInv
  <2> DEFINE x == [[rt[r] EXCEPT !.pc = "clear"] EXCEPT !.error = FALSE]
  <2>4. /\ x \in RuntimeRecord /\ x.pc = "clear" /\ x.serving = rt[r].serving
        /\ x.boot = rt[r].boot /\ x.error = FALSE
    <3>1. rt[r] \in RuntimeRecord /\ "clear" \in RuntimeSteps
      BY <1>1, StepNames
    <3> QED
      BY <3>1 DEF RuntimeRecord
  <2>5. rt' = [rt EXCEPT ![r] = x]
    BY <1>1, <2>1
  <2> HIDE DEF x
  <2>6. /\ OnlyMoves(r) /\ rt'[r].pc = "clear" /\ rt'[r].serving = rt[r].serving
        /\ rt'[r].boot = rt[r].boot /\ rt'[r].error = FALSE
    BY <1>1, <2>4, <2>5 DEF OnlyMoves
  <2>7. StepsOf(r)' /\ Named(r)' /\ OwnOf(r)'
    BY <1>0, <1>1, <1>2, <2>1, <2>2, <2>6 DEF StepsOf, Named, OwnOf, At, AloneInRegistry, Live
  <2> QED
    BY <1>0, <1>1, <2>1, <2>2, <2>3, <2>6, <2>7, LiveStep DEF RuntimeMoves
<1> QED
  BY <1>3, <1>4, <1>5

\* A tunnel or a session may end at any time, also after its runtime.
LEMMA ProcessesEnd ==
    ASSUME LifecycleInv, NEW r \in Launch, SessionExits(r) \/ ChildExits(r)
    PROVE  LifecycleInv'
<1>1. /\ UNCHANGED <<dir, rt, launches, lock, cmd>>
      /\ child' \in [Launch -> {"none", "up"}] /\ session' \in [Launch -> {"none", "up", "ended"}]
      /\ \A q \in Launch : session'[q] = session[q] \/ (session[q] = "up" /\ session'[q] = "ended")
  BY DEF SessionExits, ChildExits, LifecycleInv, LifecycleTyped
<1>2. LifecycleTyped' /\ LockHeld' /\ OnlyLast' /\ Unlaunched' /\ Undisturbed'
  BY <1>1 DEF LifecycleInv, LifecycleTyped, LockHeld, OnlyLast, Live, Named, At, Unlaunched, Undisturbed,
                   ReliesOn
<1>3. Steps' /\ SessionRecorded' /\ OwnSession'
  BY <1>1 DEF LifecycleInv, Steps, StepsOf, SessionRecorded, OwnSession, OwnOf, AloneInRegistry, Live
<1> QED
  BY <1>2, <1>3 DEF LifecycleInv

-----------------------------------------------------------------------------
(* The commands *)

\* Of the commands only c moves.
OnlyCommand(c) == cmd' \in [Commands -> CommandRecord] /\ \A d \in Commands \ {c} : cmd'[d] = cmd[d]

LEMMA CommandNames ==
    /\ Waiting \subseteq CommandSteps
    /\ {"check", "stopwait", "tunnel", "sessions", "clear", "prepare", "state", "spawn", "await", "partial"}
          \subseteq CommandSteps
    /\ Waiting \cap {"check", "stopwait", "tunnel", "sessions", "clear", "prepare", "state", "spawn",
                     "await", "partial"} = {}
    /\ {"idle", "lock", "done"} \subseteq Waiting
BY DEF CommandSteps, Waiting

LEMMA Stepped ==
    ASSUME LifecycleTyped, NEW c \in Commands, NEW at \in CommandSteps, Step(c, at)
    PROVE  /\ OnlyCommand(c) /\ cmd'[c].pc = at /\ cmd'[c].launch = cmd[c].launch
           /\ cmd'[c].seen = cmd[c].seen
<1>1. cmd[c] \in CommandRecord
  BY DEF LifecycleTyped
<1> DEFINE x == [cmd[c] EXCEPT !.pc = at]
<1>2. x \in CommandRecord /\ x.pc = at /\ x.launch = cmd[c].launch /\ x.seen = cmd[c].seen
  BY <1>1 DEF CommandRecord
<1>3. cmd' = [cmd EXCEPT ![c] = x]
  BY DEF Step
<1> HIDE DEF x
<1> QED
  BY <1>2, <1>3 DEF OnlyCommand, LifecycleTyped

LEMMA Seen ==
    ASSUME LifecycleTyped, NEW c \in Commands, NEW at \in CommandSteps, See(c, at)
    PROVE  /\ OnlyCommand(c) /\ cmd'[c].pc = at /\ cmd'[c].launch = cmd[c].launch
           /\ cmd'[c].seen = dir.state
<1>1. cmd[c] \in CommandRecord /\ dir.state \in StateRecord \cup {Nil}
  BY DEF LifecycleTyped, DirectoryRecord
<1> DEFINE x == [[cmd[c] EXCEPT !.pc = at] EXCEPT !.seen = dir.state]
<1>2. x \in CommandRecord /\ x.pc = at /\ x.launch = cmd[c].launch /\ x.seen = dir.state
  BY <1>1 DEF CommandRecord
<1>3. cmd' = [cmd EXCEPT ![c] = x]
  BY <1>1 DEF See
<1> HIDE DEF x
<1> QED
  BY <1>2, <1>3 DEF OnlyCommand, LifecycleTyped

LEMMA Finished ==
    ASSUME LifecycleTyped, NEW c \in Commands, NEW result \in {"ok", "error"}, Finish(c, result)
    PROVE  OnlyCommand(c) /\ cmd'[c].pc = "done" /\ lock' = Nil
<1>1. /\ cmd[c].goal \in {"start", "stop"} /\ NewCommand \in CommandRecord
      /\ "done" \in CommandSteps
  <2>1. {"idle", "done"} \subseteq CommandSteps
    BY CommandNames
  <2> QED
    BY <2>1 DEF LifecycleTyped, CommandRecord, NewCommand
<1> DEFINE x == [[[NewCommand EXCEPT !.pc = "done"] EXCEPT !.goal = cmd[c].goal] EXCEPT !.result = result]
<1>2. x \in CommandRecord /\ x.pc = "done"
  BY <1>1 DEF CommandRecord
<1>3. cmd' = [cmd EXCEPT ![c] = x] /\ lock' = Nil
  BY DEF Finish, NewCommand
<1> HIDE DEF x
<1> QED
  BY <1>2, <1>3 DEF OnlyCommand, LifecycleTyped

\* While one command works on the directory the others wait.
LEMMA Holder ==
    ASSUME LifecycleInv, NEW c \in Commands, cmd[c].pc \notin Waiting
    PROVE  lock = c /\ \A d \in Commands \ {c} : cmd[d].pc \in Waiting
BY DEF LifecycleInv, LockHeld

\* The command goes on with the lock, or returns without it.
Keeps(c) == (lock' = c /\ cmd'[c].pc \notin Waiting) \/ (lock' = Nil /\ cmd'[c].pc \in Waiting)

\* What the other commands rely on, and the lock, when the holder moves.
LEMMA OthersWait ==
    ASSUME LifecycleInv, NEW c \in Commands, cmd[c].pc \notin Waiting, OnlyCommand(c), Keeps(c), ReliesOn(c)'
    PROVE  LockHeld' /\ Undisturbed' /\ lock' \in Commands \cup {Nil}
<1>1. lock = c /\ \A d \in Commands \ {c} : cmd'[d].pc \in Waiting
  BY Holder DEF OnlyCommand
<1>2. LockHeld' /\ lock' \in Commands \cup {Nil}
  BY <1>1, NilIsNothing DEF LockHeld, Keeps
<1>3. \A d \in Commands \ {c} : ReliesOn(d)'
  BY <1>1 DEF ReliesOn, At, Waiting
<1> QED
  BY <1>2, <1>3 DEF Undisturbed

\* A command that moves on while it leaves everything else as it is.
LEMMA CommandMoves ==
    ASSUME LifecycleInv, NEW c \in Commands, UNCHANGED <<dir, rt, child, session, launches>>,
           OnlyCommand(c), LockHeld', Undisturbed', lock' \in Commands \cup {Nil},
           At(c, "await") => \A r \in Launch : Live(r) => rt[r].serving \/ At(c, "await")'
    PROVE  LifecycleInv'
<1>1. LifecycleTyped'
  BY DEF LifecycleInv, LifecycleTyped, OnlyCommand
<1>2. Steps' /\ Unlaunched' /\ SessionRecorded' /\ OwnSession'
  BY DEF LifecycleInv, Steps, StepsOf, Unlaunched, SessionRecorded, OwnSession, OwnOf, AloneInRegistry, Live
<1>3. OnlyLast'
  BY DEF LifecycleInv, OnlyLast, Named, Live, At, OnlyCommand
<1> QED
  BY <1>1, <1>2, <1>3 DEF LifecycleInv

\* A step of the holder when no runtime is alive.
LEMMA NobodyLives ==
    ASSUME LifecycleInv, NEW c \in Commands, cmd[c].pc \notin Waiting, \A r \in Launch : ~Live(r),
           OnlyCommand(c), Keeps(c), ReliesOn(c)', UNCHANGED rt, launches' \in launches..MaxLaunches,
           dir' \in DirectoryRecord, child' \in [Launch -> {"none", "up"}],
           session' \in [Launch -> {"none", "up", "ended"}],
           \A q \in Launch : session'[q] = session[q] \/ (session[q] # "none" /\ session'[q] # "up"),
           SessionRecorded'
    PROVE  LifecycleInv'
<1>1. LockHeld' /\ Undisturbed' /\ lock' \in Commands \cup {Nil}
  BY OthersWait
<1>2. launches' \in 0..MaxLaunches /\ launches' >= launches /\ launches \in Nat /\ MaxLaunches \in Nat
  BY NilIsNothing DEF LifecycleInv, LifecycleTyped
<1>3. LifecycleTyped'
  BY <1>1, <1>2 DEF LifecycleInv, LifecycleTyped, OnlyCommand
<1>4. Steps' /\ OnlyLast'
  BY DEF Steps, StepsOf, LifecycleInv, OnlyLast, Live
<1>5. OwnSession'
  BY DEF OwnSession, OwnOf, Live, ComingUp
<1>6. Unlaunched'
  BY <1>2 DEF LifecycleInv, Unlaunched, Launch
<1> QED
  BY <1>1, <1>3, <1>4, <1>5, <1>6 DEF LifecycleInv

\* Whoever checks finds the process that is alive in the state it published.
LEMMA LiveIsSeen ==
    ASSUME LifecycleInv, NEW c \in Commands, At(c, "check"), NEW r \in Launch, Live(r)
    PROVE  rt[r].serving /\ dir.state # Nil /\ dir.state.process = r /\ ProcessAlive(dir.state)
<1>1. Named(r) /\ StepsOf(r)
  BY AliveIs
<1>2. \A d \in Commands : ~At(d, "await")
  BY Holder, CommandNames DEF At
<1>3. rt[r].serving /\ dir.state # Nil /\ dir.state.process = r
  BY <1>1, <1>2 DEF Named, StepsOf
<1>4. r # Nil
  BY NilIsNothing
<1> QED
  BY <1>3, <1>4 DEF ProcessAlive

LEMMA WaitingSteps ==
    ASSUME LifecycleInv, NEW c \in Commands, Acquire(c) \/ \E goal \in {"start", "stop"} : Invoke(c, goal)
    PROVE  LifecycleInv'
<1>1. /\ LifecycleTyped /\ UNCHANGED <<dir, rt, child, session, launches>> /\ ~At(c, "await")
      /\ cmd[c] \in CommandRecord
  BY DEF LifecycleInv, LifecycleTyped, Acquire, Invoke, At
<1>2. CASE Acquire(c)
  <2>1. OnlyCommand(c) /\ cmd'[c].pc = "check" /\ lock = Nil /\ lock' = c
    BY <1>1, <1>2, Stepped, CommandNames DEF Acquire
  <2>2. \A d \in Commands : cmd[d].pc \in Waiting
    BY <2>1, NilIsNothing DEF LifecycleInv, LockHeld
  <2>3. \A d \in Commands \ {c} : cmd'[d].pc \in Waiting
    BY <2>1, <2>2 DEF OnlyCommand
  <2>4. LockHeld'
    BY <2>1, <2>3, CommandNames DEF LockHeld
  <2>5. Undisturbed'
    BY <2>1, <2>3 DEF Undisturbed, ReliesOn, At, Waiting
  <2> QED
    BY <1>1, <2>1, <2>4, <2>5, CommandMoves
<1>3. ASSUME NEW goal \in {"start", "stop"}, Invoke(c, goal)
      PROVE  LifecycleInv'
  <2> DEFINE x == [[cmd[c] EXCEPT !.pc = "lock"] EXCEPT !.goal = goal]
  <2>1. "lock" \in CommandSteps
    BY CommandNames
  <2>2. x \in CommandRecord /\ x.pc = "lock"
    BY <1>1, <2>1 DEF CommandRecord
  <2>3. cmd' = [cmd EXCEPT ![c] = x]
    BY <1>1, <1>3 DEF Invoke
  <2> HIDE DEF x
  <2>4. OnlyCommand(c) /\ cmd'[c].pc = "lock" /\ cmd[c].pc = "idle" /\ lock' = lock
    BY <1>1, <1>3, <2>2, <2>3 DEF OnlyCommand, LifecycleTyped, Invoke, At
  <2>5. LockHeld' /\ lock' \in Commands \cup {Nil}
    BY <1>1, <2>4 DEF LockHeld, OnlyCommand, LifecycleInv, LifecycleTyped, Waiting
  <2>6. Undisturbed'
    BY <1>1, <2>4 DEF Undisturbed, ReliesOn, At, Waiting, OnlyCommand, LifecycleInv, Live
  <2> QED
    BY <1>1, <2>4, <2>5, <2>6, CommandMoves
<1> QED
  BY <1>2, <1>3

\* A command that returns; it does not return from waiting for a runtime that
\* does not serve.
LEMMA Returns ==
    ASSUME LifecycleInv, NEW c \in Commands, cmd[c].pc \notin Waiting,
           NEW result \in {"ok", "error"}, Finish(c, result),
           UNCHANGED <<dir, rt, child, session, launches>>,
           At(c, "await") => \A r \in Launch : Live(r) => rt[r].serving
    PROVE  LifecycleInv'
<1>1. OnlyCommand(c) /\ cmd'[c].pc = "done" /\ lock' = Nil
  BY Finished DEF LifecycleInv
<1>2. Keeps(c) /\ ReliesOn(c)'
  BY <1>1 DEF Keeps, ReliesOn, At, Waiting
<1> QED
  BY <1>1, <1>2, OthersWait, CommandMoves

LEMMA CheckingSteps ==
    ASSUME LifecycleInv, NEW c \in Commands, CheckExisting(c) \/ StopSignal(c) \/ StopWait(c)
    PROVE  LifecycleInv'
<1>1. /\ LifecycleTyped /\ dir \in DirectoryRecord /\ child \in [Launch -> {"none", "up"}]
      /\ session \in [Launch -> {"none", "up", "ended"}] /\ launches \in launches..MaxLaunches
      /\ SessionRecorded /\ UNCHANGED <<dir, child, session, launches>>
      /\ cmd[c].pc \notin Waiting /\ ~At(c, "await")
  BY NilIsNothing DEF LifecycleInv, LifecycleTyped, CheckExisting, StopSignal, StopWait, At, Waiting
<1>2. lock = c
  BY <1>1, Holder
<1>3. ASSUME At(c, "check"), ~ProcessAlive(dir.state), See(c, "tunnel"), UNCHANGED <<rt, lock>>
      PROVE  LifecycleInv'
  <2>1. \A r \in Launch : ~Live(r)
    BY <1>3, LiveIsSeen
  <2>2. OnlyCommand(c) /\ cmd'[c].pc = "tunnel"
    BY <1>1, <1>3, Seen, CommandNames
  <2>3. Keeps(c) /\ ReliesOn(c)'
    BY <1>2, <1>3, <2>1, <2>2 DEF Keeps, ReliesOn, At, Waiting, Live
  <2>4. SessionRecorded'
    BY <1>1 DEF SessionRecorded
  <2> QED
    BY <1>1, <1>3, <2>1, <2>2, <2>3, <2>4, NobodyLives
<1>4. CASE CheckExisting(c)
  <2>1. UNCHANGED rt /\ At(c, "check")
    BY <1>4 DEF CheckExisting
  <2>2. \/ Finish(c, "ok") \/ Finish(c, "error")
        \/ ~ProcessAlive(dir.state) /\ See(c, "tunnel") /\ UNCHANGED lock
    BY <1>4 DEF CheckExisting, still_running
  <2> QED
    BY <1>1, <1>3, <2>1, <2>2, Returns
<1>5. CASE StopSignal(c)
  <2>1. At(c, "check") /\ UNCHANGED lock
    BY <1>5 DEF StopSignal
  <2>2. CASE ProcessAlive(dir.state) /\ SigTerm(dir.state.process) /\ See(c, "stopwait")
    <3>1. PICK r \in Launch : r = dir.state.process /\ dir.state # Nil /\ Live(r)
      BY <1>1, <2>2 DEF ProcessAlive, DirectoryRecord, StateRecord
    <3>2. SigTerm(r)
      BY <2>2, <3>1
    <3>3. r = launches /\ launches # 0 /\ Named(r) /\ StepsOf(r) /\ OwnOf(r) /\ rt[r].serving
      BY <2>1, <3>1, AliveIs, LiveIsSeen, NilIsNothing DEF Launch
    <3>4. /\ OnlyMoves(r)
          /\ \/ /\ rt'[r].pc = rt[r].pc /\ rt'[r].serving = rt[r].serving
                /\ rt'[r].boot = rt[r].boot /\ rt'[r].error = rt[r].error
             \/ rt'[r].pc = "dead" /\ rt'[r].serving = FALSE /\ rt'[r].error = FALSE
      BY <1>1, <3>1, <3>2, Signalled
    <3>5. \A q \in Launch \ {r} : rt'[q] = rt[q] /\ ~Live(q)
      BY <3>3, <3>4 DEF OnlyMoves, LifecycleInv, OnlyLast
    <3>6. /\ OnlyCommand(c) /\ cmd'[c].pc = "stopwait" /\ cmd'[c].seen = dir.state
      BY <1>1, <2>2, Seen, CommandNames
    <3>7. Keeps(c) /\ ReliesOn(c)'
      BY <1>1, <1>2, <2>1, <3>1, <3>3, <3>6 DEF Keeps, ReliesOn, At, Waiting
    <3>8. LockHeld' /\ Undisturbed' /\ lock' \in Commands \cup {Nil}
      BY <1>1, <3>6, <3>7, OthersWait
    <3>9. LifecycleTyped'
      BY <1>1, <3>4, <3>6, <3>8 DEF LifecycleTyped, OnlyMoves, OnlyCommand
    <3>10. StepsOf(r)' /\ OwnOf(r)' /\ (Live(r)' => Named(r)')
      BY <1>1, <3>3, <3>4 DEF StepsOf, OwnOf, AloneInRegistry, Live, Named, ComingUp, Aborting, AfterHost, Shutdown
    <3>11. Steps' /\ OwnSession'
      BY <1>1, <3>5, <3>10 DEF Steps, StepsOf, OwnSession, OwnOf, AloneInRegistry, Live, LifecycleInv
    <3>12. OnlyLast'
      BY <1>1, <3>3, <3>5, <3>10 DEF OnlyLast, Live
    <3>13. Unlaunched' /\ SessionRecorded'
      BY <1>1, <3>3, <3>5 DEF Unlaunched, SessionRecorded, LifecycleInv, Launch
    <3> QED
      BY <3>8, <3>9, <3>11, <3>12, <3>13 DEF LifecycleInv
  <2> QED
    BY <1>3, <1>5, <2>1, <2>2 DEF StopSignal
<1>6. CASE StopWait(c)
  <2>1. PICK r \in Launch : r = launches /\ Exits(r) /\ UNCHANGED lock
    BY <1>1, <1>6 DEF StopWait, LifecycleInv, LifecycleTyped, Undisturbed, ReliesOn, Launch, At
  <2>2. OnlyMoves(r) /\ rt'[r].pc = "dead" /\ rt'[r].serving = FALSE /\ rt'[r].error = FALSE
    BY <1>1, <2>1, Ends
  <2>3. \A q \in Launch : ~Live(q)'
    BY <2>1, <2>2 DEF OnlyMoves, Live, LifecycleInv, OnlyLast
  <2>4. OnlyCommand(c) /\ cmd'[c].pc = "tunnel"
    BY <1>1, <1>6, Stepped, CommandNames DEF StopWait
  <2>5. Keeps(c) /\ ReliesOn(c)'
    BY <1>2, <2>1, <2>3, <2>4 DEF Keeps, ReliesOn, At, Waiting
  <2>6. LockHeld' /\ Undisturbed' /\ lock' \in Commands \cup {Nil}
    BY <1>1, <2>4, <2>5, OthersWait
  <2>7. LifecycleTyped'
    BY <1>1, <2>2, <2>4, <2>6 DEF LifecycleTyped, OnlyMoves, OnlyCommand
  <2>8. Steps' /\ OwnSession' /\ OnlyLast'
    BY <1>1, <2>2, <2>3 DEF Steps, StepsOf, OwnSession, OwnOf, OnlyLast, Live, LifecycleInv,
         OnlyMoves, ComingUp, Aborting, AfterHost, Shutdown
  <2>9. Unlaunched' /\ SessionRecorded'
    BY <1>1, <2>1, <2>2 DEF Unlaunched, SessionRecorded, LifecycleInv, Launch, OnlyMoves
  <2> QED
    BY <2>6, <2>7, <2>8, <2>9 DEF LifecycleInv
<1> QED
  BY <1>4, <1>5, <1>6

\* The recovery of what a dead runtime left.
LEMMA CleaningSteps ==
    ASSUME LifecycleInv, NEW c \in Commands, CleanTunnel(c) \/ CleanSessions(c) \/ ClearState(c)
    PROVE  LifecycleInv'
<1>1. /\ LifecycleTyped /\ dir \in DirectoryRecord /\ child \in [Launch -> {"none", "up"}]
      /\ session \in [Launch -> {"none", "up", "ended"}] /\ launches \in launches..MaxLaunches
      /\ SessionRecorded /\ UNCHANGED <<rt, launches>>
      /\ cmd[c].pc \in {"tunnel", "sessions", "clear"} /\ cmd[c].pc \notin Waiting
  BY NilIsNothing DEF LifecycleInv, LifecycleTyped, CleanTunnel, CleanSessions, ClearState, At, Waiting
<1>2. lock = c
  BY <1>1, Holder
<1>3. ReliesOn(c) /\ \A r \in Launch : ~Live(r)
  BY <1>1 DEF LifecycleInv, Undisturbed, ReliesOn, Waiting
<1>4. ASSUME Finish(c, "ok") \/ Finish(c, "error")
      PROVE  OnlyCommand(c) /\ Keeps(c) /\ ReliesOn(c)'
  <2>1. OnlyCommand(c) /\ cmd'[c].pc = "done" /\ lock' = Nil
    BY <1>1, <1>4, Finished
  <2> QED
    BY <2>1 DEF Keeps, ReliesOn, At, Waiting
<1>5. CASE CleanTunnel(c)
  <2>1. CASE UNCHANGED <<dir, child>> /\ Finish(c, "error")
    BY <1>1, <1>5, <2>1, Returns DEF CleanTunnel, At
  <2>2. CASE cleanup_stale_tunnel_child /\ Step(c, "sessions") /\ UNCHANGED lock
    <3>1. OnlyCommand(c) /\ cmd'[c].pc = "sessions"
      BY <1>1, <2>2, Stepped, CommandNames
    <3>2. /\ dir' \in DirectoryRecord /\ dir'.registry = dir.registry /\ dir'.tunnel = Nil
          /\ child' \in [Launch -> {"none", "up"}] /\ UNCHANGED session
      BY <1>1, <1>5, <2>2, TunnelWritten DEF cleanup_stale_tunnel_child, CleanTunnel
    <3>3. Keeps(c) /\ ReliesOn(c)'
      BY <1>1, <1>2, <1>3, <2>2, <3>1, <3>2 DEF Keeps, ReliesOn, At, Waiting, Live
    <3>4. SessionRecorded'
      BY <1>1, <3>2 DEF SessionRecorded
    <3> QED
      BY <1>1, <1>3, <3>1, <3>2, <3>3, <3>4, NobodyLives
  <2> QED
    BY <1>5, <2>1, <2>2 DEF CleanTunnel
<1>6. CASE CleanSessions(c)
  <2>0. UNCHANGED <<dir, child>>
    BY <1>6 DEF CleanSessions
  <2>1. CASE UNCHANGED session /\ Finish(c, "error")
    BY <1>1, <2>0, <2>1, Returns DEF At
  <2>2. CASE dir.registry = Nil /\ Step(c, "clear") /\ UNCHANGED <<session, lock>>
    <3>1. OnlyCommand(c) /\ cmd'[c].pc = "clear"
      BY <1>1, <2>2, Stepped, CommandNames
    <3>2. \A r \in Launch : session[r] # "up"
      BY <1>1, <2>2 DEF SessionRecorded
    <3>3. Keeps(c) /\ ReliesOn(c)'
      BY <1>1, <1>2, <1>3, <1>6, <2>0, <2>2, <3>1, <3>2
         DEF Keeps, ReliesOn, At, Waiting, Live, CleanSessions
    <3>4. SessionRecorded'
      BY <1>1, <2>0, <2>2 DEF SessionRecorded
    <3> QED
      BY <1>1, <1>3, <2>0, <2>2, <3>1, <3>3, <3>4, NobodyLives
  <2>3. CASE dir.registry # Nil /\ TerminateRecorded /\ Step(c, "clear") /\ UNCHANGED lock
    <3>1. OnlyCommand(c) /\ cmd'[c].pc = "clear"
      BY <1>1, <2>3, Stepped, CommandNames
    <3>2. PICK o \in Launch : session' = [session EXCEPT ![o] = IF @ = "up" THEN "ended" ELSE @]
                              /\ o = dir.registry.owner
      BY <1>1, <2>3 DEF TerminateRecorded, DirectoryRecord, RegistryRecord
    <3>3. /\ session' \in [Launch -> {"none", "up", "ended"}]
          /\ \A q \in Launch : session'[q] = session[q] \/ (session[q] # "none" /\ session'[q] # "up")
      BY <1>1, <3>2
    <3>4. \A q \in Launch : session'[q] # "up"
      BY <1>1, <3>2 DEF SessionRecorded
    <3>5. Keeps(c) /\ ReliesOn(c)'
      BY <1>1, <1>2, <1>3, <1>6, <2>0, <2>3, <3>1, <3>4
         DEF Keeps, ReliesOn, At, Waiting, Live, CleanSessions
    <3>6. SessionRecorded'
      BY <3>4 DEF SessionRecorded
    <3> QED
      BY <1>1, <1>3, <2>0, <3>1, <3>3, <3>5, <3>6, NobodyLives
  <2> QED
    BY <1>6, <2>1, <2>2, <2>3 DEF CleanSessions, same_runtime
<1>7. CASE ClearState(c)
  <2>1. dir' = EmptyDirectory /\ UNCHANGED <<child, session>> /\ At(c, "clear")
    BY <1>7 DEF ClearState, clear_runtime_state
  <2>2. \A r \in Launch : session[r] # "up"
    BY <1>3, <2>1 DEF ReliesOn
  <2>3. OnlyCommand(c) /\ Keeps(c) /\ ReliesOn(c)'
    <3>1. CASE Step(c, "prepare") /\ UNCHANGED lock
      <4>1. OnlyCommand(c) /\ cmd'[c].pc = "prepare"
        BY <1>1, <3>1, Stepped, CommandNames
      <4> QED
        BY <1>1, <1>2, <1>3, <2>1, <3>1, <4>1, Emptied DEF Keeps, ReliesOn, At, Waiting, Live
    <3> QED
      BY <1>4, <1>7, <3>1 DEF ClearState
  <2>4. SessionRecorded'
    BY <2>1, <2>2 DEF SessionRecorded
  <2> QED
    BY <1>1, <1>3, <2>1, <2>3, <2>4, Emptied, NobodyLives
<1> QED
  BY <1>5, <1>6, <1>7

LEMMA LaunchingSteps ==
    ASSUME LifecycleInv, NEW c \in Commands,
           prepare_local_launch(c) \/ PublishStarting(c) \/ PrepareFails(c)
    PROVE  LifecycleInv'
<1>1. /\ LifecycleTyped /\ dir \in DirectoryRecord /\ child \in [Launch -> {"none", "up"}]
      /\ session \in [Launch -> {"none", "up", "ended"}] /\ launches \in launches..MaxLaunches
      /\ SessionRecorded /\ UNCHANGED <<rt, child, session>> /\ cmd[c] \in CommandRecord
      /\ cmd[c].pc \in {"prepare", "state"} /\ cmd[c].pc \notin Waiting
  BY NilIsNothing
     DEF LifecycleInv, LifecycleTyped, prepare_local_launch, PublishStarting, PrepareFails, At, Waiting
<1>2. lock = c /\ launches \in 0..MaxLaunches
  BY <1>1, Holder DEF LifecycleTyped
<1>3. ReliesOn(c) /\ \A r \in Launch : ~Live(r)
  BY <1>1 DEF LifecycleInv, Undisturbed, ReliesOn, Waiting
<1>4. CASE prepare_local_launch(c)
  <2>1. /\ launches' = launches + 1 /\ launches' \in launches..MaxLaunches /\ launches' \in Launch
        /\ launches' > launches /\ launches' # 0 /\ UNCHANGED lock
    BY <1>2, <1>4, NilIsNothing DEF prepare_local_launch, Launch
  <2> DEFINE d == [dir EXCEPT !.handoff = TRUE]
             n == cmd[c].attempt + 1
             x == [[[[cmd[c] EXCEPT !.pc = "state"] EXCEPT !.launch = launches'] EXCEPT !.attempt = n]
                     EXCEPT !.retry = FALSE]
  <2>2. d \in DirectoryRecord /\ d.registry = dir.registry /\ d.discovery = dir.discovery
    BY <1>1, HandoffWritten
  <2>3. dir' = [d EXCEPT !.bootstrap = launches']
    BY <1>1, <1>4 DEF prepare_local_launch, DirectoryRecord
  <2>4. "state" \in CommandSteps /\ n \in Nat
    BY <1>1, CommandNames DEF CommandRecord
  <2>6. cmd' = [cmd EXCEPT ![c] = x]
    BY <1>1, <1>4 DEF prepare_local_launch, CommandRecord
  <2> HIDE DEF n
  <2>5. x \in CommandRecord /\ x.pc = "state" /\ x.launch = launches'
    BY <1>1, <2>1, <2>4 DEF CommandRecord
  <2> HIDE DEF d, x
  <2>7. /\ dir' \in DirectoryRecord /\ dir'.registry = dir.registry /\ dir'.bootstrap = launches'
        /\ dir'.discovery = dir.discovery
    BY <2>1, <2>2, <2>3, BootstrapWritten
  <2>8. OnlyCommand(c) /\ cmd'[c].pc = "state" /\ cmd'[c].launch = launches'
    BY <1>1, <2>5, <2>6 DEF OnlyCommand, LifecycleTyped
  <2>9. rt[launches'].pc = "none" /\ dir.discovery = Nil
    BY <1>3, <1>4, <2>1 DEF LifecycleInv, Unlaunched, ReliesOn, prepare_local_launch, At
  <2>10. Keeps(c) /\ ReliesOn(c)'
    BY <1>1, <1>2, <1>3, <2>1, <2>7, <2>8, <2>9 DEF Keeps, ReliesOn, At, Waiting, Live
  <2>11. SessionRecorded'
    BY <1>1, <2>7 DEF SessionRecorded
  <2> QED
    BY <1>1, <1>3, <2>1, <2>7, <2>8, <2>10, <2>11, NobodyLives
<1>5. CASE PublishStarting(c)
  <2> DEFINE st == [id |-> cmd[c].launch, process |-> Nil, lifecycle |-> "starting", healthy |-> FALSE]
  <2>1. cmd[c].launch = launches /\ launches \in Launch /\ UNCHANGED <<lock, launches>>
    BY <1>2, <1>3, <1>5, NilIsNothing DEF PublishStarting, ReliesOn, At, Launch
  <2>2. st \in StateRecord /\ st.id = launches /\ st.process = Nil
    BY <2>1 DEF StateRecord
  <2>3. dir' = [dir EXCEPT !.state = st]
    BY <1>5 DEF PublishStarting
  <2> HIDE DEF st
  <2>4. /\ dir' \in DirectoryRecord /\ OtherFiles(dir, dir')
        /\ dir'.state # Nil /\ dir'.state.id = launches /\ dir'.state.process = Nil
    BY <1>1, <2>2, <2>3, StatePut
  <2>5. OnlyCommand(c) /\ cmd'[c].pc = "spawn" /\ cmd'[c].launch = launches
    BY <1>1, <1>5, <2>1, Stepped, CommandNames DEF PublishStarting
  <2>6. Keeps(c) /\ ReliesOn(c)'
    BY <1>1, <1>2, <1>3, <1>5, <2>1, <2>4, <2>5
       DEF Keeps, ReliesOn, At, Waiting, Live, PublishStarting, OtherFiles
  <2>7. SessionRecorded'
    BY <1>1, <2>4 DEF SessionRecorded, OtherFiles
  <2> QED
    BY <1>1, <1>3, <2>1, <2>4, <2>5, <2>6, <2>7, NobodyLives
<1>6. CASE PrepareFails(c)
  BY <1>1, <1>6, Returns DEF PrepareFails, At
<1> QED
  BY <1>4, <1>5, <1>6

\* The launched process comes up while its command waits.
LEMMA SpawningStep ==
    ASSUME LifecycleInv, NEW c \in Commands, SpawnRuntime(c)
    PROVE  LifecycleInv'
<1>1. /\ LifecycleTyped /\ dir \in DirectoryRecord /\ child \in [Launch -> {"none", "up"}]
      /\ session \in [Launch -> {"none", "up", "ended"}] /\ launches \in launches..MaxLaunches
      /\ SessionRecorded /\ UNCHANGED <<dir, child, session, launches, lock>>
      /\ At(c, "spawn") /\ cmd[c].pc \notin Waiting
  BY NilIsNothing DEF LifecycleInv, LifecycleTyped, SpawnRuntime, At, Waiting
<1>2. lock = c /\ launches \in 0..MaxLaunches
  BY <1>1, Holder DEF LifecycleTyped
<1>3. ReliesOn(c) /\ \A r \in Launch : ~Live(r)
  BY <1>1 DEF LifecycleInv, Undisturbed, ReliesOn, Waiting, At
<1>4. CASE UNCHANGED rt /\ Step(c, "partial")
  <2>1. OnlyCommand(c) /\ cmd'[c].pc = "partial"
    BY <1>1, <1>4, Stepped, CommandNames
  <2>2. Keeps(c) /\ ReliesOn(c)'
    BY <1>1, <1>2, <1>3, <1>4, <2>1 DEF Keeps, ReliesOn, At, Waiting, Live
  <2>3. SessionRecorded'
    BY <1>1 DEF SessionRecorded
  <2> QED
    BY <1>1, <1>3, <1>4, <2>1, <2>2, <2>3, NobodyLives
<1>5. CASE Goto(cmd[c].launch, "exec") /\ Step(c, "await")
  <2>1. PICK r \in Launch : r = launches /\ r = cmd[c].launch /\ launches # 0
    BY <1>1, <1>2, <1>3, NilIsNothing DEF ReliesOn, At, Launch
  <2>2. Goto(r, "exec") /\ rt[r].pc = "none"
    BY <1>1, <1>3, <1>5, <2>1 DEF ReliesOn, At
  <2>3. /\ OnlyMoves(r) /\ rt'[r].pc = "exec" /\ rt'[r].serving = rt[r].serving
        /\ rt'[r].error = rt[r].error
    BY <1>1, <2>2, Goes, StepNames
  <2>4. StepsOf(r) /\ rt[r] \in RuntimeRecord
    BY <1>1 DEF LifecycleInv, Steps, LifecycleTyped
  <2>5. OnlyCommand(c) /\ cmd'[c].pc = "await" /\ cmd'[c].launch = cmd[c].launch
    BY <1>1, <1>5, Stepped, CommandNames
  <2>6. Keeps(c) /\ ReliesOn(c)'
    BY <1>1, <1>2, <1>3, <2>1, <2>5 DEF Keeps, ReliesOn, At, Waiting
  <2>7. LockHeld' /\ Undisturbed' /\ lock' \in Commands \cup {Nil}
    BY <1>1, <2>5, <2>6, OthersWait
  <2>8. LifecycleTyped'
    BY <1>1, <2>3, <2>5, <2>7 DEF LifecycleTyped, OnlyMoves, OnlyCommand
  <2>9. /\ dir.bootstrap = r /\ dir.state # Nil /\ dir.state.id = r /\ dir.state.process = Nil
        /\ dir.discovery # r
    BY <1>1, <1>3, <2>1, NilIsNothing DEF ReliesOn, At
  <2>10. Named(r)' /\ StepsOf(r)' /\ OwnOf(r)'
    BY <1>1, <2>2, <2>3, <2>4, <2>5, <2>9
       DEF Named, StepsOf, OwnOf, At, ComingUp, Aborting, AfterHost, Shutdown
  <2>11. \A q \in Launch \ {r} : rt'[q] = rt[q] /\ ~Live(q)
    BY <1>3, <2>3 DEF OnlyMoves
  <2>12. Steps' /\ OwnSession' /\ OnlyLast'
    BY <1>1, <2>1, <2>10, <2>11
       DEF Steps, StepsOf, OwnSession, OwnOf, OnlyLast, Live, LifecycleInv, ComingUp
  <2>13. Unlaunched' /\ SessionRecorded'
    BY <1>1, <2>1, <2>11 DEF Unlaunched, SessionRecorded, LifecycleInv, Launch
  <2> QED
    BY <2>7, <2>8, <2>12, <2>13 DEF LifecycleInv
<1> QED
  BY <1>1, <1>4, <1>5 DEF SpawnRuntime

\* A start that gives up has no process: the last launch is named by the files.
LEMMA AwaitingSteps ==
    ASSUME LifecycleInv, Timely, NEW c \in Commands,
           AwaitReady(c) \/ AwaitFails(c) \/ cleanup_partial_start(c)
    PROVE  LifecycleInv'
<1>1. /\ LifecycleTyped /\ dir \in DirectoryRecord /\ child \in [Launch -> {"none", "up"}]
      /\ session \in [Launch -> {"none", "up", "ended"}] /\ launches \in launches..MaxLaunches
      /\ SessionRecorded /\ UNCHANGED <<dir, child, session, launches>> /\ cmd[c] \in CommandRecord
      /\ cmd[c].pc \notin Waiting /\ ReliesOn(c)
  BY NilIsNothing
     DEF LifecycleInv, LifecycleTyped, AwaitReady, AwaitFails, cleanup_partial_start, At, Waiting,
         Undisturbed
<1>2. lock = c /\ SessionRecorded'
  BY <1>1, Holder DEF SessionRecorded
<1>3. CASE AwaitReady(c)
  <2>1. \A r \in Launch : Live(r) => rt[r].serving
    <3> SUFFICES ASSUME NEW r \in Launch, Live(r) PROVE rt[r].serving
      OBVIOUS
    <3>1. r = launches /\ Named(r)
      BY AliveIs
    <3>2. dir.discovery = r
      BY <1>1, <1>3, <3>1 DEF AwaitReady, Ready, ReliesOn, At
    <3> QED
      BY <3>1, <3>2 DEF Named
  <2> QED
    BY <1>1, <1>3, <2>1, Returns DEF AwaitReady
<1>4. CASE AwaitFails(c)
  <2>1. \A r \in Launch : ~Live(r)
    <3> SUFFICES ASSUME NEW r \in Launch, Live(r) PROVE FALSE
      OBVIOUS
    <3>1. r = launches /\ Named(r)
      BY AliveIs
    <3>2. cmd[c].launch = r
      BY <1>1, <1>4, <3>1 DEF AwaitFails, ReliesOn, At
    <3> QED
      BY <1>4, <3>1, <3>2 DEF AwaitFails, GivesUp, Timely, Named
  <2> DEFINE retry == cmd[c].attempt = 1 /\ runtime_never_published_process(c)
             x == [[cmd[c] EXCEPT !.pc = "partial"] EXCEPT !.retry = retry]
  <2>2. "partial" \in CommandSteps /\ retry \in BOOLEAN
    BY CommandNames
  <2>3. cmd' = [cmd EXCEPT ![c] = x]
    BY <1>1, <1>4 DEF AwaitFails, CommandRecord
  <2> HIDE DEF retry
  <2>4. x \in CommandRecord /\ x.pc = "partial"
    BY <1>1, <2>2 DEF CommandRecord
  <2> HIDE DEF x
  <2>5. OnlyCommand(c) /\ cmd'[c].pc = "partial" /\ UNCHANGED <<rt, lock>>
    <3>1. cmd \in [Commands -> CommandRecord] /\ UNCHANGED <<rt, lock>>
      BY <1>1, <1>4 DEF LifecycleTyped, AwaitFails
    <3> QED
      BY <2>3, <2>4, <3>1 DEF OnlyCommand
  <2>6. Keeps(c) /\ ReliesOn(c)'
    BY <1>1, <1>2, <2>1, <2>5 DEF Keeps, ReliesOn, At, Waiting, Live
  <2> QED
    BY <1>1, <1>2, <2>1, <2>5, <2>6, NobodyLives
<1>5. CASE cleanup_partial_start(c)
  <2>1. \A r \in Launch : ~Live(r)
    BY <1>1, <1>5 DEF cleanup_partial_start, ReliesOn, At, Waiting
  <2>2. ~ProcessAlive(dir.state)
    BY <1>1, <2>1 DEF ProcessAlive, DirectoryRecord, StateRecord
  <2>3. OnlyCommand(c) /\ cmd'[c].pc = "tunnel" /\ UNCHANGED <<rt, lock>>
    BY <1>1, <1>5, <2>2, Seen, CommandNames DEF cleanup_partial_start
  <2>4. Keeps(c) /\ ReliesOn(c)'
    BY <1>1, <1>2, <2>1, <2>3 DEF Keeps, ReliesOn, At, Waiting, Live
  <2> QED
    BY <1>1, <1>2, <2>1, <2>3, <2>4, NobodyLives
<1> QED
  BY <1>3, <1>4, <1>5

-----------------------------------------------------------------------------
(* The theorems *)

LEMMA LifecycleStarts == LifecycleInit => LifecycleInv
<1> SUFFICES ASSUME LifecycleInit PROVE LifecycleInv
  OBVIOUS
<1>1. "none" \in RuntimeSteps /\ "idle" \in CommandSteps /\ "idle" \in Waiting
  BY StepNames, CommandNames
<1>2. /\ rt = [r \in Launch |-> NoProcess("none")] /\ session = [r \in Launch |-> "none"]
      /\ child = [r \in Launch |-> "none"] /\ launches = 0 /\ lock = Nil
  BY DEF LifecycleInit
<1>3. NoProcess("none") \in RuntimeRecord /\ NoProcess("none").pc = "none"
      /\ NoProcess("none").serving = FALSE /\ NoProcess("none").error = FALSE
  BY <1>1, NoProcessIs
<1>4. NewCommand \in CommandRecord /\ NewCommand.pc = "idle"
  BY <1>1 DEF NewCommand, CommandRecord
<1>5. \A r \in Launch : rt[r].pc = "none" /\ rt[r].serving = FALSE /\ rt[r].error = FALSE
                       /\ session[r] = "none"
  BY <1>2, <1>3
<1>6. \A c \in Commands : cmd[c].pc = "idle"
  BY <1>4 DEF LifecycleInit
<1>7. LifecycleTyped
  BY <1>2, <1>3, <1>4, Emptied, NilIsNothing DEF LifecycleTyped, LifecycleInit
<1>8. LockHeld /\ Undisturbed
  BY <1>1, <1>2, <1>6, NilIsNothing DEF LockHeld, Undisturbed, ReliesOn, At
<1>9. Steps /\ OnlyLast /\ Unlaunched /\ SessionRecorded /\ OwnSession
  BY <1>5 DEF Steps, StepsOf, OnlyLast, Live, Unlaunched, SessionRecorded, OwnSession, OwnOf, AfterHost,
              Shutdown, ComingUp
<1> QED
  BY <1>7, <1>8, <1>9 DEF LifecycleInv

LEMMA LifecycleKeeps ==
    ASSUME Timely, LifecycleInv, [LifecycleNext]_lifecycleVars
    PROVE  LifecycleInv'
<1>1. ASSUME NEW r \in Launch,
             \/ RuntimeStep(r) \/ RunFails(r) \/ ReportHealth(r) \/ StopRequested(r)
             \/ SessionStarts(r) \/ SessionExits(r) \/ SessionReaped(r) \/ ChildExits(r) \/ RuntimeCrash(r)
      PROVE  LifecycleInv'
  BY <1>1, ReadingSteps, WritingSteps, TunnelSteps, RuntimeEnds, AbortSteps, SessionSteps, ProcessesEnd
     DEF RuntimeStep
<1>2. ASSUME NEW c \in Commands, CommandStep(c) \/ PrepareFails(c)
      PROVE  LifecycleInv'
  BY <1>2, WaitingSteps, CheckingSteps, CleaningSteps, LaunchingSteps, SpawningStep, AwaitingSteps
     DEF CommandStep
<1>3. ASSUME NEW c \in Commands, \E goal \in {"start", "stop"} : Invoke(c, goal)
      PROVE  LifecycleInv'
  BY <1>3, WaitingSteps
<1>4. CASE UNCHANGED lifecycleVars
  BY <1>4 DEF lifecycleVars, LifecycleInv, LifecycleTyped, LockHeld, Steps, StepsOf, OnlyLast, Live, Named,
              At, Unlaunched, Undisturbed, ReliesOn, SessionRecorded, OwnSession, OwnOf, AloneInRegistry
<1> QED
  BY <1>1, <1>2, <1>3, <1>4 DEF LifecycleNext

(***************************************************************************)
(* While the deadlines of the code are met, only the last launch can be    *)
(* alive, the files name it, and the command that holds the lifecycle lock *)
(* works on the directory of a dead runtime (LocalLifecycleLock,           *)
(* cleanup_stale_runtime, prepare_local_launch, wait_for_runtime_ready).   *)
(***************************************************************************)
THEOREM LifecycleInvariant ==
    ASSUME Timely
    PROVE  LifecycleSpec => []LifecycleInv
<1>1. LifecycleInit => LifecycleInv
  BY LifecycleStarts
<1>2. LifecycleInv /\ [LifecycleNext]_lifecycleVars => LifecycleInv'
  BY LifecycleKeeps
<1> QED
  BY <1>1, <1>2, PTL DEF LifecycleSpec

(***************************************************************************)
(* At most one runtime serves clients, however starts, stops, crashes and  *)
(* retries interleave: healthy_existing_discovery, the refusal of          *)
(* cleanup_stale_runtime and the wait of stop keep a second one from       *)
(* coming up.                                                              *)
(***************************************************************************)
THEOREM OneServingSafe ==
    ASSUME Timely
    PROVE  LifecycleSpec => []OneServing
<1>1. LifecycleInv => OneServing
  BY DEF LifecycleInv, OnlyLast, OneServing, Live
<1> QED
  BY <1>1, LifecycleInvariant, PTL

(***************************************************************************)
(* No session is lost: one that outlives its runtime is the one that the   *)
(* registry file still records, so the next start or stop finds it         *)
(* (terminate_matching_stale_processes).                                   *)
(***************************************************************************)
THEOREM EvidenceKeptSafe ==
    ASSUME Timely
    PROVE  LifecycleSpec => []EvidenceKept
<1>1. LifecycleInv => EvidenceKept
  BY DEF LifecycleInv, SessionRecorded, EvidenceKept
<1> QED
  BY <1>1, LifecycleInvariant, PTL

(***************************************************************************)
(* Whoever ends what the runtime directory names, or clears it, has ended  *)
(* and hits only what is its own or dead: the error path of                *)
(* run_hidden_runtime, clear_runtime_state of a command, and the one at    *)
(* the end of coordinated_hidden_shutdown.                                 *)
(***************************************************************************)
THEOREM EvidenceRespectedSafe ==
    ASSUME Timely
    PROVE  LifecycleSpec => EvidenceRespected
<1>1. LifecycleInv => LeavesOthers /\ ClearsOnlyDead /\ OwnFilesOnly
  <2> SUFFICES ASSUME LifecycleInv PROVE LeavesOthers /\ ClearsOnlyDead /\ OwnFilesOnly
    OBVIOUS
  <2>1. LeavesOthers
    BY DEF LeavesOthers, LifecycleInv, OnlyLast, Live
  <2>2. ClearsOnlyDead
    <3> SUFFICES ASSUME NEW c \in Commands, At(c, "clear")
                 PROVE  /\ ~ProcessAlive(dir.state) /\ dir.tunnel = Nil
                        /\ dir.registry # Nil => session[dir.registry.owner] # "up"
      BY DEF ClearsOnlyDead
    <3>1. ReliesOn(c) /\ dir \in DirectoryRecord
      BY DEF LifecycleInv, Undisturbed, LifecycleTyped
    <3>2. dir.tunnel = Nil /\ \A r \in Launch : ~Live(r) /\ session[r] # "up"
      BY <3>1 DEF ReliesOn, At, Waiting
    <3> QED
      BY <3>1, <3>2 DEF ProcessAlive, DirectoryRecord, StateRecord, RegistryRecord
  <2>3. OwnFilesOnly
    BY DEF OwnFilesOnly, LifecycleInv, OnlyLast, Live, Named, Steps, StepsOf, AfterHost, Shutdown
  <2> QED
    BY <2>1, <2>2, <2>3
<1>2. LifecycleInv /\ [LifecycleNext]_lifecycleVars => [LeavesOthers /\ ClearsOnlyDead /\ OwnFilesOnly]_lifecycleVars
  BY <1>1
<1> QED
  BY <1>2, LifecycleInvariant, PTL DEF EvidenceRespected, LifecycleSpec

-----------------------------------------------------------------------------
(***************************************************************************)
(* The timeline shows every card once, as its rows are, whatever is called,*)
(* deleted and paged meanwhile, for every script of calls and page size.   *)
(***************************************************************************)

(***************************************************************************)
(* Finite sets in order.  An element's rank is the number of elements      *)
(* before it; every rank up to the size of the set is taken once, without  *)
(* which neither the latest poll nor the order of a page would exist.      *)
(***************************************************************************)

Order(R, S) ==
    /\ IsFiniteSet(S)
    /\ \A a \in S : <<a, a>> \notin R
    /\ \A a, b, c \in S : <<a, b>> \in R /\ <<b, c>> \in R => <<a, c>> \in R
    /\ \A a, b \in S : a # b => <<a, b>> \in R \/ <<b, a>> \in R
Below(R, S, k) == {j \in S : <<j, k>> \in R}
Rank(R, S, k) == Cardinality(Below(R, S, k))

LEMMA RankIs ==
    ASSUME NEW S, NEW R, Order(R, S), NEW k \in S
    PROVE  Rank(R, S, k) \in 0..Cardinality(S) - 1 /\ Cardinality(S) \in Nat /\ IsFiniteSet(Below(R, S, k))
<1>1. IsFiniteSet(S) /\ k \notin Below(R, S, k) /\ Below(R, S, k) \in SUBSET S
  BY DEF Order, Below
<1>2. /\ IsFiniteSet(Below(R, S, k)) /\ Cardinality(Below(R, S, k)) <= Cardinality(S)
      /\ Cardinality(Below(R, S, k)) # Cardinality(S)
  BY <1>1, FS_Subset
<1>3. Cardinality(Below(R, S, k)) \in Nat /\ Cardinality(S) \in Nat
  BY <1>1, <1>2, FS_CardinalityType
<1> QED
  BY <1>2, <1>3 DEF Rank

LEMMA RankGrows ==
    ASSUME NEW S, NEW R, Order(R, S), NEW a \in S, NEW b \in S, <<a, b>> \in R
    PROVE  Rank(R, S, a) < Rank(R, S, b)
<1>1. Below(R, S, a) \in SUBSET Below(R, S, b) /\ a \in Below(R, S, b) /\ a \notin Below(R, S, a)
  BY DEF Order, Below
<1>2. IsFiniteSet(Below(R, S, b))
  BY RankIs
<1>3. Rank(R, S, a) <= Rank(R, S, b) /\ Rank(R, S, a) # Rank(R, S, b)
  BY <1>1, <1>2, FS_Subset DEF Rank
<1>4. Rank(R, S, a) \in Nat /\ Rank(R, S, b) \in Nat
  BY RankIs
<1> QED
  BY <1>3, <1>4

LEMMA RankTells ==
    ASSUME NEW S, NEW R, Order(R, S), NEW a \in S, NEW b \in S
    PROVE  /\ Rank(R, S, a) = Rank(R, S, b) => a = b
           /\ Rank(R, S, a) < Rank(R, S, b) => <<a, b>> \in R
<1>1. Rank(R, S, a) \in Nat /\ Rank(R, S, b) \in Nat
  BY RankIs
<1>2. a = b \/ <<a, b>> \in R \/ <<b, a>> \in R
  BY DEF Order
<1> QED
  BY <1>1, <1>2, RankGrows

LEMMA RankTaken ==
    ASSUME NEW S, NEW R, Order(R, S), NEW n \in 0..Cardinality(S) - 1
    PROVE  \E k \in S : Rank(R, S, k) = n
<1> DEFINE T == 0..Cardinality(S) - 1
           f == [k \in S |-> Rank(R, S, k)]
<1>1. IsFiniteSet(S) /\ Cardinality(S) \in Nat
  BY FS_CardinalityType DEF Order
<1>2. IsFiniteSet(T) /\ Cardinality(T) = Cardinality(S)
  <2>1. Cardinality(S) - 1 \in Int /\ 0 \in Int
    BY <1>1
  <2>2. IsFiniteSet(T) /\ Cardinality(T) = IF 0 > Cardinality(S) - 1 THEN 0 ELSE (Cardinality(S) - 1) - 0 + 1
    BY <2>1, FS_Interval
  <2> QED
    BY <1>1, <2>2
<1>3. f \in [S -> T]
  BY RankIs
<1>4. \A a, b \in S : f[a] = f[b] => a = b
  BY RankTells
<1> HIDE DEF f, T
<1>5. f \in Injection(S, T)
  BY <1>3, <1>4 DEF Injection, IsInjective
<1>6. f \in Surjection(S, T)
  BY <1>1, <1>2, <1>5, FS_Injection
<1>7. \E k \in S : f[k] = n
  BY <1>6 DEF Surjection, T
<1> QED
  BY <1>7 DEF f

LEMMA Greatest ==
    ASSUME NEW S, NEW R, Order(R, S), S # {}
    PROVE  \E k \in S : \A j \in S \ {k} : <<j, k>> \in R
<1>1. IsFiniteSet(S) /\ Cardinality(S) \in Nat /\ Cardinality(S) # 0
  BY FS_CardinalityType, FS_EmptySet DEF Order
<1>2. PICK k \in S : Rank(R, S, k) = Cardinality(S) - 1
  BY <1>1, RankTaken
<1>3. IsFiniteSet(S \ {k}) /\ Cardinality(S \ {k}) = Cardinality(S) - 1
  BY <1>1, FS_RemoveElement
<1>4. Below(R, S, k) \in SUBSET (S \ {k})
  BY DEF Below, Order
<1>5. Below(R, S, k) = S \ {k}
  BY <1>2, <1>3, <1>4, FS_Subset DEF Rank
<1> QED
  BY <1>5 DEF Below

LEMMA OrderPart ==
    ASSUME NEW S, NEW R, Order(R, S), NEW T \in SUBSET S
    PROVE  Order(R, T)
BY FS_Subset DEF Order

-----------------------------------------------------------------------------
(* What the timeline shows of a table of rows R                            *)

RowFields == {"kind", "agent", "parent", "handle", "at", "st"}
In(R) == {i \in Ids : R[i] # NoRow}
IsPoll(R, i) == R[i].kind = "poll"
IsOrphan(R, i) == IsPoll(R, i) /\ R[i].parent = 0
Newer(R, i, j) == R[i].at > R[j].at \/ (R[i].at = R[j].at /\ i > j)
Newest(R, S) == CHOOSE i \in S : \A j \in S \ {i} : Newer(R, i, j)
Group(R, h) == {i \in In(R) : IsOrphan(R, i) /\ R[i].handle = h}
Kids(R, c) == {i \in In(R) : IsPoll(R, i) /\ R[i].parent = c}

CardRoot(R, i) == TimelineRoot(i, i, R[i].at, 0, 0)
GroupRoot(R, h) == TimelineRoot(Min(Group(R, h)), Newest(R, Group(R, h)), Min({R[i].at : i \in Group(R, h)}), 1, h)
LoneRoot(R, i) == TimelineRoot(i, i, R[i].at, 2, 0)
Roots(R) == {CardRoot(R, i) : i \in {j \in In(R) : ~IsPoll(R, j)}}
            \cup {GroupRoot(R, h) : h \in {R[i].handle : i \in {j \in In(R) : IsOrphan(R, j)}} \ {0}}
            \cup {LoneRoot(R, i) : i \in Group(R, 0)}
RowsOf(R, r) == CASE r.kind = 0 -> {i \in In(R) : i = r.id \/ (IsPoll(R, i) /\ R[i].parent = r.id)}
                  [] r.kind = 1 -> Group(R, r.handle)
                  [] r.kind = 2 -> {r.id} \cap In(R)

Polls(R, P) ==
    [polls |-> {<<i, R[i].agent>> : i \in P}, count |-> Cardinality(P),
     final |-> IF P = {} THEN "none" ELSE R[Newest(R, P)].st,
     evidence |-> CASE \E i \in P : R[i].st = "incomplete" -> "incomplete"
                    [] ~(\E i \in P : R[i].st = "incomplete") /\ \E i \in P : R[i].st = "pending" -> "pending"
                    [] OTHER -> "complete"]
CardWith(R, r, a) == [root |-> r.id, rep |-> R[r.rep], at |-> r.at, polls |-> a.polls, count |-> a.count,
                      final |-> a.final, evidence |-> a.evidence]
CardOf(R, r) ==
    CardWith(R, r, CASE r.kind = 0 /\ R[r.rep].kind = "exec" -> Polls(R, Kids(R, r.id))
                     [] r.kind = 0 /\ R[r.rep].kind # "exec" -> Polls(R, {})
                     [] r.kind = 1 -> Polls(R, Group(R, r.handle))
                     [] r.kind = 2 -> Polls(R, {r.rep}))

Reading ==
    /\ present = In(row) /\ ROOTS_CTE = Roots(row)
    /\ \A r : query_rows(r) = RowsOf(row, r) /\ hydrate_roots_uncached(r) = CardOf(row, r)
    /\ \A h : group(h) = Group(row, h)
    /\ \A i : orphan(i) = IsOrphan(row, i) /\ poll(i) = IsPoll(row, i)

LEMMA InTheTable == Reading
<1>1. present = In(row)
  BY DEF present, In
<1>2. \A i : poll(i) = IsPoll(row, i)
  BY DEF poll, IsPoll
<1>3. \A i : orphan(i) = IsOrphan(row, i)
  BY <1>2 DEF orphan, IsOrphan
<1>4. \A h : group(h) = Group(row, h)
  BY <1>1, <1>3 DEF group, Group
<1>5. \A S : latest(S) = Newest(row, S)
  BY DEF latest, later, Newest, Newer
<1>6. ROOTS_CTE = Roots(row)
  BY <1>1, <1>2, <1>3, <1>4, <1>5 DEF ROOTS_CTE, Roots, CardRoot, GroupRoot, LoneRoot, handles
<1>7. \A r : query_rows(r) = RowsOf(row, r)
  BY <1>1, <1>2, <1>4 DEF query_rows, RowsOf
<1>8. \A P : load_poll_aggregates(P) = Polls(row, P)
  BY <1>5 DEF load_poll_aggregates, Polls
<1>9. \A id : load_parent_poll_aggregates(id) = Polls(row, Kids(row, id))
  BY <1>1, <1>2, <1>8 DEF load_parent_poll_aggregates, Kids
<1>10. \A r : hydrate_roots_uncached(r) = CardOf(row, r)
  BY <1>4, <1>8, <1>9 DEF hydrate_roots_uncached, CardOf, Card, CardWith, load_handle_poll_aggregates, single_poll_aggregate
<1> QED
  BY <1>1, <1>2, <1>3, <1>4, <1>6, <1>7, <1>10 DEF Reading

LEMMA InTheNextTable == Reading'
BY InTheTable, PTL

Good(R) == /\ IsFiniteSet(In(R))
           /\ \A i \in In(R) : i \in Nat \ {0} /\ R[i].at \in Nat /\ R[i].handle \in Nat

LEMMA NewestIs ==
    ASSUME NEW R, Good(R), NEW S \in SUBSET In(R), S # {}
    PROVE  /\ Newest(R, S) \in S
           /\ \A i \in S : (\A j \in S \ {i} : Newer(R, i, j)) <=> i = Newest(R, S)
           /\ \A i \in S : (\A j \in S : ~Newer(R, j, i)) <=> i = Newest(R, S)
<1> DEFINE L == {x \in S \X S : Newer(R, x[2], x[1])}
<1>1. \A i \in S : i \in Nat /\ R[i].at \in Nat
  BY DEF Good
<1>2. \A a, b, c \in S : Newer(R, b, a) /\ Newer(R, c, b) => Newer(R, c, a)
  BY <1>1 DEF Newer
<1>3. \A a, b \in S : a # b => Newer(R, a, b) \/ Newer(R, b, a)
  BY <1>1 DEF Newer
<1>4. \A a, b \in S : ~(Newer(R, a, b) /\ Newer(R, b, a))
  BY <1>1 DEF Newer
<1>5. \A a, b \in S : <<a, b>> \in L <=> Newer(R, b, a)
  OBVIOUS
<1>6. IsFiniteSet(S)
  BY FS_Subset DEF Good
<1> HIDE DEF L
<1>7. Order(L, S)
  BY <1>2, <1>3, <1>4, <1>5, <1>6 DEF Order
<1>8. \E k \in S : \A j \in S \ {k} : Newer(R, k, j)
  BY <1>5, <1>7, Greatest
<1>9. Newest(R, S) \in S /\ \A j \in S \ {Newest(R, S)} : Newer(R, Newest(R, S), j)
  BY <1>8 DEF Newest
<1>10. ASSUME NEW i \in S, \A j \in S \ {i} : Newer(R, i, j)
       PROVE  i = Newest(R, S)
  BY <1>4, <1>9, <1>10
<1>11. ASSUME NEW i \in S, \A j \in S : ~Newer(R, j, i)
       PROVE  i = Newest(R, S)
  BY <1>9, <1>11
<1>12. \A j \in S : ~Newer(R, j, Newest(R, S))
  BY <1>4, <1>9
<1> QED
  BY <1>9, <1>10, <1>11, <1>12

LEMMA SameNewest ==
    ASSUME NEW R, NEW Q, Good(R), Good(Q), NEW S, S \subseteq In(R), S \subseteq In(Q), S # {},
           \A i \in S : Q[i] = R[i]
    PROVE  Newest(Q, S) = Newest(R, S)
<1>1. \A i, j \in S : Newer(Q, i, j) <=> Newer(R, i, j)
  BY DEF Newer
<1>2. Newest(R, S) \in S /\ \A j \in S : ~Newer(R, j, Newest(R, S))
  BY NewestIs
<1>3. \A i \in S : (\A j \in S : ~Newer(Q, j, i)) <=> i = Newest(Q, S)
  BY NewestIs
<1> QED
  BY <1>1, <1>2, <1>3

LEMMA SamePolls ==
    ASSUME NEW R, NEW Q, Good(R), Good(Q), NEW S, S \subseteq In(R), S \subseteq In(Q),
           \A i \in S : Q[i] = R[i]
    PROVE  Polls(Q, S) = Polls(R, S)
<1>1. S # {} => Newest(Q, S) = Newest(R, S) /\ Newest(R, S) \in S
  BY SameNewest, NewestIs
<1>2. {<<i, R[i].agent>> : i \in S} = {<<i, Q[i].agent>> : i \in S}
  OBVIOUS
<1>3. (IF S = {} THEN "none" ELSE R[Newest(R, S)].st) = (IF S = {} THEN "none" ELSE Q[Newest(Q, S)].st)
  BY <1>1
<1>4. /\ (\E i \in S : R[i].st = "incomplete") <=> (\E i \in S : Q[i].st = "incomplete")
      /\ (\E i \in S : R[i].st = "pending") <=> (\E i \in S : Q[i].st = "pending")
  OBVIOUS
<1> QED
  BY <1>2, <1>3, <1>4 DEF Polls

\* The three kinds of roots, and the rows a root's card is made of.
LEMMA RootIs ==
    ASSUME NEW R, Good(R), NEW r
    PROVE  r \in Roots(R) <=>
             \/ \E i \in In(R) : ~IsPoll(R, i) /\ r = CardRoot(R, i)
             \/ \E h \in Nat \ {0} : Group(R, h) # {} /\ r = GroupRoot(R, h)
             \/ \E i \in Group(R, 0) : r = LoneRoot(R, i)
<1>1. {R[i].handle : i \in {j \in In(R) : IsOrphan(R, j)}} \ {0} = {h \in Nat \ {0} : Group(R, h) # {}}
  BY DEF Group, Good
<1> QED
  BY <1>1 DEF Roots

LEMMA RowsOfRoot ==
    ASSUME NEW R, Good(R)
    PROVE  /\ \A i \in In(R) : ~IsPoll(R, i) => RowsOf(R, CardRoot(R, i)) = {i} \cup Kids(R, i)
           /\ \A h : RowsOf(R, GroupRoot(R, h)) = Group(R, h)
           /\ \A i \in Group(R, 0) : RowsOf(R, LoneRoot(R, i)) = {i}
<1>1. ASSUME NEW i \in In(R), ~IsPoll(R, i)
      PROVE  RowsOf(R, CardRoot(R, i)) = {i} \cup Kids(R, i)
  BY <1>1 DEF RowsOf, CardRoot, TimelineRoot, Kids
<1>2. \A h : RowsOf(R, GroupRoot(R, h)) = Group(R, h)
  BY DEF RowsOf, GroupRoot, TimelineRoot
<1>3. \A i \in Group(R, 0) : RowsOf(R, LoneRoot(R, i)) = {i}
  BY DEF RowsOf, LoneRoot, TimelineRoot, Group
<1> QED
  BY <1>1, <1>2, <1>3

LEMMA NatMin ==
    ASSUME NEW S, S \subseteq Nat, S # {}
    PROVE  Min(S) \in S /\ \A y \in S : Min(S) <= y
<1> DEFINE L == {x \in Nat \X Nat : x[1] < x[2]}
<1>1. IsWellFoundedOn(L, Nat)
  BY NatLessThanWellFounded DEF OpToRel
<1> HIDE DEF L
<1>2. PICK x \in S : \A y \in S : ~(<<y, x>> \in L)
  BY <1>1, WFMin
<1>3. \A y \in S : ~(y < x)
  BY <1>2 DEF L
<1>4. \A y \in S : x <= y
  BY <1>3
<1> QED
  BY <1>4 DEF Min

RootOf(R, i) == CASE IsPoll(R, i) /\ R[i].parent # 0 -> R[i].parent
                  [] IsOrphan(R, i) /\ R[i].handle # 0 -> Min(Group(R, R[i].handle))
                  [] OTHER -> i

LEMMA RootOfIs == (\A i : root_of(i) = RootOf(row, i)) /\ (\A i : root_of(i) = RootOf(row, i))'
<1>1. Reading /\ Reading'
  BY InTheTable, InTheNextTable
<1>2. \A i : root_of(i) = RootOf(row, i)
  BY <1>1 DEF root_of, RootOf, Reading
<1>3. (\A i : root_of(i) = RootOf(row, i))'
  BY <1>1 DEF root_of, RootOf, Reading
<1> QED
  BY <1>2, <1>3

\* A row is in the card of one root only.
LEMMA RootOfRow ==
    ASSUME NEW R, Good(R), NEW r \in Roots(R)
    PROVE  /\ r.id \in RowsOf(R, r) /\ r.rep \in RowsOf(R, r) /\ RowsOf(R, r) \subseteq In(R)
           /\ \A i \in RowsOf(R, r) : RootOf(R, i) = r.id
           /\ r.kind \in {0, 1, 2}
<1>1. CASE \E i \in In(R) : ~IsPoll(R, i) /\ r = CardRoot(R, i)
  <2>1. PICK i \in In(R) : ~IsPoll(R, i) /\ r = CardRoot(R, i)
    BY <1>1
  <2>2. r.id = i /\ r.rep = i /\ r.kind = 0
    BY <2>1 DEF CardRoot, TimelineRoot
  <2>3. RowsOf(R, r) = {i} \cup Kids(R, i)
    BY <2>1, RowsOfRoot
  <2>4. Kids(R, i) \subseteq In(R) /\ \A k \in Kids(R, i) : IsPoll(R, k) /\ R[k].parent = i
    BY DEF Kids
  <2>5. RootOf(R, i) = i
    BY <2>1 DEF RootOf, IsOrphan
  <2>6. i # 0
    BY DEF Good
  <2>7. \A k \in Kids(R, i) : RootOf(R, k) = i
    BY <2>4, <2>6 DEF RootOf, IsOrphan
  <2> QED
    BY <2>2, <2>3, <2>4, <2>5, <2>7
<1>2. CASE \E h \in Nat \ {0} : Group(R, h) # {} /\ r = GroupRoot(R, h)
  <2>1. PICK h \in Nat \ {0} : Group(R, h) # {} /\ r = GroupRoot(R, h)
    BY <1>2
  <2>2. r.id = Min(Group(R, h)) /\ r.rep = Newest(R, Group(R, h)) /\ r.kind = 1
    BY <2>1 DEF GroupRoot, TimelineRoot
  <2>3. RowsOf(R, r) = Group(R, h)
    BY <2>1, RowsOfRoot
  <2>4. Group(R, h) \in SUBSET In(R) /\ Group(R, h) \subseteq Nat
    BY DEF Group, Good
  <2>5. Min(Group(R, h)) \in Group(R, h) /\ Newest(R, Group(R, h)) \in Group(R, h)
    BY <2>1, <2>4, NatMin, NewestIs
  <2>6. \A k \in Group(R, h) : IsOrphan(R, k) /\ R[k].handle = h
    BY DEF Group
  <2>7. \A k \in Group(R, h) : RootOf(R, k) = Min(Group(R, h))
    BY <2>6 DEF RootOf, IsOrphan
  <2> QED
    BY <2>2, <2>3, <2>4, <2>5, <2>7
<1>3. CASE \E i \in Group(R, 0) : r = LoneRoot(R, i)
  <2>1. PICK i \in Group(R, 0) : r = LoneRoot(R, i)
    BY <1>3
  <2>2. r.id = i /\ r.rep = i /\ r.kind = 2
    BY <2>1 DEF LoneRoot, TimelineRoot
  <2>3. RowsOf(R, r) = {i}
    BY <2>1, RowsOfRoot
  <2>4. i \in In(R) /\ IsOrphan(R, i) /\ R[i].handle = 0
    BY DEF Group
  <2>5. RootOf(R, i) = i
    BY <2>4 DEF RootOf, IsOrphan
  <2> QED
    BY <2>2, <2>3, <2>4, <2>5
<1> QED
  BY <1>1, <1>2, <1>3, RootIs

\* A root whose rows did not change was there before, with the same card.
LEMMA RootStays ==
    ASSUME NEW R, NEW Q, Good(R), Good(Q), NEW r \in Roots(Q),
           RowsOf(R, r) = RowsOf(Q, r), \A i \in RowsOf(Q, r) : R[i] = Q[i]
    PROVE  r \in Roots(R) /\ CardOf(R, r) = CardOf(Q, r)
<1>1. CASE \E i \in In(Q) : ~IsPoll(Q, i) /\ r = CardRoot(Q, i)
  <2>1. PICK i \in In(Q) : ~IsPoll(Q, i) /\ r = CardRoot(Q, i)
    BY <1>1
  <2>2. r.id = i /\ r.rep = i /\ r.kind = 0
    BY <2>1 DEF CardRoot, TimelineRoot
  <2>3. RowsOf(Q, r) = {i} \cup Kids(Q, i)
    BY <2>1, RowsOfRoot
  <2>4. R[i] = Q[i] /\ i \in RowsOf(R, r)
    BY <2>3
  <2>5. i \in In(R) /\ ~IsPoll(R, i) /\ r = CardRoot(R, i)
    BY <2>1, <2>2, <2>4 DEF In, IsPoll, CardRoot
  <2>6. r \in Roots(R)
    BY <2>5, RootIs
  <2>7. RowsOf(R, r) = {i} \cup Kids(R, i)
    BY <2>5, RowsOfRoot
  <2>8. Kids(R, i) = Kids(Q, i)
    <3>1. i \notin Kids(R, i) /\ i \notin Kids(Q, i)
      BY <2>1, <2>5 DEF Kids
    <3> QED
      BY <2>3, <2>7, <3>1
  <2>9. Kids(R, i) \subseteq In(R) /\ Kids(R, i) \subseteq In(Q) /\ \A k \in Kids(R, i) : R[k] = Q[k]
    BY <2>3, <2>8 DEF Kids
  <2>10. Polls(Q, Kids(Q, i)) = Polls(R, Kids(R, i)) /\ Polls(Q, {}) = Polls(R, {})
    <3>1. Polls(Q, Kids(R, i)) = Polls(R, Kids(R, i))
      BY <2>9, SamePolls
    <3>2. Polls(Q, {}) = Polls(R, {})
      BY SamePolls
    <3> QED
      BY <2>8, <3>1, <3>2
  <2>11. CardOf(R, r) = CardOf(Q, r)
    BY <2>2, <2>4, <2>10 DEF CardOf, CardWith
  <2> QED
    BY <2>6, <2>11
<1>2. CASE \E h \in Nat \ {0} : Group(Q, h) # {} /\ r = GroupRoot(Q, h)
  <2>1. PICK h \in Nat \ {0} : Group(Q, h) # {} /\ r = GroupRoot(Q, h)
    BY <1>2
  <2>2. r.id = Min(Group(Q, h)) /\ r.rep = Newest(Q, Group(Q, h)) /\ r.kind = 1 /\ r.handle = h
    BY <2>1 DEF GroupRoot, TimelineRoot
  <2>3. RowsOf(Q, r) = Group(Q, h) /\ RowsOf(R, r) = Group(R, h)
    BY <2>2 DEF RowsOf
  <2>4. Group(R, h) = Group(Q, h) /\ \A k \in Group(R, h) : Q[k] = R[k]
    BY <2>3
  <2>5. Group(R, h) \subseteq In(R) /\ Group(R, h) \subseteq In(Q)
    BY <2>4 DEF Group
  <2>6. Newest(Q, Group(R, h)) = Newest(R, Group(R, h)) /\ Newest(R, Group(R, h)) \in Group(R, h)
    <3>1. Group(R, h) # {}
      BY <2>1, <2>4
    <3>2. Newest(Q, Group(R, h)) = Newest(R, Group(R, h))
      BY <2>4, <2>5, <3>1, SameNewest
    <3>3. Newest(R, Group(R, h)) \in Group(R, h)
      BY <2>5, <3>1, NewestIs
    <3> QED
      BY <3>2, <3>3
  <2>7. {R[i].at : i \in Group(R, h)} = {Q[i].at : i \in Group(Q, h)}
    BY <2>4
  <2>8. r = GroupRoot(R, h) /\ Group(R, h) # {}
    BY <2>1, <2>4, <2>6, <2>7 DEF GroupRoot
  <2>9. r \in Roots(R)
    BY <2>8, RootIs
  <2>10. Polls(Q, Group(Q, h)) = Polls(R, Group(R, h))
    <3>1. Polls(Q, Group(R, h)) = Polls(R, Group(R, h))
      BY <2>4, <2>5, SamePolls
    <3> QED
      BY <2>4, <3>1
  <2>11. R[r.rep] = Q[r.rep]
    BY <2>2, <2>4, <2>6
  <2>12. CardOf(R, r) = CardOf(Q, r)
    BY <2>2, <2>10, <2>11 DEF CardOf, CardWith
  <2> QED
    BY <2>9, <2>12
<1>3. CASE \E i \in Group(Q, 0) : r = LoneRoot(Q, i)
  <2>1. PICK i \in Group(Q, 0) : r = LoneRoot(Q, i)
    BY <1>3
  <2>2. r.id = i /\ r.rep = i /\ r.kind = 2
    BY <2>1 DEF LoneRoot, TimelineRoot
  <2>3. RowsOf(Q, r) = {i}
    BY <2>1, RowsOfRoot
  <2>4. R[i] = Q[i] /\ i \in RowsOf(R, r)
    BY <2>3
  <2>5. i \in In(R) /\ i \in In(Q)
    BY <2>2, <2>4 DEF RowsOf, Group
  <2>6. i \in Group(R, 0) /\ r = LoneRoot(R, i)
    BY <2>1, <2>4, <2>5 DEF Group, IsOrphan, IsPoll, LoneRoot
  <2>7. r \in Roots(R)
    BY <2>6, RootIs
  <2>8. Polls(Q, {i}) = Polls(R, {i})
    <3>1. {i} \subseteq In(R) /\ {i} \subseteq In(Q) /\ \A k \in {i} : Q[k] = R[k]
      BY <2>4, <2>5
    <3> QED
      BY <3>1, SamePolls
  <2>9. CardOf(R, r) = CardOf(Q, r)
    BY <2>2, <2>4, <2>8 DEF CardOf, CardWith
  <2> QED
    BY <2>7, <2>9
<1> QED
  BY <1>1, <1>2, <1>3, RootIs

-----------------------------------------------------------------------------
(* The inductive invariant *)

\* What is in the table was called, in this order; only a poll's command and
\* the state of a call change.
Table ==
    /\ next \in Nat \ {0} /\ script \in Scripts
    /\ row = [i \in Ids |-> row[i]]
    /\ \A i \in In(row) : /\ i \in DOMAIN script /\ i < next
                          /\ row[i] = [f \in RowFields |-> row[i][f]]
                          /\ row[i].kind = script[i].kind /\ row[i].agent = script[i].agent
                          /\ row[i].handle = script[i].handle /\ row[i].at = script[i].at
                          /\ row[i].parent \in {0, script[i].parent}
    /\ begun \subseteq {i \in In(row) : row[i].st = "pending"}

\* Why the card of root r may not be what its rows say.
RefreshOf(R, i) == IF IsPoll(R, i) THEN R[i].parent ELSE i
Owed(R, B, F, r) == \/ r.id \in F \/ \E i \in B : RefreshOf(R, i) = r.id
                    \/ r.kind # 0 /\ \E i \in RowsOf(R, r) : R[i].st = "pending"

\* The cache, and the card the writer is about to store.
Cached ==
    /\ cache = [i \in Ids |-> cache[i]] /\ \A i \in Ids : i \notin In(row) => cache[i] = NoCard
    /\ writer = Idle \/ (writer.st = "persist" /\ writer.root \in Nat /\ writer.root < next)
    /\ \A r \in Roots(row) :
          /\ cache[r.id] \in {NoCard, CardOf(row, r)} \/ Owed(row, begun, refresh, r)
             \/ writer.root = r.id \/ r.id \in torn
          /\ writer.root = r.id => writer.card = CardOf(row, r) \/ Owed(row, begun, refresh, r) \/ r.id \in torn

LEMMA TableGood == ASSUME Table PROVE Good(row) /\ In(row) \subseteq Ids
<1>1. script \in Seq(Calls)
  BY TimelineAssumption DEF Table
<1>2. Len(script) \in Nat /\ DOMAIN script = 1..Len(script) /\ \A i \in DOMAIN script : script[i] \in Calls
  BY <1>1, LenProperties
<1>3. IsFiniteSet(DOMAIN script)
  BY <1>2, FS_Interval
<1>4. In(row) \in SUBSET DOMAIN script /\ In(row) \subseteq Ids
  BY DEF Table, In
<1>5. IsFiniteSet(In(row))
  BY <1>3, <1>4, FS_Subset
<1>6. \A i \in DOMAIN script : i \in Nat \ {0}
  BY <1>2
<1>7. \A i \in In(row) : row[i].at \in Nat /\ row[i].handle \in Nat
  BY <1>2, <1>4 DEF Table, Calls
<1> QED
  BY <1>4, <1>5, <1>6, <1>7 DEF Good

\* The mutual agreement of the two ways the roots are read.
LEMMA AgentRoots == ASSUME Table PROVE AgentViewExact
<1>1. Good(row) /\ Reading
  BY TableGood, InTheTable
<1> SUFFICES ASSUME NEW a \in agents
             PROVE  roots_cte_for_query(a) = {r \in ROOTS_CTE : row[r.rep].agent = a}
  BY DEF AgentViewExact
<1> DEFINE mine == {i \in present : push_invocation_filters(i, a)}
           A0 == {TimelineRoot(i, i, row[i].at, 0, 0) : i \in {j \in mine : ~poll(j)}}
           A1 == {TimelineRoot(Min(group(row[i].handle)), i, Min({row[j].at : j \in group(row[i].handle)}),
                     1, row[i].handle) : i \in {j \in mine : orphan(j) /\ row[j].handle # 0 /\ newest(j, a)}}
           A2 == {TimelineRoot(i, i, row[i].at, 2, 0) : i \in mine \cap group(0)}
<1>2. a # Everyone
  BY DEF agents
<1>3. mine = {i \in In(row) : row[i].agent = a}
  BY <1>1, <1>2 DEF push_invocation_filters, Reading
<1>4. roots_cte_for_query(a) = A0 \cup A1 \cup A2
  BY <1>2 DEF roots_cte_for_query
<1> DEFINE Of(r) == row[r.rep].agent = a
<1>5. \A r : r \in A0 <=> \E i \in In(row) : ~IsPoll(row, i) /\ r = CardRoot(row, i) /\ Of(r)
  <2>1. \A i : CardRoot(row, i).rep = i /\ CardRoot(row, i) = TimelineRoot(i, i, row[i].at, 0, 0)
    BY DEF CardRoot, TimelineRoot
  <2>2. \A i \in In(row) : Of(CardRoot(row, i)) <=> i \in mine
    BY <1>3, <2>1
  <2>3. \A i : poll(i) = IsPoll(row, i)
    BY <1>1 DEF Reading
  <2>4. mine \subseteq In(row)
    BY <1>3
  <2> HIDE DEF mine, Of
  <2>5. A0 = {CardRoot(row, i) : i \in {j \in mine : ~IsPoll(row, j)}}
    BY <2>1, <2>3
  <2> QED
    BY <2>2, <2>4, <2>5
<1>6. \A r : r \in A2 <=> \E i \in Group(row, 0) : r = LoneRoot(row, i) /\ Of(r)
  <2>1. \A i : LoneRoot(row, i).rep = i /\ LoneRoot(row, i) = TimelineRoot(i, i, row[i].at, 2, 0)
    BY DEF LoneRoot, TimelineRoot
  <2>2. group(0) = Group(row, 0) /\ Group(row, 0) \subseteq In(row)
    BY <1>1 DEF Reading, Group
  <2>3. \A i \in Group(row, 0) : Of(LoneRoot(row, i)) <=> i \in mine
    BY <1>3, <2>1, <2>2
  <2> HIDE DEF mine, Of
  <2>4. A2 = {LoneRoot(row, i) : i \in mine \cap Group(row, 0)}
    BY <2>1, <2>2
  <2> QED
    BY <2>3, <2>4
<1>7. \A r : r \in A1 <=> \E h \in Nat \ {0} : Group(row, h) # {} /\ r = GroupRoot(row, h) /\ Of(r)
  <2>1. \A h : group(h) = Group(row, h) /\ Group(row, h) \in SUBSET In(row)
    BY <1>1 DEF Reading, Group
  <2>2. \A h : GroupRoot(row, h).rep = Newest(row, Group(row, h))
    BY DEF GroupRoot, TimelineRoot
  <2>3. \A h : Group(row, h) # {} => Newest(row, Group(row, h)) \in Group(row, h)
    BY <1>1, <2>1, NewestIs
  <2>4. \A i \in In(row) : IsOrphan(row, i) => i \in Group(row, row[i].handle)
    BY DEF Group
  <2>5. \A h : \A i \in Group(row, h) : IsOrphan(row, i) /\ row[i].handle = h /\ i \in In(row)
    BY DEF Group
  <2>6. \A i \in In(row) : IsOrphan(row, i) =>
          (newest(i, a) <=> i = Newest(row, Group(row, row[i].handle)))
    <3>1. SUFFICES ASSUME NEW i \in In(row), IsOrphan(row, i)
                   PROVE  newest(i, a) <=> i = Newest(row, Group(row, row[i].handle))
      OBVIOUS
    <3>2. newest(i, a) <=> \A j \in Group(row, row[i].handle) : ~Newer(row, j, i)
      BY <2>1 DEF newest, later, Newer
    <3> QED
      BY <1>1, <2>1, <2>4, <3>1, <3>2, NewestIs
  <2>7. \A i \in In(row) : row[i].handle \in Nat
    BY <1>1 DEF Good
  <2>8. ASSUME NEW r \in A1
        PROVE  \E h \in Nat \ {0} : Group(row, h) # {} /\ r = GroupRoot(row, h) /\ Of(r)
    <3>1. PICK i \in {j \in mine : orphan(j) /\ row[j].handle # 0 /\ newest(j, a)} :
            r = TimelineRoot(Min(group(row[i].handle)), i, Min({row[j].at : j \in group(row[i].handle)}), 1, row[i].handle)
      BY <2>8
    <3>2. i \in In(row) /\ IsOrphan(row, i) /\ row[i].handle # 0 /\ newest(i, a) /\ row[i].agent = a
      BY <1>1, <1>3, <3>1 DEF Reading
    <3>3. i = Newest(row, Group(row, row[i].handle)) /\ i \in Group(row, row[i].handle)
      BY <2>4, <2>6, <3>2
    <3>4. group(row[i].handle) = Group(row, row[i].handle)
      BY <2>1
    <3>5. r = GroupRoot(row, row[i].handle) /\ r.rep = i
      BY <3>1, <3>3, <3>4 DEF GroupRoot, TimelineRoot
    <3> QED
      BY <2>7, <3>2, <3>3, <3>5
  <2>9. ASSUME NEW h \in Nat \ {0}, NEW r, Group(row, h) # {}, r = GroupRoot(row, h), Of(r)
        PROVE  r \in A1
    <3> DEFINE i == Newest(row, Group(row, h))
    <3>1. i \in Group(row, h) /\ r.rep = i
      BY <2>2, <2>3, <2>9
    <3>2. IsOrphan(row, i) /\ row[i].handle = h /\ i \in In(row) /\ row[i].agent = a
      BY <2>5, <2>9, <3>1
    <3>3. newest(i, a)
      BY <2>6, <3>2
    <3>4. r = TimelineRoot(Min(group(h)), i, Min({row[j].at : j \in group(h)}), 1, h)
      BY <2>1, <2>9 DEF GroupRoot
    <3> HIDE DEF i
    <3>5. i \in {j \in mine : orphan(j) /\ row[j].handle # 0 /\ newest(j, a)}
      BY <1>1, <1>3, <3>2, <3>3 DEF Reading
    <3>6. r = TimelineRoot(Min(group(row[i].handle)), i, Min({row[j].at : j \in group(row[i].handle)}), 1, row[i].handle)
      BY <3>2, <3>4
    <3> HIDE DEF mine
    <3> QED
      BY <3>5, <3>6
  <2> HIDE DEF A1, Of
  <2> QED
    BY <2>8, <2>9
<1>8. \A r : r \in ROOTS_CTE <=>
             \/ \E i \in In(row) : ~IsPoll(row, i) /\ r = CardRoot(row, i)
             \/ \E h \in Nat \ {0} : Group(row, h) # {} /\ r = GroupRoot(row, h)
             \/ \E i \in Group(row, 0) : r = LoneRoot(row, i)
  BY <1>1, RootIs DEF Reading
<1> HIDE DEF A0, A1, A2, Of
<1>9. \A r : r \in A0 \cup A1 \cup A2 <=> r \in ROOTS_CTE /\ Of(r)
  BY <1>5, <1>6, <1>7, <1>8
<1> QED
  BY <1>4, <1>9 DEF Of

-----------------------------------------------------------------------------
(* The cache *)

LEMMA GoodNext == Table' => (Good(row) /\ In(row) \subseteq Ids)'
<1>1. Table => Good(row) /\ In(row) \subseteq Ids
  BY TableGood
<1> QED
  BY <1>1, PTL

\* A step is harmless to the cache when each root there is afterwards lost its
\* card, or kept its rows, its card and the reasons to doubt the card; and a
\* card on its way to the cache is doubted when its root moved.
LEMMA CachedStep ==
    ASSUME Table, Cached, Table', writer' = writer, next <= next',
           cache' = [i \in Ids |-> cache'[i]], \A i \in Ids : i \notin In(row') => cache'[i] = NoCard,
           \A r \in Roots(row') :
              \/ /\ cache'[r.id] = NoCard
                 /\ writer.root = r.id => Owed(row', begun', refresh', r) \/ r.id \in torn'
              \/ /\ r \in Roots(row) /\ CardOf(row', r) = CardOf(row, r) /\ cache'[r.id] = cache[r.id]
                 /\ Owed(row, begun, refresh, r) => Owed(row', begun', refresh', r)
                 /\ r.id \in torn => r.id \in torn'
    PROVE  Cached'
<1>1. next \in Nat /\ next' \in Nat
  BY DEF Table
<1>2. writer' = Idle \/ (writer'.st = "persist" /\ writer'.root \in Nat /\ writer'.root < next')
  BY <1>1 DEF Cached
<1>3. ASSUME NEW r \in Roots(row')
      PROVE  /\ cache'[r.id] \in {NoCard, CardOf(row', r)} \/ Owed(row', begun', refresh', r)
                \/ writer'.root = r.id \/ r.id \in torn'
             /\ writer'.root = r.id => writer'.card = CardOf(row', r) \/ Owed(row', begun', refresh', r) \/ r.id \in torn'
  <2>1. CASE /\ cache'[r.id] = NoCard
             /\ writer.root = r.id => Owed(row', begun', refresh', r) \/ r.id \in torn'
    BY <2>1
  <2>2. CASE /\ r \in Roots(row) /\ CardOf(row', r) = CardOf(row, r) /\ cache'[r.id] = cache[r.id]
             /\ Owed(row, begun, refresh, r) => Owed(row', begun', refresh', r)
             /\ r.id \in torn => r.id \in torn'
    BY <2>2 DEF Cached
  <2> QED
    BY <1>3, <2>1, <2>2
<1> QED
  BY <1>2, <1>3 DEF Cached

LEMMA NotIdle ==
    ASSUME NEW R, Good(R), NEW r \in Roots(R)
    PROVE  r.id \in In(R) /\ r.id \in Nat \ {0} /\ (writer = Idle => writer.root # r.id)
<1>1. r.id \in In(R)
  BY RootOfRow
<1>2. r.id \in Nat \ {0}
  BY <1>1 DEF Good
<1> QED
  BY <1>1, <1>2 DEF Idle

\* A root named by a member of a group is that group's root.
LEMMA RootOfGroup ==
    ASSUME NEW R, Good(R), NEW r \in Roots(R), NEW h \in Nat \ {0}, r.id \in Group(R, h)
    PROVE  RowsOf(R, r) = Group(R, h)
<1>1. IsOrphan(R, r.id) /\ IsPoll(R, r.id) /\ R[r.id].handle = h
  BY DEF Group, IsOrphan
<1>2. ~\E i \in In(R) : ~IsPoll(R, i) /\ r = CardRoot(R, i)
  BY <1>1 DEF CardRoot, TimelineRoot
<1>3. ~\E i \in Group(R, 0) : r = LoneRoot(R, i)
  BY <1>1 DEF LoneRoot, TimelineRoot, Group
<1>4. PICK g \in Nat \ {0} : Group(R, g) # {} /\ r = GroupRoot(R, g)
  BY <1>2, <1>3, RootIs
<1>5. RowsOf(R, r) = Group(R, g)
  BY <1>4, RowsOfRoot
<1>6. r.id \in Group(R, g)
  BY <1>5, RootOfRow
<1>7. g = h
  BY <1>1, <1>6 DEF Group
<1> QED
  BY <1>5, <1>7

LEMMA CardRootIs ==
    ASSUME NEW R, Good(R), NEW r \in Roots(R), r.kind = 0
    PROVE  ~IsPoll(R, r.id) /\ RowsOf(R, r) = {r.id} \cup Kids(R, r.id)
<1>1. \A h : GroupRoot(R, h).kind = 1
  BY DEF GroupRoot, TimelineRoot
<1>2. \A i : LoneRoot(R, i).kind = 2
  BY DEF LoneRoot, TimelineRoot
<1>3. PICK i \in In(R) : ~IsPoll(R, i) /\ r = CardRoot(R, i)
  BY <1>1, <1>2, RootIs
<1>4. r.id = i
  BY <1>3 DEF CardRoot, TimelineRoot
<1> QED
  BY <1>3, <1>4, RowsOfRoot

LEMMA CallRow ==
    ASSUME Table, NEW i \in DOMAIN script
    PROVE  \E x : /\ x = [script[i] EXCEPT !.st = "pending"] /\ x # NoRow /\ x = [f \in RowFields |-> x[f]]
                  /\ x.kind = script[i].kind /\ x.agent = script[i].agent /\ x.handle = script[i].handle
                  /\ x.at = script[i].at /\ x.parent = script[i].parent /\ x.st = "pending"
<1>1. script \in Seq(Calls)
  BY TimelineAssumption DEF Table
<1>2. script[i] \in Calls
  BY <1>1
<1>3. script[i] = [f \in RowFields |-> script[i][f]] /\ script[i].kind # "none"
  BY <1>2 DEF Calls, RowFields
<1> DEFINE x == [script[i] EXCEPT !.st = "pending"]
<1>4. /\ x = [f \in RowFields |-> x[f]]
      /\ x.kind = script[i].kind /\ x.agent = script[i].agent /\ x.handle = script[i].handle
      /\ x.at = script[i].at /\ x.parent = script[i].parent /\ x.st = "pending"
  BY <1>3 DEF RowFields
<1>5. x # NoRow
  BY <1>3, <1>4 DEF NoRow
<1> QED
  BY <1>4, <1>5

\* The call takes the next row; the rows before it stay as they are.
LEMMA RowBegun ==
    ASSUME Table, NEW i \in Ids, begin_with_metadata(i)
    PROVE  /\ Table' /\ i = next /\ i \notin In(row) /\ In(row') = In(row) \cup {i}
           /\ \A j \in In(row) : row'[j] = row[j]
           /\ row'[i].kind = script[i].kind /\ row'[i].parent = script[i].parent /\ row'[i].st = "pending"
<1>1. i = next /\ i <= Len(script) /\ next' = i + 1 /\ begun' = begun \cup {i} /\ script' = script
      /\ row' = [row EXCEPT ![i] = [script[i] EXCEPT !.st = "pending"]]
  BY DEF begin_with_metadata
<1>2. next \in Nat \ {0} /\ script \in Seq(Calls)
  BY TimelineAssumption DEF Table
<1>3. i \in DOMAIN script
  <2>1. Len(script) \in Nat /\ DOMAIN script = 1..Len(script)
    BY <1>2, LenProperties
  <2> QED
    BY <1>1, <1>2, <2>1
<1>4. PICK x : /\ x = [script[i] EXCEPT !.st = "pending"] /\ x # NoRow /\ x = [f \in RowFields |-> x[f]]
               /\ x.kind = script[i].kind /\ x.agent = script[i].agent /\ x.handle = script[i].handle
               /\ x.at = script[i].at /\ x.parent = script[i].parent /\ x.st = "pending"
  BY <1>3, CallRow
<1>5. row' = [row EXCEPT ![i] = x] /\ row = [j \in Ids |-> row[j]]
  BY <1>1, <1>4 DEF Table
<1>6. row' = [j \in Ids |-> row'[j]] /\ row'[i] = x /\ \A j \in Ids : j # i => row'[j] = row[j]
  BY <1>5
<1>7. i \notin In(row) /\ \A j \in In(row) : j < next /\ j \in Ids
  <2>1. \A j \in In(row) : j < next
    BY DEF Table
  <2>2. In(row) \subseteq Ids
    BY TableGood
  <2> QED
    BY <1>1, <1>2, <2>1, <2>2
<1>8. In(row') = In(row) \cup {i}
  BY <1>4, <1>6, <1>7 DEF In
<1>9. \A j \in In(row) : row'[j] = row[j] /\ j # i
  BY <1>6, <1>7
<1>10. \A j \in In(row) : j < next'
  BY <1>1, <1>2, <1>7, TableGood DEF Good
<1>11. i < next' /\ next' \in Nat \ {0}
  BY <1>1, <1>2
<1>12. \A j \in In(row) : /\ j \in DOMAIN script
                          /\ row[j] = [f \in RowFields |-> row[j][f]]
                          /\ row[j].kind = script[j].kind /\ row[j].agent = script[j].agent
                          /\ row[j].handle = script[j].handle /\ row[j].at = script[j].at
                          /\ row[j].parent \in {0, script[j].parent}
  BY DEF Table
<1>13. \A j \in In(row') : /\ j \in DOMAIN script /\ j < next'
                           /\ row'[j] = [f \in RowFields |-> row'[j][f]]
                           /\ row'[j].kind = script[j].kind /\ row'[j].agent = script[j].agent
                           /\ row'[j].handle = script[j].handle /\ row'[j].at = script[j].at
                           /\ row'[j].parent \in {0, script[j].parent}
  <2>1. SUFFICES ASSUME NEW j \in In(row')
                 PROVE  /\ j \in DOMAIN script /\ j < next'
                        /\ row'[j] = [f \in RowFields |-> row'[j][f]]
                        /\ row'[j].kind = script[j].kind /\ row'[j].agent = script[j].agent
                        /\ row'[j].handle = script[j].handle /\ row'[j].at = script[j].at
                        /\ row'[j].parent \in {0, script[j].parent}
    OBVIOUS
  <2>2. CASE j \in In(row)
    <3>1. row'[j] = row[j]
      BY <1>9, <2>2
    <3> QED
      BY <1>10, <1>12, <2>2, <3>1
  <2>3. CASE j = i
    <3>1. row'[j] = x
      BY <1>6, <2>3
    <3> QED
      BY <1>3, <1>4, <1>11, <2>3, <3>1
  <2> QED
    BY <1>8, <2>1, <2>2, <2>3
<1>14. begun' \subseteq {j \in In(row') : row'[j].st = "pending"}
  <2>1. begun \subseteq {j \in In(row) : row[j].st = "pending"}
    BY DEF Table
  <2>2. \A j \in begun : j \in In(row') /\ row'[j].st = "pending"
    BY <1>8, <1>9, <2>1
  <2>3. i \in In(row') /\ row'[i].st = "pending"
    BY <1>4, <1>6, <1>8
  <2> QED
    BY <1>1, <2>2, <2>3
<1>15. script' \in Scripts
  BY <1>1 DEF Table
<1>16. Table'
  <2>1. row' = [j \in Ids |-> row'[j]]
    BY <1>6
  <2>2. script' = script
    BY <1>1
  <2> QED
    BY <2>2, <1>11, <1>13, <1>14, <1>15, <2>1 DEF Table
<1> QED
  BY <1>1, <1>4, <1>6, <1>7, <1>8, <1>9, <1>16

LEMMA CachedBegun ==
    ASSUME Table, Cached, NEW i \in Ids, begin_with_metadata(i)
    PROVE  Cached'
<1> DEFINE S == IF script[i].kind = "poll" THEN {RootOf(row', i)} ELSE {}
<1>1. /\ Table' /\ i = next /\ i \notin In(row) /\ In(row') = In(row) \cup {i}
      /\ \A j \in In(row) : row'[j] = row[j]
      /\ row'[i].kind = script[i].kind /\ row'[i].parent = script[i].parent /\ row'[i].st = "pending"
  BY RowBegun
<1>2. /\ cache' = [j \in Ids |-> IF j \in S THEN NoCard ELSE cache[j]] /\ torn' = torn \ S
      /\ writer' = writer /\ refresh' = refresh /\ begun' = begun \cup {i} /\ next' = i + 1
  BY RootOfIs DEF begin_with_metadata, drop
<1>3. Good(row) /\ Good(row') /\ In(row') \subseteq Ids
  BY <1>1, TableGood, GoodNext
<1>4. next \in Nat /\ next <= next'
  BY <1>1, <1>2 DEF Table
<1>5. \A j \in Ids : cache'[j] = IF j \in S THEN NoCard ELSE cache[j]
  BY <1>2
<1>6. begun \subseteq In(row)
  BY DEF Table
<1> HIDE DEF S
<1>7. \A j \in Ids : j \notin In(row') => cache'[j] = NoCard
  BY <1>1, <1>5 DEF Cached
<1>8. ASSUME NEW r \in Roots(row')
      PROVE  \/ /\ cache'[r.id] = NoCard
                /\ writer.root = r.id => Owed(row', begun', refresh', r) \/ r.id \in torn'
             \/ /\ r \in Roots(row) /\ CardOf(row', r) = CardOf(row, r) /\ cache'[r.id] = cache[r.id]
                /\ Owed(row, begun, refresh, r) => Owed(row', begun', refresh', r)
                /\ r.id \in torn => r.id \in torn'
  <2>1. /\ r.id \in RowsOf(row', r) /\ RowsOf(row', r) \subseteq In(row')
        /\ \A j \in RowsOf(row', r) : RootOf(row', j) = r.id
        /\ r.kind \in {0, 1, 2}
    BY <1>3, RootOfRow
  <2>2. r.id \in Ids /\ r.id \in Nat \ {0}
    BY <1>3, <2>1 DEF Good
  <2>3. CASE i \in RowsOf(row', r) /\ script[i].kind = "poll"
    <3>1. r.id \in S
      BY <2>1, <2>3 DEF S
    <3>2. Owed(row', begun', refresh', r)
      <4>1. CASE r.kind # 0
        BY <1>1, <2>3, <4>1 DEF Owed
      <4>2. CASE r.kind = 0
        <5>1. i # r.id /\ row'[i].parent = r.id /\ IsPoll(row', i)
          BY <1>1, <1>3, <2>3, <4>2, CardRootIs DEF Kids, IsPoll
        <5> QED
          BY <1>2, <5>1 DEF Owed, RefreshOf
      <4> QED
        BY <4>1, <4>2
    <3> QED
      BY <1>5, <2>2, <3>1, <3>2
  <2>4. CASE i \in RowsOf(row', r) /\ script[i].kind # "poll"
    <3>1. ~IsPoll(row', i)
      BY <1>1, <2>4 DEF IsPoll
    <3>2. r.id = i
      BY <2>1, <2>4, <3>1 DEF RootOf, IsOrphan
    <3>3. cache[i] = NoCard
      BY <1>1 DEF Cached
    <3>4. writer.root # i
      BY <1>1, <1>4, <2>2, <3>2 DEF Cached, Idle
    <3> QED
      BY <1>5, <2>2, <3>2, <3>3, <3>4
  <2>5. CASE i \notin RowsOf(row', r)
    <3>1. \A j \in In(row) : /\ IsPoll(row', j) <=> IsPoll(row, j)
                             /\ IsOrphan(row', j) <=> IsOrphan(row, j)
      BY <1>1 DEF IsOrphan, IsPoll
    <3>2. \A j : j \in RowsOf(row', r) <=> j \in RowsOf(row, r)
      <4>1. CASE r.kind = 0
        BY <1>1, <2>5, <3>1, <4>1 DEF RowsOf
      <4>2. CASE r.kind = 1
        BY <1>1, <2>5, <3>1, <4>2 DEF RowsOf, Group
      <4>3. CASE r.kind = 2
        BY <1>1, <2>5, <4>3 DEF RowsOf
      <4> QED
        BY <2>1, <4>1, <4>2, <4>3
    <3>3. RowsOf(row, r) = RowsOf(row', r)
      BY <3>2
    <3>4. RowsOf(row, r) \subseteq In(row)
      BY <1>1, <2>1, <2>5, <3>3
    <3>5. \A j \in RowsOf(row', r) : row[j] = row'[j]
      BY <1>1, <3>3, <3>4
    <3>6. r \in Roots(row) /\ CardOf(row', r) = CardOf(row, r)
      BY <1>3, <3>3, <3>5, RootStays
    <3>7. Owed(row, begun, refresh, r) => Owed(row', begun', refresh', r)
      <4>1. \A j \in begun : RefreshOf(row', j) = RefreshOf(row, j)
        BY <1>1, <1>6, <3>1 DEF RefreshOf
      <4> QED
        BY <1>2, <3>3, <3>5, <4>1 DEF Owed
    <3>8. CASE r.id \notin S
      BY <1>2, <1>5, <2>2, <3>6, <3>7, <3>8
    <3>9. CASE r.id \in S
      <4>1. script[i].kind = "poll" /\ r.id = RootOf(row', i)
        BY <3>9 DEF S
      <4>2. IsPoll(row', i) /\ r.id # i
        BY <1>1, <2>1, <2>5, <4>1 DEF IsPoll
      <4>3. CASE row'[i].parent # 0
        <5>1. RefreshOf(row', i) = r.id
          BY <4>1, <4>2, <4>3 DEF RootOf, RefreshOf, IsOrphan
        <5> QED
          BY <1>2, <1>5, <2>2, <3>9, <5>1 DEF Owed
      <4>4. CASE row'[i].parent = 0
        <5> DEFINE h == row'[i].handle
        <5>1. IsOrphan(row', i) /\ h # 0 /\ r.id = Min(Group(row', h))
          BY <4>1, <4>2, <4>4 DEF RootOf, IsOrphan
        <5>2. i \in Group(row', h) /\ h \in Nat \ {0}
          BY <1>1, <1>3, <5>1 DEF Group, Good
        <5> HIDE DEF h
        <5>3. Group(row', h) \subseteq Nat
          BY <1>3 DEF Group, Good
        <5>4. r.id \in Group(row', h)
          BY <5>1, <5>2, <5>3, NatMin
        <5>5. RowsOf(row', r) = Group(row', h)
          BY <1>3, <5>2, <5>4, RootOfGroup
        <5> QED
          BY <2>5, <5>2, <5>5
      <4> QED
        BY <4>3, <4>4
    <3> QED
      BY <3>8, <3>9
  <2> QED
    BY <2>3, <2>4, <2>5
<1>9. cache' = [j \in Ids |-> cache'[j]]
  BY <1>2
<1> QED
  BY <1>1, <1>2, <1>4, <1>7, <1>8, <1>9, CachedStep

LEMMA TableKept ==
    ASSUME Table, next' = next, script' = script, row' = [j \in Ids |-> row'[j]], In(row') \subseteq In(row),
           \A j \in In(row') : /\ row'[j] = [f \in RowFields |-> row'[j][f]]
                               /\ row'[j].kind = row[j].kind /\ row'[j].agent = row[j].agent
                               /\ row'[j].handle = row[j].handle /\ row'[j].at = row[j].at
                               /\ row'[j].parent \in {0, row[j].parent},
           begun' = begun, \A j \in begun : j \in In(row') /\ row'[j].st = "pending"
    PROVE  Table'
<1>1. \A j \in In(row') : /\ j \in DOMAIN script /\ j < next
                          /\ row'[j] = [f \in RowFields |-> row'[j][f]]
                          /\ row'[j].kind = script[j].kind /\ row'[j].agent = script[j].agent
                          /\ row'[j].handle = script[j].handle /\ row'[j].at = script[j].at
                          /\ row'[j].parent \in {0, script[j].parent}
  <2>1. SUFFICES ASSUME NEW j \in In(row')
                 PROVE  /\ j \in DOMAIN script /\ j < next
                        /\ row'[j] = [f \in RowFields |-> row'[j][f]]
                        /\ row'[j].kind = script[j].kind /\ row'[j].agent = script[j].agent
                        /\ row'[j].handle = script[j].handle /\ row'[j].at = script[j].at
                        /\ row'[j].parent \in {0, script[j].parent}
    OBVIOUS
  <2>2. /\ j \in DOMAIN script /\ j < next
        /\ row[j].kind = script[j].kind /\ row[j].agent = script[j].agent
        /\ row[j].handle = script[j].handle /\ row[j].at = script[j].at
        /\ row[j].parent \in {0, script[j].parent}
    BY DEF Table
  <2>3. row'[j] = [f \in RowFields |-> row'[j][f]]
    OBVIOUS
  <2>4. /\ row'[j].kind = row[j].kind /\ row'[j].agent = row[j].agent
        /\ row'[j].handle = row[j].handle /\ row'[j].at = row[j].at
        /\ row'[j].parent \in {0, row[j].parent}
    OBVIOUS
  <2> QED
    BY <2>2, <2>3, <2>4
<1>2. next \in Nat \ {0} /\ script \in Scripts
  BY DEF Table
<1> QED
  BY <1>1, <1>2 DEF Table

LEMMA RootUnmoved ==
    ASSUME Good(row), Good(row'), NEW r \in Roots(row'),
           RowsOf(row, r) = RowsOf(row', r), \A i \in RowsOf(row', r) : row[i] = row'[i],
           refresh \subseteq refresh',
           \A j \in begun : RefreshOf(row, j) = r.id => j \in begun' /\ RefreshOf(row', j) = r.id
    PROVE  /\ r \in Roots(row) /\ CardOf(row', r) = CardOf(row, r)
           /\ Owed(row, begun, refresh, r) => Owed(row', begun', refresh', r)
<1>1. r \in Roots(row) /\ CardOf(row', r) = CardOf(row, r)
  BY RootStays
<1>2. Owed(row, begun, refresh, r) => Owed(row', begun', refresh', r)
  BY DEF Owed
<1> QED
  BY <1>1, <1>2

-----------------------------------------------------------------------------
LEMMA RowUpdated ==
    ASSUME Table, NEW i \in Ids, NEW st, update_row(i, st)
    PROVE  /\ Table' /\ i \in In(row) /\ i \notin begun /\ In(row') = In(row)
           /\ \A j \in In(row) : /\ j # i => row'[j] = row[j]
                                 /\ row'[j].kind = row[j].kind /\ row'[j].parent = row[j].parent
                                 /\ row'[j].handle = row[j].handle
<1>1. /\ next' = next /\ script' = script /\ begun' = begun /\ i \notin begun /\ row[i].st = "pending"
      /\ row' = [row EXCEPT ![i].st = st]
  BY DEF update_row
<1>2. i \in In(row)
  BY <1>1 DEF In, NoRow
<1> DEFINE y == [row[i] EXCEPT !.st = st]
<1>3. row[i] = [f \in RowFields |-> row[i][f]] /\ row = [j \in Ids |-> row[j]]
  BY <1>2 DEF Table
<1>4. row' = [row EXCEPT ![i] = y]
  BY <1>1
<1>5. /\ y = [f \in RowFields |-> y[f]] /\ y.kind = row[i].kind /\ y.agent = row[i].agent
      /\ y.handle = row[i].handle /\ y.at = row[i].at /\ y.parent = row[i].parent
  BY <1>3 DEF RowFields
<1>6. row[i].kind # "none"
  <2>1. script \in Seq(Calls) /\ i \in DOMAIN script /\ row[i].kind = script[i].kind
    BY <1>2, TimelineAssumption DEF Table
  <2>2. script[i] \in Calls
    BY <2>1
  <2> QED
    BY <2>1, <2>2 DEF Calls
<1>7. y # NoRow
  BY <1>5, <1>6 DEF NoRow
<1> HIDE DEF y
<1>8. row' = [j \in Ids |-> row'[j]] /\ row'[i] = y /\ \A j \in Ids : j # i => row'[j] = row[j]
  BY <1>3, <1>4
<1>9. In(row') = In(row)
  BY <1>2, <1>7, <1>8 DEF In
<1>10. In(row) \subseteq Ids
  BY DEF In
<1>11. \A j \in In(row) : row[j] = [f \in RowFields |-> row[j][f]]
  BY DEF Table
<1>12. \A j \in In(row') : /\ row'[j] = [f \in RowFields |-> row'[j][f]]
                           /\ row'[j].kind = row[j].kind /\ row'[j].agent = row[j].agent
                           /\ row'[j].handle = row[j].handle /\ row'[j].at = row[j].at
                           /\ row'[j].parent \in {0, row[j].parent} /\ row'[j].parent = row[j].parent
  <2>1. SUFFICES ASSUME NEW j \in In(row)
                 PROVE  /\ row'[j] = [f \in RowFields |-> row'[j][f]]
                        /\ row'[j].kind = row[j].kind /\ row'[j].agent = row[j].agent
                        /\ row'[j].handle = row[j].handle /\ row'[j].at = row[j].at
                        /\ row'[j].parent = row[j].parent
    BY <1>9
  <2>2. CASE j = i
    BY <1>5, <1>8, <2>2
  <2>3. CASE j # i
    <3>1. row'[j] = row[j]
      BY <1>8, <1>10, <2>3
    <3> QED
      BY <1>11, <3>1
  <2> QED
    BY <2>2, <2>3
<1>13. \A j \in begun : j \in In(row') /\ row'[j].st = "pending"
  BY <1>1, <1>8, <1>9, <1>10 DEF Table
<1>14. row' = [j \in Ids |-> row'[j]]
  BY <1>8
<1>15. next' = next /\ script' = script /\ begun' = begun
  BY <1>1
<1>16. In(row') \subseteq In(row)
  BY <1>9
<1>17. Table'
  BY <1>12, <1>13, <1>14, <1>15, <1>16, TableKept
<1> QED
  BY <1>1, <1>2, <1>8, <1>9, <1>10, <1>12, <1>17

LEMMA CachedUpdated ==
    ASSUME Table, Cached, NEW i \in Ids, NEW st, update_row(i, st)
    PROVE  Cached'
<1>1. /\ Table' /\ i \in In(row) /\ i \notin begun /\ In(row') = In(row)
      /\ \A j \in In(row) : /\ j # i => row'[j] = row[j]
                            /\ row'[j].kind = row[j].kind /\ row'[j].parent = row[j].parent
                            /\ row'[j].handle = row[j].handle
  BY RowUpdated
<1> DEFINE k == RootOf(row, i)
<1>2. /\ cache' = [j \in Ids |-> IF j \in {k} THEN NoCard ELSE cache[j]] /\ torn' = torn \ {k}
      /\ writer' = writer /\ writer = Idle /\ refresh \subseteq refresh' /\ begun' = begun /\ next' = next
  BY RootOfIs DEF update_row, drop
<1>3. Good(row) /\ Good(row') /\ In(row') \subseteq Ids
  BY <1>1, TableGood, GoodNext
<1>4. next \in Nat /\ next <= next'
  BY <1>2 DEF Table
<1>5. \A j \in Ids : cache'[j] = IF j = k THEN NoCard ELSE cache[j]
  BY <1>2
<1>6. /\ \A j \in In(row) : /\ IsPoll(row', j) <=> IsPoll(row, j)
                            /\ IsOrphan(row', j) <=> IsOrphan(row, j)
  BY <1>1 DEF IsOrphan, IsPoll
<1>7. \A h : Group(row', h) = Group(row, h)
  BY <1>1, <1>6 DEF Group
<1>8. RootOf(row', i) = k
  BY <1>1, <1>6, <1>7 DEF RootOf
<1> HIDE DEF k
<1>9. \A j \in Ids : j \notin In(row') => cache'[j] = NoCard
  BY <1>1, <1>5 DEF Cached
<1>10. ASSUME NEW r \in Roots(row')
       PROVE  \/ /\ cache'[r.id] = NoCard
                 /\ writer.root = r.id => Owed(row', begun', refresh', r) \/ r.id \in torn'
              \/ /\ r \in Roots(row) /\ CardOf(row', r) = CardOf(row, r) /\ cache'[r.id] = cache[r.id]
                 /\ Owed(row, begun, refresh, r) => Owed(row', begun', refresh', r)
                 /\ r.id \in torn => r.id \in torn'
  <2>1. r.id \in Ids /\ writer.root # r.id
    BY <1>2, <1>3, NotIdle
  <2>2. CASE r.id = k
    BY <1>5, <2>1, <2>2
  <2>3. CASE r.id # k
    <3>1. i \notin RowsOf(row', r) /\ RowsOf(row', r) \subseteq In(row') /\ r.kind \in {0, 1, 2}
      BY <1>3, <1>8, <2>3, RootOfRow
    <3>2. RowsOf(row, r) = RowsOf(row', r)
      <4>1. CASE r.kind = 0
        BY <1>1, <1>6, <4>1 DEF RowsOf
      <4>2. CASE r.kind = 1
        BY <1>7, <4>2 DEF RowsOf
      <4>3. CASE r.kind = 2
        BY <1>1, <4>3 DEF RowsOf
      <4> QED
        BY <3>1, <4>1, <4>2, <4>3
    <3>3. \A j \in RowsOf(row', r) : row[j] = row'[j]
      BY <1>1, <3>1
    <3>4. \A j \in begun : RefreshOf(row', j) = RefreshOf(row, j)
      BY <1>1, <1>6 DEF RefreshOf, Table
    <3>5. /\ r \in Roots(row) /\ CardOf(row', r) = CardOf(row, r)
          /\ Owed(row, begun, refresh, r) => Owed(row', begun', refresh', r)
      BY <1>2, <1>3, <3>2, <3>3, <3>4, RootUnmoved
    <3> QED
      BY <1>2, <1>5, <2>1, <2>3, <3>5
  <2> QED
    BY <2>2, <2>3
<1>11. cache' = [j \in Ids |-> cache'[j]]
  BY <1>2
<1> QED
  BY <1>1, <1>2, <1>4, <1>9, <1>10, <1>11, CachedStep

-----------------------------------------------------------------------------
LEMMA GroupRootIs ==
    ASSUME NEW R, Good(R), NEW r \in Roots(R), r.kind = 1
    PROVE  /\ r.handle \in Nat \ {0} /\ Group(R, r.handle) # {} /\ r.id = Min(Group(R, r.handle))
           /\ RowsOf(R, r) = Group(R, r.handle)
<1>1. \A i : CardRoot(R, i).kind = 0 /\ LoneRoot(R, i).kind = 2
  BY DEF CardRoot, LoneRoot, TimelineRoot
<1>2. PICK h \in Nat \ {0} : Group(R, h) # {} /\ r = GroupRoot(R, h)
  BY <1>1, RootIs
<1>3. r.handle = h /\ r.id = Min(Group(R, h))
  BY <1>2 DEF GroupRoot, TimelineRoot
<1> QED
  BY <1>2, <1>3, RowsOfRoot

LEMMA LoneRootIs ==
    ASSUME NEW R, Good(R), NEW r \in Roots(R), r.kind = 2
    PROVE  RowsOf(R, r) = {r.id} /\ IsOrphan(R, r.id)
<1>1. \A i : CardRoot(R, i).kind = 0 /\ GroupRoot(R, i).kind = 1
  BY DEF CardRoot, GroupRoot, TimelineRoot
<1>2. PICK i \in Group(R, 0) : r = LoneRoot(R, i)
  BY <1>1, RootIs
<1>3. r.id = i
  BY <1>2 DEF LoneRoot, TimelineRoot
<1> QED
  BY <1>2, <1>3, RowsOfRoot DEF Group

\* The rows that go leave the others as they are; a poll whose command goes
\* becomes an orphan.
LEMMA RowsDeleted ==
    ASSUME Table, NEW gone \in SUBSET In(row), \A i \in gone : row[i].st # "pending", delete(gone),
           next' = next, script' = script, begun' = begun
    PROVE  /\ Table' /\ In(row') = In(row) \ gone
           /\ \A j \in In(row') : /\ row[j].parent \notin gone => row'[j] = row[j]
                                  /\ row[j].parent \in gone => row'[j].parent = 0
                                  /\ row'[j].kind = row[j].kind /\ row'[j].handle = row[j].handle
                                  /\ row'[j].st = row[j].st
<1>1. row' = [i \in Ids |-> IF i \in gone THEN NoRow
                            ELSE IF row[i].parent \in gone THEN [row[i] EXCEPT !.parent = 0] ELSE row[i]]
  BY DEF delete
<1>2. /\ In(row) \subseteq Ids /\ \A j \in In(row) : row[j].kind # "none" /\ row[j] = [f \in RowFields |-> row[j][f]]
  <2>1. script \in Seq(Calls) /\ \A i \in In(row) : i \in DOMAIN script /\ row[i].kind = script[i].kind
    BY TimelineAssumption DEF Table
  <2>2. \A i \in In(row) : script[i] \in Calls
    BY <2>1
  <2>3. \A i \in In(row) : row[i].kind # "none"
    BY <2>1, <2>2 DEF Calls
  <2> QED
    BY <2>3 DEF Table, In
<1>3. ASSUME NEW j \in Ids, j \in gone
      PROVE  row'[j] = NoRow
  BY <1>1, <1>3
<1>4. ASSUME NEW j \in Ids, j \notin gone, row[j].parent \notin gone
      PROVE  row'[j] = row[j]
  BY <1>1, <1>4
<1>5. ASSUME NEW j \in Ids, j \notin gone, row[j].parent \in gone, j \in In(row)
      PROVE  /\ row'[j] = [f \in RowFields |-> row'[j][f]] /\ row'[j] # NoRow /\ row'[j].parent = 0
             /\ row'[j].kind = row[j].kind /\ row'[j].agent = row[j].agent
             /\ row'[j].handle = row[j].handle /\ row'[j].at = row[j].at /\ row'[j].st = row[j].st
  <2> DEFINE y == [row[j] EXCEPT !.parent = 0]
  <2>1. row'[j] = y
    BY <1>1, <1>5
  <2>2. /\ y = [f \in RowFields |-> y[f]] /\ y.parent = 0
        /\ y.kind = row[j].kind /\ y.agent = row[j].agent
        /\ y.handle = row[j].handle /\ y.at = row[j].at /\ y.st = row[j].st
    <3>1. row[j] = [f \in RowFields |-> row[j][f]]
      BY <1>2, <1>5
    <3> QED
      BY <3>1 DEF RowFields
  <2>3. y # NoRow
    BY <1>2, <1>5, <2>2 DEF NoRow
  <2> QED
    BY <2>1, <2>2, <2>3
<1>6. \A j \in In(row) : row[j] # NoRow
  BY DEF In
<1>7. \A j \in Ids : j \notin In(row) => row[j] = NoRow /\ row[j].parent = 0
  BY DEF In, NoRow
<1>8. 0 \notin gone
  BY TableGood DEF Good
<1>9. \A j \in Ids : j \in In(row') <=> j \in In(row) /\ j \notin gone
  <2>1. \A j \in Ids : j \in In(row') <=> row'[j] # NoRow
    BY DEF In
  <2>2. ASSUME NEW j \in Ids, j \notin In(row) PROVE row'[j] = NoRow
    BY <1>4, <1>7, <1>8, <2>2
  <2>3. ASSUME NEW j \in In(row), j \notin gone PROVE row'[j] # NoRow
    <3>1. j \in Ids
      BY <1>2
    <3>2. CASE row[j].parent \in gone
      BY <1>5, <2>3, <3>1, <3>2
    <3>3. CASE row[j].parent \notin gone
      BY <1>4, <1>6, <2>3, <3>1, <3>3
    <3> QED
      BY <3>2, <3>3
  <2> QED
    BY <1>3, <2>1, <2>2, <2>3
<1>10. In(row') = In(row) \ gone
  BY <1>2, <1>9 DEF In
<1>11. \A j \in In(row') : /\ row[j].parent \notin gone => row'[j] = row[j]
                           /\ row[j].parent \in gone => row'[j].parent = 0
                           /\ row'[j].kind = row[j].kind /\ row'[j].agent = row[j].agent
                           /\ row'[j].handle = row[j].handle /\ row'[j].at = row[j].at
                           /\ row'[j].st = row[j].st
                           /\ row'[j] = [f \in RowFields |-> row'[j][f]]
  <2>1. SUFFICES ASSUME NEW j \in In(row), j \notin gone
                 PROVE  /\ row[j].parent \notin gone => row'[j] = row[j]
                        /\ row[j].parent \in gone => row'[j].parent = 0
                        /\ row'[j].kind = row[j].kind /\ row'[j].agent = row[j].agent
                        /\ row'[j].handle = row[j].handle /\ row'[j].at = row[j].at
                        /\ row'[j].st = row[j].st
                        /\ row'[j] = [f \in RowFields |-> row'[j][f]]
    BY <1>10
  <2>2. j \in Ids
    BY <1>2
  <2>3. CASE row[j].parent \in gone
    BY <1>5, <2>1, <2>2, <2>3
  <2>4. CASE row[j].parent \notin gone
    <3>1. row'[j] = row[j]
      BY <1>4, <2>1, <2>2, <2>4
    <3> QED
      BY <1>2, <2>4, <3>1
  <2> QED
    BY <2>3, <2>4
<1>12. \A j \in In(row') : row'[j].parent \in {0, row[j].parent}
  BY <1>11
<1>13. \A j \in begun : j \in In(row') /\ row'[j].st = "pending"
  <2>1. \A j \in begun : j \in In(row) /\ row[j].st = "pending" /\ j \notin gone
    BY DEF Table
  <2> QED
    BY <1>10, <1>11, <2>1
<1>14. row' = [j \in Ids |-> row'[j]]
  BY <1>1
<1>15. In(row') \subseteq In(row)
  BY <1>10
<1>16. \A j \in In(row') : /\ row'[j] = [f \in RowFields |-> row'[j][f]]
                           /\ row'[j].kind = row[j].kind /\ row'[j].agent = row[j].agent
                           /\ row'[j].handle = row[j].handle /\ row'[j].at = row[j].at
                           /\ row'[j].parent \in {0, row[j].parent}
  BY <1>11, <1>12
<1>17. Table'
  BY <1>13, <1>14, <1>15, <1>16, TableKept
<1> QED
  BY <1>10, <1>11, <1>17

\* The triggers drop the card of every root that a deletion touches.
LEMMA CachedDeleted ==
    ASSUME Table, Cached, NEW gone \in SUBSET In(row), \A i \in gone : row[i].st # "pending", delete(gone),
           next' = next, script' = script, begun' = begun, refresh' = refresh, writer' = writer,
           NEW S, invalidated_by_delete(gone) \subseteq S,
           cache' = [j \in Ids |-> IF j \in S THEN NoCard ELSE cache[j]],
           \A i \in torn : i \in S \/ i \in torn',
           writer = Idle \/ writer.root \in torn'
    PROVE  Table' /\ Cached'
<1>1. /\ Table' /\ In(row') = In(row) \ gone
      /\ \A j \in In(row') : /\ row[j].parent \notin gone => row'[j] = row[j]
                             /\ row[j].parent \in gone => row'[j].parent = 0
                             /\ row'[j].kind = row[j].kind /\ row'[j].handle = row[j].handle
                             /\ row'[j].st = row[j].st
  BY RowsDeleted
<1>2. Good(row) /\ Good(row') /\ In(row') \subseteq Ids /\ 0 \notin gone
  <2>1. Good(row) /\ Good(row') /\ In(row') \subseteq Ids
    BY <1>1, TableGood, GoodNext
  <2> QED
    BY <2>1 DEF Good
<1>3. next \in Nat /\ next <= next'
  BY DEF Table
<1>4. \A j \in Ids : cache'[j] = IF j \in S THEN NoCard ELSE cache[j]
  OBVIOUS
<1> DEFINE freed == {i \in In(row) \ gone : row[i].parent \in gone}
           touched == {row[i].handle : i \in {j \in gone : IsOrphan(row, j)} \cup {j \in freed : IsPoll(row, j)}} \ {0}
<1>5. /\ gone \subseteq S /\ freed \subseteq S /\ \A i \in gone : IsPoll(row, i) => row[i].parent \in S
      /\ \A h \in touched : Group(row', h) # {} => Min(Group(row', h)) \in S
  <2>1. Reading /\ Reading'
    BY InTheTable, InTheNextTable
  <2>2. \A h : group(h)' = Group(row', h)
    BY <2>1 DEF Reading
  <2>3. present = In(row) /\ (\A i : orphan(i) = IsOrphan(row, i)) /\ (\A i : poll(i) = IsPoll(row, i))
    BY <2>1 DEF Reading
  <2>4. freed = {i \in present \ gone : row[i].parent \in gone}
    BY <2>3
  <2>5. touched = {row[i].handle : i \in {j \in gone : orphan(j)} \cup {j \in freed : poll(j)}} \ {0}
    BY <2>3
  <2> HIDE DEF freed, touched
  <2>6. invalidated_by_delete(gone) =
          gone \cup freed \cup {row[i].parent : i \in {j \in gone : poll(j)}}
          \cup {Min(group(h)') : h \in {k \in touched : group(k)' # {}}}
    BY <2>4, <2>5 DEF invalidated_by_delete
  <2>7. \A h \in touched : Group(row', h) # {} => Min(Group(row', h)) \in invalidated_by_delete(gone)
    BY <2>2, <2>6
  <2>8. \A i \in gone : IsPoll(row, i) => row[i].parent \in invalidated_by_delete(gone)
    BY <2>3, <2>6
  <2> QED
    BY <2>6, <2>7, <2>8
<1>6. \A j \in Ids : j \notin In(row') => cache'[j] = NoCard
  BY <1>1, <1>4, <1>5 DEF Cached
<1> HIDE DEF freed, touched
<1>7. ASSUME NEW r \in Roots(row')
      PROVE  \/ /\ cache'[r.id] = NoCard
                /\ writer.root = r.id => Owed(row', begun', refresh', r) \/ r.id \in torn'
             \/ /\ r \in Roots(row) /\ CardOf(row', r) = CardOf(row, r) /\ cache'[r.id] = cache[r.id]
                /\ Owed(row, begun, refresh, r) => Owed(row', begun', refresh', r)
                /\ r.id \in torn => r.id \in torn'
  <2>1. r.id \in Ids /\ r.id \in In(row') /\ (writer = Idle => writer.root # r.id)
    BY <1>2, NotIdle
  <2>2. CASE r.id \in S
    BY <1>4, <2>1, <2>2
  <2>3. CASE r.id \notin S
    <3>1. r.id \in In(row) /\ r.id \notin gone /\ row[r.id].parent \notin gone
      BY <1>1, <1>5, <2>1, <2>3 DEF freed
    <3>2. \A j \in In(row') : /\ IsPoll(row', j) <=> IsPoll(row, j)
                              /\ row[j].parent \notin gone => (IsOrphan(row', j) <=> IsOrphan(row, j))
      BY <1>1 DEF IsPoll, IsOrphan
    <3>3. RowsOf(row', r) \subseteq In(row') /\ r.kind \in {0, 1, 2}
      BY <1>2, RootOfRow
    <3>4. \A j \in RowsOf(row', r) : row[j].parent \notin gone
      <4>1. SUFFICES ASSUME NEW j \in RowsOf(row', r), row[j].parent \in gone PROVE FALSE
        OBVIOUS
      <4>2. row'[j].parent = 0 /\ j \in In(row')
        BY <1>1, <3>3, <4>1
      <4>3. CASE r.kind = 0
        <5>1. j = r.id \/ row'[j].parent = r.id
          BY <4>3 DEF RowsOf
        <5>2. r.id # 0
          BY <1>2, <2>1 DEF Good
        <5> QED
          BY <3>1, <4>1, <4>2, <5>1, <5>2
      <4>4. CASE r.kind = 1
        <5>1. /\ r.handle # 0 /\ Group(row', r.handle) # {} /\ r.id = Min(Group(row', r.handle))
              /\ j \in Group(row', r.handle)
          BY <1>2, <4>4, GroupRootIs
        <5>2. IsPoll(row', j) /\ row'[j].handle = r.handle
          BY <5>1 DEF Group, IsOrphan
        <5>3. IsPoll(row, j) /\ row[j].handle = r.handle /\ j \in freed
          BY <1>1, <3>2, <4>1, <4>2, <5>2 DEF freed
        <5>4. r.handle \in touched
          BY <5>1, <5>3 DEF touched
        <5> QED
          BY <1>5, <2>3, <5>1, <5>4
      <4>5. CASE r.kind = 2
        BY <3>1, <4>1, <4>5 DEF RowsOf
      <4> QED
        BY <3>3, <4>3, <4>4, <4>5
    <3>5. \A j \in RowsOf(row', r) : row[j] = row'[j]
      BY <1>1, <3>3, <3>4
    <3>6. RowsOf(row', r) \subseteq RowsOf(row, r)
      <4>1. SUFFICES ASSUME NEW j \in RowsOf(row', r) PROVE j \in RowsOf(row, r)
        OBVIOUS
      <4>2. j \in In(row) /\ row[j] = row'[j] /\ IsPoll(row, j) = IsPoll(row', j) /\ IsOrphan(row, j) = IsOrphan(row', j)
        BY <1>1, <3>3, <3>5 DEF IsPoll, IsOrphan
      <4>3. CASE r.kind = 0
        BY <4>2, <4>3 DEF RowsOf
      <4>4. CASE r.kind = 1
        BY <4>2, <4>4 DEF RowsOf, Group
      <4>5. CASE r.kind = 2
        BY <4>2, <4>5 DEF RowsOf
      <4> QED
        BY <3>3, <4>3, <4>4, <4>5
    <3>7. RowsOf(row, r) \subseteq RowsOf(row', r)
      <4>1. SUFFICES ASSUME NEW j \in RowsOf(row, r) PROVE j \in RowsOf(row', r)
        OBVIOUS
      <4>2. CASE r.kind = 0
        <5>1. j \in In(row) /\ (j = r.id \/ (IsPoll(row, j) /\ row[j].parent = r.id))
          BY <4>2 DEF RowsOf
        <5>2. CASE j = r.id
          BY <2>1, <4>2, <5>2 DEF RowsOf
        <5>3. CASE IsPoll(row, j) /\ row[j].parent = r.id
          <6>1. j \notin gone
            BY <1>5, <2>3, <5>3
          <6>2. j \in In(row') /\ row'[j] = row[j]
            BY <1>1, <3>1, <5>1, <5>3, <6>1
          <6> QED
            BY <4>2, <5>3, <6>2 DEF RowsOf, IsPoll
        <5> QED
          BY <5>1, <5>2, <5>3
      <4>3. CASE r.kind = 1
        <5>1. j \in Group(row, r.handle)
          BY <4>3 DEF RowsOf
        <5>2. /\ r.handle # 0 /\ Group(row', r.handle) # {} /\ r.id = Min(Group(row', r.handle))
          BY <1>2, <4>3, GroupRootIs
        <5>3. j \in In(row) /\ IsOrphan(row, j) /\ row[j].handle = r.handle /\ row[j].parent = 0
          BY <5>1 DEF Group, IsOrphan
        <5>4. j \notin gone
          <6>1. SUFFICES ASSUME j \in gone PROVE FALSE
            OBVIOUS
          <6>2. r.handle \in touched
            BY <5>2, <5>3, <6>1 DEF touched
          <6> QED
            BY <1>5, <2>3, <5>2, <6>2
        <5>5. j \in In(row') /\ row'[j] = row[j]
          BY <1>1, <1>2, <5>3, <5>4
        <5> QED
          BY <4>3, <5>3, <5>5 DEF RowsOf, Group, IsOrphan, IsPoll
      <4>4. CASE r.kind = 2
        BY <2>1, <4>4 DEF RowsOf
      <4> QED
        BY <3>3, <4>2, <4>3, <4>4
    <3>8. \A j \in begun : RefreshOf(row, j) = r.id => RefreshOf(row', j) = r.id
      <4>1. SUFFICES ASSUME NEW j \in begun, RefreshOf(row, j) = r.id PROVE RefreshOf(row', j) = r.id
        OBVIOUS
      <4>2. j \in In(row') /\ IsPoll(row', j) = IsPoll(row, j)
        <5>1. begun' \subseteq In(row')
          BY <1>1 DEF Table
        <5> QED
          BY <1>1, <5>1 DEF IsPoll
      <4>3. CASE IsPoll(row, j)
        <5>1. row[j].parent = r.id
          BY <4>1, <4>3 DEF RefreshOf
        <5>2. row'[j] = row[j]
          BY <1>1, <3>1, <4>2, <5>1
        <5> QED
          BY <4>2, <4>3, <5>1, <5>2 DEF RefreshOf
      <4>4. CASE ~IsPoll(row, j)
        BY <4>1, <4>2, <4>4 DEF RefreshOf
      <4> QED
        BY <4>3, <4>4
    <3>9. RowsOf(row, r) = RowsOf(row', r)
      BY <3>6, <3>7
    <3>10. /\ r \in Roots(row) /\ CardOf(row', r) = CardOf(row, r)
           /\ Owed(row, begun, refresh, r) => Owed(row', begun', refresh', r)
      BY <1>2, <3>5, <3>8, <3>9, RootUnmoved
    <3> QED
      BY <1>4, <2>1, <2>3, <3>10
  <2> QED
    BY <2>2, <2>3
<1>8. cache' = [j \in Ids |-> cache'[j]]
  OBVIOUS
<1> QED
  BY <1>1, <1>3, <1>6, <1>7, <1>8, CachedStep

LEMMA Retained ==
    ASSUME Table, Cached, NEW gone \in SUBSET present, NEW discard \in BOOLEAN, discard => gone = {},
           run_retention(gone, discard)
    PROVE  Table' /\ Cached'
<1>1. /\ writer = Idle /\ (\A i \in gone : row[i].st # "pending") /\ delete(gone)
      /\ next' = next /\ script' = script /\ begun' = begun /\ refresh' = refresh /\ writer' = writer
      /\ drop(IF discard THEN Ids ELSE invalidated_by_delete(gone))
  BY DEF run_retention, Watched
<1>2. gone \in SUBSET In(row)
  BY InTheTable DEF Reading
<1>3. CASE ~discard
  <2> DEFINE S == invalidated_by_delete(gone)
  <2>1. cache' = [j \in Ids |-> IF j \in S THEN NoCard ELSE cache[j]] /\ torn' = torn \ S
    BY <1>1, <1>3 DEF drop
  <2> HIDE DEF S
  <2>2. \A i \in torn : i \in S \/ i \in torn'
    BY <2>1
  <2>3. invalidated_by_delete(gone) \subseteq S
    BY DEF S
  <2> QED
    BY <1>1, <1>2, <2>1, <2>2, <2>3, CachedDeleted
<1>4. CASE discard
  <2>1. cache' = [j \in Ids |-> IF j \in Ids THEN NoCard ELSE cache[j]] /\ torn' = torn \ Ids
    BY <1>1, <1>4 DEF drop
  <2>2. Table' /\ In(row') = In(row) \ gone
    BY <1>1, <1>2, RowsDeleted
  <2>3. \A j \in Ids : cache'[j] = NoCard
    BY <2>1
  <2>4. cache' = [j \in Ids |-> cache'[j]]
    BY <2>1
  <2>5. Good(row') /\ In(row') \subseteq Ids
    BY <2>2, GoodNext
  <2>6. \A r \in Roots(row') : r.id \in Ids /\ writer.root # r.id
    BY <1>1, <2>5, NotIdle
  <2>7. writer' = Idle
    BY <1>1
  <2>8. Cached'
    BY <1>1, <2>3, <2>4, <2>6, <2>7 DEF Cached
  <2> QED
    BY <2>2, <2>8
<1> QED
  BY <1>3, <1>4

LEMMA AgentCleared ==
    ASSUME Table, Cached, NEW agent, clear_local_agent_history(agent)
    PROVE  Table' /\ Cached'
<1> DEFINE gone == {i \in present : row[i].agent = agent}
           naming == {i \in Ids : cache[i].rep.agent = agent \/ \E p \in cache[i].polls : p[2] = agent}
           S == naming \cup invalidated_by_delete(gone)
           left == IF writer = Idle THEN {} ELSE {writer.root}
<1>1. /\ (\A i \in gone : row[i].st # "pending") /\ delete(gone)
      /\ next' = next /\ script' = script /\ begun' = begun /\ refresh' = refresh /\ writer' = writer
      /\ cache' = [i \in Ids |-> IF i \in S THEN NoCard ELSE cache[i]]
      /\ torn' = (torn \ S) \cup left
  BY DEF clear_local_agent_history, Watched
<1>2. gone \in SUBSET In(row)
  BY InTheTable DEF Reading
<1>3. invalidated_by_delete(gone) \subseteq S
  OBVIOUS
<1>4. writer # Idle => writer.root \in left
  OBVIOUS
<1> HIDE DEF gone, S, left
<1>5. (\A i \in torn : i \in S \/ i \in torn') /\ (writer = Idle \/ writer.root \in torn')
  BY <1>1, <1>4
<1> QED
  BY <1>1, <1>2, <1>3, <1>5, CachedDeleted

-----------------------------------------------------------------------------
(* The writer *)

LEMMA RootsDiffer ==
    ASSUME NEW R, Good(R), NEW r \in Roots(R), NEW s \in Roots(R), r.id = s.id
    PROVE  r = s
<1>1. /\ \A x : CardRoot(R, x).kind = 0 /\ CardRoot(R, x).id = x
      /\ \A x : LoneRoot(R, x).kind = 2 /\ LoneRoot(R, x).id = x
      /\ \A x : GroupRoot(R, x).kind = 1 /\ GroupRoot(R, x).handle = x
  BY DEF CardRoot, LoneRoot, GroupRoot, TimelineRoot
<1>2. \A x \in Roots(R) : /\ x.kind \in {0, 1, 2}
                          /\ x.kind = 0 => ~IsPoll(R, x.id) /\ x = CardRoot(R, x.id)
                          /\ x.kind = 1 => x = GroupRoot(R, x.handle) /\ x.handle \in Nat \ {0}
                          /\ x.kind = 2 => x = LoneRoot(R, x.id) /\ x.id \in Group(R, 0)
  BY <1>1, RootIs
<1>3. ASSUME NEW x \in Roots(R), x.kind = 1
      PROVE  x.id \in Group(R, x.handle)
  BY <1>3, GroupRootIs, RootOfRow
<1>4. \A h : \A i \in Group(R, h) : IsPoll(R, i) /\ R[i].handle = h
  BY DEF Group, IsOrphan
<1>5. r.kind = 1 => r.id \in Group(R, r.handle) /\ R[r.id].handle = r.handle /\ r.handle # 0 /\ IsPoll(R, r.id)
  BY <1>2, <1>3, <1>4
<1>6. s.kind = 1 => s.id \in Group(R, s.handle) /\ R[s.id].handle = s.handle /\ s.handle # 0 /\ IsPoll(R, s.id)
  BY <1>2, <1>3, <1>4
<1>7. r.kind = 2 => R[r.id].handle = 0 /\ IsPoll(R, r.id)
  BY <1>2, <1>4
<1>8. s.kind = 2 => R[s.id].handle = 0 /\ IsPoll(R, s.id)
  BY <1>2, <1>4
<1>9. r.kind = s.kind
  BY <1>2, <1>5, <1>6, <1>7, <1>8
<1> QED
  BY <1>2, <1>5, <1>6, <1>9

LEMMA WriterReads ==
    ASSUME Table, Cached, writer = Idle, UNCHANGED <<row, next, script, begun, cache, torn>>,
           NEW r \in ROOTS_CTE, reads(r), \A x \in refresh : x \in refresh' \/ x = r.id
    PROVE  Table' /\ Cached'
<1>1. Good(row) /\ Reading
  BY TableGood, InTheTable
<1>2. r \in Roots(row) /\ writer' = [st |-> "persist", root |-> r.id, card |-> CardOf(row, r)]
  BY <1>1 DEF reads, Reading
<1>3. writer'.st = "persist" /\ writer'.root = r.id /\ writer'.card = CardOf(row, r)
  BY <1>2
<1>4. r.id \in In(row) /\ r.id \in Nat /\ r.id < next
  BY <1>1, <1>2, NotIdle DEF Table
<1>5. \A s \in Roots(row) : s.id = r.id => s = r
  BY <1>1, <1>2, RootsDiffer
<1>6. \A s \in Roots(row) : s.id # r.id /\ Owed(row, begun, refresh, s) => Owed(row, begun, refresh', s)
  BY DEF Owed
<1> HIDE <1>2
<1>7. \A s \in Roots(row) : writer.root # s.id
  BY <1>1, NotIdle
<1>8. Table'
  BY DEF Table
<1>9. ASSUME NEW s \in Roots(row)
      PROVE  /\ cache[s.id] \in {NoCard, CardOf(row, s)} \/ Owed(row, begun, refresh', s)
                \/ writer'.root = s.id \/ s.id \in torn
             /\ writer'.root = s.id => writer'.card = CardOf(row, s) \/ Owed(row, begun, refresh', s) \/ s.id \in torn
  <2>1. CASE s.id = r.id
    BY <1>3, <1>5, <2>1
  <2>2. CASE s.id # r.id
    BY <1>3, <1>6, <1>7, <2>2 DEF Cached
  <2> QED
    BY <2>1, <2>2
<1> QED
  BY <1>3, <1>4, <1>8, <1>9 DEF Cached

LEMMA RefreshStarts ==
    ASSUME Table, Cached, NEW id, refresh_presentation_materialization(id)
    PROVE  Table' /\ Cached'
<1>1. /\ writer = Idle /\ UNCHANGED <<row, next, script, begun, cache, torn>> /\ refresh' = refresh \ {id}
      /\ IF root_named(id) = {} THEN writer' = writer ELSE \E r \in root_named(id) : reads(r)
  BY DEF refresh_presentation_materialization
<1>2. CASE root_named(id) = {}
  <2>1. Reading /\ Good(row)
    BY InTheTable, TableGood
  <2>2. \A r \in Roots(row) : r.id # id
    BY <1>2, <2>1 DEF root_named, Reading
  <2>3. \A r \in Roots(row) : Owed(row, begun, refresh, r) => Owed(row, begun, refresh', r)
    BY <1>1, <2>2 DEF Owed
  <2>4. Table'
    BY <1>1 DEF Table
  <2>5. Cached'
    BY <1>1, <1>2, <2>3 DEF Cached
  <2> QED
    BY <2>4, <2>5
<1>3. CASE root_named(id) # {}
  <2>1. PICK r \in ROOTS_CTE : r.id = id /\ reads(r)
    BY <1>1, <1>3 DEF root_named
  <2>2. \A x \in refresh : x \in refresh' \/ x = r.id
    BY <1>1, <2>1
  <2> QED
    BY <1>1, <2>1, <2>2, WriterReads
<1> QED
  BY <1>2, <1>3

LEMMA BackfillStarts ==
    ASSUME Table, Cached, backfill_presentation_materializations
    PROVE  Table' /\ Cached'
<1>1. /\ writer = Idle /\ UNCHANGED <<row, next, script, begun, cache, torn, refresh>>
      /\ \E r \in ROOTS_CTE : reads(r)
  BY DEF backfill_presentation_materializations
<1>2. PICK r \in ROOTS_CTE : reads(r)
  BY <1>1
<1> QED
  BY <1>1, <1>2, WriterReads

LEMMA CardPersisted ==
    ASSUME Table, Cached, persist_materialized
    PROVE  Table' /\ Cached'
<1> DEFINE k == writer.root
           card == writer.card
<1>1. /\ UNCHANGED <<row, next, script, begun, torn, refresh>> /\ writer' = Idle
      /\ cache' = IF row[k] = NoRow THEN cache ELSE [cache EXCEPT ![k] = card]
  BY DEF persist_materialized
<1>2. Good(row)
  BY TableGood
<1> HIDE DEF k, card
<1>3. cache = [i \in Ids |-> cache[i]]
  BY DEF Cached
<1>4. cache' = [i \in Ids |-> cache'[i]] /\ \A i \in Ids : cache'[i] = IF i = k /\ row[k] # NoRow THEN card ELSE cache[i]
  BY <1>1, <1>3
<1>5. \A i \in Ids : i \notin In(row) => cache'[i] = NoCard
  BY <1>4 DEF Cached, In
<1>6. ASSUME NEW r \in Roots(row)
      PROVE  /\ cache'[r.id] \in {NoCard, CardOf(row, r)} \/ Owed(row, begun, refresh, r) \/ r.id \in torn
             /\ writer'.root # r.id
  <2>1. r.id \in Ids /\ row[r.id] # NoRow /\ writer'.root # r.id
    <3>1. r.id \in In(row) /\ r.id # 0
      BY <1>2, NotIdle
    <3> QED
      BY <1>1, <3>1 DEF In, Idle
  <2>2. CASE k = r.id
    BY <1>4, <2>1, <2>2 DEF Cached, k, card
  <2>3. CASE k # r.id
    BY <1>4, <2>1, <2>3 DEF Cached, k
  <2> QED
    BY <2>1, <2>2, <2>3
<1>7. Table'
  BY <1>1 DEF Table
<1>8. Cached'
  BY <1>1, <1>4, <1>5, <1>6 DEF Cached
<1> QED
  BY <1>7, <1>8

LEMMA RefreshQueued ==
    ASSUME Table, Cached, NEW i, queue_presentation_refresh(i)
    PROVE  Table' /\ Cached'
<1>1. /\ UNCHANGED <<row, next, script, cache, torn, writer>> /\ i \in begun /\ begun' = begun \ {i}
      /\ refresh' = refresh \cup ({presentation_root_invocation_id(i)} \ {0})
  BY DEF queue_presentation_refresh
<1>2. Good(row) /\ Reading
  BY TableGood, InTheTable
<1>3. i \in In(row)
  BY <1>1 DEF Table
<1>4. presentation_root_invocation_id(i) = RefreshOf(row, i)
  <2>1. row[i] # NoRow /\ poll(i) = IsPoll(row, i)
    BY <1>2, <1>3 DEF In, Reading
  <2> QED
    BY <2>1 DEF presentation_root_invocation_id, RefreshOf
<1>5. \A r \in Roots(row) : Owed(row, begun, refresh, r) => Owed(row, begun', refresh', r)
  <2>1. \A r \in Roots(row) : r.id # 0
    BY <1>2, NotIdle
  <2> QED
    BY <1>1, <1>4, <2>1 DEF Owed
<1>6. Table'
  BY <1>1 DEF Table
<1>7. Cached'
  BY <1>1, <1>5 DEF Cached
<1> QED
  BY <1>6, <1>7

LEMMA CacheUntouched ==
    ASSUME Table, Cached, PagerOnly
    PROVE  Table' /\ Cached'
BY DEF PagerOnly, Table, Cached

LEMMA CacheBegins == ASSUME TimelineInit PROVE Table /\ Cached
<1>1. /\ row = [i \in Ids |-> NoRow] /\ next = 1 /\ script \in Scripts
      /\ begun = {} /\ cache = [i \in Ids |-> NoCard] /\ writer = Idle
  BY DEF TimelineInit
<1>2. In(row) = {}
  BY <1>1 DEF In
<1>3. Table
  BY <1>1, <1>2 DEF Table
<1>4. Roots(row) = {}
  <2>1. \A h : Group(row, h) = {}
    BY <1>2 DEF Group
  <2> QED
    BY <1>2, <2>1 DEF Roots
<1>5. Cached
  BY <1>1, <1>4 DEF Cached
<1> QED
  BY <1>3, <1>5

LEMMA CacheTruth == ASSUME Table, Cached PROVE CacheIsTruthful
<1>1. Reading
  BY InTheTable
<1>2. ASSUME NEW r \in Roots(row), Owed(row, begun, refresh, r)
      PROVE  owed(r)
  <2>1. CASE r.id \in refresh \/ (r.kind # 0 /\ \E i \in RowsOf(row, r) : row[i].st = "pending")
    BY <1>1, <2>1 DEF owed, Reading
  <2>2. CASE \E i \in begun : RefreshOf(row, i) = r.id
    <3>1. PICK i \in begun : RefreshOf(row, i) = r.id
      BY <2>2
    <3>2. row[i] # NoRow /\ poll(i) = IsPoll(row, i)
      BY <1>1, <3>1 DEF Table, In, Reading
    <3>3. presentation_root_invocation_id(i) = r.id
      BY <3>1, <3>2 DEF presentation_root_invocation_id, RefreshOf
    <3> QED
      BY <3>1, <3>3 DEF owed
  <2> QED
    BY <1>2, <2>1, <2>2 DEF Owed
<1>3. \A r \in Roots(row) : writer.root = r.id => owed(r)
  BY DEF owed
<1> QED
  BY <1>1, <1>2, <1>3 DEF CacheIsTruthful, Cached, Reading

-----------------------------------------------------------------------------
(* Pages: a page holds what comes next, in order.                          *)

Key == [id : Nat, at : Nat]
Comes(q, S) == {x \in S \X S : ahead(q, x[1], x[2])}
InRun(q, s) == \A i, j \in DOMAIN s : i < j => ahead(q, s[i], s[j])

LEMMA BeforeOrders ==
    /\ \A a, b, c \in Key : before(a, b) /\ before(b, c) => before(a, c)
    /\ \A a, b \in Key : a # b => before(a, b) \/ before(b, a)
    /\ \A a \in Key : ~before(a, a)
<1>1. \A a \in Key : a.id \in Nat /\ a.at \in Nat
  BY DEF Key
<1>2. \A a, b \in Key : a.id = b.id /\ a.at = b.at => a = b
  BY DEF Key
<1> QED
  BY <1>1, <1>2 DEF before

LEMMA KeysOrdered ==
    ASSUME NEW q, NEW S \in SUBSET Key, IsFiniteSet(S)
    PROVE  Order(Comes(q, S), S)
<1>1. \A a, b \in S : <<a, b>> \in Comes(q, S) <=> ahead(q, a, b)
  BY DEF Comes
<1>2. /\ \A a, b, c \in S : ahead(q, a, b) /\ ahead(q, b, c) => ahead(q, a, c)
      /\ \A a, b \in S : a # b => ahead(q, a, b) \/ ahead(q, b, a)
      /\ \A a \in S : ~ahead(q, a, a)
  BY BeforeOrders DEF ahead
<1> QED
  BY <1>1, <1>2 DEF Order

LEMMA InOrder ==
    ASSUME NEW q, NEW S \in SUBSET Key, IsFiniteSet(S)
    PROVE  /\ in_order(q, S) \in Seq(S) /\ Len(in_order(q, S)) = Cardinality(S) /\ Cardinality(S) \in Nat
           /\ InRun(q, in_order(q, S))
           /\ \A k \in S : \E n \in 1..Cardinality(S) : in_order(q, S)[n] = k
<1> DEFINE R == Comes(q, S)
           s == in_order(q, S)
           size == Cardinality(S)
<1>1. Order(R, S) /\ size \in Nat
  BY KeysOrdered, FS_CardinalityType
<1>2. \A k \in S : Cardinality({j \in S : ahead(q, j, k)}) = Rank(R, S, k)
  <2>1. \A k \in S : {j \in S : ahead(q, j, k)} = Below(R, S, k)
    BY DEF Below, Comes
  <2> QED
    BY <2>1 DEF Rank
<1>3. s = [n \in 1..size |-> CHOOSE k \in S : Cardinality({j \in S : ahead(q, j, k)}) = n - 1]
  BY DEF in_order
<1>4. \A a, b \in S : <<a, b>> \in R <=> ahead(q, a, b)
  BY DEF Comes
<1> HIDE DEF R, s, size
<1>5. ASSUME NEW n \in 1..size
      PROVE  s[n] \in S /\ Rank(R, S, s[n]) = n - 1
  <2>1. n - 1 \in 0..size - 1 /\ size = Cardinality(S)
    BY <1>1, <1>5 DEF size
  <2>2. \E k \in S : Rank(R, S, k) = n - 1
    BY <1>1, <2>1, RankTaken
  <2>3. \E k \in S : Cardinality({j \in S : ahead(q, j, k)}) = n - 1
    BY <1>2, <2>2
  <2>4. s[n] = CHOOSE k \in S : Cardinality({j \in S : ahead(q, j, k)}) = n - 1
    BY <1>3, <1>5
  <2>5. s[n] \in S /\ Cardinality({j \in S : ahead(q, j, s[n])}) = n - 1
    BY <2>3, <2>4
  <2> QED
    BY <1>2, <2>5
<1>6. s \in Seq(S) /\ Len(s) = size /\ DOMAIN s = 1..size
  <2>1. s \in [1..size -> S]
    BY <1>3, <1>5
  <2> QED
    BY <1>1, <2>1, SeqDef, LenProperties
<1>7. InRun(q, s)
  <2>1. SUFFICES ASSUME NEW i \in 1..size, NEW j \in 1..size, i < j
                 PROVE  ahead(q, s[i], s[j])
    BY <1>6 DEF InRun
  <2>2. s[i] \in S /\ s[j] \in S /\ Rank(R, S, s[i]) = i - 1 /\ Rank(R, S, s[j]) = j - 1
    BY <1>5
  <2>3. Rank(R, S, s[i]) < Rank(R, S, s[j])
    BY <1>1, <2>1, <2>2
  <2> QED
    BY <1>1, <1>4, <2>2, <2>3, RankTells
<1>8. ASSUME NEW k \in S
      PROVE  \E n \in 1..size : s[n] = k
  <2>1. Rank(R, S, k) \in 0..size - 1
    BY <1>1, RankIs DEF size
  <2>2. Rank(R, S, k) + 1 \in 1..size /\ (Rank(R, S, k) + 1) - 1 = Rank(R, S, k)
    BY <1>1, <2>1
  <2>3. s[Rank(R, S, k) + 1] \in S /\ Rank(R, S, s[Rank(R, S, k) + 1]) = Rank(R, S, k)
    BY <1>5, <2>2
  <2>4. s[Rank(R, S, k) + 1] = k
    BY <1>1, <2>3, RankTells
  <2> QED
    BY <2>2, <2>4
<1> QED
  BY <1>1, <1>6, <1>7, <1>8 DEF s, size

\* Where the cursor lets a page go on, and what a page does with it.
Past(q, k) == q.cursor = NoCursor \/ ahead(q, q.cursor, k)
PageOf(q, page, more, S) ==
    /\ page \in Seq(Key) /\ InRun(q, page) /\ more \in BOOLEAN /\ (more => page # <<>>)
    /\ \A k \in ToSet(page) : Past(q, k)
    /\ \A k \in S : Past(q, k) => k \in ToSet(page) \/ (more /\ ahead(q, Last(page), k))

LEMMA CutIs ==
    ASSUME NEW q, q.limit \in Nat \ {0}, NEW S \in SUBSET Key, IsFiniteSet(S)
    PROVE  PageOf(q, cut(q, S).page, cut(q, S).more, S)
<1> DEFINE B == beyond(q, S)
           all == in_order(q, B)
           n == IF Len(all) > q.limit THEN q.limit ELSE Len(all)
           page == SubSeq(all, 1, n)
           more == Len(all) > q.limit
<1>1. cut(q, S) = [page |-> page, more |-> more]
  BY DEF cut
<1>2. B = {k \in S : Past(q, k)}
  BY DEF beyond, Past, ahead
<1>3. IsFiniteSet(B) /\ B \in SUBSET Key
  BY <1>2, FS_Subset
<1> HIDE DEF B
<1>4. /\ all \in Seq(B) /\ Len(all) \in Nat /\ DOMAIN all = 1..Len(all) /\ InRun(q, all)
      /\ \A k \in B : \E i \in 1..Len(all) : all[i] = k
  BY <1>3, InOrder, LenProperties
<1>5. \A i \in 1..Len(all) : all[i] \in B
  BY <1>4, ElementOfSeq
<1> HIDE DEF all
<1>6. n \in Nat /\ n <= Len(all) /\ (more => n = q.limit /\ n >= 1 /\ n < Len(all)) /\ (~more => n = Len(all))
  BY <1>4
<1>7. \A i \in 1..n : all[i] \in B
  BY <1>4, <1>5, <1>6
<1> HIDE DEF n, more
<1>8. page \in Seq(B) /\ Len(page) = n /\ DOMAIN page = 1..n /\ \A i \in 1..n : page[i] = all[i]
  <2>1. 1 \in Int /\ n \in Int
    BY <1>6
  <2>2. /\ page \in Seq(B) /\ Len(page) = IF 1 <= n THEN n - 1 + 1 ELSE 0
        /\ \A i \in 1..n - 1 + 1 : page[i] = all[1 + i - 1]
    BY <1>7, <2>1, SubSeqProperties
  <2>3. Len(page) = n
    BY <1>6, <2>2
  <2>4. \A i \in 1..n : page[i] = all[i]
    BY <1>6, <2>2
  <2> QED
    BY <2>2, <2>3, <2>4, LenProperties
<1> HIDE DEF page
<1>9. page \in Seq(Key)
  BY <1>3, <1>8, SeqMonotonic
<1>10. InRun(q, page)
  <2>1. SUFFICES ASSUME NEW i \in 1..n, NEW j \in 1..n, i < j
                 PROVE  ahead(q, page[i], page[j])
    BY <1>8 DEF InRun
  <2>2. n \in Nat /\ Len(all) \in Nat /\ n <= Len(all)
    BY <1>4, <1>6
  <2>3. i \in 1..Len(all) /\ j \in 1..Len(all)
    BY <2>2
  <2>4. page[i] = all[i] /\ page[j] = all[j]
    BY <1>8
  <2>5. ahead(q, all[i], all[j])
    BY <1>4, <2>1, <2>3 DEF InRun
  <2> QED
    BY <2>4, <2>5
<1>11. more \in BOOLEAN
  BY DEF more
<1>12. more => page # <<>>
  BY <1>6, <1>8
<1>13. \A k \in ToSet(page) : Past(q, k)
  BY <1>2, <1>7, <1>8 DEF ToSet
<1>14. ASSUME NEW k \in S, Past(q, k)
       PROVE  k \in ToSet(page) \/ (more /\ ahead(q, Last(page), k))
  <2>1. k \in B
    BY <1>2, <1>14
  <2>2. PICK i \in 1..Len(all) : all[i] = k
    BY <1>4, <2>1
  <2>3. CASE i <= n
    <3>1. i \in 1..n
      BY <1>6, <2>3
    <3> QED
      BY <1>8, <2>2, <3>1 DEF ToSet
  <2>4. CASE i > n
    <3>1. n \in Nat /\ Len(all) \in Nat /\ n < Len(all) /\ n < i
      <4>1. n \in Nat /\ Len(all) \in Nat /\ n <= Len(all)
        BY <1>4, <1>6
      <4>2. i \in 1..Len(all)
        BY <2>2
      <4> QED
        BY <2>4, <4>1, <4>2
    <3>2. more
      BY <1>6, <3>1
    <3>3. n >= 1
      BY <1>6, <3>2
    <3>4. n \in 1..n /\ n \in 1..Len(all)
      BY <3>1, <3>3
    <3>5. more /\ n \in 1..n /\ n \in DOMAIN all /\ i \in DOMAIN all /\ n < i
      BY <1>4, <3>1, <3>2, <3>4
    <3>6. Last(page) = all[n]
      BY <1>8, <3>5 DEF Last
    <3> QED
      BY <1>4, <2>2, <3>5, <3>6 DEF InRun
  <2>5. n \in Nat /\ Len(all) \in Nat
    BY <1>4, <1>6
  <2> QED
    BY <2>2, <2>3, <2>4, <2>5
<1>15. cut(q, S).page = page /\ cut(q, S).more = more
  BY <1>1
<1> QED
  BY <1>9, <1>10, <1>11, <1>12, <1>13, <1>14, <1>15 DEF PageOf

PagerFields == {"st", "mode", "scope", "limit", "cursor", "page", "more", "roots", "shown"}
Sorted(s) == \A i, j \in DOMAIN s : i < j => before(s[i], s[j])
Pager(q) ==
    /\ q = [f \in PagerFields |-> q[f]]
    /\ q.limit \in Nat \ {0} /\ q.mode \in {"history", "checkpoints"}
    /\ q.shown \in Seq(Key) /\ Sorted(q.shown)
    /\ q.cursor # NoCursor => q.cursor.id \in Nat /\ q.cursor.at \in Nat

\* All shown lies up to the cursor, and of S all else beyond it.
Reached(q) == \A k \in ToSet(q.shown) : /\ q.cursor # NoCursor
                                        /\ (k.id = q.cursor.id /\ k.at = q.cursor.at) \/ ahead(q, k, q.cursor)
Awaits(q, S) == \A k \in S : k \in ToSet(q.shown) \/ Past(q, k)

LEMMA Joined ==
    ASSUME NEW a \in Seq(Key), NEW b \in Seq(Key), Sorted(a), Sorted(b),
           \A x \in ToSet(a), y \in ToSet(b) : before(x, y)
    PROVE  a \o b \in Seq(Key) /\ Sorted(a \o b) /\ ToSet(a \o b) = ToSet(a) \cup ToSet(b)
<1> DEFINE m == Len(a)
           n == Len(b)
           s == a \o b
<1>1. m \in Nat /\ n \in Nat /\ DOMAIN a = 1..m /\ DOMAIN b = 1..n
  BY LenProperties
<1>2. /\ s \in Seq(Key) /\ Len(s) = m + n
      /\ \A i \in 1..m + n : s[i] = IF i <= m THEN a[i] ELSE b[i - m]
  BY ConcatProperties
<1>3. DOMAIN s = 1..m + n
  BY <1>2, LenProperties
<1> HIDE DEF m, n, s
<1>4. ASSUME NEW i \in 1..m + n
      PROVE  \/ i \in 1..m /\ s[i] = a[i] /\ s[i] \in ToSet(a)
             \/ i > m /\ i - m \in 1..n /\ s[i] = b[i - m] /\ s[i] \in ToSet(b)
  <2>1. CASE i <= m
    <3>1. i \in 1..m
      BY <1>1, <2>1
    <3>2. s[i] = a[i]
      BY <1>2, <2>1
    <3> QED
      BY <1>1, <3>1, <3>2 DEF ToSet
  <2>2. CASE ~(i <= m)
    <3>1. i > m /\ i - m \in 1..n
      BY <1>1, <2>2
    <3>2. s[i] = b[i - m]
      BY <1>2, <2>2
    <3> QED
      BY <1>1, <3>1, <3>2 DEF ToSet
  <2> QED
    BY <2>1, <2>2
<1>5. ASSUME NEW i \in 1..m + n, NEW j \in 1..m + n, i < j
      PROVE  before(s[i], s[j])
  <2>1. i \in Nat /\ j \in Nat
    BY <1>1
  <2>2. CASE j \in 1..m /\ s[j] = a[j]
    <3>1. i \in 1..m /\ ~(i > m)
      BY <1>1, <1>5, <2>1, <2>2
    <3>2. s[i] = a[i]
      BY <1>4, <3>1
    <3> QED
      BY <1>1, <1>5, <2>2, <3>1, <3>2 DEF Sorted
  <2>3. CASE j > m /\ j - m \in 1..n /\ s[j] = b[j - m] /\ s[j] \in ToSet(b)
    <3>1. CASE s[i] \in ToSet(a)
      BY <2>3, <3>1
    <3>2. CASE i > m /\ i - m \in 1..n /\ s[i] = b[i - m]
      <4>1. i - m < j - m
        BY <1>1, <1>5, <2>1
      <4> QED
        BY <1>1, <2>3, <3>2, <4>1 DEF Sorted
    <3> QED
      BY <1>4, <3>1, <3>2
  <2> QED
    BY <1>4, <2>2, <2>3
<1>6. Sorted(s)
  BY <1>3, <1>5 DEF Sorted
<1>7. \A x \in ToSet(s) : x \in ToSet(a) \/ x \in ToSet(b)
  BY <1>3, <1>4 DEF ToSet
<1>8. ASSUME NEW x \in ToSet(a)
      PROVE  x \in ToSet(s)
  <2>1. PICK i \in 1..m : x = a[i]
    BY <1>1 DEF ToSet
  <2>2. i \in 1..m + n /\ s[i] = a[i]
    <3>1. i \in 1..m
      BY <2>1
    <3> QED
      BY <1>1, <1>2, <3>1
  <2> QED
    BY <1>3, <2>1, <2>2 DEF ToSet
<1>9. ASSUME NEW x \in ToSet(b)
      PROVE  x \in ToSet(s)
  <2>1. PICK i \in 1..n : x = b[i]
    BY <1>1 DEF ToSet
  <2>2. i + m \in 1..m + n /\ s[i + m] = b[i]
    <3>1. i \in 1..n
      BY <2>1
    <3>2. i + m \in 1..m + n /\ ~(i + m <= m) /\ (i + m) - m = i
      BY <1>1, <3>1
    <3> QED
      BY <1>2, <3>2
  <2> QED
    BY <1>3, <2>1, <2>2 DEF ToSet
<1> QED
  BY <1>2, <1>6, <1>7, <1>8, <1>9 DEF s

LEMMA Reversed ==
    ASSUME NEW q, q.mode = "history", NEW a \in Seq(Key), InRun(q, a)
    PROVE  Reverse(a) \in Seq(Key) /\ Sorted(Reverse(a)) /\ ToSet(Reverse(a)) = ToSet(a)
<1> DEFINE n == Len(a)
           s == Reverse(a)
<1>1. n \in Nat /\ DOMAIN a = 1..n /\ \A i \in 1..n : a[i] \in Key
  BY LenProperties
<1>2. s = [i \in 1..n |-> a[(n - i) + 1]]
  BY DEF Reverse
<1> HIDE DEF n, s
<1>3. \A i \in 1..n : (n - i) + 1 \in 1..n /\ (n - ((n - i) + 1)) + 1 = i
  BY <1>1
<1>4. DOMAIN s = 1..n /\ \A i \in 1..n : s[i] = a[(n - i) + 1]
  BY <1>2
<1>5. s \in [1..n -> Key]
  BY <1>1, <1>2, <1>3
<1>6. s \in Seq(Key)
  BY <1>1, <1>5, SeqDef
<1>7. ASSUME NEW i \in 1..n, NEW j \in 1..n, i < j
      PROVE  before(s[i], s[j])
  <2>1. (n - j) + 1 < (n - i) + 1
    BY <1>1, <1>7
  <2>2. ahead(q, a[(n - j) + 1], a[(n - i) + 1])
    BY <1>1, <1>3, <2>1 DEF InRun
  <2> QED
    BY <1>4, <2>2 DEF ahead
<1>8. Sorted(s)
  BY <1>4, <1>7 DEF Sorted
<1>9. \A x \in ToSet(s) : x \in ToSet(a)
  BY <1>1, <1>3, <1>4 DEF ToSet
<1>10. ASSUME NEW x \in ToSet(a)
       PROVE  x \in ToSet(s)
  <2>1. PICK i \in 1..n : x = a[i]
    BY <1>1 DEF ToSet
  <2>2. (n - i) + 1 \in 1..n /\ s[(n - i) + 1] = a[i]
    BY <1>3, <1>4, <2>1
  <2> QED
    BY <1>4, <2>1, <2>2 DEF ToSet
<1> QED
  BY <1>6, <1>8, <1>9, <1>10 DEF s

LEMMA Turned ==
    ASSUME NEW q, Pager(q), Reached(q), NEW S, Awaits(q, S), PageOf(q, q.page, q.more, S),
           NEW shown, shown = (IF q.mode = "history" THEN Reverse(q.page) \o q.shown ELSE q.shown \o q.page)
    PROVE  LET q1 == turned(q, shown)
           IN  /\ Pager(q1) /\ q1.mode = q.mode /\ q1.scope = q.scope
               /\ \/ q1.st = "ask" /\ Reached(q1) /\ Awaits(q1, S)
                  \/ q1.st = "done" /\ S \subseteq ToSet(q1.shown)
<1> DEFINE q1 == turned(q, shown)
           page == q.page
<1>1. /\ page \in Seq(Key) /\ InRun(q, page) /\ q.more \in BOOLEAN /\ (q.more => page # <<>>)
      /\ \A k \in ToSet(page) : Past(q, k)
      /\ \A k \in S : Past(q, k) => k \in ToSet(page) \/ (q.more /\ ahead(q, Last(page), k))
  BY DEF PageOf
<1>2. /\ q = [f \in PagerFields |-> q[f]]
      /\ q.limit \in Nat \ {0} /\ q.mode \in {"history", "checkpoints"}
      /\ q.shown \in Seq(Key) /\ Sorted(q.shown)
      /\ q.cursor # NoCursor => q.cursor.id \in Nat /\ q.cursor.at \in Nat
  BY DEF Pager
<1>3. /\ q1 = [f \in PagerFields |-> q1[f]] /\ q1.st = (IF q.more THEN "ask" ELSE "done")
      /\ q1.mode = q.mode /\ q1.scope = q.scope /\ q1.limit = q.limit /\ q1.shown = shown
      /\ q1.cursor = root_cursor(q)
  BY <1>2 DEF turned, PagerFields
<1> HIDE DEF q1, page
<1>4. \A k \in Key : k.id \in Nat /\ k.at \in Nat
  BY DEF Key
<1>5. (\A k \in ToSet(page) : k \in Key) /\ (\A k \in ToSet(q.shown) : k \in Key)
  <2>1. \A s \in Seq(Key) : \A k \in ToSet(s) : k \in Key
    <3>1. SUFFICES ASSUME NEW s \in Seq(Key), NEW i \in DOMAIN s
                   PROVE  s[i] \in Key
      BY DEF ToSet
    <3> QED
      BY LenProperties, ElementOfSeq
  <2> QED
    BY <1>1, <1>2, <2>1
<1>6. ASSUME NEW x \in ToSet(page), NEW y \in ToSet(q.shown)
      PROVE  ahead(q, y, x)
  <2>1. x.id \in Nat /\ x.at \in Nat /\ y.id \in Nat /\ y.at \in Nat
    BY <1>4, <1>5
  <2>2. q.cursor # NoCursor /\ ((y.id = q.cursor.id /\ y.at = q.cursor.at) \/ ahead(q, y, q.cursor))
    BY DEF Reached
  <2>3. ahead(q, q.cursor, x)
    BY <1>1, <2>2 DEF Past
  <2>4. q.cursor.id \in Nat /\ q.cursor.at \in Nat
    BY <1>2, <2>2
  <2> QED
    BY <2>1, <2>2, <2>3, <2>4 DEF ahead, before
<1>7. shown \in Seq(Key) /\ Sorted(shown) /\ ToSet(shown) = ToSet(q.shown) \cup ToSet(page)
  <2>1. CASE q.mode = "history"
    <3>1. Reverse(page) \in Seq(Key) /\ Sorted(Reverse(page)) /\ ToSet(Reverse(page)) = ToSet(page)
      BY <1>1, <2>1, Reversed
    <3>2. \A x \in ToSet(Reverse(page)), y \in ToSet(q.shown) : before(x, y)
      BY <1>6, <2>1, <3>1 DEF ahead
    <3>3. shown = Reverse(page) \o q.shown
      BY <2>1 DEF page
    <3> DEFINE a == Reverse(page)
               b == q.shown
    <3>4. a \in Seq(Key) /\ b \in Seq(Key) /\ Sorted(a) /\ Sorted(b) /\ \A x \in ToSet(a), y \in ToSet(b) : before(x, y)
      BY <1>2, <3>1, <3>2
    <3>5. shown = a \o b /\ ToSet(a) = ToSet(page)
      BY <3>1, <3>3
    <3>6. b = q.shown
      OBVIOUS
    <3> HIDE DEF a, b
    <3>7. a \o b \in Seq(Key) /\ Sorted(a \o b) /\ ToSet(a \o b) = ToSet(a) \cup ToSet(b)
      BY <3>4, Joined
    <3>8. ToSet(a) \cup ToSet(b) = ToSet(q.shown) \cup ToSet(page)
      BY <3>5, <3>6
    <3> QED
      BY <3>5, <3>7, <3>8
  <2>2. CASE q.mode # "history"
    <3>1. Sorted(page)
      BY <1>1, <2>2 DEF InRun, Sorted, ahead
    <3>2. \A x \in ToSet(q.shown), y \in ToSet(page) : before(x, y)
      BY <1>6, <2>2 DEF ahead
    <3>3. shown = q.shown \o page
      BY <2>2 DEF page
    <3> QED
      BY <1>1, <1>2, <3>1, <3>2, <3>3, Joined
  <2> QED
    BY <2>1, <2>2
<1>8. CASE ~q.more
  <2>1. q1.st = "done" /\ q1.cursor = q.cursor
    BY <1>3, <1>8 DEF root_cursor
  <2>2. Pager(q1)
    BY <1>2, <1>3, <1>7, <2>1 DEF Pager
  <2>3. S \subseteq ToSet(q1.shown)
    BY <1>1, <1>3, <1>7, <1>8 DEF Awaits
  <2> QED
    BY <1>3, <2>1, <2>2, <2>3 DEF q1
<1>9. CASE q.more
  <2> DEFINE last == Last(page)
             c == q1.cursor
  <2>1. page # <<>>
    BY <1>1, <1>9
  <2>2. Len(page) \in Nat \ {0} /\ DOMAIN page = 1..Len(page)
    BY <1>1, <2>1, EmptySeq, LenProperties
  <2>3. Len(page) \in DOMAIN page
    BY <2>2
  <2>4. last \in ToSet(page)
    BY <2>3 DEF Last, ToSet
  <2>5. last \in Key /\ last.id \in Nat /\ last.at \in Nat
    BY <1>4, <1>5, <2>4
  <2>6. \A k \in ToSet(page) : k = last \/ ahead(q, k, last)
    <3>1. last = page[Len(page)]
      BY DEF Last
    <3> HIDE DEF last
    <3>2. SUFFICES ASSUME NEW k \in ToSet(page), k # last
                   PROVE  ahead(q, k, last)
      OBVIOUS
    <3>3. PICK i \in 1..Len(page) : k = page[i]
      BY <2>2 DEF ToSet
    <3>4. i \in 1..Len(page) /\ i # Len(page)
      BY <3>1, <3>2, <3>3
    <3>5. i < Len(page)
      <4>1. \A m \in Nat : \A j \in 1..m : j # m => j < m
        OBVIOUS
      <4>2. Len(page) \in Nat
        BY <2>2
      <4> QED
        BY <3>4, <4>1, <4>2
    <3> QED
      BY <1>1, <2>2, <2>3, <3>1, <3>3, <3>5 DEF InRun
  <2>7. c = [mode |-> q.mode, id |-> last.id, at |-> last.at, scope |-> q.scope]
    BY <1>3, <1>9 DEF root_cursor, page
  <2> HIDE DEF last
  <2>8. c.mode = q.mode /\ c.id = last.id /\ c.at = last.at
    BY <2>7
  <2>9. c # NoCursor
    BY <1>2, <2>8 DEF NoCursor
  <2> HIDE DEF c
  <2>10. \A k : (ahead(q1, k, c) <=> ahead(q, k, last)) /\ (ahead(q1, c, k) <=> ahead(q, last, k))
    BY <1>3, <2>8 DEF ahead, before
  <2>11. Pager(q1)
    BY <1>2, <1>3, <1>7, <2>5, <2>8 DEF Pager, c
  <2>12. Reached(q1)
    <3>1. SUFFICES ASSUME NEW k \in ToSet(shown)
                   PROVE  (k.id = c.id /\ k.at = c.at) \/ ahead(q1, k, c)
      BY <1>3, <2>9 DEF Reached, c
    <3>2. CASE k \in ToSet(page)
      BY <2>6, <2>8, <2>10, <3>2
    <3>3. CASE k \in ToSet(q.shown)
      BY <1>6, <2>4, <2>10, <3>3
    <3> QED
      BY <1>7, <3>1, <3>2, <3>3
  <2>13. Awaits(q1, S)
    <3>1. SUFFICES ASSUME NEW k \in S
                   PROVE  k \in ToSet(shown) \/ ahead(q1, c, k)
      BY <1>3 DEF Awaits, Past, c
    <3>2. k \in ToSet(q.shown) \/ k \in ToSet(page) \/ ahead(q, last, k)
      BY <1>1 DEF Awaits, last
    <3> QED
      BY <1>7, <2>10, <3>2
  <2>14. q1.st = "ask"
    BY <1>3, <1>9
  <2> QED
    BY <1>3, <2>11, <2>12, <2>13, <2>14 DEF q1
<1> QED
  BY <1>8, <1>9

-----------------------------------------------------------------------------
(* What a query lists, over a table of rows R.                             *)

RootsFor(R, a) == IF a = Everyone THEN Roots(R) ELSE {r \in Roots(R) : R[r.rep].agent = a}
RowKeys(R, P) == {[id |-> i, at |-> R[i].at] : i \in P}
Listed(R, q) == IF q.mode = "history" THEN keys(RootsFor(R, q.scope))
                ELSE UNION {RowKeys(R, RowsOf(R, r)) : r \in {x \in Roots(R) : x.id = q.scope}}

LEMMA RootKey ==
    ASSUME NEW R, Good(R), NEW r \in Roots(R)
    PROVE  r.id \in In(R) /\ r.id \in Nat /\ r.at \in Nat
<1>1. r.id \in In(R) /\ r.id \in Nat
  BY NotIdle
<1>2. CASE \E i \in In(R) : ~IsPoll(R, i) /\ r = CardRoot(R, i)
  BY <1>1, <1>2 DEF CardRoot, TimelineRoot, Good
<1>3. CASE \E h \in Nat \ {0} : Group(R, h) # {} /\ r = GroupRoot(R, h)
  <2>1. PICK h \in Nat \ {0} : Group(R, h) # {} /\ r = GroupRoot(R, h)
    BY <1>3
  <2>2. r.at = Min({R[i].at : i \in Group(R, h)})
    BY <2>1 DEF GroupRoot, TimelineRoot
  <2> DEFINE ats == {R[i].at : i \in Group(R, h)}
  <2>3. ats \subseteq Nat /\ ats # {}
    BY <2>1 DEF Group, Good
  <2> HIDE DEF ats
  <2>4. Min(ats) \in Nat
    BY <2>3, NatMin
  <2> QED
    BY <1>1, <2>2, <2>4 DEF ats
<1>4. CASE \E i \in Group(R, 0) : r = LoneRoot(R, i)
  BY <1>1, <1>4 DEF LoneRoot, TimelineRoot, Group, Good
<1> QED
  BY <1>2, <1>3, <1>4, RootIs

LEMMA RootKeys ==
    ASSUME NEW R, Good(R), NEW T \in SUBSET Roots(R)
    PROVE  keys(T) \in SUBSET Key /\ IsFiniteSet(keys(T))
<1> DEFINE I == {r.id : r \in T}
           of(i) == CHOOSE r \in T : r.id = i
           f == [i \in I |-> [id |-> of(i).id, at |-> of(i).at]]
<1>1. keys(T) \subseteq Key
  BY RootKey DEF keys, Key
<1>2. I \in SUBSET In(R) /\ IsFiniteSet(In(R))
  BY RootKey DEF Good
<1>3. IsFiniteSet(I)
  BY <1>2, FS_Subset
<1>4. \A r \in T : of(r.id) = r
  BY RootsDiffer
<1>5. \A r \in T : r.id \in I
  OBVIOUS
<1>6. \A i \in I : \E r \in T : i = r.id
  OBVIOUS
<1> HIDE DEF of, I
<1>7. f \in [I -> keys(T)]
  BY <1>4, <1>6 DEF keys
<1>8. \A k \in keys(T) : \E i \in I : f[i] = k
  BY <1>4, <1>5 DEF keys
<1> HIDE DEF f
<1>9. f \in Surjection(I, keys(T))
  BY <1>7, <1>8 DEF Surjection
<1> QED
  BY <1>1, <1>3, <1>9, FS_Surjection

LEMMA KeysOfRows ==
    ASSUME NEW R, Good(R), NEW P \in SUBSET In(R)
    PROVE  RowKeys(R, P) \in SUBSET Key /\ IsFiniteSet(RowKeys(R, P))
<1> DEFINE f == [i \in P |-> [id |-> i, at |-> R[i].at]]
<1>1. RowKeys(R, P) \subseteq Key
  BY DEF RowKeys, Key, Good
<1>2. IsFiniteSet(P)
  BY FS_Subset DEF Good
<1>3. f \in [P -> RowKeys(R, P)] /\ \A k \in RowKeys(R, P) : \E i \in P : f[i] = k
  BY DEF RowKeys
<1> HIDE DEF f
<1>4. f \in Surjection(P, RowKeys(R, P))
  BY <1>3 DEF Surjection
<1> QED
  BY <1>1, <1>2, <1>4, FS_Surjection

LEMMA RootsRead == ASSUME Table, NEW a PROVE roots_cte_for_query(a) = RootsFor(row, a)
<1>1. Good(row) /\ Reading /\ ROOTS_CTE = Roots(row) /\ present = In(row)
  BY TableGood, InTheTable DEF Reading
<1>2. CASE a = Everyone
  BY <1>1, <1>2 DEF roots_cte_for_query, RootsFor
<1>3. CASE a # Everyone /\ a \in agents
  BY <1>1, <1>3, AgentRoots DEF AgentViewExact, RootsFor
<1>4. CASE a # Everyone /\ a \notin agents
  <2>1. \A i \in present : ~push_invocation_filters(i, a)
    BY <1>4 DEF agents, push_invocation_filters
  <2>2. roots_cte_for_query(a) = {}
    BY <1>4, <2>1 DEF roots_cte_for_query
  <2>3. \A r \in Roots(row) : row[r.rep].agent # a
    <3>1. \A r \in Roots(row) : r.rep \in present
      BY <1>1, RootOfRow
    <3> QED
      BY <1>4, <3>1 DEF agents
  <2> QED
    BY <1>4, <2>2, <2>3 DEF RootsFor
<1> QED
  BY <1>2, <1>3, <1>4

LEMMA ListedIs == ASSUME Table, NEW q PROVE listed(q) = Listed(row, q)
<1>1. Good(row) /\ Reading /\ ROOTS_CTE = Roots(row)
  BY TableGood, InTheTable DEF Reading
<1>2. CASE q.mode = "history"
  BY <1>2, RootsRead DEF listed, Listed
<1>3. CASE q.mode # "history"
  <2>1. \A r : RowKeys(row, RowsOf(row, r)) = {[id |-> i, at |-> row[i].at] : i \in query_rows(r)}
    BY <1>1 DEF Reading, RowKeys
  <2>2. root_named(q.scope) = {x \in Roots(row) : x.id = q.scope}
    BY <1>1 DEF root_named
  <2>3. listed(q) = UNION {{[id |-> i, at |-> row[i].at] : i \in query_rows(r)} : r \in root_named(q.scope)}
    BY <1>3 DEF listed
  <2>4. listed(q) = UNION {RowKeys(row, RowsOf(row, r)) : r \in root_named(q.scope)}
    BY <2>1, <2>3
  <2> QED
    BY <1>3, <2>2, <2>4 DEF Listed
<1> QED
  BY <1>2, <1>3

\* What kind of root a row can be was settled when it was called.
KindOf(i) == IF script[i].kind # "poll" THEN 0 ELSE IF script[i].handle # 0 THEN 1 ELSE 2
RootNamedBy(r, i) == r.id = i /\ r.kind = KindOf(i) /\ (r.kind = 1 => r.handle = script[i].handle)

LEMMA RootNamed == ASSUME Table, NEW r \in Roots(row) PROVE RootNamedBy(r, r.id)
<1>1. Good(row) /\ r.id \in In(row) /\ r.kind \in {0, 1, 2}
  BY TableGood, RootOfRow
<1>2. row[r.id].kind = script[r.id].kind /\ row[r.id].handle = script[r.id].handle
  BY <1>1 DEF Table
<1>3. CASE r.kind = 0
  BY <1>1, <1>2, <1>3, CardRootIs DEF RootNamedBy, KindOf, IsPoll
<1>4. CASE r.kind = 1
  <2>1. r.handle \in Nat \ {0} /\ RowsOf(row, r) = Group(row, r.handle)
    BY <1>1, <1>4, GroupRootIs
  <2>2. r.id \in Group(row, r.handle)
    BY <1>1, <2>1, RootOfRow
  <2>3. row[r.id].kind = "poll" /\ row[r.id].handle = r.handle
    BY <2>2 DEF Group, IsOrphan, IsPoll
  <2> QED
    BY <1>2, <1>4, <2>1, <2>3 DEF RootNamedBy, KindOf
<1>5. CASE r.kind = 2
  <2>1. \A i : CardRoot(row, i).kind = 0 /\ GroupRoot(row, i).kind = 1
    BY DEF CardRoot, GroupRoot, TimelineRoot
  <2>2. PICK i \in Group(row, 0) : r = LoneRoot(row, i)
    BY <1>1, <1>5, <2>1, RootIs
  <2>3. r.id = i
    BY <2>2 DEF LoneRoot, TimelineRoot
  <2>4. row[r.id].kind = "poll" /\ row[r.id].handle = 0
    BY <2>2, <2>3 DEF Group, IsOrphan, IsPoll
  <2> QED
    BY <1>2, <1>5, <2>4 DEF RootNamedBy, KindOf
<1> QED
  BY <1>1, <1>3, <1>4, <1>5

LEMMA NamedRows ==
    ASSUME NEW R, NEW i, NEW r, RootNamedBy(r, i), NEW s, RootNamedBy(s, i)
    PROVE  RowsOf(R, r) = RowsOf(R, s) /\ RowsOf(R, r) \subseteq In(R)
<1>1. r.id = s.id /\ r.kind = s.kind /\ r.kind \in {0, 1, 2} /\ (r.kind = 1 => r.handle = s.handle)
  BY DEF RootNamedBy, KindOf
<1>2. CASE r.kind = 0
  BY <1>1, <1>2 DEF RowsOf
<1>3. CASE r.kind = 1
  BY <1>1, <1>3 DEF RowsOf, Group
<1>4. CASE r.kind = 2
  BY <1>1, <1>4 DEF RowsOf
<1> QED
  BY <1>1, <1>2, <1>3, <1>4

\* The client: what stayed listed is shown or still ahead of it, and the page
\* in its hands is what the query cut at the cursor.
Paged ==
    /\ Pager(pager) /\ stay \subseteq Listed(row, pager)
    /\ pager.st \in {"new", "ask", "hydrate", "rows", "done", "gone"}
    /\ pager.st = "new" => pager.shown = <<>> /\ pager.cursor = NoCursor
    /\ pager.st \in {"ask", "hydrate", "rows"} => Reached(pager) /\ Awaits(pager, stay)
    /\ pager.st = "hydrate" => pager.mode = "history" /\ PageOf(pager, pager.page, pager.more, stay)
    /\ pager.st = "rows" => /\ pager.mode = "checkpoints" /\ pager.roots # {}
                            /\ \A r \in pager.roots : RootNamedBy(r, pager.scope)
    /\ pager.st = "done" => stay \subseteq ToSet(pager.shown)

\* Nothing joins what stayed listed, so no step of the others disturbs it.
LEMMA PagedOnward ==
    ASSUME Paged, pager' = pager, script' = script, stay' \subseteq stay, stay' \subseteq Listed(row', pager)
    PROVE  Paged'
<1>1. Awaits(pager, stay) => Awaits(pager, stay')
  BY DEF Awaits
<1>2. PageOf(pager, pager.page, pager.more, stay) => PageOf(pager, pager.page, pager.more, stay')
  BY DEF PageOf
<1>3. \A r, i : RootNamedBy(r, i)' <=> RootNamedBy(r, i)
  BY DEF RootNamedBy, KindOf
<1> QED
  BY <1>1, <1>2, <1>3 DEF Paged

LEMMA ListedNext == Table' => (listed(pager) = Listed(row, pager))'
<1>1. Table => listed(pager) = Listed(row, pager)
  BY ListedIs
<1> QED
  BY <1>1, PTL

LEMMA PagedWatched ==
    ASSUME Paged, Table', pager' = pager, script' = script, Watched
    PROVE  Paged'
<1>1. listed(pager)' = Listed(row', pager)
  BY ListedNext
<1>2. stay' \subseteq stay /\ stay' \subseteq Listed(row', pager)
  BY <1>1 DEF Watched
<1> QED
  BY <1>2, PagedOnward

LEMMA PagedApart ==
    ASSUME Paged, UNCHANGED <<row, script, pager, stay>>
    PROVE  Paged'
<1>1. stay' \subseteq stay /\ stay' \subseteq Listed(row', pager)
  BY DEF Paged
<1> QED
  BY <1>1, PagedOnward

LEMMA PagedOpened ==
    ASSUME Table, NEW mode \in {"history", "checkpoints"}, NEW scope, NEW limit \in Limits,
           open_timeline(mode, scope, limit)
    PROVE  Paged'
<1> DEFINE q == [NewPager EXCEPT !.st = "ask", !.mode = mode, !.scope = scope, !.limit = limit]
<1>1. pager' = q /\ stay' = listed(q) /\ row' = row
  BY DEF open_timeline, PagerOnly
<1>2. /\ q = [f \in PagerFields |-> q[f]]
      /\ q.st = "ask" /\ q.mode = mode /\ q.limit = limit /\ q.cursor = NoCursor /\ q.shown = <<>>
  BY DEF NewPager, PagerFields
<1> HIDE DEF q
<1>3. Pager(q)
  <2>1. q.shown \in Seq(Key) /\ Sorted(q.shown)
    <3>1. <<>> \in Seq(Key) /\ DOMAIN <<>> = {}
      OBVIOUS
    <3> QED
      BY <1>2, <3>1 DEF Sorted
  <2>2. q.limit \in Nat \ {0}
    BY <1>2, TimelineAssumption
  <2> QED
    BY <1>2, <2>1, <2>2 DEF Pager
<1>4. Reached(q) /\ Awaits(q, stay')
  BY <1>2 DEF Reached, Awaits, Past, ToSet
<1>5. stay' \subseteq Listed(row', pager')
  BY <1>1, ListedIs
<1> QED
  BY <1>1, <1>2, <1>3, <1>4, <1>5 DEF Paged

\* The keys a query reads hold all that stayed, and the page is cut from them.
LEMMA PageCut ==
    ASSUME NEW q, Pager(q), NEW K \in SUBSET Key, IsFiniteSet(K), NEW T, T \subseteq K, Awaits(q, T)
    PROVE  PageOf(q, cut(q, K).page, cut(q, K).more, T)
<1>1. q.limit \in Nat \ {0}
  BY DEF Pager
<1>2. PageOf(q, cut(q, K).page, cut(q, K).more, K)
  BY <1>1, CutIs
<1> QED
  BY <1>2 DEF PageOf

\* What the client holds tells nothing of where it is.
LEMMA PagerHolds ==
    ASSUME NEW q, Pager(q), NEW p, p = [f \in PagerFields |-> p[f]],
           p.limit = q.limit, p.mode = q.mode, p.shown = q.shown, p.cursor = q.cursor
    PROVE  /\ Pager(p) /\ (Reached(q) => Reached(p)) /\ \A T : Awaits(q, T) => Awaits(p, T)
           /\ \A page, more, T : PageOf(q, page, more, T) => PageOf(p, page, more, T)
<1>1. \A a, b : ahead(p, a, b) <=> ahead(q, a, b)
  BY DEF ahead
<1>2. \A k : Past(p, k) <=> Past(q, k)
  BY <1>1 DEF Past
<1>3. Pager(p)
  BY DEF Pager
<1>4. Reached(q) => Reached(p)
  BY <1>1 DEF Reached
<1>5. \A T : Awaits(q, T) => Awaits(p, T)
  BY <1>2 DEF Awaits
<1>6. \A page, more, T : PageOf(q, page, more, T) => PageOf(p, page, more, T)
  BY <1>1, <1>2 DEF PageOf, InRun
<1> QED
  BY <1>3, <1>4, <1>5, <1>6

LEMMA PagedQueried == ASSUME Table, Paged, query_history_roots PROVE Paged'
<1> DEFINE R == roots_cte_for_query(pager.scope)
           c == cut(pager, keys(R))
           p == [pager EXCEPT !.st = "hydrate", !.page = c.page, !.more = c.more,
                              !.roots = {r \in R : [id |-> r.id, at |-> r.at] \in ToSet(c.page)}]
<1>1. /\ pager.st = "ask" /\ pager.mode = "history" /\ pager' = p
      /\ stay' = stay /\ row' = row
  BY DEF query_history_roots, PagerOnly
<1>2. Pager(pager) /\ Reached(pager) /\ Awaits(pager, stay) /\ stay \subseteq Listed(row, pager)
  BY <1>1 DEF Paged
<1>3. R = RootsFor(row, pager.scope) /\ R \subseteq Roots(row)
  BY RootsRead DEF RootsFor
<1>4. Listed(row, pager) = keys(R)
  BY <1>1, <1>3 DEF Listed
<1> HIDE DEF R
<1>5. keys(R) \in SUBSET Key /\ IsFiniteSet(keys(R))
  BY <1>3, TableGood, RootKeys
<1>6. PageOf(pager, c.page, c.more, stay)
  BY <1>2, <1>4, <1>5, PageCut
<1> HIDE DEF c
<1>7. pager = [f \in PagerFields |-> pager[f]]
  BY <1>2 DEF Pager
<1>8. /\ p = [f \in PagerFields |-> p[f]] /\ p.st = "hydrate" /\ p.page = c.page /\ p.more = c.more
      /\ p.limit = pager.limit /\ p.mode = pager.mode /\ p.shown = pager.shown /\ p.cursor = pager.cursor
      /\ p.scope = pager.scope
  BY <1>7 DEF PagerFields
<1> HIDE DEF p
<1>9. Pager(p) /\ Reached(p) /\ Awaits(p, stay) /\ PageOf(p, p.page, p.more, stay)
  BY <1>2, <1>6, <1>8, PagerHolds
<1>10. Listed(row, p) = Listed(row, pager)
  BY <1>8 DEF Listed
<1> QED
  BY <1>1, <1>2, <1>8, <1>9, <1>10 DEF Paged

LEMMA PagedHydrated == ASSUME Table, Paged, hydrate_roots PROVE Paged'
<1> DEFINE p == [pager EXCEPT !.st = "ask", !.page = <<>>, !.more = FALSE, !.roots = {}]
           shown == Reverse(pager.page) \o pager.shown
           t == turned(pager, shown)
<1>1. pager.st = "hydrate" /\ (pager' = p \/ pager' = t) /\ stay' = stay /\ row' = row
  BY DEF hydrate_roots, PagerOnly
<1>2. /\ Pager(pager) /\ Reached(pager) /\ Awaits(pager, stay) /\ stay \subseteq Listed(row, pager)
      /\ pager.mode = "history" /\ PageOf(pager, pager.page, pager.more, stay)
  BY <1>1 DEF Paged
<1>3. pager = [f \in PagerFields |-> pager[f]]
  BY <1>2 DEF Pager
<1>4. ASSUME pager' = p
      PROVE  Paged'
  <2>1. /\ p = [f \in PagerFields |-> p[f]] /\ p.st = "ask"
        /\ p.limit = pager.limit /\ p.mode = pager.mode /\ p.shown = pager.shown /\ p.cursor = pager.cursor
        /\ p.scope = pager.scope
    BY <1>3 DEF PagerFields
  <2> HIDE DEF p
  <2>2. Pager(p) /\ Reached(p) /\ Awaits(p, stay)
    BY <1>2, <2>1, PagerHolds
  <2>3. Listed(row, p) = Listed(row, pager)
    BY <2>1 DEF Listed
  <2> QED
    BY <1>1, <1>2, <1>4, <2>1, <2>2, <2>3 DEF Paged
<1>5. ASSUME pager' = t
      PROVE  Paged'
  <2>1. shown = IF pager.mode = "history" THEN Reverse(pager.page) \o pager.shown ELSE pager.shown \o pager.page
    BY <1>2
  <2> HIDE DEF shown
  <2>2. /\ Pager(t) /\ t.mode = pager.mode /\ t.scope = pager.scope
        /\ \/ t.st = "ask" /\ Reached(t) /\ Awaits(t, stay)
           \/ t.st = "done" /\ stay \subseteq ToSet(t.shown)
    BY <1>2, <2>1, Turned
  <2> HIDE DEF t
  <2>3. Listed(row, t) = Listed(row, pager)
    BY <2>2 DEF Listed
  <2> QED
    BY <1>1, <1>2, <1>5, <2>2, <2>3 DEF Paged
<1> QED
  BY <1>1, <1>4, <1>5

LEMMA PagedLookedUp == ASSUME Table, Paged, timeline_checkpoints PROVE Paged'
<1> DEFINE p == IF root_named(pager.scope) = {} THEN [pager EXCEPT !.st = "gone"]
                ELSE [pager EXCEPT !.st = "rows", !.roots = root_named(pager.scope)]
<1>1. /\ pager.st = "ask" /\ pager.mode = "checkpoints" /\ pager' = p
      /\ stay' = stay /\ row' = row /\ script' = script
  BY DEF timeline_checkpoints, PagerOnly
<1>2. Pager(pager) /\ Reached(pager) /\ Awaits(pager, stay) /\ stay \subseteq Listed(row, pager)
  BY <1>1 DEF Paged
<1>3. pager = [f \in PagerFields |-> pager[f]]
  BY <1>2 DEF Pager
<1>4. \A r \in root_named(pager.scope) : RootNamedBy(r, pager.scope)
  BY InTheTable, RootNamed DEF root_named, Reading
<1>5. /\ p = [f \in PagerFields |-> p[f]]
      /\ p.st = "gone" \/ (p.st = "rows" /\ root_named(pager.scope) # {} /\ p.roots = root_named(pager.scope))
      /\ p.limit = pager.limit /\ p.mode = pager.mode /\ p.shown = pager.shown /\ p.cursor = pager.cursor
      /\ p.scope = pager.scope
  BY <1>3 DEF PagerFields
<1> HIDE DEF p
<1>6. Pager(p) /\ Reached(p) /\ Awaits(p, stay)
  BY <1>2, <1>5, PagerHolds
<1>7. Listed(row, p) = Listed(row, pager)
  BY <1>5 DEF Listed
<1>8. \A r, i : RootNamedBy(r, i)' <=> RootNamedBy(r, i)
  BY <1>1 DEF RootNamedBy, KindOf
<1> QED
  BY <1>1, <1>2, <1>4, <1>5, <1>6, <1>7, <1>8 DEF Paged

LEMMA PagedRead == ASSUME Table, Paged, checkpoint_rows PROVE Paged'
<1> DEFINE K == UNION {{[id |-> i, at |-> row[i].at] : i \in query_rows(r)} : r \in pager.roots}
           c == cut(pager, K)
           q == [pager EXCEPT !.page = c.page, !.more = c.more]
           shown == pager.shown \o c.page
           t == turned(q, shown)
<1>1. pager.st = "rows" /\ pager' = t /\ stay' = stay /\ row' = row
  BY DEF checkpoint_rows, PagerOnly
<1>2. /\ Pager(pager) /\ Reached(pager) /\ Awaits(pager, stay) /\ stay \subseteq Listed(row, pager)
      /\ pager.mode = "checkpoints" /\ pager.roots # {} /\ \A r \in pager.roots : RootNamedBy(r, pager.scope)
  BY <1>1 DEF Paged
<1>3. Good(row) /\ Reading
  BY TableGood, InTheTable
<1>4. PICK r0 \in pager.roots : RootNamedBy(r0, pager.scope)
  BY <1>2
<1>5. K = RowKeys(row, RowsOf(row, r0))
  <2>1. \A r \in pager.roots : query_rows(r) = RowsOf(row, r0)
    BY <1>2, <1>3, <1>4, NamedRows DEF Reading
  <2> QED
    BY <1>4, <2>1 DEF RowKeys
<1> HIDE DEF K
<1>6. K \in SUBSET Key /\ IsFiniteSet(K)
  <2>1. RowsOf(row, r0) \in SUBSET In(row)
    BY <1>4, NamedRows
  <2> QED
    BY <1>3, <1>5, <2>1, KeysOfRows
<1>7. stay \subseteq K
  <2>1. \A r \in Roots(row) : r.id = pager.scope => RowsOf(row, r) = RowsOf(row, r0)
    BY <1>4, RootNamed, NamedRows
  <2>2. Listed(row, pager) = UNION {RowKeys(row, RowsOf(row, r)) : r \in {x \in Roots(row) : x.id = pager.scope}}
    BY <1>2 DEF Listed
  <2>3. Listed(row, pager) \subseteq K
    BY <1>5, <2>1, <2>2
  <2> QED
    BY <1>2, <2>3
<1>8. PageOf(pager, c.page, c.more, stay)
  BY <1>2, <1>6, <1>7, PageCut
<1> HIDE DEF c
<1>9. pager = [f \in PagerFields |-> pager[f]]
  BY <1>2 DEF Pager
<1>10. /\ q = [f \in PagerFields |-> q[f]] /\ q.page = c.page /\ q.more = c.more
       /\ q.limit = pager.limit /\ q.mode = pager.mode /\ q.shown = pager.shown /\ q.cursor = pager.cursor
       /\ q.scope = pager.scope
  BY <1>9 DEF PagerFields
<1> HIDE DEF q
<1>11. Pager(q) /\ Reached(q) /\ Awaits(q, stay) /\ PageOf(q, q.page, q.more, stay)
  BY <1>2, <1>8, <1>10, PagerHolds
<1>12. shown = IF q.mode = "history" THEN Reverse(q.page) \o q.shown ELSE q.shown \o q.page
  BY <1>2, <1>10
<1> HIDE DEF shown
<1>13. /\ Pager(t) /\ t.mode = q.mode /\ t.scope = q.scope
       /\ \/ t.st = "ask" /\ Reached(t) /\ Awaits(t, stay)
          \/ t.st = "done" /\ stay \subseteq ToSet(t.shown)
  BY <1>11, <1>12, Turned
<1> HIDE DEF t
<1>14. Listed(row, t) = Listed(row, pager)
  BY <1>10, <1>13 DEF Listed
<1> QED
  BY <1>1, <1>2, <1>13, <1>14 DEF Paged

LEMMA PagedBegins == ASSUME TimelineInit PROVE Paged
<1>1. pager = NewPager /\ stay = {}
  BY DEF TimelineInit
<1>2. /\ NewPager = [f \in PagerFields |-> NewPager[f]]
      /\ NewPager.st = "new" /\ NewPager.mode = "history" /\ NewPager.limit = 1
      /\ NewPager.cursor = NoCursor /\ NewPager.shown = <<>>
  BY DEF NewPager, PagerFields
<1>3. NewPager.shown \in Seq(Key) /\ Sorted(NewPager.shown)
  <2>1. <<>> \in Seq(Key) /\ DOMAIN <<>> = {}
    OBVIOUS
  <2> QED
    BY <1>2, <2>1 DEF Sorted
<1>4. Pager(NewPager)
  BY <1>2, <1>3 DEF Pager
<1> QED
  BY <1>1, <1>2, <1>4 DEF Paged

LEMMA PagesTrue == ASSUME Paged PROVE PagesAreExact
BY DEF Paged, Pager, Sorted, PagesAreExact

-----------------------------------------------------------------------------
(* The timeline is true.                                                   *)

TimelineInv == Table /\ Cached /\ Paged

LEMMA TimelineBegins == TimelineInit => TimelineInv
BY CacheBegins, PagedBegins DEF TimelineInv

LEMMA TimelineStep == ASSUME TimelineInv, [TimelineNext]_timelineVars PROVE TimelineInv'
<1>1. Table /\ Cached /\ Paged
  BY DEF TimelineInv
<1>2. ASSUME NEW i \in Ids, begin_with_metadata(i)
      PROVE  TimelineInv'
  <2>1. Table'
    BY <1>1, <1>2, RowBegun
  <2>2. Cached'
    BY <1>1, <1>2, CachedBegun
  <2>3. Paged'
    BY <1>1, <1>2, <2>1, PagedWatched DEF begin_with_metadata
  <2> QED
    BY <2>1, <2>2, <2>3 DEF TimelineInv
<1>3. ASSUME NEW i \in Ids, NEW st, update_row(i, st)
      PROVE  TimelineInv'
  <2>1. Table'
    BY <1>1, <1>3, RowUpdated
  <2>2. Cached'
    BY <1>1, <1>3, CachedUpdated
  <2>3. Paged'
    BY <1>1, <1>3, <2>1, PagedWatched DEF update_row
  <2> QED
    BY <2>1, <2>2, <2>3 DEF TimelineInv
<1>4. ASSUME NEW i \in Ids, queue_presentation_refresh(i)
      PROVE  TimelineInv'
  <2>1. Table' /\ Cached'
    BY <1>1, <1>4, RefreshQueued
  <2>2. Paged'
    BY <1>1, <1>4, PagedApart DEF queue_presentation_refresh
  <2> QED
    BY <2>1, <2>2 DEF TimelineInv
<1>5. ASSUME NEW i \in Ids, refresh_presentation_materialization(i)
      PROVE  TimelineInv'
  <2>1. Table' /\ Cached'
    BY <1>1, <1>5, RefreshStarts
  <2>2. Paged'
    BY <1>1, <1>5, PagedApart DEF refresh_presentation_materialization
  <2> QED
    BY <2>1, <2>2 DEF TimelineInv
<1>6. ASSUME backfill_presentation_materializations
      PROVE  TimelineInv'
  <2>1. Table' /\ Cached'
    BY <1>1, <1>6, BackfillStarts
  <2>2. Paged'
    BY <1>1, <1>6, PagedApart DEF backfill_presentation_materializations
  <2> QED
    BY <2>1, <2>2 DEF TimelineInv
<1>7. ASSUME persist_materialized
      PROVE  TimelineInv'
  <2>1. Table' /\ Cached'
    BY <1>1, <1>7, CardPersisted
  <2>2. Paged'
    BY <1>1, <1>7, PagedApart DEF persist_materialized
  <2> QED
    BY <2>1, <2>2 DEF TimelineInv
<1>8. ASSUME NEW gone \in SUBSET present, NEW discard \in BOOLEAN, discard => gone = {}, run_retention(gone, discard)
      PROVE  TimelineInv'
  <2>1. Table' /\ Cached'
    BY <1>1, <1>8, Retained
  <2>2. Paged'
    BY <1>1, <1>8, <2>1, PagedWatched DEF run_retention
  <2> QED
    BY <2>1, <2>2 DEF TimelineInv
<1>9. ASSUME NEW a, clear_local_agent_history(a)
      PROVE  TimelineInv'
  <2>1. Table' /\ Cached'
    BY <1>1, <1>9, AgentCleared
  <2>2. pager' = pager /\ script' = script /\ Watched
    BY <1>9 DEF clear_local_agent_history
  <2>3. Paged'
    BY <1>1, <2>1, <2>2, PagedWatched
  <2> QED
    BY <2>1, <2>3 DEF TimelineInv
<1>10. ASSUME NEW mode \in {"history", "checkpoints"}, NEW scope, NEW limit \in Limits,
              open_timeline(mode, scope, limit)
       PROVE  TimelineInv'
  <2>1. Table' /\ Cached'
    BY <1>1, <1>10, CacheUntouched DEF open_timeline
  <2>2. Paged'
    BY <1>1, <1>10, PagedOpened
  <2> QED
    BY <2>1, <2>2 DEF TimelineInv
<1>11. ASSUME query_history_roots \/ hydrate_roots \/ timeline_checkpoints \/ checkpoint_rows
       PROVE  TimelineInv'
  <2>1. PagerOnly
    BY <1>11 DEF query_history_roots, hydrate_roots, timeline_checkpoints, checkpoint_rows
  <2>2. Table' /\ Cached'
    BY <1>1, <2>1, CacheUntouched
  <2>3. Paged'
    BY <1>1, <1>11, PagedQueried, PagedHydrated, PagedLookedUp, PagedRead
  <2> QED
    BY <2>2, <2>3 DEF TimelineInv
<1>12. ASSUME UNCHANGED timelineVars
       PROVE  TimelineInv'
  <2>1. Table' /\ Cached'
    BY <1>1, <1>12, CacheUntouched DEF timelineVars, PagerOnly
  <2>2. Paged'
    BY <1>1, <1>12, PagedApart DEF timelineVars
  <2> QED
    BY <2>1, <2>2 DEF TimelineInv
<1>13. ASSUME TimelineNext
       PROVE  TimelineInv'
  <2>1. PICK yes \in BOOLEAN, no \in BOOLEAN : yes = TRUE /\ no = FALSE
    OBVIOUS
  <2>2. (\E gone \in SUBSET present : run_retention(gone, FALSE)) => TimelineInv'
    <3>1. SUFFICES ASSUME NEW gone \in SUBSET present, run_retention(gone, FALSE)
                   PROVE  TimelineInv'
      OBVIOUS
    <3>2. run_retention(gone, no) /\ ~no
      BY <2>1, <3>1
    <3> QED
      BY <1>8, <2>1, <3>2
  <2>3. run_retention({}, TRUE) => TimelineInv'
    <3>1. SUFFICES ASSUME run_retention({}, TRUE)
                   PROVE  TimelineInv'
      OBVIOUS
    <3>2. PICK gone \in SUBSET present : gone = {}
      OBVIOUS
    <3>3. run_retention(gone, yes)
      BY <2>1, <3>1, <3>2
    <3> QED
      BY <1>8, <2>1, <3>2, <3>3
  <2>4. \A scope : \A limit \in Limits : /\ open_timeline("history", scope, limit) => TimelineInv'
                                         /\ open_timeline("checkpoints", scope, limit) => TimelineInv'
    BY <1>10
  <2> QED
    BY <1>2, <1>3, <1>4, <1>5, <1>6, <1>7, <1>9, <1>11, <1>13, <2>2, <2>3, <2>4 DEF TimelineNext
<1> QED
  BY <1>12, <1>13

\* The rows, the cache with the writer that fills it, and the paging client
\* keep their parts of the invariant through every call, update and deletion.
THEOREM TimelineInvariant == TimelineSpec => []TimelineInv
BY TimelineBegins, TimelineStep, PTL DEF TimelineSpec

\* The timeline shows every card once, as its rows are: the roots of one agent
\* are the canonical roots, paging meets all that stayed, in order, and a card
\* in the cache is what its rows say unless something is still to rebuild it.
THEOREM TimelineIsTrueSafe == TimelineSpec => []TimelineIsTrue
<1>1. TimelineInv => TimelineIsTrue
  BY AgentRoots, CacheTruth, PagesTrue DEF TimelineInv, TimelineIsTrue
<1> QED
  BY <1>1, TimelineInvariant, PTL
=============================================================================
