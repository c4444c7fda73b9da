------------------------ MODULE SessionManagerProofs ------------------------
(***************************************************************************)
(* Theorems about SessionManager for any number of sessions, processes,    *)
(* calls and registry faults.                                              *)
(***************************************************************************)
EXTENDS SessionManager, FiniteSetTheorems, TLAPS

-----------------------------------------------------------------------------
(* The building blocks of the actions preserve types *)

\* What reap_exit_code returns.
Outcome == [leader : LeaderStates, group : SUBSET Procs, born : SUBSET Procs,
            reaped : BOOLEAN, members : SUBSET Procs]

\* The shapes an outcome can have when the leader was not reaped before.
LEMMA OutcomeShape ==
    ASSUME NEW s \in Sessions, NEW o \in reap_exit_code(s), ~inner[s].reaped
    PROVE  \/ o = [leader |-> leader[s], group |-> group[s], born |-> born[s],
                   reaped |-> inner[s].reaped, members |-> group[s]]
           \/ o = [leader |-> "reaped", group |-> group[s], born |-> born[s],
                   reaped |-> TRUE, members |-> group[s]]
           \/ \E late \in SUBSET (Procs \ born[s]) :
                 o = [leader |-> "reaped", group |-> group[s] \cup late,
                      born |-> born[s] \cup late, reaped |-> TRUE,
                      members |-> members_at_reap(group[s], late)]
BY DEF reap_exit_code, members_at_reap

\* reap_exit_code finds processes of the session and nothing else.
LEMMA OutcomeType ==
    ASSUME TypeOK, NEW s \in Sessions, NEW o \in reap_exit_code(s)
    PROVE  o \in Outcome
<1>1. /\ leader[s] \in LeaderStates /\ group[s] \in SUBSET Procs /\ born[s] \in SUBSET Procs
      /\ inner[s].reaped \in BOOLEAN /\ inner[s].members \in SUBSET Procs
  BY DEF TypeOK, ProcessesTypeOK, RuntimeTypeOK, Inner
<1>2. CASE inner[s].reaped
  BY <1>1, <1>2 DEF reap_exit_code, Outcome, surviving_members
<1>3. CASE ~inner[s].reaped
  <2>1. "reaped" \in LeaderStates
    BY DEF LeaderStates
  <2>2. ASSUME NEW late \in SUBSET (Procs \ born[s])
        PROVE  members_at_reap(group[s], late) \in SUBSET Procs
    BY <1>1 DEF members_at_reap
  <2>3. ASSUME NEW late \in SUBSET (Procs \ born[s])
        PROVE  [leader |-> "reaped", group |-> group[s] \cup late, born |-> born[s] \cup late,
                reaped |-> TRUE, members |-> members_at_reap(group[s], late)] \in Outcome
    BY <1>1, <2>1, <2>2 DEF Outcome
  <2>4. [leader |-> leader[s], group |-> group[s], born |-> born[s],
         reaped |-> inner[s].reaped, members |-> group[s]] \in Outcome
    BY <1>1 DEF Outcome
  <2>5. [leader |-> "reaped", group |-> group[s], born |-> born[s],
         reaped |-> TRUE, members |-> group[s]] \in Outcome
    BY <1>1, <2>1 DEF Outcome
  <2>6. \/ o = [leader |-> leader[s], group |-> group[s], born |-> born[s],
                reaped |-> inner[s].reaped, members |-> group[s]]
        \/ o = [leader |-> "reaped", group |-> group[s], born |-> born[s],
                reaped |-> TRUE, members |-> group[s]]
        \/ \E late \in SUBSET (Procs \ born[s]) :
              o = [leader |-> "reaped", group |-> group[s] \cup late,
                   born |-> born[s] \cup late, reaped |-> TRUE,
                   members |-> members_at_reap(group[s], late)]
    BY <1>3, OutcomeShape
  <2> QED
    BY <2>3, <2>4, <2>5, <2>6
<1> QED
  BY <1>2, <1>3

LEMMA AfterReapType ==
    ASSUME NEW i \in Inner, NEW o \in Outcome, NEW ok \in BOOLEAN
    PROVE  after_reap(i, o, ok) \in Inner
BY DEF Inner, Outcome, after_reap

\* The flags a call, the idle timeout and shutdown_all set.
LEMMA FlagsType ==
    ASSUME NEW i \in Inner
    PROVE  /\ request_termination([i EXCEPT !.kill_requested = TRUE, !.require_exit = TRUE]) \in Inner
           /\ request_termination([i EXCEPT !.timed_out = TRUE, !.require_exit = TRUE]) \in Inner
           /\ [i EXCEPT !.force_killed = TRUE] \in Inner
           /\ [i EXCEPT !.input_writer = FALSE] \in Inner
<1>1. [i EXCEPT !.kill_requested = TRUE, !.require_exit = TRUE] \in Inner
  BY DEF Inner
<1>2. [i EXCEPT !.timed_out = TRUE, !.require_exit = TRUE] \in Inner
  BY DEF Inner
<1>3. ASSUME NEW j \in Inner PROVE request_termination(j) \in Inner
  BY DEF Inner, request_termination
<1>4. [i EXCEPT !.force_killed = TRUE] \in Inner
  BY DEF Inner
<1>5. [i EXCEPT !.input_writer = FALSE] \in Inner
  BY DEF Inner
<1> QED
  BY <1>1, <1>2, <1>3, <1>4, <1>5

LEMMA ReapType ==
    ASSUME TypeOK, NEW s \in Sessions, NEW o \in reap_exit_code(s), NEW ok \in record_outcomes(s, o)
    PROVE  o \in Outcome /\ ok \in BOOLEAN /\ after_reap(inner[s], o, ok) \in Inner
BY OutcomeType, AfterReapType DEF TypeOK, RuntimeTypeOK, record_outcomes

LEMMA ProcessesType ==
    ASSUME ProcessesTypeOK, NEW s \in Sessions, NEW o \in Outcome,
           NEW term \in BOOLEAN, NEW force \in BOOLEAN, Processes(s, o, term, force)
    PROVE  ProcessesTypeOK'
<1>1. /\ o.leader \in LeaderStates /\ o.group \in SUBSET Procs /\ o.born \in SUBSET Procs
      /\ o.members \in SUBSET Procs /\ "killed" \in LeaderStates
  BY DEF Outcome, LeaderStates
<1>2. leader' \in [Sessions -> LeaderStates] /\ group' \in [Sessions -> SUBSET Procs]
      /\ born' \in [Sessions -> SUBSET Procs]
  BY <1>1 DEF Processes, ProcessesTypeOK
<1>3. doomed' \in [Sessions -> SUBSET Procs]
  BY <1>1 DEF Processes, ProcessesTypeOK
<1>4. stray' \in SUBSET {"kill_process", "terminate", "force_kill"} /\ reused' = reused
  BY DEF Processes, ProcessesTypeOK
<1> QED
  BY <1>2, <1>3, <1>4 DEF ProcessesTypeOK

LEMMA RecordMembersType ==
    ASSUME RegistryTypeOK, NEW s \in Sessions, NEW o \in Outcome, NEW ok \in BOOLEAN,
           record_members(s, o, ok)
    PROVE  recorded' \in [Sessions -> SUBSET Procs]
BY DEF RegistryTypeOK, Outcome, record_members

LEMMA ReasonType ==
    ASSUME NEW i
    PROVE  process_termination_reason(i) \in Reasons
BY DEF process_termination_reason, Reasons

\* The part of the state that release_process_ownership may change.
OwnershipTypeOK ==
    /\ released \in [Sessions -> BOOLEAN]
    /\ ends \in [Sessions -> Nat]
    /\ evidence \in [Sessions -> Reasons \cup {"none", "incomplete"}]
    /\ registry \in SUBSET Sessions
    /\ faults \in Nat

LEMMA ReleaseType ==
    ASSUME OwnershipTypeOK, NEW s \in Sessions, NEW i, release_process_ownership(s, i)
    PROVE  OwnershipTypeOK'
BY ReasonType DEF OwnershipTypeOK, release_process_ownership, end_outcomes

LEMMA KeepType ==
    ASSUME OwnershipTypeOK, NEW ok \in BOOLEAN, KeepOwnership(ok)
    PROVE  OwnershipTypeOK'
BY DEF OwnershipTypeOK, KeepOwnership

LEMMA ReturnType ==
    ASSUME CallTypeOK, NEW c \in Clients, Return(c)
    PROVE  CallTypeOK'
BY DEF CallTypeOK, Return, ClientStates, SessionStates, Kinds, Reasons

LEMMA GoToType ==
    ASSUME CallTypeOK, NEW c \in Clients, NEW state \in ClientStates, GoTo(c, state),
           state \in SessionStates => at[c] \in Sessions
    PROVE  CallTypeOK'
BY DEF CallTypeOK, GoTo

LEMMA InitType == Init => TypeOK
<1> SUFFICES ASSUME Init PROVE TypeOK
  OBVIOUS
<1>1. FreshInner \in Inner
  BY DEF FreshInner, Inner
<1>2. RuntimeTypeOK
  BY <1>1 DEF Init, RuntimeTypeOK, Reasons
<1>3. ProcessesTypeOK
  BY DEF Init, ProcessesTypeOK, LeaderStates
<1>4. CallTypeOK
  BY DEF Init, CallTypeOK, ClientStates, SessionStates, Kinds, Reasons
<1> QED
  BY <1>2, <1>3, <1>4 DEF Init, TypeOK, ManagerTypeOK, RegistryTypeOK, ShutdownTypeOK, ShutdownStates

-----------------------------------------------------------------------------
(* Every action preserves types *)

\* One step of every action that begins with reap_and_record_exit.
LEMMA ReapingStepType ==
    ASSUME TypeOK, NEW s \in Sessions, NEW o \in reap_exit_code(s), NEW ok \in record_outcomes(s, o),
           NEW term \in BOOLEAN, NEW force \in BOOLEAN, NEW i \in Inner,
           Processes(s, o, term, force), record_members(s, o, ok),
           inner' = [inner EXCEPT ![s] = i]
    PROVE  /\ ProcessesTypeOK' /\ recorded' \in [Sessions -> SUBSET Procs]
           /\ inner' \in [Sessions -> Inner]
<1>1. o \in Outcome /\ ok \in BOOLEAN
  BY ReapType
<1>2. ProcessesTypeOK'
  BY <1>1, ProcessesType DEF TypeOK
<1>3. recorded' \in [Sessions -> SUBSET Procs]
  BY <1>1, RecordMembersType DEF TypeOK
<1> QED
  BY <1>2, <1>3 DEF TypeOK, RuntimeTypeOK

LEMMA OwnershipPart == TypeOK => OwnershipTypeOK
BY DEF TypeOK, OwnershipTypeOK, RuntimeTypeOK, RegistryTypeOK

LEMMA TypeEnvironment ==
    ASSUME TypeOK, OperatingSystem \/ Timers
    PROVE  TypeOK'
<1>1. ASSUME NEW s \in Sessions, LeaderExits(s) PROVE TypeOK'
  BY <1>1 DEF LeaderExits, TypeOK, ProcessesTypeOK, RuntimeTypeOK, ManagerTypeOK, RegistryTypeOK,
       CallTypeOK, ShutdownTypeOK, sessionVars, managerVars, registryVars, clientVars, shutdownVars,
       LeaderStates
<1>2. ASSUME NEW s \in Sessions, ReuseGroupId(s) PROVE TypeOK'
  BY <1>2 DEF ReuseGroupId, TypeOK, ProcessesTypeOK, RuntimeTypeOK, ManagerTypeOK, RegistryTypeOK,
       CallTypeOK, ShutdownTypeOK, sessionVars, managerVars, registryVars, clientVars, shutdownVars
<1>3. ASSUME NEW s \in Sessions, NEW p \in Procs, MemberExits(s, p) PROVE TypeOK'
  BY <1>3 DEF MemberExits, TypeOK, ProcessesTypeOK, RuntimeTypeOK, ManagerTypeOK, RegistryTypeOK,
       CallTypeOK, ShutdownTypeOK, sessionVars, managerVars, registryVars, clientVars, shutdownVars
<1>4. ASSUME NEW s \in Sessions, NEW p \in Procs, Fork(s, p) PROVE TypeOK'
  BY <1>4 DEF Fork, TypeOK, ProcessesTypeOK, RuntimeTypeOK, ManagerTypeOK, RegistryTypeOK,
       CallTypeOK, ShutdownTypeOK, sessionVars, managerVars, registryVars, clientVars, shutdownVars
<1>5. ASSUME NEW s \in Sessions, GraceElapses(s) PROVE TypeOK'
  BY <1>5 DEF GraceElapses, TypeOK, ProcessesTypeOK, RuntimeTypeOK, ManagerTypeOK, RegistryTypeOK,
       CallTypeOK, ShutdownTypeOK, osVars, managerVars, registryVars, clientVars, shutdownVars
<1>6. ASSUME DeadlineElapses PROVE TypeOK'
  BY <1>6 DEF DeadlineElapses, TypeOK, ProcessesTypeOK, RuntimeTypeOK, ManagerTypeOK, RegistryTypeOK,
       CallTypeOK, ShutdownTypeOK, osVars, sessionVars, managerVars, registryVars, clientVars
<1> QED
  BY <1>1, <1>2, <1>3, <1>4, <1>5, <1>6 DEF OperatingSystem, Timers

LEMMA TypeReaper ==
    ASSUME TypeOK, NEW s \in Sessions, ReaperStep(s) \/ CountProbe(s)
    PROVE  TypeOK'
<1>1. CASE ReaperStep(s)
  <2>0. PICK o \in reap_exit_code(s) : \E ok \in record_outcomes(s, o) :
          LET i == after_reap(inner[s], o, ok) IN
          /\ Processes(s, o, FALSE, FALSE)
          /\ record_members(s, o, ok)
          /\ inner' = [inner EXCEPT ![s] = i]
          /\ reaping' = [reaping EXCEPT ![s] = ~reaper_done(ok, i)]
          /\ IF ok /\ is_exited(i) THEN release_process_ownership(s, i) ELSE KeepOwnership(ok)
    BY <1>1 DEF ReaperStep
  <2>1. PICK ok \in record_outcomes(s, o) :
          LET i == after_reap(inner[s], o, ok) IN
          /\ Processes(s, o, FALSE, FALSE)
          /\ record_members(s, o, ok)
          /\ inner' = [inner EXCEPT ![s] = i]
          /\ reaping' = [reaping EXCEPT ![s] = ~reaper_done(ok, i)]
          /\ IF ok /\ is_exited(i) THEN release_process_ownership(s, i) ELSE KeepOwnership(ok)
    BY <2>0
  <2>2. o \in Outcome /\ ok \in BOOLEAN /\ after_reap(inner[s], o, ok) \in Inner
    BY ReapType
  <2>3. /\ ProcessesTypeOK' /\ recorded' \in [Sessions -> SUBSET Procs]
        /\ inner' \in [Sessions -> Inner]
    BY <2>1, <2>2, ReapingStepType
  <2>4. OwnershipTypeOK'
    BY <2>1, <2>2, OwnershipPart, ReleaseType, KeepType
  <2>5. reaping' \in [Sessions -> BOOLEAN]
    BY <2>1 DEF reaper_done, TypeOK, RuntimeTypeOK
  <2> QED
    BY <1>1, <2>3, <2>4, <2>5 DEF ReaperStep, TypeOK, ProcessesTypeOK, RuntimeTypeOK, ManagerTypeOK, RegistryTypeOK,
       CallTypeOK, ShutdownTypeOK, OwnershipTypeOK, osVars, sessionVars, managerVars, registryVars, clientVars, shutdownVars
<1>2. CASE CountProbe(s)
  <2>0. PICK o \in reap_exit_code(s) : \E ok \in record_outcomes(s, o) :
          /\ Processes(s, o, FALSE, FALSE)
          /\ record_members(s, o, ok)
          /\ inner' = [inner EXCEPT ![s] = after_reap(inner[s], o, ok)]
          /\ KeepOwnership(ok)
    BY <1>2 DEF CountProbe
  <2>1. PICK ok \in record_outcomes(s, o) :
          /\ Processes(s, o, FALSE, FALSE)
          /\ record_members(s, o, ok)
          /\ inner' = [inner EXCEPT ![s] = after_reap(inner[s], o, ok)]
          /\ KeepOwnership(ok)
    BY <2>0
  <2>2. o \in Outcome /\ ok \in BOOLEAN /\ after_reap(inner[s], o, ok) \in Inner
    BY ReapType
  <2>3. /\ ProcessesTypeOK' /\ recorded' \in [Sessions -> SUBSET Procs]
        /\ inner' \in [Sessions -> Inner]
    BY <2>1, <2>2, ReapingStepType
  <2>4. OwnershipTypeOK'
    BY <2>1, <2>2, OwnershipPart, KeepType
  <2> QED
    BY <1>2, <2>3, <2>4 DEF CountProbe, TypeOK, ProcessesTypeOK, RuntimeTypeOK, ManagerTypeOK, RegistryTypeOK,
       CallTypeOK, ShutdownTypeOK, OwnershipTypeOK, osVars, sessionVars, managerVars, registryVars, clientVars, shutdownVars
<1> QED
  BY <1>1, <1>2

LEMMA TypeAdmission ==
    ASSUME TypeOK, NEW c \in Clients,
           \/ NewCall(c) \/ ExecAdmit(c) \/ EvictIfNeeded(c) \/ (\E s \in Sessions : Spawn(c, s))
           \/ SpawnFails(c) \/ Register(c) \/ RegisterFails(c) \/ Rollback(c)
    PROVE  TypeOK'
<1>1. CASE ExecBegin(c)
  BY <1>1 DEF ExecBegin, TypeOK, ProcessesTypeOK, RuntimeTypeOK, ManagerTypeOK, RegistryTypeOK,
       CallTypeOK, ShutdownTypeOK, OwnershipTypeOK,
       osVars, sessionVars, managerVars, registryVars, clientVars, shutdownVars, ClientStates, SessionStates, Kinds, Reasons
<1>2. ASSUME NEW s \in Sessions, NEW k \in CallKinds, WriteStdin(c, s, k) PROVE TypeOK'
  BY <1>2, SessionManagerAssumption DEF WriteStdin, TypeOK, ProcessesTypeOK, RuntimeTypeOK, ManagerTypeOK, RegistryTypeOK,
       CallTypeOK, ShutdownTypeOK, OwnershipTypeOK,
       osVars, sessionVars, managerVars, registryVars, clientVars, shutdownVars, ClientStates, SessionStates, Kinds, Reasons
<1>3. CASE ExecAdmit(c)
  <2>1. CallTypeOK'
    BY <1>3, ReturnType, GoToType DEF ExecAdmit, TypeOK, ClientStates, SessionStates
  <2> QED
    BY <1>3, <2>1 DEF ExecAdmit, TypeOK, ProcessesTypeOK, RuntimeTypeOK, ManagerTypeOK, RegistryTypeOK,
       CallTypeOK, ShutdownTypeOK, OwnershipTypeOK,
       osVars, sessionVars, managerVars, registryVars, clientVars, shutdownVars
<1>4. CASE EvictIfNeeded(c)
  <2>1. CallTypeOK'
    BY <1>4, GoToType DEF EvictIfNeeded, TypeOK, ClientStates, SessionStates
  <2> QED
    BY <1>4, <2>1 DEF EvictIfNeeded, TypeOK, ProcessesTypeOK, RuntimeTypeOK, ManagerTypeOK, RegistryTypeOK,
       CallTypeOK, ShutdownTypeOK, OwnershipTypeOK,
       osVars, sessionVars, managerVars, registryVars, clientVars, shutdownVars
<1>5. ASSUME NEW s \in Sessions, Spawn(c, s) PROVE TypeOK'
  <2>1. CallTypeOK'
    BY <1>5 DEF Spawn, TypeOK, CallTypeOK, ClientStates
  <2> QED
    BY <1>5, <2>1 DEF Spawn, TypeOK, ProcessesTypeOK, RuntimeTypeOK, ManagerTypeOK, RegistryTypeOK,
       CallTypeOK, ShutdownTypeOK, OwnershipTypeOK,
       osVars, sessionVars, managerVars, registryVars, clientVars, shutdownVars, LeaderStates
<1>6. CASE SpawnFails(c)
  <2>1. CallTypeOK'
    BY <1>6, ReturnType DEF SpawnFails, TypeOK
  <2> QED
    BY <1>6, <2>1 DEF SpawnFails, TypeOK, ProcessesTypeOK, RuntimeTypeOK, ManagerTypeOK, RegistryTypeOK,
       CallTypeOK, ShutdownTypeOK, OwnershipTypeOK,
       osVars, sessionVars, managerVars, registryVars, clientVars, shutdownVars
<1>7. CASE Register(c)
  <2>1. at[c] \in Sessions
    BY <1>7 DEF Register, TypeOK, CallTypeOK, SessionStates
  <2>2. CallTypeOK'
    BY <1>7, <2>1, GoToType DEF Register, TypeOK, ClientStates
  <2>3. /\ observed' \in [Sessions -> BOOLEAN] /\ reaping' \in [Sessions -> BOOLEAN]
        /\ registry' \in SUBSET Sessions /\ sessions' \in SUBSET Sessions
    <3>1. PICK known \in BOOLEAN :
            /\ observed' = [observed EXCEPT ![at[c]] = known]
            /\ registry' = IF known THEN registry \cup {at[c]} ELSE registry
      BY <1>7 DEF Register
    <3>2. observed' \in [Sessions -> BOOLEAN]
      BY <2>1, <3>1 DEF TypeOK, RuntimeTypeOK
    <3>3. reaping' \in [Sessions -> BOOLEAN]
      BY <1>7, <2>1 DEF Register, TypeOK, RuntimeTypeOK
    <3>4. registry' \in SUBSET Sessions
      BY <2>1, <3>1 DEF TypeOK, RegistryTypeOK
    <3>5. sessions' \in SUBSET Sessions
      BY <1>7, <2>1 DEF Register, TypeOK, ManagerTypeOK
    <3> QED
      BY <3>2, <3>3, <3>4, <3>5
  <2> QED
    BY <1>7, <2>1, <2>2, <2>3 DEF Register, TypeOK, ProcessesTypeOK, RuntimeTypeOK, ManagerTypeOK, RegistryTypeOK,
       CallTypeOK, ShutdownTypeOK, OwnershipTypeOK,
       osVars, sessionVars, managerVars, registryVars, clientVars, shutdownVars
<1>8. CASE RegisterFails(c)
  <2>1. at[c] \in Sessions
    BY <1>8 DEF RegisterFails, TypeOK, CallTypeOK, SessionStates
  <2>2. CallTypeOK'
    BY <1>8, <2>1, GoToType DEF RegisterFails, TypeOK, ClientStates
  <2>3. ProcessesTypeOK'
    BY <1>8, <2>1 DEF RegisterFails, TypeOK, ProcessesTypeOK, LeaderStates
  <2> QED
    BY <1>8, <2>1, <2>2, <2>3 DEF RegisterFails, TypeOK, ProcessesTypeOK, RuntimeTypeOK, ManagerTypeOK, RegistryTypeOK,
       CallTypeOK, ShutdownTypeOK, OwnershipTypeOK,
       osVars, sessionVars, managerVars, registryVars, clientVars, shutdownVars
<1>9. CASE Rollback(c)
  <2>1. at[c] \in Sessions
    BY <1>9 DEF Rollback, TypeOK, CallTypeOK, SessionStates
  <2>2. CallTypeOK'
    BY <1>9, ReturnType DEF Rollback, TypeOK
  <2>3. ProcessesTypeOK'
    BY <1>9, <2>1 DEF Rollback, TypeOK, ProcessesTypeOK, LeaderStates
  <2>4. /\ ends' \in [Sessions -> Nat] /\ registry' \in SUBSET Sessions
        /\ evidence' \in [Sessions -> Reasons \cup {"none", "incomplete"}]
    BY <1>9, <2>1 DEF Rollback, TypeOK, RuntimeTypeOK, RegistryTypeOK
  <2> QED
    BY <1>9, <2>1, <2>2, <2>3, <2>4 DEF Rollback, TypeOK, ProcessesTypeOK, RuntimeTypeOK, ManagerTypeOK, RegistryTypeOK,
       CallTypeOK, ShutdownTypeOK, OwnershipTypeOK,
       osVars, sessionVars, managerVars, registryVars, clientVars, shutdownVars
<1> QED
  BY <1>1, <1>2, <1>3, <1>4, <1>5, <1>6, <1>7, <1>8, <1>9 DEF NewCall

LEMMA RemoveSessionType ==
    ASSUME OwnershipTypeOK, sessions \in SUBSET Sessions, NEW s \in Sessions, NEW i,
           remove_session(s, i)
    PROVE  OwnershipTypeOK' /\ sessions' \in SUBSET Sessions
BY ReleaseType, KeepType DEF remove_session

LEMMA TypeEviction ==
    ASSUME TypeOK, NEW c \in Clients, EvictPick(c) \/ \E s \in Sessions : EvictProbe(c, s)
    PROVE  TypeOK'
<1>1. ASSUME NEW s \in Sessions, EvictProbe(c, s) PROVE TypeOK'
  <2>0. PICK o \in reap_exit_code(s) : \E ok \in record_outcomes(s, o) :
          LET i == after_reap(inner[s], o, ok) IN
          /\ Processes(s, o, FALSE, FALSE)
          /\ record_members(s, o, ok)
          /\ inner' = [inner EXCEPT ![s] = i]
          /\ KeepOwnership(ok)
          /\ IF ok
             THEN /\ GoTo(c, "scan")
                  /\ todo' = todo \ {s}
                  /\ victim' \in IF ~is_exited(i) THEN {victim}
                                 ELSE IF victim = None THEN {s} ELSE {s, victim}
                  /\ UNCHANGED admission
             ELSE /\ Return(c)
                  /\ todo' = {} /\ victim' = None /\ admission' = None
    BY <1>1 DEF EvictProbe
  <2>1. PICK ok \in record_outcomes(s, o) :
          LET i == after_reap(inner[s], o, ok) IN
          /\ Processes(s, o, FALSE, FALSE)
          /\ record_members(s, o, ok)
          /\ inner' = [inner EXCEPT ![s] = i]
          /\ KeepOwnership(ok)
          /\ IF ok
             THEN /\ GoTo(c, "scan")
                  /\ todo' = todo \ {s}
                  /\ victim' \in IF ~is_exited(i) THEN {victim}
                                 ELSE IF victim = None THEN {s} ELSE {s, victim}
                  /\ UNCHANGED admission
             ELSE /\ Return(c)
                  /\ todo' = {} /\ victim' = None /\ admission' = None
    BY <2>0
  <2>2. o \in Outcome /\ ok \in BOOLEAN /\ after_reap(inner[s], o, ok) \in Inner
    BY ReapType
  <2>3. /\ ProcessesTypeOK' /\ recorded' \in [Sessions -> SUBSET Procs]
        /\ inner' \in [Sessions -> Inner]
    BY <2>1, <2>2, ReapingStepType
  <2>4. OwnershipTypeOK'
    BY <2>1, <2>2, OwnershipPart, KeepType
  <2>5. CallTypeOK'
    BY <2>1, ReturnType, GoToType DEF TypeOK, ClientStates, SessionStates
  <2>6. /\ todo' \in SUBSET Sessions /\ victim' \in Sessions \cup {None}
        /\ admission' \in Clients \cup {None}
    BY <2>1 DEF TypeOK, ManagerTypeOK
  <2> QED
    BY <1>1, <2>3, <2>4, <2>5, <2>6 DEF EvictProbe, TypeOK, ProcessesTypeOK, RuntimeTypeOK, ManagerTypeOK, RegistryTypeOK,
       CallTypeOK, ShutdownTypeOK, OwnershipTypeOK,
       osVars, sessionVars, managerVars, registryVars, clientVars, shutdownVars
<1>2. CASE EvictPick(c)
  <2>1. CallTypeOK'
    BY <1>2, ReturnType, GoToType DEF EvictPick, TypeOK, ClientStates, SessionStates
  <2>2. OwnershipTypeOK' /\ sessions' \in SUBSET Sessions
    BY <1>2, RemoveSessionType, KeepType, OwnershipPart DEF EvictPick, TypeOK, ManagerTypeOK
  <2> QED
    BY <1>2, <2>1, <2>2 DEF EvictPick, TypeOK, ProcessesTypeOK, RuntimeTypeOK, ManagerTypeOK, RegistryTypeOK,
       CallTypeOK, ShutdownTypeOK, OwnershipTypeOK,
       osVars, sessionVars, managerVars, registryVars, clientVars, shutdownVars
<1> QED
  BY <1>1, <1>2

LEMMA TypeCalls ==
    ASSUME TypeOK, NEW c \in Clients,
           InitialWait(c) \/ ContinueSession(c) \/ WriteInput(c) \/ Cleanup(c)
    PROVE  TypeOK'
<1>1. CASE InitialWait(c)
  <2>1. at[c] \in Sessions /\ op' \in [Sessions -> Clients \cup {None}]
    BY <1>1 DEF InitialWait, TypeOK, CallTypeOK, RuntimeTypeOK, SessionStates
  <2>2. CallTypeOK'
    BY <1>1, <2>1, GoToType DEF InitialWait, TypeOK, ClientStates
  <2> QED
    BY <1>1, <2>1, <2>2 DEF InitialWait, TypeOK, ProcessesTypeOK, RuntimeTypeOK, ManagerTypeOK, RegistryTypeOK,
       CallTypeOK, ShutdownTypeOK, OwnershipTypeOK,
       osVars, sessionVars, managerVars, registryVars, clientVars, shutdownVars
<1>2. CASE ContinueSession(c)
  <2> DEFINE s == at[c]
  <2>1. s \in Sessions /\ op' \in [Sessions -> Clients \cup {None}]
    BY <1>2 DEF ContinueSession, TypeOK, CallTypeOK, RuntimeTypeOK, SessionStates
  <2>2. CallTypeOK'
    BY <1>2, <2>1, GoToType DEF ContinueSession, TypeOK, ClientStates
  <2>3. inner' \in [Sessions -> Inner]
    <3>1. inner[s] \in Inner /\ inner \in [Sessions -> Inner]
      BY <2>1 DEF TypeOK, RuntimeTypeOK
    <3>2. \/ inner' = [inner EXCEPT ![s] = request_termination(
                            [inner[s] EXCEPT !.kill_requested = TRUE, !.require_exit = TRUE])]
          \/ inner' = [inner EXCEPT ![s] = inner[s]]
      BY <1>2, <3>1 DEF ContinueSession
    <3> QED
      BY <2>1, <3>1, <3>2, FlagsType
  <2>4. stray' \in SUBSET {"kill_process", "terminate", "force_kill"}
    BY <1>2 DEF ContinueSession, TypeOK, ProcessesTypeOK
  <2> QED
    BY <1>2, <2>1, <2>2, <2>3, <2>4 DEF ContinueSession, TypeOK, ProcessesTypeOK, RuntimeTypeOK, ManagerTypeOK, RegistryTypeOK,
       CallTypeOK, ShutdownTypeOK, OwnershipTypeOK,
       osVars, sessionVars, managerVars, registryVars, clientVars, shutdownVars
<1>3. CASE WriteInput(c)
  <2>1. at[c] \in Sessions
    BY <1>3 DEF WriteInput, TypeOK, CallTypeOK, SessionStates
  <2>2. CallTypeOK'
    BY <1>3, <2>1, GoToType, ReturnType DEF WriteInput, TypeOK, ClientStates
  <2>3. inner' \in [Sessions -> Inner] /\ op' \in [Sessions -> Clients \cup {None}]
    <3>1. inner[at[c]] \in Inner /\ inner \in [Sessions -> Inner]
          /\ op \in [Sessions -> Clients \cup {None}]
      BY <2>1 DEF TypeOK, RuntimeTypeOK
    <3>2. \/ inner' = inner /\ op' = op
          \/ /\ inner' = [inner EXCEPT ![at[c]] = [inner[at[c]] EXCEPT !.input_writer = FALSE]]
             /\ op' = [op EXCEPT ![at[c]] = None]
      BY <1>3 DEF WriteInput
    <3> QED
      BY <2>1, <3>1, <3>2, FlagsType
  <2> QED
    BY <1>3, <2>2, <2>3 DEF WriteInput, TypeOK, ProcessesTypeOK, RuntimeTypeOK, ManagerTypeOK, RegistryTypeOK,
       CallTypeOK, ShutdownTypeOK, OwnershipTypeOK,
       osVars, sessionVars, managerVars, registryVars, clientVars, shutdownVars
<1>4. CASE Cleanup(c)
  <2> DEFINE s == at[c]
  <2>s. s \in Sessions
    BY <1>4 DEF Cleanup, TypeOK, CallTypeOK, SessionStates
  <2>0. PICK o \in reap_exit_code(s) : \E ok \in record_outcomes(s, o) :
          LET i == after_reap(inner[s], o, ok) IN
          /\ Processes(s, o, FALSE, FALSE)
          /\ record_members(s, o, ok)
          /\ inner' = [inner EXCEPT ![s] = i]
          /\ IF ok THEN remove_session(s, i) ELSE KeepOwnership(ok) /\ UNCHANGED sessions
    BY <1>4 DEF Cleanup
  <2>1. PICK ok \in record_outcomes(s, o) :
          LET i == after_reap(inner[s], o, ok) IN
          /\ Processes(s, o, FALSE, FALSE)
          /\ record_members(s, o, ok)
          /\ inner' = [inner EXCEPT ![s] = i]
          /\ IF ok THEN remove_session(s, i) ELSE KeepOwnership(ok) /\ UNCHANGED sessions
    BY <2>0
  <2>2. o \in Outcome /\ ok \in BOOLEAN /\ after_reap(inner[s], o, ok) \in Inner
    BY <2>s, ReapType
  <2> HIDE DEF s
  <2>3. /\ ProcessesTypeOK' /\ recorded' \in [Sessions -> SUBSET Procs]
        /\ inner' \in [Sessions -> Inner]
    BY <2>s, <2>1, <2>2, ReapingStepType
  <2>4. OwnershipTypeOK' /\ sessions' \in SUBSET Sessions
    BY <2>s, <2>1, <2>2, OwnershipPart, RemoveSessionType, KeepType DEF TypeOK, ManagerTypeOK
  <2>5. CallTypeOK'
    BY <1>4, ReturnType DEF Cleanup, TypeOK
  <2> QED
    BY <1>4, <2>3, <2>4, <2>5 DEF Cleanup, TypeOK, ProcessesTypeOK, RuntimeTypeOK, ManagerTypeOK, RegistryTypeOK,
       CallTypeOK, ShutdownTypeOK, OwnershipTypeOK,
       osVars, sessionVars, managerVars, registryVars, clientVars, shutdownVars
<1> QED
  BY <1>1, <1>2, <1>3, <1>4

LEMMA CheckIdleType ==
    ASSUME TypeOK, NEW s \in Sessions, NEW elapsed \in BOOLEAN
    PROVE  check_idle(s, elapsed) \in Inner
BY FlagsType DEF TypeOK, RuntimeTypeOK, check_idle

\* One turn of wait_for_yield_or_exit_locked, for given clocks and outcome.
PollTurn(c, s, idle, yielded, o, ok) ==
    LET i0 == check_idle(s, idle)
        term == i0.terminate_started /\ ~inner[s].terminate_started
        i1 == after_reap(i0, o, ok)
        force == ok /\ forces(s, i1)
        i2 == IF force THEN [i1 EXCEPT !.force_killed = TRUE] ELSE i1
        finished == ok /\ i2.reaped /\ ~must_keep_waiting(i2)
        yields == ok /\ ~i2.reaped /\ yielded /\ ~i2.require_exit
    IN
    /\ Processes(s, o, term, force)
    /\ record_members(s, o, ok)
    /\ KeepOwnership(ok)
    /\ inner' = [inner EXCEPT ![s] = i2]
    /\ op' = [op EXCEPT ![s] = IF ~ok \/ finished \/ yields THEN None ELSE @]
    /\ CASE finished ->
              /\ pc' = [pc EXCEPT ![c] = "exited"]
              /\ reason' = [reason EXCEPT ![c] = process_termination_reason(i2)]
              /\ UNCHANGED <<at, kind>>
         [] ~ok \/ yields -> Return(c)
         [] OTHER -> GoTo(c, "poll")

LEMMA PollPick ==
    ASSUME NEW c \in Clients, Poll(c)
    PROVE  \E idle, yielded \in BOOLEAN : \E o \in reap_exit_code(at[c]) :
             \E ok \in record_outcomes(at[c], o) : PollTurn(c, at[c], idle, yielded, o, ok)
BY DEF Poll, PollTurn

LEMMA TypePoll ==
    ASSUME TypeOK, NEW c \in Clients, Poll(c)
    PROVE  TypeOK'
<1> DEFINE s == at[c]
<1>s. s \in Sessions
  BY DEF Poll, TypeOK, CallTypeOK, SessionStates
<1> DEFINE Turn(idle, yielded, o, ok) == PollTurn(c, s, idle, yielded, o, ok)
<1>1. PICK idle \in BOOLEAN, yielded \in BOOLEAN : \E o \in reap_exit_code(s) :
        \E ok \in record_outcomes(s, o) : Turn(idle, yielded, o, ok)
  BY PollPick
<1> USE DEF PollTurn
<1>2. PICK o \in reap_exit_code(s) : \E ok \in record_outcomes(s, o) : Turn(idle, yielded, o, ok)
  BY <1>1
<1>3. PICK ok \in record_outcomes(s, o) : Turn(idle, yielded, o, ok)
  BY <1>2
<1> DEFINE i0 == check_idle(s, idle)
           term == i0.terminate_started /\ ~inner[s].terminate_started
           i1 == after_reap(i0, o, ok)
           force == ok /\ forces(s, i1)
           i2 == IF force THEN [i1 EXCEPT !.force_killed = TRUE] ELSE i1
           finished == ok /\ i2.reaped /\ ~must_keep_waiting(i2)
           yields == ok /\ ~i2.reaped /\ yielded /\ ~i2.require_exit
<1>4. o \in Outcome /\ ok \in BOOLEAN
  BY <1>s, ReapType
<1>5. i0 \in Inner /\ i1 \in Inner /\ inner[s] \in Inner
  BY <1>s, <1>4, CheckIdleType, AfterReapType DEF TypeOK, RuntimeTypeOK
<1>6. term \in BOOLEAN /\ force \in BOOLEAN
  BY <1>5 DEF Inner, forces
<1>7. i2 \in Inner
  BY <1>5 DEF Inner
<1>8. /\ ProcessesTypeOK' /\ recorded' \in [Sessions -> SUBSET Procs]
      /\ inner' \in [Sessions -> Inner]
  <2> HIDE DEF i2, force, term
  <2> QED BY <1>s, <1>3, <1>6, <1>7, ReapingStepType DEF i2, force, term
<1>9. OwnershipTypeOK'
  BY <1>3, <1>4, OwnershipPart, KeepType
<1>10. op' \in [Sessions -> Clients \cup {None}]
  BY <1>3 DEF TypeOK, RuntimeTypeOK
<1>11. CallTypeOK'
  <2>1. CASE finished
    <3>1. /\ pc' = [pc EXCEPT ![c] = "exited"]
          /\ reason' = [reason EXCEPT ![c] = process_termination_reason(i2)]
          /\ UNCHANGED <<at, kind>>
      BY <1>3, <2>1
    <3> QED
      BY <1>s, <3>1, ReasonType DEF TypeOK, CallTypeOK, ClientStates
  <2>2. CASE ~finished /\ (~ok \/ yields)
    <3>1. Return(c)
      BY <1>3, <2>2
    <3> QED
      BY <3>1, ReturnType DEF TypeOK
  <2>3. CASE ~finished /\ ~(~ok \/ yields)
    <3>1. GoTo(c, "poll")
      BY <1>3, <2>3
    <3> QED
      BY <1>s, <3>1, GoToType DEF TypeOK, ClientStates
  <2> QED
    BY <2>1, <2>2, <2>3
<1> QED
  BY <1>8, <1>9, <1>10, <1>11 DEF Poll, TypeOK, ProcessesTypeOK, RuntimeTypeOK, ManagerTypeOK, RegistryTypeOK,
       CallTypeOK, ShutdownTypeOK, OwnershipTypeOK,
       osVars, sessionVars, managerVars, registryVars, clientVars, shutdownVars

LEMMA TypeShutdown ==
    ASSUME TypeOK, ShutdownClose \/ ShutdownStep
    PROVE  TypeOK'
<1>1. CASE ShutdownClose
  BY <1>1 DEF ShutdownClose, TypeOK, ProcessesTypeOK, RuntimeTypeOK, ManagerTypeOK, RegistryTypeOK,
       CallTypeOK, ShutdownTypeOK, OwnershipTypeOK,
       osVars, sessionVars, managerVars, registryVars, clientVars, shutdownVars, ShutdownStates
<1>2. CASE ShutdownBarrier
  BY <1>2 DEF ShutdownBarrier, TypeOK, ProcessesTypeOK, RuntimeTypeOK, ManagerTypeOK, RegistryTypeOK,
       CallTypeOK, ShutdownTypeOK, OwnershipTypeOK,
       osVars, sessionVars, managerVars, registryVars, clientVars, shutdownVars, ShutdownStates
<1>3. CASE ShutdownSnapshot
  BY <1>3 DEF ShutdownSnapshot, TypeOK, ProcessesTypeOK, RuntimeTypeOK, ManagerTypeOK, RegistryTypeOK,
       CallTypeOK, ShutdownTypeOK, OwnershipTypeOK,
       osVars, sessionVars, managerVars, registryVars, clientVars, shutdownVars, ShutdownStates
<1>4. CASE ShutdownStartWait
  BY <1>4 DEF ShutdownStartWait, TypeOK, ProcessesTypeOK, RuntimeTypeOK, ManagerTypeOK, RegistryTypeOK,
       CallTypeOK, ShutdownTypeOK, OwnershipTypeOK,
       osVars, sessionVars, managerVars, registryVars, clientVars, shutdownVars, ShutdownStates
<1>5. CASE ShutdownPassEnd
  BY <1>5 DEF ShutdownPassEnd, TypeOK, ProcessesTypeOK, RuntimeTypeOK, ManagerTypeOK, RegistryTypeOK,
       CallTypeOK, ShutdownTypeOK, OwnershipTypeOK,
       osVars, sessionVars, managerVars, registryVars, clientVars, shutdownVars, ShutdownStates
<1>6. ASSUME NEW s \in Sessions, ShutdownContended(s) PROVE TypeOK'
  BY <1>6 DEF ShutdownContended, TypeOK, ProcessesTypeOK, RuntimeTypeOK, ManagerTypeOK, RegistryTypeOK,
       CallTypeOK, ShutdownTypeOK, OwnershipTypeOK,
       osVars, sessionVars, managerVars, registryVars, clientVars, shutdownVars, ShutdownStates
<1>7. ASSUME NEW s \in Sessions, ShutdownSignal(s) PROVE TypeOK'
  <2> DEFINE Turn(o, ok) ==
          LET i1 == after_reap(inner[s], o, ok)
              stop == ok /\ ~is_exited(i1)
              i2 == IF stop THEN request_termination([i1 EXCEPT !.kill_requested = TRUE,
                                                                !.require_exit = TRUE])
                    ELSE i1
          IN
          /\ Processes(s, o, stop /\ ~i1.reaped /\ ~i1.terminate_started, FALSE)
          /\ record_members(s, o, ok)
          /\ inner' = [inner EXCEPT ![s] = i2]
          /\ IF ok /\ is_exited(i1) THEN release_process_ownership(s, i1) ELSE KeepOwnership(ok)
          /\ sd' = IF ok THEN sd ELSE "failed"
  <2>0. PICK o \in reap_exit_code(s) : \E ok \in record_outcomes(s, o) : Turn(o, ok)
    BY <1>7 DEF ShutdownSignal
  <2>1. PICK ok \in record_outcomes(s, o) : Turn(o, ok)
    BY <2>0
  <2>2. o \in Outcome /\ ok \in BOOLEAN /\ after_reap(inner[s], o, ok) \in Inner
    BY ReapType
  <2> DEFINE i1 == after_reap(inner[s], o, ok)
             stop == ok /\ ~is_exited(i1)
             i2 == IF stop THEN request_termination([i1 EXCEPT !.kill_requested = TRUE,
                                                               !.require_exit = TRUE])
                   ELSE i1
             term == stop /\ ~i1.reaped /\ ~i1.terminate_started
  <2>a. i2 \in Inner
    BY <2>2, FlagsType
  <2>b. term \in BOOLEAN
    OBVIOUS
  <2>3. /\ ProcessesTypeOK' /\ recorded' \in [Sessions -> SUBSET Procs]
        /\ inner' \in [Sessions -> Inner]
    <3>1. Processes(s, o, term, FALSE) /\ record_members(s, o, ok)
          /\ inner' = [inner EXCEPT ![s] = i2]
      BY <2>1
    <3> HIDE DEF i2, term
    <3> QED
      BY <2>a, <2>b, <3>1, ReapingStepType
  <2>4. OwnershipTypeOK'
    BY <2>1, <2>2, OwnershipPart, ReleaseType, KeepType
  <2> QED
    BY <1>7, <2>1, <2>3, <2>4 DEF ShutdownSignal, TypeOK, ProcessesTypeOK, RuntimeTypeOK, ManagerTypeOK, RegistryTypeOK,
       CallTypeOK, ShutdownTypeOK, OwnershipTypeOK,
       osVars, sessionVars, managerVars, registryVars, clientVars, shutdownVars, ShutdownStates
<1>8. ASSUME NEW s \in Sessions, ShutdownWait(s) PROVE TypeOK'
  <2> DEFINE Turn(o, ok) ==
          LET i == after_reap(inner[s], o, ok) IN
          /\ Processes(s, o, FALSE, FALSE)
          /\ record_members(s, o, ok)
          /\ inner' = [inner EXCEPT ![s] = i]
          /\ IF ok /\ is_exited(i) THEN release_process_ownership(s, i) ELSE KeepOwnership(ok)
          /\ survivors' = (survivors \/ survives(i))
          /\ sd' = IF ok THEN sd ELSE "failed"
  <2>0. PICK o \in reap_exit_code(s) : \E ok \in record_outcomes(s, o) : Turn(o, ok)
    BY <1>8 DEF ShutdownWait
  <2>1. PICK ok \in record_outcomes(s, o) : Turn(o, ok)
    BY <2>0
  <2>2. o \in Outcome /\ ok \in BOOLEAN /\ after_reap(inner[s], o, ok) \in Inner
    BY ReapType
  <2>3. /\ ProcessesTypeOK' /\ recorded' \in [Sessions -> SUBSET Procs]
        /\ inner' \in [Sessions -> Inner]
    BY <2>1, <2>2, ReapingStepType
  <2>4. OwnershipTypeOK'
    BY <2>1, <2>2, OwnershipPart, ReleaseType, KeepType
  <2> QED
    BY <1>8, <2>1, <2>3, <2>4 DEF ShutdownWait, TypeOK, ProcessesTypeOK, RuntimeTypeOK, ManagerTypeOK, RegistryTypeOK,
       CallTypeOK, ShutdownTypeOK, OwnershipTypeOK,
       osVars, sessionVars, managerVars, registryVars, clientVars, shutdownVars, ShutdownStates, survives
<1>9. ASSUME NEW s \in Sessions, ShutdownForce(s) PROVE TypeOK'
  <2> DEFINE Turn(o, ok) ==
          LET i == after_reap(inner[s], o, ok)
              force == ok /\ ~is_exited(i)
          IN
          /\ Processes(s, o, FALSE, force)
          /\ record_members(s, o, ok)
          /\ inner' = [inner EXCEPT ![s] = IF force THEN [i EXCEPT !.force_killed = TRUE] ELSE i]
          /\ KeepOwnership(ok)
          /\ sd' = IF ok THEN sd ELSE "failed"
  <2>0. PICK o \in reap_exit_code(s) : \E ok \in record_outcomes(s, o) : Turn(o, ok)
    BY <1>9 DEF ShutdownForce
  <2>1. PICK ok \in record_outcomes(s, o) : Turn(o, ok)
    BY <2>0
  <2>2. o \in Outcome /\ ok \in BOOLEAN /\ after_reap(inner[s], o, ok) \in Inner
    BY ReapType
  <2> DEFINE i == after_reap(inner[s], o, ok)
             force == ok /\ ~is_exited(i)
             i2 == IF force THEN [i EXCEPT !.force_killed = TRUE] ELSE i
  <2>a. i2 \in Inner
    BY <2>2, FlagsType
  <2>b. force \in BOOLEAN
    BY <2>2
  <2>3. /\ ProcessesTypeOK' /\ recorded' \in [Sessions -> SUBSET Procs]
        /\ inner' \in [Sessions -> Inner]
    <3>1. Processes(s, o, FALSE, force) /\ record_members(s, o, ok)
          /\ inner' = [inner EXCEPT ![s] = i2]
      BY <2>1
    <3> HIDE DEF i2, force
    <3> QED
      BY <2>a, <2>b, <3>1, ReapingStepType
  <2>4. OwnershipTypeOK'
    BY <2>1, <2>2, OwnershipPart, KeepType
  <2> QED
    BY <1>9, <2>1, <2>3, <2>4 DEF ShutdownForce, TypeOK, ProcessesTypeOK, RuntimeTypeOK, ManagerTypeOK, RegistryTypeOK,
       CallTypeOK, ShutdownTypeOK, OwnershipTypeOK,
       osVars, sessionVars, managerVars, registryVars, clientVars, shutdownVars, ShutdownStates
<1> QED
  BY <1>1, <1>2, <1>3, <1>4, <1>5, <1>6, <1>7, <1>8, <1>9 DEF ShutdownStep

\* Every reachable state of the session runtime is well typed; in particular a
\* call that is past its admission always has the session it works on
\* (exec_command_with_context, write_stdin_with_context).
THEOREM TypeCorrect == Spec => []TypeOK
<1>1. Init => TypeOK
  BY InitType
<1>2. TypeOK /\ [Next]_vars => TypeOK'
  <2> SUFFICES ASSUME TypeOK, [Next]_vars PROVE TypeOK'
    OBVIOUS
  <2>1. CASE OperatingSystem \/ Timers
    BY <2>1, TypeEnvironment
  <2>2. ASSUME NEW s \in Sessions, ReaperStep(s) \/ CountProbe(s) PROVE TypeOK'
    BY <2>2, TypeReaper
  <2>3. ASSUME NEW c \in Clients, NewCall(c) \/ ClientStep(c) \/ WriteInput(c) PROVE TypeOK'
    BY <2>3, TypeAdmission, TypeEviction, TypeCalls, TypePoll DEF ClientStep
  <2>4. CASE ShutdownClose \/ ShutdownStep
    BY <2>4, TypeShutdown
  <2>5. CASE UNCHANGED vars
    BY <2>5 DEF vars, TypeOK, ProcessesTypeOK, RuntimeTypeOK, ManagerTypeOK, RegistryTypeOK,
       CallTypeOK, ShutdownTypeOK, OwnershipTypeOK,
       osVars, sessionVars, managerVars, registryVars, clientVars, shutdownVars
  <2> QED
    BY <2>1, <2>2, <2>3, <2>4, <2>5 DEF Next
<1> QED
  BY <1>1, <1>2, PTL DEF Spec

-----------------------------------------------------------------------------
(* The admission barrier of shutdown_all *)

\* admission_lock is held by exactly the call between the second admission check
\* and the map.
LockHeld == \A c \in Clients : pc[c] \in AdmissionStates <=> admission = c

\* The strengthening: the flag is set before the barrier, the barrier waits for
\* the lock, and the lock is never taken again once the flag is set.
BarrierInv ==
    /\ LockHeld
    /\ sd # "off" => closed
    /\ sd \notin {"off", "barrier"} => admission = None
    /\ sd \notin {"off", "barrier", "snapshot"} => sessions \subseteq runtimes

\* The state the barrier is about.
barrierVars == <<pc, admission, closed, sd, sessions, runtimes>>

LEMMA BarrierStutter ==
    ASSUME BarrierInv, UNCHANGED barrierVars
    PROVE  BarrierInv'
BY DEF BarrierInv, LockHeld, barrierVars

\* A step of one call outside the admission section.
LEMMA BarrierOutside ==
    ASSUME BarrierInv, CallTypeOK, NEW c \in Clients, pc[c] \notin AdmissionStates,
           NEW state, state \notin AdmissionStates, pc' = [pc EXCEPT ![c] = state],
           admission' = admission, closed' = closed, sd' = sd, sessions' \subseteq sessions, runtimes' = runtimes
    PROVE  BarrierInv'
BY DEF BarrierInv, LockHeld, CallTypeOK

\* A step of the call that holds admission_lock and keeps it.
LEMMA BarrierInside ==
    ASSUME BarrierInv, CallTypeOK, NEW c \in Clients, pc[c] \in AdmissionStates,
           NEW state \in AdmissionStates, pc' = [pc EXCEPT ![c] = state],
           admission' = admission, closed' = closed, sd' = sd, sessions' \subseteq sessions, runtimes' = runtimes
    PROVE  BarrierInv'
BY DEF BarrierInv, LockHeld, CallTypeOK

\* The call that holds admission_lock gives it up, perhaps after an insertion.
LEMMA BarrierLeave ==
    ASSUME BarrierInv, CallTypeOK, NEW c \in Clients, pc[c] \in AdmissionStates,
           NEW state, state \notin AdmissionStates, pc' = [pc EXCEPT ![c] = state],
           admission' = None, closed' = closed, sd' = sd, runtimes' = runtimes
    PROVE  BarrierInv'
<1>1. admission = c /\ None \notin Clients
  BY SessionManagerAssumption DEF BarrierInv, LockHeld
<1>2. sd \in {"off", "barrier"}
  BY <1>1 DEF BarrierInv
<1> QED
  BY <1>1, <1>2 DEF BarrierInv, LockHeld, CallTypeOK

LEMMA PollEffect ==
    ASSUME NEW c \in Clients, Poll(c)
    PROVE  /\ \E state \in {"poll", "idle", "exited"} : pc' = [pc EXCEPT ![c] = state]
           /\ UNCHANGED <<admission, closed, sd, sessions, runtimes>>
<1>1. PICK idle \in BOOLEAN, yielded \in BOOLEAN : \E o \in reap_exit_code(at[c]) :
        \E ok \in record_outcomes(at[c], o) : PollTurn(c, at[c], idle, yielded, o, ok)
  BY PollPick
<1>2. \E state \in {"poll", "idle", "exited"} : pc' = [pc EXCEPT ![c] = state]
  BY <1>1 DEF PollTurn, Return, GoTo
<1> QED
  BY <1>2 DEF Poll, managerVars, shutdownVars

LEMMA BarrierCalls ==
    ASSUME TypeOK, BarrierInv, NEW c \in Clients, NewCall(c) \/ ClientStep(c) \/ WriteInput(c)
    PROVE  BarrierInv'
<1> USE DEF AdmissionStates
<1>0. CallTypeOK
  BY DEF TypeOK
<1>1. CASE ExecBegin(c)
  BY <1>0, <1>1, BarrierOutside DEF ExecBegin, managerVars, shutdownVars
<1>2. ASSUME NEW s \in Sessions, NEW k \in CallKinds, WriteStdin(c, s, k) PROVE BarrierInv'
  BY <1>0, <1>2, BarrierOutside DEF WriteStdin, managerVars, shutdownVars
<1>3. CASE ExecAdmit(c)
  <2>1. CASE admitted
    BY <1>0, <1>3, <2>1, SessionManagerAssumption
    DEF ExecAdmit, admitted, GoTo, BarrierInv, LockHeld, CallTypeOK, shutdownVars
  <2>2. CASE ~admitted
    BY <1>0, <1>3, <2>2, BarrierOutside DEF ExecAdmit, Return, shutdownVars
  <2> QED
    BY <2>1, <2>2
<1>4. CASE EvictIfNeeded(c)
  BY <1>0, <1>4, BarrierInside DEF EvictIfNeeded, GoTo, shutdownVars
<1>5. ASSUME NEW s \in Sessions, EvictProbe(c, s) PROVE BarrierInv'
  <2>1. \/ GoTo(c, "scan") /\ admission' = admission
        \/ Return(c) /\ admission' = None
    BY <1>5 DEF EvictProbe
  <2>2. CASE GoTo(c, "scan") /\ admission' = admission
    BY <1>0, <1>5, <2>2, BarrierInside DEF EvictProbe, GoTo, shutdownVars
  <2>3. CASE Return(c) /\ admission' = None
    BY <1>0, <1>5, <2>3, BarrierLeave DEF EvictProbe, Return, shutdownVars
  <2> QED
    BY <2>1, <2>2, <2>3
<1>6. CASE EvictPick(c)
  <2>1. CASE victim # None
    <3>1. sessions' \subseteq sessions
      BY <1>6, <2>1 DEF EvictPick, remove_session
    <3> QED
      BY <1>0, <1>6, <2>1, <3>1, BarrierInside DEF EvictPick, GoTo, shutdownVars
  <2>2. CASE victim = None
    BY <1>0, <1>6, <2>2, BarrierLeave DEF EvictPick, Return, shutdownVars
  <2> QED
    BY <2>1, <2>2
<1>7. ASSUME NEW s \in Sessions, Spawn(c, s) PROVE BarrierInv'
  BY <1>0, <1>7, BarrierInside DEF Spawn, managerVars, shutdownVars
<1>8. CASE SpawnFails(c)
  BY <1>0, <1>8, BarrierLeave DEF SpawnFails, Return, shutdownVars
<1>9. CASE Register(c)
  BY <1>0, <1>9, BarrierLeave DEF Register, GoTo, shutdownVars
<1>10. CASE RegisterFails(c)
  BY <1>0, <1>10, BarrierInside DEF RegisterFails, GoTo, managerVars, shutdownVars
<1>11. CASE Rollback(c)
  BY <1>0, <1>11, BarrierLeave DEF Rollback, Return, shutdownVars
<1>12. CASE InitialWait(c)
  BY <1>0, <1>12, BarrierOutside DEF InitialWait, GoTo, managerVars, shutdownVars
<1>13. CASE ContinueSession(c)
  BY <1>0, <1>13, BarrierOutside DEF ContinueSession, GoTo, managerVars, shutdownVars
<1>14. CASE WriteInput(c)
  BY <1>0, <1>14, BarrierOutside DEF WriteInput, GoTo, Return, managerVars, shutdownVars
<1>15. CASE Poll(c)
  <2>1. pc[c] \notin AdmissionStates
    BY <1>15 DEF Poll
  <2>2. PICK state \in {"poll", "idle", "exited"} : pc' = [pc EXCEPT ![c] = state]
    BY <1>15, PollEffect
  <2> QED
    BY <1>0, <1>15, <2>1, <2>2, PollEffect, BarrierOutside
<1>16. CASE Cleanup(c)
  <2>1. sessions' \subseteq sessions
    BY <1>16 DEF Cleanup, remove_session
  <2> QED
    BY <1>0, <1>16, <2>1, BarrierOutside DEF Cleanup, Return, shutdownVars
<1> QED
  BY <1>1, <1>2, <1>3, <1>4, <1>5, <1>6, <1>7, <1>8, <1>9, <1>10, <1>11, <1>12, <1>13, <1>14,
     <1>15, <1>16 DEF NewCall, ClientStep

\* A step of shutdown_all after its snapshot.
LEMMA BarrierAfterSnapshot ==
    ASSUME BarrierInv, sd \notin {"off", "barrier", "snapshot"}, sd' # "off",
           sessions' \subseteq sessions, UNCHANGED <<pc, admission, closed, runtimes>>
    PROVE  BarrierInv'
BY DEF BarrierInv, LockHeld

LEMMA BarrierShutdown ==
    ASSUME BarrierInv, ShutdownClose \/ ShutdownStep
    PROVE  BarrierInv'
<1>1. CASE ShutdownClose
  BY <1>1 DEF ShutdownClose, BarrierInv, LockHeld, clientVars
<1>2. CASE ShutdownBarrier
  BY <1>2 DEF ShutdownBarrier, barrier_open, BarrierInv, LockHeld, clientVars, managerVars
<1>3. CASE ShutdownSnapshot
  BY <1>3 DEF ShutdownSnapshot, BarrierInv, LockHeld, clientVars, managerVars
<1>4. ASSUME NEW s \in Sessions, ShutdownSignal(s) PROVE BarrierInv'
  BY <1>4, BarrierAfterSnapshot DEF ShutdownSignal, clientVars, managerVars
<1>5. ASSUME NEW s \in Sessions, ShutdownWait(s) PROVE BarrierInv'
  BY <1>5, BarrierAfterSnapshot DEF ShutdownWait, clientVars, managerVars
<1>6. ASSUME NEW s \in Sessions, ShutdownContended(s) PROVE BarrierInv'
  BY <1>6, BarrierAfterSnapshot DEF ShutdownContended, clientVars, managerVars
<1>7. ASSUME NEW s \in Sessions, ShutdownForce(s) PROVE BarrierInv'
  BY <1>7, BarrierAfterSnapshot DEF ShutdownForce, clientVars, managerVars
<1>8. CASE ShutdownStartWait
  BY <1>8, BarrierAfterSnapshot DEF ShutdownStartWait, clientVars, managerVars
<1>9. CASE ShutdownPassEnd
  BY <1>9, BarrierAfterSnapshot DEF ShutdownPassEnd, clientVars
<1> QED
  BY <1>1, <1>2, <1>3, <1>4, <1>5, <1>6, <1>7, <1>8, <1>9 DEF ShutdownStep

\* The invariant BarrierInv holds of every run.
THEOREM BarrierInvariant == Spec => []BarrierInv
<1>1. Init => BarrierInv
  BY SessionManagerAssumption DEF Init, BarrierInv, LockHeld, AdmissionStates
<1>2. TypeOK /\ BarrierInv /\ [Next]_vars => BarrierInv'
  <2> SUFFICES ASSUME TypeOK, BarrierInv, [Next]_vars PROVE BarrierInv'
    OBVIOUS
  <2>1. CASE OperatingSystem \/ Timers
    <3>1. UNCHANGED barrierVars
      BY <2>1 DEF barrierVars, OperatingSystem, Timers, LeaderExits, ReuseGroupId, MemberExits, Fork,
         GraceElapses, DeadlineElapses, clientVars, managerVars, shutdownVars
    <3> QED
      BY <3>1, BarrierStutter
  <2>2. ASSUME NEW s \in Sessions, ReaperStep(s) \/ CountProbe(s) PROVE BarrierInv'
    <3>1. UNCHANGED barrierVars
      BY <2>2 DEF barrierVars, ReaperStep, CountProbe, clientVars, managerVars, shutdownVars
    <3> QED
      BY <3>1, BarrierStutter
  <2>3. ASSUME NEW c \in Clients, NewCall(c) \/ ClientStep(c) \/ WriteInput(c) PROVE BarrierInv'
    BY <2>3, BarrierCalls
  <2>4. CASE ShutdownClose \/ ShutdownStep
    BY <2>4, BarrierShutdown
  <2>5. CASE UNCHANGED vars
    BY <2>5, BarrierStutter DEF vars, barrierVars, clientVars, managerVars, shutdownVars
  <2> QED
    BY <2>1, <2>2, <2>3, <2>4, <2>5 DEF Next
<1> QED
  BY <1>1, <1>2, TypeCorrect, PTL DEF Spec

\* shutdown_all closes admission, then waits for admission_lock: whatever calls
\* were in flight, once it has its snapshot no call can add a session that the
\* snapshot misses.
THEOREM BarrierSafe == Spec => []AdmissionBarrier
<1>1. BarrierInv => AdmissionBarrier
  BY SessionManagerAssumption DEF BarrierInv, LockHeld, AdmissionBarrier
<1> QED
  BY <1>1, BarrierInvariant, PTL

-----------------------------------------------------------------------------
(* The session limit *)

Reserving == {"spawn", "register", "rollback"}

\* The strengthening: between the check of evict_if_needed and the insertion
\* there is still room.
CapacityInv ==
    /\ IsFiniteSet(sessions)
    /\ Cardinality(sessions) <= MaxSessions
    /\ \A c \in Clients : pc[c] \in Reserving => Cardinality(sessions) < MaxSessions

\* A step that inserts nothing, by a call that does not pass the check.
LEMMA CapacityShrinks ==
    ASSUME CapacityInv, sessions' \subseteq sessions,
           \A c \in Clients : pc'[c] \in Reserving => pc[c] \in Reserving
    PROVE  CapacityInv'
<1>1. IsFiniteSet(sessions') /\ Cardinality(sessions') <= Cardinality(sessions)
  BY FS_Subset DEF CapacityInv
<1>2. Cardinality(sessions) \in Nat /\ Cardinality(sessions') \in Nat
  BY <1>1, FS_CardinalityType DEF CapacityInv
<1> QED
  BY <1>1, <1>2, SessionManagerAssumption DEF CapacityInv

\* A step of one call that inserts nothing.
LEMMA CapacityCall ==
    ASSUME CapacityInv, CallTypeOK, NEW c \in Clients, NEW state, sessions' \subseteq sessions,
           pc' = [pc EXCEPT ![c] = state], state \in Reserving => pc[c] \in Reserving
    PROVE  CapacityInv'
<1>1. \A d \in Clients : pc'[d] \in Reserving => pc[d] \in Reserving
  BY DEF CallTypeOK
<1> QED
  BY <1>1, CapacityShrinks

LEMMA CapacityRegister ==
    ASSUME TypeOK, BarrierInv, CapacityInv, NEW c \in Clients, Register(c)
    PROVE  CapacityInv'
<1>1. /\ pc[c] = "register" /\ sessions' = sessions \cup {at[c]}
      /\ pc' = [pc EXCEPT ![c] = "begin"] /\ admission = c
  BY DEF Register, GoTo, BarrierInv, LockHeld, AdmissionStates
<1>2. /\ Cardinality(sessions) < MaxSessions /\ IsFiniteSet(sessions)
      /\ Cardinality(sessions) \in Nat /\ MaxSessions \in Nat
  BY <1>1, FS_CardinalityType, SessionManagerAssumption DEF CapacityInv, Reserving
<1>3. IsFiniteSet(sessions') /\ Cardinality(sessions') <= MaxSessions
  <2>1. /\ IsFiniteSet(sessions \cup {at[c]})
        /\ \/ Cardinality(sessions \cup {at[c]}) = Cardinality(sessions)
           \/ Cardinality(sessions \cup {at[c]}) = Cardinality(sessions) + 1
    BY <1>2, FS_AddElement
  <2> QED
    BY <1>1, <1>2, <2>1
<1>4. \A d \in Clients : pc'[d] \notin Reserving
  <2> SUFFICES ASSUME NEW d \in Clients PROVE pc'[d] \notin Reserving
    OBVIOUS
  <2>1. CASE d = c
    BY <1>1, <2>1 DEF TypeOK, CallTypeOK, Reserving
  <2>2. CASE d # c
    BY <1>1, <2>2 DEF TypeOK, CallTypeOK, Reserving, BarrierInv, LockHeld, AdmissionStates
  <2> QED
    BY <2>1, <2>2
<1> QED
  BY <1>3, <1>4 DEF CapacityInv

LEMMA CapacityCalls ==
    ASSUME TypeOK, BarrierInv, CapacityInv, NEW c \in Clients,
           NewCall(c) \/ ClientStep(c) \/ WriteInput(c)
    PROVE  CapacityInv'
<1> USE DEF Reserving
<1>0. CallTypeOK
  BY DEF TypeOK
<1>1. CASE ExecBegin(c)
  BY <1>0, <1>1, CapacityCall DEF ExecBegin, managerVars
<1>2. ASSUME NEW s \in Sessions, NEW k \in CallKinds, WriteStdin(c, s, k) PROVE CapacityInv'
  BY <1>0, <1>2, CapacityCall DEF WriteStdin, managerVars
<1>3. CASE ExecAdmit(c)
  BY <1>0, <1>3, CapacityCall DEF ExecAdmit, GoTo, Return
<1>4. CASE EvictIfNeeded(c)
  <2>1. CASE has_room
    <3>1. Cardinality(sessions) < MaxSessions /\ sessions' = sessions
      BY <1>4, <2>1 DEF EvictIfNeeded, has_room
    <3> QED
      BY <3>1 DEF CapacityInv
  <2>2. CASE ~has_room
    BY <1>0, <1>4, <2>2, CapacityCall DEF EvictIfNeeded, GoTo
  <2> QED
    BY <2>1, <2>2
<1>5. ASSUME NEW s \in Sessions, EvictProbe(c, s) PROVE CapacityInv'
  <2>1. GoTo(c, "scan") \/ Return(c)
    BY <1>5 DEF EvictProbe
  <2> QED
    BY <1>0, <1>5, <2>1, CapacityCall DEF EvictProbe, GoTo, Return
<1>6. CASE EvictPick(c)
  <2>1. sessions' \subseteq sessions
    BY <1>6 DEF EvictPick, remove_session
  <2> QED
    BY <1>0, <1>6, <2>1, CapacityCall DEF EvictPick, GoTo, Return
<1>7. ASSUME NEW s \in Sessions, Spawn(c, s) PROVE CapacityInv'
  BY <1>0, <1>7, CapacityCall DEF Spawn, managerVars
<1>8. CASE SpawnFails(c)
  BY <1>0, <1>8, CapacityCall DEF SpawnFails, Return
<1>9. CASE Register(c)
  BY <1>9, CapacityRegister
<1>10. CASE RegisterFails(c)
  BY <1>0, <1>10, CapacityCall DEF RegisterFails, GoTo, managerVars
<1>11. CASE Rollback(c)
  BY <1>0, <1>11, CapacityCall DEF Rollback, Return
<1>12. CASE InitialWait(c)
  BY <1>0, <1>12, CapacityCall DEF InitialWait, GoTo, managerVars
<1>13. CASE ContinueSession(c)
  BY <1>0, <1>13, CapacityCall DEF ContinueSession, GoTo, managerVars
<1>14. CASE WriteInput(c)
  BY <1>0, <1>14, CapacityCall DEF WriteInput, GoTo, Return, managerVars
<1>15. CASE Poll(c)
  <2>1. PICK state \in {"poll", "idle", "exited"} : pc' = [pc EXCEPT ![c] = state]
    BY <1>15, PollEffect
  <2> QED
    BY <1>0, <1>15, <2>1, PollEffect, CapacityCall
<1>16. CASE Cleanup(c)
  <2>1. sessions' \subseteq sessions
    BY <1>16 DEF Cleanup, remove_session
  <2> QED
    BY <1>0, <1>16, <2>1, CapacityCall DEF Cleanup, Return
<1> QED
  BY <1>1, <1>2, <1>3, <1>4, <1>5, <1>6, <1>7, <1>8, <1>9, <1>10, <1>11, <1>12, <1>13, <1>14,
     <1>15, <1>16 DEF NewCall, ClientStep

\* Concurrent exec_command calls never fill the map beyond max_sessions: the
\* count evict_if_needed took is still an upper bound when the runtime is inserted.
THEOREM CapacitySafe == Spec => []CapacityRespected
<1>1. Init => CapacityInv
  BY FS_EmptySet, SessionManagerAssumption DEF Init, CapacityInv, Reserving
<1>2. TypeOK /\ BarrierInv /\ CapacityInv /\ [Next]_vars => CapacityInv'
  <2> SUFFICES ASSUME TypeOK, BarrierInv, CapacityInv, [Next]_vars PROVE CapacityInv'
    OBVIOUS
  <2>1. CASE OperatingSystem \/ Timers
    BY <2>1, CapacityShrinks
    DEF OperatingSystem, Timers, LeaderExits, ReuseGroupId, MemberExits, Fork,
        GraceElapses, DeadlineElapses, clientVars, managerVars
  <2>2. ASSUME NEW s \in Sessions, ReaperStep(s) \/ CountProbe(s) PROVE CapacityInv'
    BY <2>2, CapacityShrinks DEF ReaperStep, CountProbe, clientVars, managerVars
  <2>3. ASSUME NEW c \in Clients, NewCall(c) \/ ClientStep(c) \/ WriteInput(c) PROVE CapacityInv'
    BY <2>3, CapacityCalls
  <2>4. CASE ShutdownClose \/ ShutdownStep
    <3>1. sessions' \subseteq sessions /\ pc' = pc
      BY <2>4 DEF ShutdownStep, ShutdownClose, ShutdownBarrier, ShutdownSnapshot, ShutdownSignal,
         ShutdownWait, ShutdownContended, ShutdownForce, ShutdownStartWait, ShutdownPassEnd,
         clientVars, managerVars
    <3> QED
      BY <3>1, CapacityShrinks
  <2>5. CASE UNCHANGED vars
    BY <2>5, CapacityShrinks DEF vars, clientVars, managerVars
  <2> QED
    BY <2>1, <2>2, <2>3, <2>4, <2>5 DEF Next
<1>3. CapacityInv => CapacityRespected
  BY DEF CapacityInv, CapacityRespected
<1> QED
  BY <1>1, <1>2, <1>3, TypeCorrect, BarrierInvariant, PTL DEF Spec

-----------------------------------------------------------------------------
(* One pass of shutdown_all over its snapshot *)

\* A session that a signal, a time-out or a force kill was meant for has to be
\* gone before an answer says so.
FlagsCommit ==
    \A s \in Sessions :
        \/ inner[s].timed_out \/ inner[s].kill_requested
        \/ inner[s].terminate_started \/ inner[s].force_killed
        => inner[s].require_exit

\* After the SIGTERM pass every session of the snapshot is gone or committed to.
Signalled ==
    \A s \in runtimes :
        sd \in {"grace", "force", "final"} \/ (sd = "signal" /\ s \notin pending)
            => is_exited(inner[s]) \/ inner[s].require_exit

\* A pass that has met no survivor leaves only ended sessions behind it.
PassedAreEnded ==
    sd \in {"grace", "final"} /\ ~survivors =>
        \A s \in runtimes \ pending : is_exited(inner[s]) /\ released[s]

PassInv == FlagsCommit /\ pending \subseteq runtimes /\ Signalled /\ PassedAreEnded

-----------------------------------------------------------------------------
(* The life of a session *)

Live == {"running", "killed", "zombie"}
Working == {"begin", "continue", "input", "poll", "exited"}

\* Somebody may still act on the session: it is in the map or among the
\* candidates of eviction or of shutdown_all, has a reaper, or a call works on it.
Known(s) ==
    \/ s \in sessions \/ s \in todo \/ s = victim
    \/ s \in runtimes \/ s \in pending
    \/ reaping[s]
    \/ \E c \in Clients : pc[c] \in Working /\ at[c] = s

\* Nothing has happened to the session yet but the spawn of its leader.
Unborn(s) ==
    /\ ~Known(s) /\ inner[s] = FreshInner
    /\ ends[s] = 0 /\ ~released[s] /\ s \notin registry

\* Leader, map and admission agree.
MapInv(s) ==
    /\ inner[s].reaped => leader[s] = "reaped"
    /\ leader[s] = "reaped" /\ s \in sessions => inner[s].reaped
    /\ reused[s] => inner[s].reaped
    /\ s \notin sessions /\ ~Admitting(s) => leader[s] \notin Live /\ inner[s].members = {}
    /\ Admitting(s) => leader[s] \in Live
    /\ leader[s] = "none" \/ Admitting(s) => Unborn(s)

\* The end of the process, its flag and its record agree.
EndInv(s) ==
    /\ Known(s) /\ ~released[s] => ends[s] = 0
    /\ ends[s] <= 1
    /\ released[s] /\ observed[s] => ends[s] = 1
    /\ evidence[s] \in Reasons => is_exited(inner[s])
    /\ observed[s] => s \in sessions \/ Admitting(s) \/ ends[s] = 1
    /\ s \in registry => observed[s] /\ (ends[s] = 0 \/ faults > 0)
    /\ observed[s] /\ s \in sessions /\ s \notin registry => is_exited(inner[s])

SessionInv ==
    /\ \A s \in Sessions : MapInv(s) /\ EndInv(s)
    /\ "force_kill" \notin stray
    /\ sd = "done" => sessions = {}

-----------------------------------------------------------------------------
(* What a step does to the sessions *)

\* Working calls stay with their session, or take one from the map.
LessWork ==
    \A c \in Clients : pc'[c] \in Working => \/ pc[c] \in Working /\ at'[c] = at[c]
                                             \/ at'[c] \in sessions
SameAdmitting == \A t \in Sessions : Admitting(t)' <=> Admitting(t)
KnownShrinks == \A t \in Sessions : Known(t)' => Known(t)

OwnershipKept(t) ==
    /\ released'[t] = released[t] /\ ends'[t] = ends[t] /\ evidence'[t] = evidence[t]
    /\ t \in registry' <=> t \in registry

\* The end of an exited process is recorded, at most once.
EndRecorded(t) ==
    /\ is_exited(inner'[t]) /\ released'[t]
    /\ IF released[t] \/ ~observed[t]
       THEN /\ ends'[t] = ends[t] /\ evidence'[t] = evidence[t]
            /\ t \in registry' <=> t \in registry
       ELSE ends'[t] = ends[t] + 1 /\ (t \in registry' => t \in registry /\ faults' > 0)

\* A live leader may exit, flags may be set; nothing else happens to t.
Quiet(t) ==
    /\ \/ inner'[t] = inner[t]
       \/ /\ Known(t) /\ inner'[t].reaped = inner[t].reaped /\ inner'[t].members = inner[t].members
          /\ inner[t].require_exit => inner'[t].require_exit
    /\ leader'[t] = leader[t] \/ {leader[t], leader'[t]} \subseteq Live
    /\ reused'[t] => reused[t] \/ (leader[t] = "reaped" /\ t \in sessions)
    /\ observed'[t] = observed[t]
    /\ t \in sessions' <=> t \in sessions
    /\ OwnershipKept(t)

\* What reap_and_record_exit does to s, and a force kill after it.
Reaped(s) ==
    /\ \A t \in Sessions \ {s} : inner'[t] = inner[t] /\ leader'[t] = leader[t]
    /\ inner[s].require_exit => inner'[s].require_exit
    /\ reused' = reused
    /\ "force_kill" \in stray' => "force_kill" \in stray \/ (~inner'[s].reaped /\ reused[s])
    /\ inner[s].reaped => /\ inner'[s].reaped /\ inner'[s].members = inner[s].members \cap group'[s]
                          /\ leader'[s] = leader[s] \/ leader[s] # "reaped"
    /\ ~inner[s].reaped => /\ leader[s] \in Live
                           /\ \/ inner'[s].reaped /\ leader'[s] = "reaped"
                              \/ ~inner'[s].reaped /\ leader'[s] \in Live

Owned(s) == /\ \A t \in Sessions \ {s} : OwnershipKept(t)
            /\ OwnershipKept(s) \/ EndRecorded(s)

\* A known session is looked at, perhaps its end recorded, perhaps it leaves the map.
LooksAt(s) ==
    /\ Known(s) /\ KnownShrinks /\ SameAdmitting /\ observed' = observed
    /\ Reaped(s) /\ Owned(s)
    /\ sessions' \subseteq sessions
    /\ \A t \in sessions \ sessions' : t = s /\ is_exited(inner'[s]) /\ released'[s]

Neutral ==
    /\ KnownShrinks /\ SameAdmitting
    /\ \A t \in Sessions : Quiet(t)
    /\ "force_kill" \in stray' => "force_kill" \in stray

\* The steps of an admission change one session; the others are quiet.
Apart(s) ==
    /\ \A t \in Sessions \ {s} : /\ Known(t)' => Known(t)
                                 /\ Admitting(t)' <=> Admitting(t)
                                 /\ Quiet(t)
    /\ inner' = inner /\ reused' = reused /\ stray' = stray /\ released' = released

Spawned(s) ==
    /\ Apart(s) /\ KnownShrinks /\ leader[s] = "none" /\ leader'[s] = "running" /\ Admitting(s)'
    /\ observed' = observed /\ sessions' = sessions /\ OwnershipKept(s)
Registered(s) ==
    /\ Apart(s) /\ Admitting(s) /\ ~Admitting(s)' /\ leader' = leader /\ sessions' = sessions \cup {s}
    /\ ends' = ends /\ evidence' = evidence
    /\ s \in registry' <=> s \in registry \/ observed'[s]
    /\ observed'[s] \in BOOLEAN
NotRegistered(s) ==
    /\ Apart(s) /\ KnownShrinks /\ Admitting(s) /\ Admitting(s)' /\ leader'[s] \in {leader[s], "killed"}
    /\ sessions' = sessions /\ OwnershipKept(s) /\ observed'[s] \in BOOLEAN
RolledBack(s) ==
    /\ Apart(s) /\ KnownShrinks /\ Admitting(s) /\ ~Admitting(s)' /\ leader'[s] = "reaped"
    /\ sessions' = sessions /\ observed' = observed
    /\ IF observed[s] THEN ends'[s] = ends[s] + 1 /\ evidence'[s] = "incomplete" /\ s \notin registry'
       ELSE OwnershipKept(s)

\* shutdown_all empties the map after a pass without survivors.
Emptied ==
    /\ sd \in {"grace", "final"} /\ pending = {} /\ ~survivors /\ sessions' = {}
    /\ KnownShrinks /\ SameAdmitting
    /\ UNCHANGED <<inner, leader, reused, observed, released, ends, evidence, registry, stray>>

Footprint ==
    /\ faults' >= faults
    /\ \/ Neutral \/ Emptied
       \/ \E s \in Sessions : \/ LooksAt(s) \/ Spawned(s) \/ Registered(s)
                              \/ NotRegistered(s) \/ RolledBack(s)

LEMMA CallMoves ==
    ASSUME CallTypeOK, NEW c \in Clients, NEW state, pc' = [pc EXCEPT ![c] = state],
           at' = at \/ (state = "idle" /\ at' = [at EXCEPT ![c] = None]),
           pc[c] \notin {"register", "rollback"}, state \notin {"register", "rollback"},
           state \in Working => pc[c] \in Working
    PROVE  LessWork /\ SameAdmitting
<1>1. LessWork
  BY DEF LessWork, Working, CallTypeOK
<1>2. SameAdmitting
  BY DEF SameAdmitting, Admitting, CallTypeOK
<1> QED
  BY <1>1, <1>2

LEMMA CallsStay == ASSUME UNCHANGED clientVars PROVE LessWork /\ SameAdmitting
BY DEF LessWork, SameAdmitting, Admitting, clientVars

\* Candidates come from the map.
LEMMA KnownStep ==
    ASSUME LessWork, sessions' \subseteq sessions, todo' \subseteq todo \cup sessions,
           victim' \in {None, victim} \cup todo, runtimes' \subseteq runtimes \cup sessions,
           pending' \subseteq pending \cup runtimes \cup sessions,
           \A t \in Sessions : reaping'[t] => reaping[t]
    PROVE  KnownShrinks
<1> SUFFICES ASSUME NEW t \in Sessions, Known(t)' PROVE Known(t)
  BY DEF KnownShrinks
<1>1. t # None
  BY SessionManagerAssumption
<1>2. CASE \E c \in Clients : pc'[c] \in Working /\ at'[c] = t
  BY <1>2 DEF LessWork, Known
<1>3. CASE ~\E c \in Clients : pc'[c] \in Working /\ at'[c] = t
  BY <1>1, <1>3 DEF Known
<1> QED
  BY <1>2, <1>3

\* What reap_exit_code found becomes the state of the session.
LEMMA ReapedStep ==
    ASSUME TypeOK, NEW s \in Sessions, NEW o \in reap_exit_code(s),
           NEW term \in BOOLEAN, NEW force \in BOOLEAN, NEW i \in Inner,
           Processes(s, o, term, force), inner' = [inner EXCEPT ![s] = i],
           i.reaped = o.reaped, i.members = o.members, inner[s].require_exit => i.require_exit
    PROVE  Reaped(s)
<1>1. /\ inner'[s] = i /\ \A t \in Sessions \ {s} : inner'[t] = inner[t] /\ leader'[t] = leader[t]
      /\ leader'[s] = IF force /\ o.leader = "running" THEN "killed" ELSE o.leader
      /\ group'[s] = o.group
  BY DEF Processes, TypeOK, ProcessesTypeOK, RuntimeTypeOK
<1>2. reused' = reused
  BY DEF Processes
<1>3. "force_kill" \in stray' => "force_kill" \in stray \/ (~i.reaped /\ reused[s])
  BY DEF Processes, kills_group
<1>4. CASE inner[s].reaped
  <2>1. o.leader = leader[s] /\ o.group = group[s] /\ o.reaped = inner[s].reaped
        /\ o.members = inner[s].members \cap group[s]
    BY <1>4 DEF reap_exit_code, surviving_members
  <2> QED
    BY <1>1, <1>2, <1>3, <1>4, <2>1 DEF Reaped
<1>5. CASE ~inner[s].reaped
  <2>1. leader[s] \in Live
    BY <1>5 DEF reap_exit_code, Live
  <2>2. \/ o.leader = "reaped" /\ o.reaped
        \/ o.leader = leader[s] /\ ~o.reaped
    BY <1>5, OutcomeShape
  <2> QED
    BY <1>1, <1>2, <1>3, <1>5, <2>1, <2>2 DEF Reaped, Live
<1> QED
  BY <1>4, <1>5

LEMMA KeepStep ==
    ASSUME TypeOK, NEW s \in Sessions, NEW ok \in BOOLEAN, KeepOwnership(ok)
    PROVE  Owned(s) /\ faults' >= faults
BY DEF KeepOwnership, Owned, OwnershipKept, TypeOK, RegistryTypeOK

LEMMA ReleaseStep ==
    ASSUME TypeOK, NEW s \in Sessions, NEW i, release_process_ownership(s, i), is_exited(inner'[s])
    PROVE  Owned(s) /\ released'[s] /\ faults' >= faults
<1>1. PICK ok \in BOOLEAN :
        /\ released' = [released EXCEPT ![s] = TRUE]
        /\ faults' = IF ok THEN faults ELSE faults + 1
        /\ IF released[s] \/ ~observed[s]
           THEN UNCHANGED <<ends, evidence, registry>>
           ELSE /\ ends' = [ends EXCEPT ![s] = @ + 1]
                /\ evidence' = [evidence EXCEPT ![s] = process_termination_reason(i)]
                /\ registry' = IF ok THEN registry \ {s} ELSE registry
  BY DEF release_process_ownership, end_outcomes
<1>2. faults \in Nat /\ released'[s] /\ faults' >= faults /\ (ok \/ faults' > 0)
  BY <1>1 DEF TypeOK, RegistryTypeOK, RuntimeTypeOK
<1>3. \A t \in Sessions \ {s} : OwnershipKept(t)
  BY <1>1 DEF OwnershipKept, TypeOK, RuntimeTypeOK
<1>4. EndRecorded(s)
  BY <1>1, <1>2 DEF EndRecorded, TypeOK, RuntimeTypeOK
<1> QED
  BY <1>2, <1>3, <1>4 DEF Owned

-----------------------------------------------------------------------------
(* Every step has such a footprint *)

\* A step that leaves the calls, and everything Quiet speaks of but the leaders,
\* to themselves.
LEMMA NeutralStep ==
    ASSUME LessWork, SameAdmitting, KnownShrinks,
           UNCHANGED <<inner, reused, observed, sessions, released, ends, evidence, registry, stray>>,
           \A t \in Sessions : leader'[t] = leader[t] \/ {leader[t], leader'[t]} \subseteq Live
    PROVE  Neutral
BY DEF Neutral, Quiet, OwnershipKept

LEMMA EnvironmentFootprint ==
    ASSUME TypeOK, OperatingSystem \/ Timers \/ UNCHANGED vars
    PROVE  Footprint
<1>0. LessWork /\ SameAdmitting
  <2>1. UNCHANGED clientVars
    BY DEF OperatingSystem, Timers, LeaderExits, ReuseGroupId, MemberExits, Fork, GraceElapses,
       DeadlineElapses, vars
  <2> QED
    BY <2>1, CallsStay
<1>1. KnownShrinks
  <2>1. UNCHANGED <<sessions, todo, victim, runtimes, pending, reaping>>
    BY DEF OperatingSystem, Timers, LeaderExits, ReuseGroupId, MemberExits, Fork, GraceElapses,
       DeadlineElapses, vars, managerVars, sessionVars, shutdownVars
  <2> QED
    BY <1>0, <2>1, KnownStep
<1>2. faults' = faults /\ faults' >= faults
  BY DEF OperatingSystem, Timers, LeaderExits, ReuseGroupId, MemberExits, Fork, GraceElapses,
     DeadlineElapses, vars, registryVars, TypeOK, RegistryTypeOK
<1>3. ASSUME NEW s \in Sessions, LeaderExits(s) PROVE Neutral
  <2>1. \A t \in Sessions : leader'[t] = leader[t] \/ {leader[t], leader'[t]} \subseteq Live
    BY <1>3 DEF LeaderExits, Live, TypeOK, ProcessesTypeOK
  <2> QED
    BY <1>0, <1>1, <1>3, <2>1, NeutralStep DEF LeaderExits, sessionVars, managerVars, registryVars
<1>4. ASSUME NEW s \in Sessions, NEW p \in Procs, MemberExits(s, p) \/ Fork(s, p) PROVE Neutral
  BY <1>0, <1>1, <1>4, NeutralStep DEF MemberExits, Fork, sessionVars, managerVars, registryVars
<1>5. ASSUME NEW s \in Sessions, ReuseGroupId(s) PROVE Neutral
  <2>1. UNCHANGED <<inner, leader, observed, sessions, released, ends, evidence, registry, stray>>
    BY <1>5 DEF ReuseGroupId, sessionVars, managerVars, registryVars
  <2>2. \A t \in Sessions : reused'[t] => reused[t] \/ (leader[t] = "reaped" /\ t \in sessions)
    BY <1>5 DEF ReuseGroupId, TypeOK, ProcessesTypeOK
  <2> QED
    BY <1>0, <1>1, <2>1, <2>2 DEF Neutral, Quiet, OwnershipKept
<1>6. ASSUME Timers \/ UNCHANGED vars PROVE Neutral
  <2>1. UNCHANGED <<inner, leader, reused, observed, sessions, released, ends, evidence, registry, stray>>
    BY <1>6 DEF Timers, GraceElapses, DeadlineElapses, vars, osVars, sessionVars, managerVars, registryVars
  <2> QED
    BY <1>0, <1>1, <2>1, NeutralStep
<1>7. Neutral
  BY <1>3, <1>4, <1>5, <1>6 DEF OperatingSystem
<1> QED
  BY <1>2, <1>7 DEF Footprint

\* The last conjuncts of a step that looks at a session and keeps the map.
LEMMA LookStep ==
    ASSUME NEW s \in Sessions, Known(s), KnownShrinks, SameAdmitting, observed' = observed,
           Reaped(s), Owned(s), faults' >= faults, sessions' = sessions
    PROVE  Footprint
BY DEF LooksAt, Footprint

LEMMA ReapingTurn ==
    ASSUME TypeOK, NEW s \in Sessions, NEW o \in reap_exit_code(s), NEW ok \in record_outcomes(s, o),
           Processes(s, o, FALSE, FALSE), inner' = [inner EXCEPT ![s] = after_reap(inner[s], o, ok)]
    PROVE  /\ Reaped(s) /\ ok \in BOOLEAN
           /\ inner'[s] = after_reap(inner[s], o, ok)
<1> DEFINE i == after_reap(inner[s], o, ok)
<1>1. i \in Inner /\ ok \in BOOLEAN /\ inner[s] \in Inner
  BY ReapType DEF TypeOK, RuntimeTypeOK
<1>2. i.reaped = o.reaped /\ i.members = o.members /\ i.require_exit = inner[s].require_exit
  BY <1>1 DEF after_reap, Inner
<1>3. inner'[s] = i
  BY DEF TypeOK, RuntimeTypeOK
<1> HIDE DEF i
<1>4. inner' = [inner EXCEPT ![s] = i]
  BY DEF i
<1>5. Reaped(s)
  BY <1>1, <1>2, <1>4, ReapedStep
<1> QED
  BY <1>1, <1>3, <1>5 DEF i

LEMMA ReaperFootprint ==
    ASSUME TypeOK, NEW s \in Sessions, ReaperStep(s) \/ CountProbe(s)
    PROVE  Footprint
<1>0. LessWork /\ SameAdmitting
  BY CallsStay DEF ReaperStep, CountProbe
<1>1. KnownShrinks
  <2>1. UNCHANGED <<sessions, todo, victim, runtimes, pending>>
    BY DEF ReaperStep, CountProbe, managerVars, shutdownVars
  <2>2. \A t \in Sessions : reaping'[t] => reaping[t]
    BY DEF ReaperStep, CountProbe, TypeOK, RuntimeTypeOK
  <2> QED
    BY <1>0, <2>1, <2>2, KnownStep
<1>2. Known(s) /\ observed' = observed /\ sessions' = sessions
  BY DEF ReaperStep, CountProbe, Known, managerVars
<1>3. PICK o \in reap_exit_code(s) : \E ok \in record_outcomes(s, o) :
        /\ Processes(s, o, FALSE, FALSE)
        /\ inner' = [inner EXCEPT ![s] = after_reap(inner[s], o, ok)]
        /\ \/ KeepOwnership(ok)
           \/ is_exited(after_reap(inner[s], o, ok)) /\ release_process_ownership(s, after_reap(inner[s], o, ok))
  BY DEF ReaperStep, CountProbe
<1>4. PICK ok \in record_outcomes(s, o) :
        /\ Processes(s, o, FALSE, FALSE)
        /\ inner' = [inner EXCEPT ![s] = after_reap(inner[s], o, ok)]
        /\ \/ KeepOwnership(ok)
           \/ is_exited(after_reap(inner[s], o, ok)) /\ release_process_ownership(s, after_reap(inner[s], o, ok))
  BY <1>3
<1>5. Reaped(s) /\ ok \in BOOLEAN /\ inner'[s] = after_reap(inner[s], o, ok)
  BY <1>4, ReapingTurn
<1>6. Owned(s) /\ faults' >= faults
  BY <1>4, <1>5, KeepStep, ReleaseStep
<1> QED
  BY <1>0, <1>1, <1>2, <1>5, <1>6, LookStep

\* A step of a call that touches no session.
LEMMA CallNeutral ==
    ASSUME TypeOK, LessWork, SameAdmitting, sessions' = sessions, todo' \subseteq todo \cup sessions,
           victim' \in {None, victim},
           UNCHANGED <<leader, inner, reused, stray, observed, released, ends, evidence, registry, faults,
                       reaping, runtimes, pending>>
    PROVE  Footprint
<1>1. KnownShrinks
  BY KnownStep
<1>2. Neutral
  BY <1>1, NeutralStep
<1>3. faults' >= faults
  BY DEF TypeOK, RegistryTypeOK
<1> QED
  BY <1>2, <1>3 DEF Footprint

LEMMA NewCallFootprint ==
    ASSUME TypeOK, NEW c \in Clients, NewCall(c)
    PROVE  Footprint
<1>0. CallTypeOK
  BY DEF TypeOK
<1>1. CASE ExecBegin(c)
  <2>1. LessWork /\ SameAdmitting
    BY <1>0, <1>1, CallMoves DEF ExecBegin, Working
  <2> QED
    BY <1>1, <2>1, CallNeutral DEF ExecBegin, osVars, sessionVars, managerVars, registryVars, shutdownVars
<1>2. ASSUME NEW s \in Sessions, NEW k \in CallKinds, WriteStdin(c, s, k) PROVE Footprint
  <2>1. LessWork /\ SameAdmitting
    BY <1>0, <1>2 DEF WriteStdin, LessWork, SameAdmitting, Admitting, Working, CallTypeOK
  <2> QED
    BY <1>2, <2>1, CallNeutral DEF WriteStdin, osVars, sessionVars, managerVars, registryVars, shutdownVars
<1> QED
  BY <1>1, <1>2 DEF NewCall

LEMMA AdmitFootprint ==
    ASSUME TypeOK, NEW c \in Clients, ExecAdmit(c) \/ EvictIfNeeded(c) \/ SpawnFails(c) \/ InitialWait(c)
    PROVE  Footprint
<1>0. CallTypeOK
  BY DEF TypeOK
<1>1. LessWork /\ SameAdmitting
  <2>1. PICK state \in {"evict", "spawn", "scan", "idle", "poll"} :
          /\ pc' = [pc EXCEPT ![c] = state]
          /\ at' = at \/ (state = "idle" /\ at' = [at EXCEPT ![c] = None])
          /\ pc[c] \notin {"register", "rollback"}
          /\ state \in Working => pc[c] \in Working
    BY DEF ExecAdmit, EvictIfNeeded, SpawnFails, InitialWait, GoTo, Return, Working
  <2> QED
    BY <1>0, <2>1, CallMoves
<1>2. /\ sessions' = sessions /\ todo' \subseteq todo \cup sessions /\ victim' \in {None, victim}
      /\ UNCHANGED <<leader, inner, reused, stray, observed, released, ends, evidence, registry, faults,
                     reaping, runtimes, pending>>
  BY DEF ExecAdmit, EvictIfNeeded, SpawnFails, InitialWait, osVars, sessionVars, managerVars, registryVars, shutdownVars
<1> QED
  BY <1>1, <1>2, CallNeutral

\* The flags of a session a call works on.
LEMMA FlagsFootprint ==
    ASSUME TypeOK, NEW c \in Clients, ContinueSession(c) \/ WriteInput(c)
    PROVE  Footprint
<1> DEFINE s == at[c]
<1>0. CallTypeOK /\ s \in Sessions /\ Known(s)
  BY DEF TypeOK, CallTypeOK, ContinueSession, WriteInput, SessionStates, Known, Working
<1>1. LessWork /\ SameAdmitting
  <2>1. PICK state \in {"idle", "poll", "input"} :
          /\ pc' = [pc EXCEPT ![c] = state]
          /\ at' = at \/ (state = "idle" /\ at' = [at EXCEPT ![c] = None])
          /\ pc[c] \notin {"register", "rollback"}
          /\ state \in Working => pc[c] \in Working
    BY DEF ContinueSession, WriteInput, GoTo, Return, Working
  <2> QED
    BY <1>0, <2>1, CallMoves
<1>2. /\ UNCHANGED <<leader, reused, observed, released, ends, evidence, registry, faults, sessions, todo, victim,
                     reaping, runtimes, pending>>
      /\ "force_kill" \in stray' => "force_kill" \in stray
  BY DEF ContinueSession, WriteInput, osVars, managerVars, registryVars, shutdownVars
<1>3. KnownShrinks
  BY <1>1, <1>2, KnownStep
<1>4. \A t \in Sessions \ {s} : inner'[t] = inner[t]
  BY DEF ContinueSession, WriteInput, TypeOK, RuntimeTypeOK
<1>5. /\ inner'[s].reaped = inner[s].reaped /\ inner'[s].members = inner[s].members
      /\ inner[s].require_exit => inner'[s].require_exit
  <2>1. inner[s] \in Inner /\ inner \in [Sessions -> Inner]
    BY <1>0 DEF TypeOK, RuntimeTypeOK
  <2>2. \/ inner'[s] = request_termination([inner[s] EXCEPT !.kill_requested = TRUE, !.require_exit = TRUE])
        \/ inner'[s] = inner[s]
        \/ inner'[s] = [inner[s] EXCEPT !.input_writer = FALSE]
    BY <1>0, <2>1 DEF ContinueSession, WriteInput
  <2> QED
    BY <2>1, <2>2 DEF Inner, request_termination
<1>6. \A t \in Sessions : Quiet(t)
  BY <1>0, <1>2, <1>4, <1>5 DEF Quiet, OwnershipKept
<1> QED
  BY <1>1, <1>2, <1>3, <1>6 DEF Footprint, Neutral, TypeOK, RegistryTypeOK

LEMMA SpawnFootprint ==
    ASSUME TypeOK, NEW c \in Clients, NEW s \in Sessions, Spawn(c, s)
    PROVE  Footprint
<1>1. /\ pc[c] = "spawn" /\ pc' = [pc EXCEPT ![c] = "register"] /\ at' = [at EXCEPT ![c] = s]
      /\ leader[s] = "none" /\ leader' = [leader EXCEPT ![s] = "running"]
  BY DEF Spawn
<1>2. UNCHANGED <<inner, reused, stray, observed, released, ends, evidence, registry, faults, sessions, todo,
                  victim, reaping, runtimes, pending>>
  BY DEF Spawn, sessionVars, managerVars, registryVars, shutdownVars
<1>3. LessWork
  BY <1>1 DEF LessWork, Working, TypeOK, CallTypeOK
<1>4. KnownShrinks
  BY <1>2, <1>3, KnownStep
<1>5. Admitting(s)' /\ \A t \in Sessions \ {s} : Admitting(t)' <=> Admitting(t)
  BY <1>1 DEF Admitting, TypeOK, CallTypeOK
<1>6. leader'[s] = "running" /\ \A t \in Sessions \ {s} : leader'[t] = leader[t]
  BY <1>1 DEF TypeOK, ProcessesTypeOK
<1>7. Spawned(s)
  BY <1>1, <1>2, <1>4, <1>5, <1>6 DEF Spawned, Apart, Quiet, OwnershipKept, KnownShrinks
<1> QED
  BY <1>2, <1>7 DEF Footprint, TypeOK, RegistryTypeOK

\* Only one call is being admitted.
LEMMA AdmittingAlone ==
    ASSUME BarrierInv, NEW c \in Clients, pc[c] \in {"register", "rollback"}
    PROVE  \A d \in Clients : pc[d] \in {"register", "rollback"} => d = c
BY DEF BarrierInv, LockHeld, AdmissionStates

LEMMA RegisterFootprint ==
    ASSUME TypeOK, BarrierInv, NEW c \in Clients, Register(c)
    PROVE  Footprint
<1> DEFINE s == at[c]
<1>0. s \in Sessions /\ Admitting(s)
  BY DEF TypeOK, CallTypeOK, Register, SessionStates, Admitting
<1>1. /\ pc[c] = "register" /\ pc' = [pc EXCEPT ![c] = "begin"] /\ at' = at
      /\ sessions' = sessions \cup {s} /\ reaping' = [reaping EXCEPT ![s] = TRUE]
      /\ UNCHANGED <<leader, inner, reused, stray, released, ends, evidence, faults, todo, victim,
                     runtimes, pending>>
  BY DEF Register, GoTo, osVars, shutdownVars
<1>2. PICK known \in BOOLEAN : /\ observed' = [observed EXCEPT ![s] = known]
                               /\ registry' = IF known THEN registry \cup {s} ELSE registry
  BY DEF Register
<1>3. observed'[s] = known /\ \A t \in Sessions \ {s} : observed'[t] = observed[t]
  BY <1>0, <1>2 DEF TypeOK, RuntimeTypeOK
<1>4. \A t \in Sessions \ {s} : Known(t)' => Known(t)
  <2> SUFFICES ASSUME NEW t \in Sessions \ {s}, Known(t)' PROVE Known(t)
    OBVIOUS
  <2>1. CASE \E d \in Clients : pc'[d] \in Working /\ at'[d] = t
    <3>1. PICK d \in Clients : pc'[d] \in Working /\ at'[d] = t
      BY <2>1
    <3>2. d # c /\ pc'[d] = pc[d] /\ at[d] = t
      BY <1>1, <3>1 DEF TypeOK, CallTypeOK
    <3> QED
      BY <3>1, <3>2 DEF Known
  <2>2. CASE ~\E d \in Clients : pc'[d] \in Working /\ at'[d] = t
    <3>1. reaping'[t] = reaping[t]
      BY <1>1 DEF TypeOK, RuntimeTypeOK
    <3> QED
      BY <1>1, <2>2, <3>1 DEF Known
  <2> QED
    BY <2>1, <2>2
<1>5. ~Admitting(s)' /\ \A t \in Sessions \ {s} : Admitting(t)' <=> Admitting(t)
  BY <1>1, AdmittingAlone DEF Admitting, TypeOK, CallTypeOK
<1>6. \A t \in Sessions \ {s} : Quiet(t)
  BY <1>1, <1>2, <1>3 DEF Quiet, OwnershipKept
<1>7. Registered(s)
  BY <1>0, <1>1, <1>2, <1>3, <1>4, <1>5, <1>6 DEF Registered, Apart
<1> QED
  BY <1>0, <1>1, <1>7 DEF Footprint, TypeOK, RegistryTypeOK

LEMMA RegisterFailsFootprint ==
    ASSUME TypeOK, NEW c \in Clients, RegisterFails(c)
    PROVE  Footprint
<1> DEFINE s == at[c]
<1>0. s \in Sessions /\ Admitting(s)
  BY DEF TypeOK, CallTypeOK, RegisterFails, SessionStates, Admitting
<1>1. /\ pc[c] = "register" /\ pc' = [pc EXCEPT ![c] = "rollback"] /\ at' = at
      /\ UNCHANGED <<inner, reused, stray, released, ends, evidence, registry, sessions, todo, victim, reaping,
                     runtimes, pending>>
  BY DEF RegisterFails, GoTo, managerVars, shutdownVars
<1>2. PICK known \in BOOLEAN : /\ observed' = [observed EXCEPT ![s] = known]
                               /\ faults' = IF known THEN faults + 1 ELSE faults
  BY DEF RegisterFails
<1>3. observed'[s] = known /\ \A t \in Sessions \ {s} : observed'[t] = observed[t]
  BY <1>0, <1>2 DEF TypeOK, RuntimeTypeOK
<1>4. leader'[s] \in {leader[s], "killed"} /\ \A t \in Sessions \ {s} : leader'[t] = leader[t]
  BY <1>0 DEF RegisterFails, TypeOK, ProcessesTypeOK
<1>5. LessWork
  BY <1>1 DEF LessWork, Working, TypeOK, CallTypeOK
<1>6. KnownShrinks
  BY <1>1, <1>5, KnownStep
<1>7. Admitting(s)' /\ \A t \in Sessions \ {s} : Admitting(t)' <=> Admitting(t)
  BY <1>1 DEF Admitting, TypeOK, CallTypeOK
<1>8. NotRegistered(s)
  BY <1>0, <1>1, <1>3, <1>4, <1>6, <1>7 DEF NotRegistered, Apart, Quiet, OwnershipKept, KnownShrinks
<1> QED
  BY <1>0, <1>2, <1>8 DEF Footprint, TypeOK, RegistryTypeOK

LEMMA RollbackFootprint ==
    ASSUME TypeOK, BarrierInv, NEW c \in Clients, Rollback(c)
    PROVE  Footprint
<1> DEFINE s == at[c]
<1>0. s \in Sessions /\ Admitting(s)
  BY DEF TypeOK, CallTypeOK, Rollback, SessionStates, Admitting
<1>1. /\ pc[c] = "rollback" /\ pc' = [pc EXCEPT ![c] = "idle"] /\ at' = [at EXCEPT ![c] = None]
      /\ leader' = [leader EXCEPT ![s] = "reaped"]
      /\ UNCHANGED <<inner, reused, stray, observed, released, faults, sessions, todo, victim, reaping,
                     runtimes, pending>>
  BY DEF Rollback, Return, shutdownVars
<1>2. IF observed[s]
      THEN /\ ends' = [ends EXCEPT ![s] = @ + 1] /\ evidence' = [evidence EXCEPT ![s] = "incomplete"]
           /\ registry' = registry \ {s}
      ELSE UNCHANGED <<ends, evidence, registry>>
  BY DEF Rollback
<1>3. IF observed[s] THEN ends'[s] = ends[s] + 1 /\ evidence'[s] = "incomplete" /\ s \notin registry'
      ELSE OwnershipKept(s)
  BY <1>0, <1>1, <1>2 DEF OwnershipKept, TypeOK, RuntimeTypeOK
<1>4. \A t \in Sessions \ {s} : OwnershipKept(t)
  BY <1>0, <1>1, <1>2 DEF OwnershipKept, TypeOK, RuntimeTypeOK
<1>5. leader'[s] = "reaped" /\ \A t \in Sessions \ {s} : leader'[t] = leader[t]
  BY <1>0, <1>1 DEF TypeOK, ProcessesTypeOK
<1>6. LessWork
  BY <1>1 DEF LessWork, Working, TypeOK, CallTypeOK
<1>7. KnownShrinks
  BY <1>1, <1>6, KnownStep
<1>8. ~Admitting(s)' /\ \A t \in Sessions \ {s} : Admitting(t)' <=> Admitting(t)
  BY <1>1, AdmittingAlone DEF Admitting, TypeOK, CallTypeOK
<1>9. \A t \in Sessions \ {s} : Quiet(t)
  BY <1>1, <1>4, <1>5 DEF Quiet
<1>10. RolledBack(s)
  BY <1>0, <1>1, <1>3, <1>5, <1>7, <1>8, <1>9 DEF RolledBack, Apart, KnownShrinks
<1> QED
  BY <1>0, <1>1, <1>10 DEF Footprint, TypeOK, RegistryTypeOK

LEMMA EvictProbeFootprint ==
    ASSUME TypeOK, NEW c \in Clients, NEW s \in Sessions, EvictProbe(c, s)
    PROVE  Footprint
<1>0. /\ Known(s) /\ pc[c] = "scan" /\ observed' = observed /\ sessions' = sessions
      /\ UNCHANGED <<reaping, runtimes, pending>>
  BY DEF EvictProbe, Known, shutdownVars
<1>1. PICK o \in reap_exit_code(s) : \E ok \in record_outcomes(s, o) :
        /\ Processes(s, o, FALSE, FALSE)
        /\ inner' = [inner EXCEPT ![s] = after_reap(inner[s], o, ok)]
        /\ KeepOwnership(ok)
        /\ \/ /\ GoTo(c, "scan") /\ todo' = todo \ {s}
              /\ \/ victim' = victim
                 \/ victim' = s
           \/ Return(c) /\ todo' = {} /\ victim' = None
  BY SessionManagerAssumption DEF EvictProbe
<1>2. PICK ok \in record_outcomes(s, o) :
        /\ Processes(s, o, FALSE, FALSE)
        /\ inner' = [inner EXCEPT ![s] = after_reap(inner[s], o, ok)]
        /\ KeepOwnership(ok)
        /\ \/ /\ GoTo(c, "scan") /\ todo' = todo \ {s}
              /\ \/ victim' = victim
                 \/ victim' = s
           \/ Return(c) /\ todo' = {} /\ victim' = None
  BY <1>1
<1>3. Reaped(s) /\ ok \in BOOLEAN
  BY <1>2, ReapingTurn
<1>4. Owned(s) /\ faults' >= faults
  BY <1>2, <1>3, KeepStep
<1>5. LessWork /\ SameAdmitting
  <2>1. PICK state \in {"scan", "idle"} :
          /\ pc' = [pc EXCEPT ![c] = state]
          /\ at' = at \/ (state = "idle" /\ at' = [at EXCEPT ![c] = None])
    BY <1>2 DEF GoTo, Return
  <2> QED
    BY <1>0, <2>1, CallMoves DEF TypeOK, Working
<1>6. todo' \subseteq todo /\ victim' \in {None, victim} \cup todo
  BY <1>2 DEF EvictProbe
<1>7. KnownShrinks
  BY <1>0, <1>5, <1>6, KnownStep
<1> QED
  BY <1>0, <1>3, <1>4, <1>5, <1>7, LookStep

LEMMA EvictPickFootprint ==
    ASSUME TypeOK, NEW c \in Clients, EvictPick(c)
    PROVE  Footprint
<1>0. /\ pc[c] = "scan" /\ todo' = todo /\ victim' = None /\ sessions' \subseteq sessions
      /\ UNCHANGED <<leader, inner, reused, stray, observed, reaping, runtimes, pending>>
  BY DEF EvictPick, remove_session, osVars, shutdownVars
<1>1. LessWork /\ SameAdmitting
  <2>1. PICK state \in {"evict", "idle"} :
          /\ pc' = [pc EXCEPT ![c] = state]
          /\ at' = at \/ (state = "idle" /\ at' = [at EXCEPT ![c] = None])
    BY DEF EvictPick, GoTo, Return
  <2> QED
    BY <1>0, <2>1, CallMoves DEF TypeOK, Working
<1>2. KnownShrinks
  BY <1>0, <1>1, KnownStep
<1>3. CASE KeepOwnership(TRUE) /\ sessions' = sessions
  <2>1. Neutral
    BY <1>0, <1>1, <1>2, <1>3, NeutralStep DEF KeepOwnership
  <2> QED
    BY <1>3, <2>1 DEF Footprint, KeepOwnership, TypeOK, RegistryTypeOK
<1>4. CASE /\ victim \in sessions /\ is_exited(inner[victim])
           /\ sessions' = sessions \ {victim} /\ release_process_ownership(victim, inner[victim])
  <2>1. victim \in Sessions /\ Known(victim)
    BY <1>4 DEF TypeOK, ManagerTypeOK, Known
  <2>2. is_exited(inner'[victim])
    BY <1>0, <1>4
  <2>3. Owned(victim) /\ released'[victim] /\ faults' >= faults
    BY <1>4, <2>1, <2>2, ReleaseStep
  <2>4. Reaped(victim)
    BY <1>0, <1>4 DEF Reaped, is_exited
  <2> QED
    BY <1>0, <1>1, <1>2, <1>4, <2>1, <2>2, <2>3, <2>4 DEF LooksAt, Footprint
<1> QED
  BY <1>3, <1>4 DEF EvictPick, remove_session

\* One turn of the wait loop keeps what the answer depends on.
LEMMA PollTurnShape ==
    ASSUME TypeOK, NEW c \in Clients, NEW s \in Sessions, NEW idle \in BOOLEAN, NEW yielded \in BOOLEAN,
           NEW o \in reap_exit_code(s), NEW ok \in record_outcomes(s, o), PollTurn(c, s, idle, yielded, o, ok)
    PROVE  /\ Reaped(s) /\ ok \in BOOLEAN
           /\ \E i \in Inner :
                /\ inner'[s] = i
                /\ i.reaped = o.reaped /\ i.members = o.members
                /\ i.require_exit = check_idle(s, idle).require_exit
                /\ i.terminate_started = check_idle(s, idle).terminate_started
                /\ i.timed_out = check_idle(s, idle).timed_out
                /\ i.kill_requested = inner[s].kill_requested
                /\ i.force_killed => inner[s].force_killed \/ i.terminate_started
                /\ \/ /\ ~must_keep_waiting(i) /\ i.reaped
                      /\ pc' = [pc EXCEPT ![c] = "exited"] /\ at' = at
                      /\ reason' = [reason EXCEPT ![c] = process_termination_reason(i)]
                   \/ Return(c)
                   \/ GoTo(c, "poll")
<1> DEFINE i0 == check_idle(s, idle)
           term == i0.terminate_started /\ ~inner[s].terminate_started
           i1 == after_reap(i0, o, ok)
           force == ok /\ forces(s, i1)
           i2 == IF force THEN [i1 EXCEPT !.force_killed = TRUE] ELSE i1
           finished == ok /\ i2.reaped /\ ~must_keep_waiting(i2)
           yields == ok /\ ~i2.reaped /\ yielded /\ ~i2.require_exit
<1>1. o \in Outcome /\ ok \in BOOLEAN
  BY ReapType
<1>2. i0 \in Inner /\ i1 \in Inner /\ inner[s] \in Inner
  BY <1>1, CheckIdleType, AfterReapType DEF TypeOK, RuntimeTypeOK
<1>3. term \in BOOLEAN /\ force \in BOOLEAN /\ i2 \in Inner
  BY <1>2 DEF Inner, forces
<1>4. /\ i1.reaped = o.reaped /\ i1.members = o.members /\ i1.require_exit = i0.require_exit
      /\ i1.terminate_started = i0.terminate_started /\ i1.timed_out = i0.timed_out
      /\ i1.kill_requested = i0.kill_requested /\ i1.force_killed = i0.force_killed
  BY <1>1, <1>2 DEF after_reap, Inner
<1>5. /\ i0.kill_requested = inner[s].kill_requested /\ i0.force_killed = inner[s].force_killed
      /\ inner[s].require_exit => i0.require_exit
  BY <1>2 DEF check_idle, request_termination, Inner
<1>6. force => i1.terminate_started
  BY DEF forces
<1>7. /\ i2.reaped = o.reaped /\ i2.members = o.members /\ i2.require_exit = i0.require_exit
      /\ i2.terminate_started = i0.terminate_started /\ i2.timed_out = i0.timed_out
      /\ i2.kill_requested = inner[s].kill_requested
      /\ i2.force_killed => inner[s].force_killed \/ i2.terminate_started
  <2> HIDE DEF i1, i0
  <2>1. CASE force
    <3>1. i2 = [i1 EXCEPT !.force_killed = TRUE]
      BY <2>1
    <3> QED
      BY <1>2, <1>4, <1>5, <1>6, <2>1, <3>1 DEF Inner
  <2>2. CASE ~force
    <3>1. i2 = i1
      BY <2>2
    <3> QED
      BY <1>2, <1>4, <1>5, <3>1
  <2> QED
    BY <2>1, <2>2
<1>8. /\ Processes(s, o, term, force) /\ inner' = [inner EXCEPT ![s] = i2]
      /\ CASE finished -> /\ pc' = [pc EXCEPT ![c] = "exited"]
                          /\ reason' = [reason EXCEPT ![c] = process_termination_reason(i2)]
                          /\ UNCHANGED <<at, kind>>
           [] ~ok \/ yields -> Return(c)
           [] OTHER -> GoTo(c, "poll")
  BY DEF PollTurn
<1> HIDE DEF i2, i1, i0, term, force
<1>9. Reaped(s)
  BY <1>3, <1>5, <1>7, <1>8, ReapedStep
<1>10. inner'[s] = i2
  BY <1>8 DEF TypeOK, RuntimeTypeOK
<1>11. \/ /\ ~must_keep_waiting(i2) /\ i2.reaped
          /\ pc' = [pc EXCEPT ![c] = "exited"] /\ at' = at
          /\ reason' = [reason EXCEPT ![c] = process_termination_reason(i2)]
       \/ Return(c)
       \/ GoTo(c, "poll")
  <2> HIDE DEF yields
  <2> QED
    BY <1>8
<1> QED
  BY <1>1, <1>3, <1>7, <1>9, <1>10, <1>11 DEF i0

LEMMA PollFootprint ==
    ASSUME TypeOK, NEW c \in Clients, Poll(c)
    PROVE  Footprint
<1> DEFINE s == at[c]
<1>0. /\ s \in Sessions /\ Known(s) /\ pc[c] = "poll"
      /\ UNCHANGED <<observed, sessions, todo, victim, reaping, runtimes, pending>>
  BY DEF Poll, TypeOK, CallTypeOK, SessionStates, Known, Working, managerVars, shutdownVars
<1> HIDE DEF s
<1>1. PICK idle \in BOOLEAN, yielded \in BOOLEAN : \E o \in reap_exit_code(s) :
        \E ok \in record_outcomes(s, o) : PollTurn(c, s, idle, yielded, o, ok)
  BY PollPick DEF s
<1>2. PICK o \in reap_exit_code(s) : \E ok \in record_outcomes(s, o) : PollTurn(c, s, idle, yielded, o, ok)
  BY <1>1
<1>3. PICK ok \in record_outcomes(s, o) : PollTurn(c, s, idle, yielded, o, ok)
  BY <1>2
<1>4. /\ Reaped(s) /\ ok \in BOOLEAN
      /\ \/ pc' = [pc EXCEPT ![c] = "exited"] /\ at' = at
         \/ Return(c)
         \/ GoTo(c, "poll")
  BY <1>0, <1>3, PollTurnShape
<1>5. LessWork /\ SameAdmitting
  <2>1. PICK state \in {"exited", "idle", "poll"} :
          /\ pc' = [pc EXCEPT ![c] = state]
          /\ at' = at \/ (state = "idle" /\ at' = [at EXCEPT ![c] = None])
    BY <1>4 DEF GoTo, Return
  <2> QED
    BY <1>0, <2>1, CallMoves DEF TypeOK, Working
<1>6. KnownShrinks
  BY <1>0, <1>5, KnownStep
<1>7. Owned(s) /\ faults' >= faults
  BY <1>0, <1>3, <1>4, KeepStep DEF PollTurn
<1> QED
  BY <1>0, <1>4, <1>5, <1>6, <1>7, LookStep

LEMMA CleanupFootprint ==
    ASSUME TypeOK, NEW c \in Clients, Cleanup(c)
    PROVE  Footprint
<1> DEFINE s == at[c]
<1>0. /\ s \in Sessions /\ Known(s) /\ pc[c] = "exited" /\ Return(c)
      /\ UNCHANGED <<observed, todo, victim, reaping, runtimes, pending>>
  BY DEF Cleanup, TypeOK, CallTypeOK, SessionStates, Known, Working, shutdownVars
<1>1. PICK o \in reap_exit_code(s) : \E ok \in record_outcomes(s, o) :
        LET i == after_reap(inner[s], o, ok) IN
        /\ Processes(s, o, FALSE, FALSE)
        /\ inner' = [inner EXCEPT ![s] = i]
        /\ IF ok THEN remove_session(s, i) ELSE KeepOwnership(ok) /\ UNCHANGED sessions
  BY DEF Cleanup
<1>2. PICK ok \in record_outcomes(s, o) :
        LET i == after_reap(inner[s], o, ok) IN
        /\ Processes(s, o, FALSE, FALSE)
        /\ inner' = [inner EXCEPT ![s] = i]
        /\ IF ok THEN remove_session(s, i) ELSE KeepOwnership(ok) /\ UNCHANGED sessions
  BY <1>1
<1> DEFINE i == after_reap(inner[s], o, ok)
<1> HIDE DEF s
<1>3. Reaped(s) /\ ok \in BOOLEAN /\ inner'[s] = i
  BY <1>0, <1>2, ReapingTurn
<1>4. LessWork /\ SameAdmitting
  BY <1>0, CallMoves DEF Return, TypeOK, Working
<1>5. sessions' \subseteq sessions
  BY <1>2 DEF remove_session
<1>6. KnownShrinks
  BY <1>0, <1>4, <1>5, KnownStep
<1>7. \/ sessions' = sessions /\ \E known \in BOOLEAN : KeepOwnership(known)
      \/ is_exited(i) /\ sessions' = sessions \ {s} /\ release_process_ownership(s, i)
  BY <1>2, <1>3 DEF remove_session
<1> HIDE DEF i
<1>8. CASE sessions' = sessions /\ \E known \in BOOLEAN : KeepOwnership(known)
  <2>1. Owned(s) /\ faults' >= faults
    BY <1>0, <1>8, KeepStep
  <2> QED
    BY <1>0, <1>3, <1>4, <1>6, <1>8, <2>1, LookStep
<1>9. CASE is_exited(i) /\ sessions' = sessions \ {s} /\ release_process_ownership(s, i)
  <2>1. Owned(s) /\ faults' >= faults /\ released'[s]
    BY <1>0, <1>3, <1>9, ReleaseStep
  <2> QED
    BY <1>0, <1>3, <1>4, <1>5, <1>6, <1>9, <2>1 DEF LooksAt, Footprint
<1> QED
  BY <1>7, <1>8, <1>9

\* What the passes of shutdown_all leave alone.
LEMMA PassKeeps ==
    ASSUME TypeOK, NEW s \in Sessions, ShutdownSignal(s) \/ ShutdownWait(s) \/ ShutdownForce(s)
    PROVE  /\ Known(s) /\ s \in pending /\ pending' = pending \ {s} /\ runtimes' = runtimes
           /\ LessWork /\ SameAdmitting /\ KnownShrinks
           /\ observed' = observed /\ sessions' = sessions
<1>1. /\ s \in pending /\ pending' = pending \ {s} /\ runtimes' = runtimes
      /\ observed' = observed /\ reaping' = reaping /\ UNCHANGED managerVars /\ UNCHANGED clientVars
  BY DEF ShutdownSignal, ShutdownWait, ShutdownForce
<1>2. LessWork /\ SameAdmitting
  BY <1>1, CallsStay
<1>3. KnownShrinks
  BY <1>1, <1>2, KnownStep DEF managerVars
<1> QED
  BY <1>1, <1>2, <1>3 DEF Known, managerVars

\* One runtime of a pass; flags are set on one that is not gone.
LEMMA SignalTurn ==
    ASSUME TypeOK, NEW s \in Sessions, ShutdownSignal(s)
    PROVE  /\ Reaped(s) /\ Owned(s) /\ faults' >= faults
           /\ sd' = "failed" \/ (sd' = sd /\ (is_exited(inner'[s]) \/ inner'[s].require_exit))
           /\ \/ /\ inner'[s].timed_out = inner[s].timed_out
                 /\ inner'[s].kill_requested = inner[s].kill_requested
                 /\ inner'[s].terminate_started = inner[s].terminate_started
                 /\ inner'[s].force_killed = inner[s].force_killed
                 /\ inner'[s].require_exit = inner[s].require_exit
              \/ inner'[s].require_exit
<1> DEFINE Stop(i1, ok) == ok /\ ~is_exited(i1)
           Flag(i1, ok) == IF Stop(i1, ok)
                           THEN request_termination([i1 EXCEPT !.kill_requested = TRUE, !.require_exit = TRUE])
                           ELSE i1
           Turn(o, ok) ==
             LET i1 == after_reap(inner[s], o, ok) IN
             /\ Processes(s, o, Stop(i1, ok) /\ ~i1.reaped /\ ~i1.terminate_started, FALSE)
             /\ inner' = [inner EXCEPT ![s] = Flag(i1, ok)]
             /\ IF ok /\ is_exited(i1) THEN release_process_ownership(s, i1) ELSE KeepOwnership(ok)
             /\ sd' = IF ok THEN sd ELSE "failed"
<1>1. PICK o \in reap_exit_code(s) : \E ok \in record_outcomes(s, o) : Turn(o, ok)
  BY DEF ShutdownSignal
<1>2. PICK ok \in record_outcomes(s, o) : Turn(o, ok)
  BY <1>1
<1> DEFINE i1 == after_reap(inner[s], o, ok)
           i2 == Flag(i1, ok)
           term == Stop(i1, ok) /\ ~i1.reaped /\ ~i1.terminate_started
<1>3. i1 \in Inner /\ ok \in BOOLEAN /\ inner[s] \in Inner /\ o \in Outcome
  BY ReapType DEF TypeOK, RuntimeTypeOK
<1>4. /\ i1.reaped = o.reaped /\ i1.members = o.members /\ i1.require_exit = inner[s].require_exit
      /\ i1.terminate_started = inner[s].terminate_started /\ i1.timed_out = inner[s].timed_out
      /\ i1.kill_requested = inner[s].kill_requested /\ i1.force_killed = inner[s].force_killed
  BY <1>3 DEF after_reap, Inner
<1>5. i2 \in Inner /\ i2.reaped = i1.reaped /\ i2.members = i1.members
      /\ (i2 = i1 \/ i2.require_exit) /\ (ok /\ ~is_exited(i1) => i2.require_exit)
  <2> HIDE DEF i1
  <2>1. CASE Stop(i1, ok)
    <3>1. i2 = request_termination([i1 EXCEPT !.kill_requested = TRUE, !.require_exit = TRUE])
      BY <2>1
    <3> QED
      BY <1>3, <3>1, FlagsType DEF request_termination, Inner
  <2>2. CASE ~Stop(i1, ok)
    BY <1>3, <2>2
  <2> QED
    BY <2>1, <2>2
<1>6. /\ Processes(s, o, term, FALSE) /\ inner' = [inner EXCEPT ![s] = i2]
      /\ IF ok /\ is_exited(i1) THEN release_process_ownership(s, i1) ELSE KeepOwnership(ok)
      /\ sd' = IF ok THEN sd ELSE "failed"
  BY <1>2
<1>7. term \in BOOLEAN
  OBVIOUS
<1> HIDE DEF i1, i2, term
<1>8. inner[s].require_exit => i2.require_exit
  BY <1>4, <1>5
<1>9. Reaped(s)
  BY <1>4, <1>5, <1>6, <1>7, <1>8, ReapedStep
<1>10. inner'[s] = i2
  BY <1>6 DEF TypeOK, RuntimeTypeOK
<1>11. is_exited(i1) <=> is_exited(i2)
  BY <1>5 DEF is_exited
<1>12. Owned(s) /\ faults' >= faults
  BY <1>3, <1>6, <1>10, <1>11, KeepStep, ReleaseStep
<1> QED
  BY <1>3, <1>4, <1>5, <1>6, <1>9, <1>10, <1>11, <1>12

LEMMA WaitTurn ==
    ASSUME TypeOK, NEW s \in Sessions, ShutdownWait(s)
    PROVE  /\ Reaped(s) /\ Owned(s) /\ faults' >= faults
           /\ sd' = "failed" \/ (sd' = sd /\ (~survivors' => ~survivors /\ is_exited(inner'[s]) /\ released'[s]))
           /\ inner'[s].timed_out = inner[s].timed_out
           /\ inner'[s].kill_requested = inner[s].kill_requested
           /\ inner'[s].terminate_started = inner[s].terminate_started
           /\ inner'[s].force_killed = inner[s].force_killed
           /\ inner'[s].require_exit = inner[s].require_exit
<1>1. PICK o \in reap_exit_code(s) : \E ok \in record_outcomes(s, o) :
        LET i == after_reap(inner[s], o, ok) IN
        /\ Processes(s, o, FALSE, FALSE)
        /\ inner' = [inner EXCEPT ![s] = i]
        /\ IF ok /\ is_exited(i) THEN release_process_ownership(s, i) ELSE KeepOwnership(ok)
        /\ survivors' = (survivors \/ survives(i))
        /\ sd' = IF ok THEN sd ELSE "failed"
  BY DEF ShutdownWait
<1>2. PICK ok \in record_outcomes(s, o) :
        LET i == after_reap(inner[s], o, ok) IN
        /\ Processes(s, o, FALSE, FALSE)
        /\ inner' = [inner EXCEPT ![s] = i]
        /\ IF ok /\ is_exited(i) THEN release_process_ownership(s, i) ELSE KeepOwnership(ok)
        /\ survivors' = (survivors \/ survives(i))
        /\ sd' = IF ok THEN sd ELSE "failed"
  BY <1>1
<1> DEFINE i == after_reap(inner[s], o, ok)
<1>3. i \in Inner /\ inner[s] \in Inner /\ o \in Outcome
  BY ReapType DEF TypeOK, RuntimeTypeOK
<1>4. /\ i.require_exit = inner[s].require_exit
      /\ i.terminate_started = inner[s].terminate_started /\ i.timed_out = inner[s].timed_out
      /\ i.kill_requested = inner[s].kill_requested /\ i.force_killed = inner[s].force_killed
  BY <1>3 DEF after_reap, Inner
<1>5. Reaped(s) /\ ok \in BOOLEAN /\ inner'[s] = i
  BY <1>2, ReapingTurn
<1>6. /\ IF ok /\ is_exited(i) THEN release_process_ownership(s, i) ELSE KeepOwnership(ok)
      /\ survivors' = (survivors \/ survives(i))
      /\ sd' = IF ok THEN sd ELSE "failed"
  BY <1>2
<1> HIDE DEF i
<1>7. Owned(s) /\ faults' >= faults /\ (ok /\ is_exited(i) => released'[s])
  BY <1>5, <1>6, KeepStep, ReleaseStep
<1> QED
  BY <1>4, <1>5, <1>6, <1>7 DEF survives

LEMMA ForceTurn ==
    ASSUME TypeOK, NEW s \in Sessions, ShutdownForce(s)
    PROVE  /\ Reaped(s) /\ Owned(s) /\ faults' >= faults
           /\ inner'[s].timed_out = inner[s].timed_out
           /\ inner'[s].kill_requested = inner[s].kill_requested
           /\ inner'[s].terminate_started = inner[s].terminate_started
           /\ inner'[s].require_exit = inner[s].require_exit
           /\ inner'[s].force_killed => inner[s].force_killed \/ ~is_exited(inner'[s])
<1> DEFINE Kills(i, ok) == ok /\ ~is_exited(i)
           Flag(i, ok) == IF Kills(i, ok) THEN [i EXCEPT !.force_killed = TRUE] ELSE i
           Turn(o, ok) ==
             LET i == after_reap(inner[s], o, ok) IN
             /\ Processes(s, o, FALSE, Kills(i, ok))
             /\ inner' = [inner EXCEPT ![s] = Flag(i, ok)]
             /\ KeepOwnership(ok)
<1>1. PICK o \in reap_exit_code(s) : \E ok \in record_outcomes(s, o) : Turn(o, ok)
  BY DEF ShutdownForce
<1>2. PICK ok \in record_outcomes(s, o) : Turn(o, ok)
  BY <1>1
<1> DEFINE i1 == after_reap(inner[s], o, ok)
           i2 == Flag(i1, ok)
           force == Kills(i1, ok)
<1>3. i1 \in Inner /\ ok \in BOOLEAN /\ inner[s] \in Inner /\ o \in Outcome
  BY ReapType DEF TypeOK, RuntimeTypeOK
<1>4. /\ i1.reaped = o.reaped /\ i1.members = o.members /\ i1.require_exit = inner[s].require_exit
      /\ i1.terminate_started = inner[s].terminate_started /\ i1.timed_out = inner[s].timed_out
      /\ i1.kill_requested = inner[s].kill_requested /\ i1.force_killed = inner[s].force_killed
  BY <1>3 DEF after_reap, Inner
<1>5. /\ i2 \in Inner /\ i2.reaped = i1.reaped /\ i2.members = i1.members
      /\ i2.require_exit = i1.require_exit /\ i2.terminate_started = i1.terminate_started
      /\ i2.timed_out = i1.timed_out /\ i2.kill_requested = i1.kill_requested
      /\ i2.force_killed => i1.force_killed \/ ~is_exited(i1)
  <2> HIDE DEF i1
  <2>1. CASE Kills(i1, ok)
    <3>1. i2 = [i1 EXCEPT !.force_killed = TRUE] /\ ~is_exited(i1)
      BY <2>1
    <3> QED
      BY <1>3, <3>1 DEF Inner
  <2>2. CASE ~Kills(i1, ok)
    BY <1>3, <2>2
  <2> QED
    BY <2>1, <2>2
<1>6. Processes(s, o, FALSE, force) /\ inner' = [inner EXCEPT ![s] = i2] /\ KeepOwnership(ok)
  BY <1>2
<1>7. force \in BOOLEAN
  BY <1>3
<1> HIDE DEF i1, i2, force
<1>8. Reaped(s)
  BY <1>4, <1>5, <1>6, <1>7, ReapedStep
<1>9. inner'[s] = i2
  BY <1>6 DEF TypeOK, RuntimeTypeOK
<1>10. Owned(s) /\ faults' >= faults
  BY <1>3, <1>6, KeepStep
<1>11. is_exited(i1) <=> is_exited(i2)
  BY <1>5 DEF is_exited
<1> QED
  BY <1>4, <1>5, <1>8, <1>9, <1>10, <1>11

LEMMA ShutdownFootprint ==
    ASSUME TypeOK, ShutdownClose \/ ShutdownStep
    PROVE  Footprint
<1>1. ASSUME NEW s \in Sessions, ShutdownSignal(s) \/ ShutdownWait(s) \/ ShutdownForce(s) PROVE Footprint
  BY <1>1, PassKeeps, SignalTurn, WaitTurn, ForceTurn, LookStep
<1>2. ASSUME UNCHANGED clientVars, UNCHANGED <<todo, victim, reaping>>, sessions' \subseteq sessions,
             runtimes' \subseteq runtimes \cup sessions,
             pending' \subseteq pending \cup runtimes \cup sessions
      PROVE  LessWork /\ SameAdmitting /\ KnownShrinks
  BY <1>2, CallsStay, KnownStep
<1>3. ASSUME UNCHANGED clientVars, UNCHANGED <<todo, victim, reaping, sessions>>,
             runtimes' \subseteq runtimes \cup sessions,
             pending' \subseteq pending \cup runtimes \cup sessions,
             UNCHANGED <<inner, leader, reused, observed, released, ends, evidence, registry, stray, faults>>
      PROVE  Footprint
  <2>1. LessWork /\ SameAdmitting /\ KnownShrinks
    BY <1>2, <1>3
  <2>2. Neutral
    BY <1>3, <2>1, NeutralStep
  <2> QED
    BY <1>3, <2>2 DEF Footprint, TypeOK, RegistryTypeOK
<1>4. ASSUME \/ ShutdownClose \/ ShutdownBarrier \/ ShutdownSnapshot \/ ShutdownStartWait
             \/ \E s \in Sessions : ShutdownContended(s)
      PROVE  Footprint
  BY <1>3, <1>4 DEF ShutdownClose, ShutdownBarrier, ShutdownSnapshot, ShutdownStartWait, ShutdownContended,
     osVars, sessionVars, managerVars, registryVars, clientVars, shutdownVars
<1>5. ASSUME ShutdownPassEnd PROVE Footprint
  <2>1. /\ UNCHANGED clientVars /\ UNCHANGED <<todo, victim, reaping, runtimes>>
        /\ pending' \subseteq pending \cup runtimes
        /\ UNCHANGED <<inner, leader, reused, observed, released, ends, evidence, registry, stray, faults>>
        /\ sd \in {"grace", "final"} /\ pending = {}
        /\ sessions' = sessions \/ (sessions' = {} /\ ~survivors)
    BY <1>5 DEF ShutdownPassEnd, osVars, sessionVars, registryVars, clientVars
  <2>2. CASE sessions' = sessions
    BY <1>3, <2>1, <2>2
  <2>3. CASE sessions' = {} /\ ~survivors
    <3>1. LessWork /\ SameAdmitting /\ KnownShrinks
      BY <1>2, <2>1, <2>3
    <3> QED
      BY <2>1, <2>3, <3>1 DEF Emptied, Footprint, TypeOK, RegistryTypeOK
  <2> QED
    BY <2>1, <2>2, <2>3
<1> QED
  BY <1>1, <1>4, <1>5 DEF ShutdownStep

LEMMA FootprintStep == TypeOK /\ BarrierInv /\ [Next]_vars => Footprint
<1> SUFFICES ASSUME TypeOK, BarrierInv, [Next]_vars PROVE Footprint
  OBVIOUS
<1>1. ASSUME NEW c \in Clients, NewCall(c) \/ ClientStep(c) \/ WriteInput(c) PROVE Footprint
  BY <1>1, NewCallFootprint, AdmitFootprint, FlagsFootprint, SpawnFootprint, RegisterFootprint,
     RegisterFailsFootprint, RollbackFootprint, EvictProbeFootprint, EvictPickFootprint, PollFootprint,
     CleanupFootprint DEF ClientStep
<1> QED
  BY <1>1, EnvironmentFootprint, ReaperFootprint, ShutdownFootprint DEF Next

-----------------------------------------------------------------------------
(* The life of a session *)

\* An end is final, and so is a commitment to wait for it.
LEMMA Monotone ==
    ASSUME Footprint
    PROVE  \A t \in Sessions : /\ is_exited(inner[t]) => is_exited(inner'[t])
                               /\ released[t] => released'[t]
                               /\ inner[t].require_exit => inner'[t].require_exit
<1>1. ASSUME Neutral \/ Emptied, NEW t \in Sessions
      PROVE  /\ is_exited(inner[t]) => is_exited(inner'[t])
             /\ released[t] => released'[t]
             /\ inner[t].require_exit => inner'[t].require_exit
  BY <1>1 DEF Neutral, Emptied, Quiet, OwnershipKept, is_exited
<1>2. ASSUME NEW s \in Sessions, LooksAt(s), NEW t \in Sessions
      PROVE  /\ is_exited(inner[t]) => is_exited(inner'[t])
             /\ released[t] => released'[t]
             /\ inner[t].require_exit => inner'[t].require_exit
  <2>1. is_exited(inner[t]) => is_exited(inner'[t])
    BY <1>2 DEF LooksAt, Reaped, is_exited
  <2>2. released[t] => released'[t]
    BY <1>2 DEF LooksAt, Owned, OwnershipKept, EndRecorded
  <2>3. inner[t].require_exit => inner'[t].require_exit
    BY <1>2 DEF LooksAt, Reaped
  <2> QED
    BY <2>1, <2>2, <2>3
<1>3. ASSUME NEW s \in Sessions, Spawned(s) \/ Registered(s) \/ NotRegistered(s) \/ RolledBack(s)
      PROVE  inner' = inner /\ released' = released
  BY <1>3 DEF Spawned, Registered, NotRegistered, RolledBack, Apart
<1> QED
  BY <1>1, <1>2, <1>3 DEF Footprint

\* A session the step is not about.
LEMMA QuietInv ==
    ASSUME NEW s \in Sessions, MapInv(s), EndInv(s), Quiet(s), Known(s)' => Known(s),
           Admitting(s)' <=> Admitting(s), faults' >= faults, faults \in Nat, faults' \in Nat
    PROVE  MapInv(s)' /\ EndInv(s)'
<1>1. /\ inner'[s].reaped = inner[s].reaped /\ inner'[s].members = inner[s].members
      /\ leader'[s] = leader[s] \/ {leader[s], leader'[s]} \subseteq Live
      /\ observed'[s] = observed[s] /\ (s \in sessions' <=> s \in sessions)
      /\ OwnershipKept(s)
  BY DEF Quiet
<1>2. "reaped" \notin Live /\ "none" \notin Live
  BY DEF Live
<1>3. leader'[s] = "none" \/ Admitting(s)' => Unborn(s)'
  <2> SUFFICES ASSUME leader'[s] = "none" \/ Admitting(s)' PROVE Unborn(s)'
    OBVIOUS
  <2>1. Unborn(s)
    BY <1>1, <1>2 DEF MapInv
  <2>2. inner'[s] = inner[s] /\ ~Known(s)'
    BY <2>1 DEF Unborn, Quiet
  <2> QED
    BY <1>1, <2>1, <2>2 DEF Unborn, OwnershipKept
<1>4. reused'[s] => inner'[s].reaped
  BY <1>1 DEF Quiet, MapInv
<1>5. MapInv(s)'
  BY <1>1, <1>2, <1>3, <1>4 DEF MapInv
<1>6. is_exited(inner'[s]) <=> is_exited(inner[s])
  BY <1>1 DEF is_exited
<1>7. EndInv(s)'
  BY <1>1, <1>6 DEF EndInv, OwnershipKept
<1> QED
  BY <1>5, <1>7

LEMMA LooksAtInv ==
    ASSUME TypeOK, TypeOK', NEW s \in Sessions, MapInv(s), EndInv(s), LooksAt(s), faults' >= faults
    PROVE  MapInv(s)' /\ EndInv(s)'
<1>0. "reaped" \notin Live /\ "none" \notin Live /\ faults \in Nat /\ faults' \in Nat
  BY DEF Live, TypeOK, RegistryTypeOK
<1>1. Known(s) /\ (Known(s)' => Known(s)) /\ ~Admitting(s) /\ ~Admitting(s)' /\ leader[s] # "none"
  BY DEF LooksAt, KnownShrinks, SameAdmitting, MapInv, Unborn
<1>2. /\ observed'[s] = observed[s] /\ reused'[s] = reused[s]
      /\ s \in sessions' => s \in sessions
      /\ s \in sessions /\ s \notin sessions' => is_exited(inner'[s]) /\ released'[s]
  BY DEF LooksAt, Reaped
<1>3. is_exited(inner[s]) => is_exited(inner'[s])
  BY DEF LooksAt, Reaped, is_exited
<1>4. MapInv(s)'
  <2>1. CASE inner[s].reaped
    <3>1. leader[s] = "reaped" /\ leader'[s] = "reaped" /\ inner'[s].reaped
          /\ (inner[s].members = {} => inner'[s].members = {})
      BY <1>0, <2>1 DEF MapInv, LooksAt, Reaped
    <3> QED
      BY <1>0, <1>1, <1>2, <3>1 DEF MapInv, is_exited
  <2>2. CASE ~inner[s].reaped
    <3>1. leader[s] \in Live /\ s \in sessions /\ ~reused[s]
      BY <1>0, <1>1, <2>2 DEF MapInv, LooksAt, Reaped
    <3>2. \/ inner'[s].reaped /\ leader'[s] = "reaped"
          \/ ~inner'[s].reaped /\ leader'[s] \in Live /\ s \in sessions'
      BY <1>2, <2>2, <3>1 DEF LooksAt, Reaped, is_exited
    <3> QED
      BY <1>0, <1>1, <1>2, <3>1, <3>2 DEF MapInv, is_exited
  <2> QED
    BY <2>1, <2>2
<1>5. EndInv(s)'
  <2>1. CASE OwnershipKept(s)
    BY <1>0, <1>1, <1>2, <1>3, <2>1 DEF EndInv, OwnershipKept
  <2>2. CASE EndRecorded(s)
    <3>1. is_exited(inner'[s]) /\ released'[s]
      BY <2>2 DEF EndRecorded
    <3>2. CASE released[s] \/ ~observed[s]
      <4>1. ends'[s] = ends[s] /\ evidence'[s] = evidence[s] /\ (s \in registry' <=> s \in registry)
        BY <2>2, <3>2 DEF EndRecorded
      <4> QED
        BY <1>0, <1>1, <1>2, <3>1, <3>2, <4>1 DEF EndInv
    <3>3. CASE ~released[s] /\ observed[s]
      <4>1. ends'[s] = 1 /\ (s \in registry' => s \in registry /\ faults' > 0)
        BY <1>1, <2>2, <3>3 DEF EndRecorded, EndInv
      <4> QED
        BY <1>0, <1>1, <1>2, <3>1, <3>3, <4>1 DEF EndInv
    <3> QED
      BY <3>2, <3>3
  <2> QED
    BY <2>1, <2>2 DEF LooksAt, Owned
<1> QED
  BY <1>4, <1>5

\* The session that is being admitted.
LEMMA AdmissionInv ==
    ASSUME TypeOK, TypeOK', NEW s \in Sessions, MapInv(s), EndInv(s), faults' >= faults,
           Spawned(s) \/ Registered(s) \/ NotRegistered(s) \/ RolledBack(s)
    PROVE  MapInv(s)' /\ EndInv(s)'
<1>0. /\ "reaped" \notin Live /\ "none" \notin Live /\ {"running", "killed"} \subseteq Live
      /\ "incomplete" \notin Reasons
      /\ faults \in Nat /\ faults' \in Nat
  BY DEF Live, Reasons, TypeOK, RegistryTypeOK
<1>1. Unborn(s)
  BY DEF MapInv, Spawned, Registered, NotRegistered, RolledBack
<1>2. /\ inner'[s] = FreshInner /\ ~inner'[s].reaped /\ inner'[s].members = {} /\ ~is_exited(inner'[s])
      /\ ~released'[s] /\ ~reused'[s] /\ evidence[s] \notin Reasons
      /\ ends[s] = 0 /\ s \notin sessions /\ s \notin registry
  <2>1. inner'[s] = FreshInner /\ inner[s] = FreshInner /\ released'[s] = released[s] /\ reused'[s] = reused[s]
    BY <1>1 DEF Spawned, Registered, NotRegistered, RolledBack, Apart, Unborn
  <2>2. ~FreshInner.reaped /\ FreshInner.members = {} /\ ~is_exited(FreshInner)
    BY DEF FreshInner, is_exited
  <2>3. ~reused[s] /\ evidence[s] \notin Reasons
    BY <2>1, <2>2 DEF MapInv, EndInv
  <2> QED
    BY <1>1, <2>1, <2>2, <2>3 DEF Unborn, Known
<1>3. CASE Spawned(s)
  <2>1. /\ leader'[s] = "running" /\ Admitting(s)' /\ observed'[s] = observed[s] /\ s \notin sessions'
        /\ ends'[s] = 0 /\ evidence'[s] \notin Reasons /\ s \notin registry' /\ ~Known(s)'
    BY <1>1, <1>2, <1>3 DEF Spawned, OwnershipKept, KnownShrinks, Unborn
  <2>2. Unborn(s)'
    BY <1>2, <2>1 DEF Unborn
  <2> QED
    BY <1>0, <1>2, <2>1, <2>2 DEF MapInv, EndInv
<1>4. CASE Registered(s)
  <2>1. /\ leader'[s] = leader[s] /\ leader[s] \in Live /\ ~Admitting(s)' /\ s \in sessions'
        /\ ends'[s] = 0 /\ evidence'[s] \notin Reasons /\ (s \in registry' <=> observed'[s])
    BY <1>2, <1>4 DEF Registered, MapInv
  <2> QED
    BY <1>0, <1>2, <2>1 DEF MapInv, EndInv
<1>5. CASE NotRegistered(s)
  <2>1. /\ leader'[s] \in Live /\ Admitting(s)' /\ s \notin sessions'
        /\ ends'[s] = 0 /\ evidence'[s] \notin Reasons /\ s \notin registry' /\ ~Known(s)'
    BY <1>0, <1>1, <1>2, <1>5 DEF NotRegistered, MapInv, OwnershipKept, KnownShrinks, Unborn
  <2>2. Unborn(s)'
    BY <1>2, <2>1 DEF Unborn
  <2> QED
    BY <1>0, <1>2, <2>1, <2>2 DEF MapInv, EndInv
<1>6. CASE RolledBack(s)
  <2>1. /\ leader'[s] = "reaped" /\ ~Admitting(s)' /\ s \notin sessions' /\ ~Known(s)'
        /\ evidence'[s] \notin Reasons /\ s \notin registry' /\ observed'[s] = observed[s]
        /\ ends'[s] = IF observed[s] THEN 1 ELSE 0
    BY <1>0, <1>1, <1>2, <1>6 DEF RolledBack, OwnershipKept, KnownShrinks, Unborn
  <2> QED
    BY <1>0, <1>2, <2>1 DEF MapInv, EndInv
<1> QED
  BY <1>3, <1>4, <1>5, <1>6

LEMMA LivesStep ==
    ASSUME TypeOK, TypeOK', BarrierInv, PassInv, Footprint, \A t \in Sessions : MapInv(t) /\ EndInv(t)
    PROVE  \A t \in Sessions : MapInv(t)' /\ EndInv(t)'
<1>0. faults' >= faults /\ faults \in Nat /\ faults' \in Nat
  BY DEF Footprint, TypeOK, RegistryTypeOK
<1>1. CASE Neutral
  BY <1>0, <1>1, QuietInv DEF Neutral, KnownShrinks, SameAdmitting
<1>2. CASE Emptied
  <2>1. \A t \in sessions : is_exited(inner[t]) /\ released[t]
    BY <1>2 DEF Emptied, BarrierInv, PassInv, PassedAreEnded, TypeOK, ManagerTypeOK
  <2> SUFFICES ASSUME NEW t \in Sessions PROVE MapInv(t)' /\ EndInv(t)'
    OBVIOUS
  <2>2. /\ Known(t)' => Known(t)
        /\ Admitting(t)' <=> Admitting(t)
        /\ t \notin sessions'
        /\ UNCHANGED <<inner, leader, reused, observed, released, ends, evidence, registry>>
    BY <1>2 DEF Emptied, KnownShrinks, SameAdmitting
  <2>3. "reaped" \notin Live
    BY DEF Live
  <2>4. Unborn(t) => Unborn(t)'
    BY <2>2 DEF Unborn
  <2>5. CASE t \in sessions
    <3>1. inner[t].reaped /\ inner[t].members = {} /\ released[t] /\ MapInv(t) /\ EndInv(t)
      BY <2>1, <2>5 DEF is_exited
    <3>2. leader[t] = "reaped"
      BY <3>1 DEF MapInv
    <3>3. MapInv(t)'
      BY <2>2, <2>3, <2>4, <3>1, <3>2 DEF MapInv
    <3>4. EndInv(t)'
      BY <1>0, <2>2, <3>1 DEF EndInv
    <3> QED
      BY <3>3, <3>4
  <2>6. CASE t \notin sessions
    BY <1>0, <2>2, <2>4, <2>6 DEF MapInv, EndInv
  <2> QED
    BY <2>5, <2>6
<1>3. ASSUME NEW s \in Sessions, LooksAt(s) PROVE \A t \in Sessions : MapInv(t)' /\ EndInv(t)'
  <2>1. MapInv(s)' /\ EndInv(s)'
    BY <1>0, <1>3, LooksAtInv
  <2>2. ASSUME NEW t \in Sessions \ {s} PROVE MapInv(t)' /\ EndInv(t)'
    <3>1. Quiet(t)
      BY <1>3 DEF LooksAt, Reaped, Owned, Quiet
    <3>2. (Known(t)' => Known(t)) /\ (Admitting(t)' <=> Admitting(t))
      BY <1>3 DEF LooksAt, KnownShrinks, SameAdmitting
    <3> QED
      BY <1>0, <3>1, <3>2, QuietInv
  <2> QED
    BY <2>1, <2>2
<1>4. ASSUME NEW s \in Sessions, Spawned(s) \/ Registered(s) \/ NotRegistered(s) \/ RolledBack(s)
      PROVE  \A t \in Sessions : MapInv(t)' /\ EndInv(t)'
  <2>1. MapInv(s)' /\ EndInv(s)'
    BY <1>0, <1>4, AdmissionInv
  <2>2. Apart(s)
    BY <1>4 DEF Spawned, Registered, NotRegistered, RolledBack
  <2>3. ASSUME NEW t \in Sessions \ {s} PROVE MapInv(t)' /\ EndInv(t)'
    BY <1>0, <2>2, QuietInv DEF Apart
  <2> QED
    BY <2>1, <2>3
<1> QED
  BY <1>1, <1>2, <1>3, <1>4 DEF Footprint

\* An error of one runtime ends shutdown_all, nothing else in a pass does.
LEMMA PassEnding ==
    ASSUME NEW s \in Sessions, ShutdownSignal(s) \/ ShutdownWait(s) \/ ShutdownForce(s)
    PROVE  sd' = sd \/ sd' = "failed"
<1>1. CASE ShutdownSignal(s)
  BY <1>1 DEF ShutdownSignal
<1>2. CASE ShutdownWait(s)
  BY <1>2 DEF ShutdownWait
<1>3. CASE ShutdownForce(s)
  BY <1>3 DEF ShutdownForce
<1> QED
  BY <1>1, <1>2, <1>3

\* The map is empty when shutdown_all returns Ok, and nobody adds to it any more.
LEMMA DoneStep ==
    ASSUME TypeOK, TypeOK', BarrierInv, Footprint, sd = "done" => sessions = {}, [Next]_vars, sd' = "done"
    PROVE  sessions' = {}
<1>1. sd = "done" \/ sessions' = {}
  <2>1. CASE OperatingSystem \/ Timers
    BY <2>1 DEF OperatingSystem, Timers, LeaderExits, ReuseGroupId, MemberExits, Fork, GraceElapses,
       DeadlineElapses, shutdownVars
  <2>2. ASSUME NEW s \in Sessions, ReaperStep(s) \/ CountProbe(s) PROVE sd = "done"
    BY <2>2 DEF ReaperStep, CountProbe, shutdownVars
  <2>3. ASSUME NEW c \in Clients, NewCall(c) \/ ClientStep(c) \/ WriteInput(c) PROVE sd = "done"
    BY <2>3 DEF NewCall, ClientStep, ExecBegin, WriteStdin, ExecAdmit, EvictIfNeeded, EvictProbe, EvictPick,
       Spawn, SpawnFails, Register, RegisterFails, Rollback, InitialWait, ContinueSession, WriteInput, Poll,
       Cleanup, shutdownVars
  <2>4. CASE ShutdownClose \/ ShutdownStep
    <3>1. ASSUME NEW s \in Sessions, ShutdownSignal(s) \/ ShutdownWait(s) \/ ShutdownForce(s) PROVE sd = "done"
      BY <3>1, PassEnding
    <3>2. ASSUME NEW s \in Sessions, ShutdownContended(s) PROVE sd = "done"
      BY <3>2 DEF ShutdownContended
    <3>3. CASE ShutdownClose \/ ShutdownBarrier \/ ShutdownSnapshot \/ ShutdownStartWait
      BY <3>3 DEF ShutdownClose, ShutdownBarrier, ShutdownSnapshot, ShutdownStartWait
    <3>4. CASE ShutdownPassEnd
      BY <3>4 DEF ShutdownPassEnd
    <3> QED
      BY <2>4, <3>1, <3>2, <3>3, <3>4 DEF ShutdownStep
  <2>5. CASE UNCHANGED vars
    BY <2>5 DEF vars, shutdownVars
  <2> QED
    BY <2>1, <2>2, <2>3, <2>4, <2>5 DEF Next
<1>2. CASE sd = "done"
  <2>1. \A s \in Sessions : ~Admitting(s)
    BY <1>2, SessionManagerAssumption DEF BarrierInv, LockHeld, Admitting, AdmissionStates
  <2>2. \A s \in Sessions : ~Registered(s)
    BY <2>1 DEF Registered
  <2>3. sessions' \subseteq sessions
    <3>1. sessions' \subseteq Sessions
      BY DEF TypeOK, ManagerTypeOK
    <3>2. CASE Emptied
      BY <3>2 DEF Emptied
    <3>3. ASSUME NEW s \in Sessions, LooksAt(s) \/ Spawned(s) \/ NotRegistered(s) \/ RolledBack(s)
          PROVE sessions' \subseteq sessions
      BY <3>3 DEF LooksAt, Spawned, NotRegistered, RolledBack
    <3>4. CASE Neutral
      BY <3>1, <3>4 DEF Neutral, Quiet
    <3> QED
      BY <2>2, <3>2, <3>3, <3>4 DEF Footprint
  <2> QED
    BY <1>2, <2>3
<1> QED
  BY <1>1, <1>2

-----------------------------------------------------------------------------
(* The passes of shutdown_all *)

\* A flag of a session is set only together with the commitment to wait for its
\* end; the force kill of a session follows an earlier flag.
FlagsStay(s) ==
    \/ /\ inner'[s].timed_out => inner[s].timed_out
       /\ inner'[s].kill_requested => inner[s].kill_requested
       /\ inner'[s].terminate_started => inner[s].terminate_started
       /\ inner'[s].force_killed => inner[s].force_killed \/ inner[s].terminate_started
       /\ inner[s].require_exit => inner'[s].require_exit
    \/ inner'[s].require_exit

LEMMA FlagsStep ==
    ASSUME FlagsCommit, \A s \in Sessions : inner'[s] = inner[s] \/ FlagsStay(s)
    PROVE  FlagsCommit'
BY DEF FlagsCommit, FlagsStay

\* A turn of a reaper, a count, a probe of eviction or a cleanup sets no flag.
LEMMA ReapFlags ==
    ASSUME TypeOK, FlagsCommit, NEW s \in Sessions, NEW o \in reap_exit_code(s),
           NEW ok \in record_outcomes(s, o),
           inner' = [inner EXCEPT ![s] = after_reap(inner[s], o, ok)]
    PROVE  FlagsCommit'
<1>1. o \in Outcome /\ ok \in BOOLEAN /\ inner[s] \in Inner
  BY ReapType DEF TypeOK, RuntimeTypeOK
<1>2. inner'[s] = after_reap(inner[s], o, ok) /\ \A t \in Sessions \ {s} : inner'[t] = inner[t]
  BY DEF TypeOK, RuntimeTypeOK
<1>3. FlagsStay(s)
  BY <1>1, <1>2 DEF FlagsStay, after_reap, Inner
<1> QED
  BY <1>2, <1>3, FlagsStep

\* What one turn of a call may do to the session it waits on.
LEMMA PollFlags ==
    ASSUME TypeOK, FlagsCommit, NEW c \in Clients, Poll(c)
    PROVE  /\ FlagsCommit'
           /\ \/ /\ pc' = [pc EXCEPT ![c] = "exited"] /\ at' = at
                 /\ reason' = [reason EXCEPT ![c] = process_termination_reason(inner'[at[c]])]
                 /\ inner'[at[c]].reaped /\ ~must_keep_waiting(inner'[at[c]])
              \/ Return(c)
              \/ GoTo(c, "poll")
<1> DEFINE s == at[c]
<1>0. s \in Sessions
  BY DEF Poll, TypeOK, CallTypeOK, SessionStates
<1> HIDE DEF s
<1>1. PICK idle \in BOOLEAN, yielded \in BOOLEAN : \E o \in reap_exit_code(s) :
        \E ok \in record_outcomes(s, o) : PollTurn(c, s, idle, yielded, o, ok)
  BY PollPick DEF s
<1>2. PICK o \in reap_exit_code(s) : \E ok \in record_outcomes(s, o) : PollTurn(c, s, idle, yielded, o, ok)
  BY <1>1
<1>3. PICK ok \in record_outcomes(s, o) : PollTurn(c, s, idle, yielded, o, ok)
  BY <1>2
<1>4. PICK i \in Inner :
        /\ inner'[s] = i
        /\ i.require_exit = check_idle(s, idle).require_exit
        /\ i.terminate_started = check_idle(s, idle).terminate_started
        /\ i.timed_out = check_idle(s, idle).timed_out
        /\ i.kill_requested = inner[s].kill_requested
        /\ i.force_killed => inner[s].force_killed \/ i.terminate_started
        /\ \/ /\ ~must_keep_waiting(i) /\ i.reaped
              /\ pc' = [pc EXCEPT ![c] = "exited"] /\ at' = at
              /\ reason' = [reason EXCEPT ![c] = process_termination_reason(i)]
           \/ Return(c)
           \/ GoTo(c, "poll")
  BY <1>0, <1>3, PollTurnShape
<1>5. \A t \in Sessions \ {s} : inner'[t] = inner[t]
  BY <1>0, <1>3 DEF PollTurn, TypeOK, RuntimeTypeOK
<1>6. inner[s] \in Inner
  BY <1>0 DEF TypeOK, RuntimeTypeOK
<1>7. \/ check_idle(s, idle) = inner[s]
      \/ check_idle(s, idle).require_exit
  BY <1>6, FlagsType DEF check_idle, request_termination, Inner
<1>8. FlagsStay(s)
  BY <1>4, <1>7 DEF FlagsStay
<1>9. FlagsCommit'
  BY <1>5, <1>8, FlagsStep
<1> QED
  BY <1>4, <1>9 DEF s

LEMMA FlagsOutside ==
    ASSUME TypeOK, FlagsCommit,
           \/ OperatingSystem \/ Timers \/ UNCHANGED vars
           \/ \E s \in Sessions : ReaperStep(s) \/ CountProbe(s)
           \/ \E c \in Clients : NewCall(c) \/ ClientStep(c) \/ WriteInput(c)
    PROVE  FlagsCommit' /\ UNCHANGED <<sd, runtimes, pending, survivors>>
<1>1. CASE OperatingSystem \/ Timers \/ UNCHANGED vars
  <2>1. inner' = inner /\ UNCHANGED <<sd, runtimes, pending, survivors>>
    BY <1>1 DEF OperatingSystem, Timers, LeaderExits, ReuseGroupId, MemberExits, Fork, GraceElapses,
       DeadlineElapses, vars, sessionVars, shutdownVars
  <2> QED
    BY <2>1, FlagsStep
<1>2. ASSUME NEW s \in Sessions, ReaperStep(s) \/ CountProbe(s)
      PROVE  FlagsCommit' /\ UNCHANGED <<sd, runtimes, pending, survivors>>
  <2>1. \E o \in reap_exit_code(s) : \E ok \in record_outcomes(s, o) :
          inner' = [inner EXCEPT ![s] = after_reap(inner[s], o, ok)]
    BY <1>2 DEF ReaperStep, CountProbe
  <2>2. UNCHANGED <<sd, runtimes, pending, survivors>>
    BY <1>2 DEF ReaperStep, CountProbe, shutdownVars
  <2> QED
    BY <2>1, <2>2, ReapFlags
<1>3. ASSUME NEW c \in Clients, NewCall(c) \/ ClientStep(c) \/ WriteInput(c)
      PROVE  FlagsCommit' /\ UNCHANGED <<sd, runtimes, pending, survivors>>
  <2>1. UNCHANGED <<sd, runtimes, pending, survivors>>
    BY <1>3 DEF NewCall, ClientStep, ExecBegin, WriteStdin, ExecAdmit, EvictIfNeeded, EvictProbe, EvictPick,
       Spawn, SpawnFails, Register, RegisterFails, Rollback, InitialWait, ContinueSession, WriteInput, Poll,
       Cleanup, shutdownVars
  <2>2. CASE NewCall(c) \/ ExecAdmit(c) \/ EvictIfNeeded(c) \/ EvictPick(c) \/ (\E s \in Sessions : Spawn(c, s))
             \/ SpawnFails(c) \/ Register(c) \/ RegisterFails(c) \/ Rollback(c) \/ InitialWait(c)
    <3>1. inner' = inner
      BY <2>2 DEF NewCall, ExecBegin, WriteStdin, ExecAdmit, EvictIfNeeded, EvictPick, Spawn, SpawnFails,
         Register, RegisterFails, Rollback, InitialWait, sessionVars
    <3> QED
      BY <2>1, <3>1, FlagsStep
  <2>3. ASSUME NEW s \in Sessions, EvictProbe(c, s) PROVE FlagsCommit'
    <3>1. \E o \in reap_exit_code(s) : \E ok \in record_outcomes(s, o) :
            inner' = [inner EXCEPT ![s] = after_reap(inner[s], o, ok)]
      BY <2>3 DEF EvictProbe
    <3> QED
      BY <3>1, ReapFlags
  <2>4. CASE Cleanup(c)
    <3>1. PICK s \in Sessions : s = at[c]
      BY <2>4 DEF Cleanup, TypeOK, CallTypeOK, SessionStates
    <3>2. \E o \in reap_exit_code(s) : \E ok \in record_outcomes(s, o) :
            inner' = [inner EXCEPT ![s] = after_reap(inner[s], o, ok)]
      BY <2>4, <3>1 DEF Cleanup
    <3> QED
      BY <2>1, <3>1, <3>2, ReapFlags
  <2>5. CASE ContinueSession(c) \/ WriteInput(c)
    <3>1. PICK s \in Sessions : s = at[c] /\ inner[s] \in Inner /\ inner \in [Sessions -> Inner]
      BY <2>5 DEF ContinueSession, WriteInput, TypeOK, CallTypeOK, SessionStates, RuntimeTypeOK
    <3>2. /\ \/ inner'[s] = request_termination([inner[s] EXCEPT !.kill_requested = TRUE, !.require_exit = TRUE])
             \/ inner'[s] = inner[s]
             \/ inner'[s] = [inner[s] EXCEPT !.input_writer = FALSE]
          /\ \A t \in Sessions \ {s} : inner'[t] = inner[t]
      BY <2>5, <3>1 DEF ContinueSession, WriteInput
    <3>3. ASSUME NEW i \in Inner
          PROVE  /\ request_termination([i EXCEPT !.kill_requested = TRUE, !.require_exit = TRUE]).require_exit
                 /\ [i EXCEPT !.input_writer = FALSE].timed_out = i.timed_out
                 /\ [i EXCEPT !.input_writer = FALSE].kill_requested = i.kill_requested
                 /\ [i EXCEPT !.input_writer = FALSE].terminate_started = i.terminate_started
                 /\ [i EXCEPT !.input_writer = FALSE].force_killed = i.force_killed
                 /\ [i EXCEPT !.input_writer = FALSE].require_exit = i.require_exit
      BY DEF request_termination, Inner
    <3>4. inner'[s] = inner[s] \/ FlagsStay(s)
      BY <3>1, <3>2, <3>3 DEF FlagsStay
    <3> QED
      BY <2>1, <3>2, <3>4, FlagsStep
  <2>6. CASE Poll(c)
    BY <2>1, <2>6, PollFlags
  <2> QED
    BY <1>3, <2>1, <2>2, <2>3, <2>4, <2>5, <2>6 DEF ClientStep
<1> QED
  BY <1>1, <1>2, <1>3

\* Outside shutdown_all only the flags of a session and its end may change.
LEMMA PassStays ==
    ASSUME TypeOK, PassInv, Footprint, FlagsCommit', UNCHANGED <<sd, runtimes, pending, survivors>>
    PROVE  PassInv'
<1>1. runtimes \subseteq Sessions
  BY DEF TypeOK, ShutdownTypeOK
<1>2. Signalled'
  BY <1>1, Monotone DEF PassInv, Signalled
<1>3. PassedAreEnded'
  BY <1>1, Monotone DEF PassInv, PassedAreEnded
<1> QED
  BY <1>2, <1>3 DEF PassInv

LEMMA PassPasses ==
    ASSUME TypeOK, PassInv, Footprint, NEW s \in Sessions,
           ShutdownSignal(s) \/ ShutdownWait(s) \/ ShutdownForce(s)
    PROVE  PassInv'
<1>0. /\ FlagsCommit /\ Signalled /\ PassedAreEnded /\ pending \subseteq runtimes /\ runtimes \subseteq Sessions
      /\ s \in pending /\ pending' = pending \ {s} /\ runtimes' = runtimes
  BY PassKeeps DEF PassInv, TypeOK, ShutdownTypeOK
<1>1. sd' = sd \/ sd' = "failed"
  BY PassEnding
<1>2. CASE ShutdownSignal(s)
  <2>1. sd = "signal" /\ Reaped(s)
    BY <1>2, SignalTurn DEF ShutdownSignal
  <2>2. FlagsStay(s) /\ \A t \in Sessions \ {s} : inner'[t] = inner[t]
    BY <1>2, <2>1, SignalTurn DEF FlagsStay, Reaped
  <2>3. FlagsCommit'
    BY <1>0, <2>2, FlagsStep
  <2>4. sd' = "failed" \/ (sd' = "signal" /\ (is_exited(inner'[s]) \/ inner'[s].require_exit))
    BY <1>2, <2>1, SignalTurn
  <2>5. Signalled'
    BY <1>0, <2>1, <2>4, Monotone DEF Signalled
  <2> QED
    BY <1>0, <2>3, <2>4, <2>5 DEF PassInv, PassedAreEnded
<1>3. CASE ShutdownWait(s)
  <2>1. Reaped(s) /\ sd \in {"grace", "final"}
    BY <1>3, WaitTurn DEF ShutdownWait
  <2>2. FlagsStay(s) /\ \A t \in Sessions \ {s} : inner'[t] = inner[t]
    BY <1>3, <2>1, WaitTurn DEF FlagsStay, Reaped
  <2>3. FlagsCommit'
    BY <1>0, <2>2, FlagsStep
  <2>4. sd' = "failed" \/ (sd' = sd /\ (~survivors' => ~survivors /\ is_exited(inner'[s]) /\ released'[s]))
    BY <1>3, WaitTurn
  <2>5. Signalled'
    BY <1>0, <2>1, <2>4, Monotone DEF Signalled
  <2>6. PassedAreEnded'
    BY <1>0, <2>1, <2>4, Monotone DEF PassedAreEnded
  <2> QED
    BY <1>0, <2>3, <2>5, <2>6 DEF PassInv
<1>4. CASE ShutdownForce(s)
  <2>1. Reaped(s) /\ sd = "force"
    BY <1>4, ForceTurn DEF ShutdownForce
  <2>2. \A t \in Sessions \ {s} : inner'[t] = inner[t]
    BY <2>1 DEF Reaped
  <2>3. is_exited(inner[s]) \/ inner[s].require_exit
    BY <1>0, <2>1 DEF Signalled
  <2>4. (is_exited(inner[s]) => is_exited(inner'[s])) /\ (inner[s].require_exit => inner'[s].require_exit)
    BY Monotone
  <2>5. FlagsStay(s)
    BY <1>4, <2>3, <2>4, ForceTurn DEF FlagsStay
  <2>6. FlagsCommit'
    BY <1>0, <2>2, <2>5, FlagsStep
  <2>7. Signalled'
    BY <1>0, <1>1, <2>1, Monotone DEF Signalled
  <2> QED
    BY <1>0, <1>1, <2>1, <2>6, <2>7 DEF PassInv, PassedAreEnded
<1> QED
  BY <1>2, <1>3, <1>4

LEMMA PassTurns ==
    ASSUME TypeOK, PassInv,
           \/ ShutdownClose \/ ShutdownBarrier \/ ShutdownSnapshot \/ ShutdownStartWait \/ ShutdownPassEnd
           \/ \E s \in Sessions : ShutdownContended(s)
    PROVE  PassInv'
<1>0. FlagsCommit /\ Signalled /\ PassedAreEnded /\ pending \subseteq runtimes
  BY DEF PassInv
<1>1. inner' = inner /\ released' = released
  BY DEF ShutdownClose, ShutdownBarrier, ShutdownSnapshot, ShutdownStartWait, ShutdownPassEnd,
     ShutdownContended, sessionVars
<1>2. FlagsCommit'
  BY <1>0, <1>1, FlagsStep
<1>3. CASE ShutdownClose \/ ShutdownBarrier
  <2>1. sd' \in {"barrier", "snapshot"} /\ runtimes' = runtimes /\ pending' = pending
    BY <1>3 DEF ShutdownClose, ShutdownBarrier
  <2> QED
    BY <1>0, <1>2, <2>1 DEF PassInv, Signalled, PassedAreEnded
<1>4. CASE ShutdownSnapshot
  <2>1. sd' = "signal" /\ runtimes' = sessions /\ pending' = sessions
    BY <1>4 DEF ShutdownSnapshot
  <2> QED
    BY <1>2, <2>1 DEF PassInv, Signalled, PassedAreEnded
<1>5. CASE ShutdownStartWait
  <2>1. /\ sd \in {"signal", "force"} /\ pending = {} /\ sd' \in {"grace", "final"}
        /\ pending' = runtimes /\ runtimes' = runtimes
    BY <1>5 DEF ShutdownStartWait
  <2>2. Signalled'
    BY <1>0, <1>1, <2>1 DEF Signalled
  <2> QED
    BY <1>2, <2>1, <2>2 DEF PassInv, PassedAreEnded
<1>6. CASE ShutdownPassEnd
  <2>1. /\ sd \in {"grace", "final"} /\ pending = {} /\ runtimes' = runtimes
        /\ pending' = runtimes \/ sd' \in {"failed", "done"}
        /\ pending' \subseteq runtimes /\ sd' \in {sd, "force", "failed", "done"}
    BY <1>6 DEF ShutdownPassEnd
  <2>2. Signalled'
    BY <1>0, <1>1, <2>1 DEF Signalled
  <2> QED
    BY <1>2, <2>1, <2>2 DEF PassInv, PassedAreEnded
<1>7. ASSUME NEW s \in Sessions, ShutdownContended(s) PROVE PassInv'
  <2>1. /\ sd \in {"grace", "final"} /\ sd' = sd /\ runtimes' = runtimes /\ survivors'
        /\ pending' = pending \ {s}
    BY <1>7 DEF ShutdownContended
  <2>2. Signalled'
    BY <1>0, <1>1, <2>1 DEF Signalled
  <2> QED
    BY <1>0, <1>2, <2>1, <2>2 DEF PassInv, PassedAreEnded
<1> QED
  BY <1>3, <1>4, <1>5, <1>6, <1>7

\* What the passes of shutdown_all rely on: every flag of a session is set with
\* require_exit_before_return, the SIGTERM pass leaves no uncommitted session behind,
\* and a pass without survivors leaves none that is not ended.
THEOREM PassInvariant == Spec => []PassInv
<1>1. Init => PassInv
  <2> SUFFICES ASSUME Init PROVE PassInv
    OBVIOUS
  <2>1. FlagsCommit
    BY DEF Init, FlagsCommit, FreshInner
  <2> QED
    BY <2>1 DEF Init, PassInv, Signalled, PassedAreEnded
<1>2. TypeOK /\ BarrierInv /\ PassInv /\ [Next]_vars => PassInv'
  <2> SUFFICES ASSUME TypeOK, BarrierInv, PassInv, [Next]_vars PROVE PassInv'
    OBVIOUS
  <2>1. Footprint
    BY FootprintStep
  <2>2. CASE \/ OperatingSystem \/ Timers \/ UNCHANGED vars
             \/ \E s \in Sessions : ReaperStep(s) \/ CountProbe(s)
             \/ \E c \in Clients : NewCall(c) \/ ClientStep(c) \/ WriteInput(c)
    BY <2>1, <2>2, FlagsOutside, PassStays DEF PassInv
  <2>3. CASE ShutdownClose \/ ShutdownStep
    BY <2>1, <2>3, PassPasses, PassTurns DEF ShutdownStep
  <2> QED
    BY <2>2, <2>3 DEF Next
<1> QED
  BY <1>1, <1>2, TypeCorrect, BarrierInvariant, PTL DEF Spec

-----------------------------------------------------------------------------
(* What the caller is told *)

\* A step of a call that does not end a wait.
LEMMA ReplyCall ==
    ASSUME CallTypeOK, Footprint, TerminatedReplyIsFinal, NEW c \in Clients, NEW state, state # "exited",
           pc' = [pc EXCEPT ![c] = state],
           \A d \in Clients \ {c} : at'[d] = at[d] /\ reason'[d] = reason[d]
    PROVE  TerminatedReplyIsFinal'
<1> SUFFICES ASSUME NEW d \in Clients, pc'[d] = "exited", reason'[d] # "exit" PROVE is_exited(inner'[at'[d]])
  BY DEF TerminatedReplyIsFinal
<1>1. d # c /\ pc[d] = "exited" /\ at'[d] = at[d] /\ reason'[d] = reason[d] /\ at[d] \in Sessions
  BY DEF CallTypeOK, SessionStates
<1>2. is_exited(inner[at[d]])
  BY <1>1 DEF TerminatedReplyIsFinal
<1> QED
  BY <1>1, <1>2, Monotone

LEMMA ReplyStays ==
    ASSUME CallTypeOK, Footprint, TerminatedReplyIsFinal, UNCHANGED clientVars
    PROVE  TerminatedReplyIsFinal'
<1> SUFFICES ASSUME NEW d \in Clients, pc'[d] = "exited", reason'[d] # "exit" PROVE is_exited(inner'[at'[d]])
  BY DEF TerminatedReplyIsFinal
<1>1. pc[d] = "exited" /\ at'[d] = at[d] /\ reason'[d] = reason[d] /\ at[d] \in Sessions
  BY DEF CallTypeOK, SessionStates, clientVars
<1>2. is_exited(inner[at[d]])
  BY <1>1 DEF TerminatedReplyIsFinal
<1> QED
  BY <1>1, <1>2, Monotone

LEMMA ReplyPoll ==
    ASSUME TypeOK, FlagsCommit, Footprint, TerminatedReplyIsFinal, NEW c \in Clients, Poll(c)
    PROVE  TerminatedReplyIsFinal'
<1>0. CallTypeOK /\ at[c] \in Sessions
  BY DEF Poll, TypeOK, CallTypeOK, SessionStates
<1>1. CASE Return(c)
  BY <1>0, <1>1, ReplyCall DEF Return, CallTypeOK
<1>2. CASE GoTo(c, "poll")
  BY <1>0, <1>2, ReplyCall DEF GoTo
<1>3. CASE /\ pc' = [pc EXCEPT ![c] = "exited"] /\ at' = at
           /\ reason' = [reason EXCEPT ![c] = process_termination_reason(inner'[at[c]])]
           /\ inner'[at[c]].reaped /\ ~must_keep_waiting(inner'[at[c]])
  <2> SUFFICES ASSUME NEW d \in Clients, pc'[d] = "exited", reason'[d] # "exit" PROVE is_exited(inner'[at'[d]])
    BY DEF TerminatedReplyIsFinal
  <2>1. CASE d = c
    <3>1. at'[d] = at[c] /\ process_termination_reason(inner'[at[c]]) # "exit"
      BY <1>0, <1>3, <2>1 DEF CallTypeOK
    <3>2. inner'[at[c]].timed_out \/ inner'[at[c]].kill_requested \/ inner'[at[c]].force_killed
      BY <3>1 DEF process_termination_reason
    <3>3. inner'[at[c]].require_exit
      BY <1>0, <3>2, PollFlags DEF FlagsCommit
    <3> QED
      BY <1>3, <3>1, <3>3 DEF must_keep_waiting, is_exited
  <2>2. CASE d # c
    <3>1. pc[d] = "exited" /\ at'[d] = at[d] /\ reason'[d] = reason[d] /\ at[d] \in Sessions
      BY <1>0, <1>3, <2>2 DEF CallTypeOK, SessionStates
    <3>2. is_exited(inner[at[d]])
      BY <3>1 DEF TerminatedReplyIsFinal
    <3> QED
      BY <3>1, <3>2, Monotone
  <2> QED
    BY <2>1, <2>2
<1> QED
  BY <1>1, <1>2, <1>3, PollFlags

LEMMA ReplyStep ==
    ASSUME TypeOK, FlagsCommit, Footprint, TerminatedReplyIsFinal, [Next]_vars
    PROVE  TerminatedReplyIsFinal'
<1>0. CallTypeOK
  BY DEF TypeOK
<1>1. CASE \/ OperatingSystem \/ Timers \/ UNCHANGED vars \/ ShutdownClose \/ ShutdownStep
           \/ \E s \in Sessions : ReaperStep(s) \/ CountProbe(s)
  <2>1. UNCHANGED clientVars
    BY <1>1 DEF OperatingSystem, Timers, LeaderExits, ReuseGroupId, MemberExits, Fork, GraceElapses,
       DeadlineElapses, vars, ReaperStep, CountProbe, ShutdownStep, ShutdownClose, ShutdownBarrier,
       ShutdownSnapshot, ShutdownSignal, ShutdownWait, ShutdownContended, ShutdownForce, ShutdownStartWait,
       ShutdownPassEnd
  <2> QED
    BY <1>0, <2>1, ReplyStays
<1>2. ASSUME NEW c \in Clients, NewCall(c) \/ ClientStep(c) \/ WriteInput(c)
      PROVE  TerminatedReplyIsFinal'
  <2>1. CASE Poll(c)
    BY <2>1, ReplyPoll
  <2>2. ASSUME NEW state, state # "exited", GoTo(c, state) PROVE TerminatedReplyIsFinal'
    BY <1>0, <2>2, ReplyCall DEF GoTo
  <2>3. CASE Return(c)
    BY <1>0, <2>3, ReplyCall DEF Return, CallTypeOK
  <2>4. CASE ExecAdmit(c) \/ EvictIfNeeded(c) \/ (\E s \in Sessions : EvictProbe(c, s)) \/ EvictPick(c)
             \/ SpawnFails(c) \/ Register(c) \/ RegisterFails(c) \/ Rollback(c) \/ InitialWait(c)
             \/ ContinueSession(c) \/ WriteInput(c) \/ Cleanup(c)
    <3>1. \/ Return(c)
          \/ \E state \in {"evict", "spawn", "scan", "begin", "rollback", "poll", "input"} : GoTo(c, state)
      BY <2>4 DEF ExecAdmit, EvictIfNeeded, EvictProbe, EvictPick, SpawnFails, Register, RegisterFails,
         Rollback, InitialWait, ContinueSession, WriteInput, Cleanup
    <3> QED
      BY <2>2, <2>3, <3>1
  <2>5. CASE ExecBegin(c)
    BY <1>0, <2>5, ReplyCall DEF ExecBegin
  <2>6. ASSUME NEW s \in Sessions, Spawn(c, s) PROVE TerminatedReplyIsFinal'
    BY <1>0, <2>6, ReplyCall DEF Spawn, CallTypeOK
  <2>7. ASSUME NEW s \in Sessions, NEW k \in CallKinds, WriteStdin(c, s, k) PROVE TerminatedReplyIsFinal'
    BY <1>0, <2>7, ReplyCall DEF WriteStdin, CallTypeOK
  <2> QED
    BY <1>2, <2>1, <2>4, <2>5, <2>6, <2>7 DEF NewCall, ClientStep
<1> QED
  BY <1>1, <1>2 DEF Next

-----------------------------------------------------------------------------
(* The results *)

\* The leader, the map, the reports of ends and the registry agree about every
\* session, whoever of the reaper, the calls, eviction and shutdown_all moved it.
THEOREM SessionInvariant == Spec => [](SessionInv /\ TerminatedReplyIsFinal)
<1>1. Init => SessionInv /\ TerminatedReplyIsFinal
  <2> SUFFICES ASSUME Init PROVE SessionInv /\ TerminatedReplyIsFinal
    OBVIOUS
  <2>1. ASSUME NEW s \in Sessions PROVE MapInv(s) /\ EndInv(s)
    <3>1. /\ leader[s] = "none" /\ inner[s] = FreshInner /\ ends[s] = 0 /\ ~released[s] /\ ~reused[s]
          /\ ~observed[s] /\ evidence[s] = "none" /\ s \notin sessions /\ s \notin registry
          /\ ~reaping[s] /\ todo = {} /\ runtimes = {} /\ pending = {} /\ victim = None
          /\ \A c \in Clients : pc[c] = "idle"
      BY DEF Init
    <3>2. ~Known(s) /\ ~Admitting(s)
      BY <3>1, SessionManagerAssumption DEF Known, Admitting, Working
    <3>3. Unborn(s)
      BY <3>1, <3>2 DEF Unborn
    <3>4. ~inner[s].reaped /\ inner[s].members = {} /\ "none" \notin Live /\ "none" \notin Reasons
      BY <3>1 DEF FreshInner, Live, Reasons
    <3> QED
      BY <3>1, <3>2, <3>3, <3>4 DEF MapInv, EndInv
  <2> QED
    BY <2>1 DEF Init, SessionInv, TerminatedReplyIsFinal
<1>2. /\ TypeOK /\ TypeOK' /\ BarrierInv /\ PassInv /\ SessionInv /\ TerminatedReplyIsFinal
      /\ [Next]_vars
      => SessionInv' /\ TerminatedReplyIsFinal'
  <2> SUFFICES ASSUME TypeOK, TypeOK', BarrierInv, PassInv, SessionInv, TerminatedReplyIsFinal, [Next]_vars
               PROVE  SessionInv' /\ TerminatedReplyIsFinal'
    OBVIOUS
  <2>1. Footprint
    BY FootprintStep
  <2>2. \A t \in Sessions : MapInv(t)' /\ EndInv(t)'
    BY <2>1, LivesStep DEF SessionInv
  <2>3. "force_kill" \notin stray'
    <3>1. "force_kill" \notin stray
      BY DEF SessionInv
    <3>2. ASSUME NEW s \in Sessions, LooksAt(s) PROVE "force_kill" \notin stray'
      <4>1. reused[s] => inner[s].reaped
        BY DEF SessionInv, MapInv
      <4> QED
        BY <3>1, <3>2, <4>1 DEF LooksAt, Reaped
    <3>3. ASSUME Neutral \/ Emptied PROVE "force_kill" \notin stray'
      BY <3>1, <3>3 DEF Neutral, Emptied
    <3>4. ASSUME NEW s \in Sessions, Apart(s) PROVE "force_kill" \notin stray'
      BY <3>1, <3>4 DEF Apart
    <3> QED
      BY <2>1, <3>2, <3>3, <3>4 DEF Footprint, Spawned, Registered, NotRegistered, RolledBack
  <2>4. sd' = "done" => sessions' = {}
    BY <2>1, DoneStep DEF SessionInv
  <2>5. TerminatedReplyIsFinal'
    BY <2>1, ReplyStep DEF PassInv
  <2> QED
    BY <2>2, <2>3, <2>4, <2>5 DEF SessionInv
<1> QED
  BY <1>1, <1>2, TypeCorrect, BarrierInvariant, PassInvariant, PTL DEF Spec

\* No process is lost from view: whoever still runs is in the map or being
\* admitted (evict_if_needed, remove_session), and its ownership record is in the
\* registry as long as it was observed (process_started, release_process_ownership).
THEOREM ProcessesAreAccounted == Spec => []ProcessesAccounted
<1>1. SessionInv => ProcessesAccounted
  <2> SUFFICES ASSUME SessionInv, NEW s \in Sessions,
                      leader[s] \in Live \/ inner[s].members \cap group[s] # {}
               PROVE  /\ s \in sessions \/ Admitting(s)
                      /\ observed[s] /\ s \in sessions => s \in registry
    BY DEF ProcessesAccounted, NoOrphan, OwnedProcessIsRecorded, Live
  <2>1. MapInv(s) /\ EndInv(s)
    BY DEF SessionInv
  <2>2. s \in sessions \/ Admitting(s)
    BY <2>1 DEF MapInv
  <2>3. ~is_exited(inner[s])
    BY <2>1 DEF MapInv, is_exited, Live
  <2> QED
    BY <2>1, <2>2, <2>3 DEF EndInv
<1> QED
  BY <1>1, SessionInvariant, PTL

\* process_ended is called at most once for a process and with an exit reason only
\* when the leader was reaped and every tracked member is gone; an Exited answer
\* after a kill or a time-out is given only then (must_keep_waiting).
THEOREM EndsFinalSafe == Spec => []EndsAreFinal
<1>1. SessionInv /\ TerminatedReplyIsFinal => EndsAreFinal
  BY DEF SessionInv, EndInv, EndsAreFinal, ProcessEndedOnce
<1> QED
  BY <1>1, SessionInvariant, PTL

\* maybe_force_kill and the SIGKILL pass of shutdown_all never signal a group id
\* that was given to somebody else.
THEOREM NoStrayKillSafe == Spec => []NoStrayKill
<1>1. SessionInv => NoStrayKill
  BY DEF SessionInv, NoStrayKill
<1> QED
  BY <1>1, SessionInvariant, PTL

\* When shutdown_all returns Ok no process is left, every observed end was recorded
\* and the registry is empty unless a write of it failed.
THEOREM ShutdownSettlesSafe == Spec => []ShutdownSettles
<1>1. TypeOK /\ BarrierInv /\ SessionInv => ShutdownSettles
  <2> SUFFICES ASSUME TypeOK, BarrierInv, SessionInv, sd = "done"
               PROVE  /\ \A s \in Sessions : /\ leader[s] \in {"none", "reaped"}
                                             /\ inner[s].members \cap group[s] = {}
                                             /\ observed[s] => ends[s] = 1
                      /\ faults = 0 => registry = {}
    BY DEF ShutdownSettles
  <2>1. sessions = {} /\ \A s \in Sessions : ~Admitting(s)
    BY SessionManagerAssumption DEF SessionInv, BarrierInv, LockHeld, Admitting, AdmissionStates
  <2>2. ASSUME NEW s \in Sessions
        PROVE  /\ leader[s] \in {"none", "reaped"} /\ inner[s].members = {}
               /\ observed[s] => ends[s] = 1
    <3>1. MapInv(s) /\ EndInv(s) /\ leader[s] \in LeaderStates
      BY DEF SessionInv, TypeOK, ProcessesTypeOK
    <3> QED
      BY <2>1, <3>1 DEF MapInv, EndInv, LeaderStates, Live
  <2>3. faults = 0 => registry = {}
    <3> SUFFICES ASSUME faults = 0, NEW s \in registry PROVE FALSE
      OBVIOUS
    <3>1. s \in Sessions
      BY DEF TypeOK, RegistryTypeOK
    <3>2. observed[s] /\ ends[s] = 0
      BY <3>1 DEF SessionInv, EndInv
    <3> QED
      BY <2>2, <3>1, <3>2
  <2> QED
    BY <2>2, <2>3
<1> QED
  BY <1>1, TypeCorrect, BarrierInvariant, SessionInvariant, PTL

\* After the leader was reaped a group member leaves the tracked set only by dying:
\* no step of any actor drops a live one (surviving_members).
THEOREM TrackedSafe == Spec => TrackedUntilDead
<1>1. TypeOK /\ BarrierInv /\ [Next]_vars =>
        [\A s \in Sessions :
            inner[s].reaped => (inner[s].members \ inner'[s].members) \cap group'[s] = {}]_vars
  <2> SUFFICES ASSUME TypeOK, BarrierInv, [Next]_vars, NEW t \in Sessions, inner[t].reaped
               PROVE  (inner[t].members \ inner'[t].members) \cap group'[t] = {}
    OBVIOUS
  <2>1. Footprint
    BY FootprintStep
  <2>2. CASE Neutral \/ Emptied
    BY <2>2 DEF Neutral, Emptied, Quiet
  <2>3. ASSUME NEW s \in Sessions, LooksAt(s)
        PROVE  (inner[t].members \ inner'[t].members) \cap group'[t] = {}
    BY <2>3 DEF LooksAt, Reaped
  <2>4. ASSUME NEW s \in Sessions, Apart(s) PROVE inner' = inner
    BY <2>4 DEF Apart
  <2> QED
    BY <2>1, <2>2, <2>3, <2>4 DEF Footprint, Spawned, Registered, NotRegistered, RolledBack
<1> QED
  BY <1>1, TypeCorrect, BarrierInvariant, PTL DEF Spec, TrackedUntilDead
=============================================================================
