------------------------- MODULE HostRuntimeProofs -------------------------
(***************************************************************************)
(* Proofs about the Local host runtime and about the terminal viewer that  *)
(* reads it.  Each property of the runtime rests on an invariant of its    *)
(* own: the attribution of the stored rows and the summaries kept beside   *)
(* them (Attributed), the calls in flight and what they owe to the store   *)
(* (Envelopes), what has been sent of the context and what is about to be  *)
(* (SentOnce, SentAtAll), and where the link of the last conversation is   *)
(* (LinkOnItsWay).  That a connected viewer is up to date rests on the     *)
(* order of what is on its way to it (InOrder) and on what it lacks being  *)
(* on its way (Followed).                                                  *)
(***************************************************************************)
EXTENDS HostRuntime, Watch, WellFoundedInduction, FiniteSetTheorems, SequenceTheorems, TLAPS

CallStates == {"idle", "begun", "admitted", "replying", "global", "agents", "skills", "send"}
Sections == {"global"} \cup Checks
CallRecord ==
    [st : CallStates, kind : ToolKinds, conv : Convs \cup {0}, dir : Dirs \cup {0}, row : Nat,
     global : BOOLEAN, repo : SUBSET Checks, ok : BOOLEAN, sections : SUBSET Sections]
AgentRecord == [id : Ids \cup {0}, rt : Nat]
RowRecord == [row : Nat, conv : Convs, agent : Ids, dir : Dirs \cup {0}, rt : Nat, done : BOOLEAN]
LinkRecord == [accepting : BOOLEAN, slot : Nat, worker : Nat, last : Nat, copied : Nat]
Keys == {<<0, "global">>} \cup (Dirs \X Checks)

CallsTyped == call \in [Calls -> CallRecord] /\ runs \in Nat
AgentsTyped == agents \in [Convs -> AgentRecord]
RowsTyped ==
    /\ rows \in SUBSET RowRecord /\ IsFiniteSet(rows) /\ made \in Nat
    /\ \A r \in rows : r.row \in 1..made
    /\ \A r, q \in rows : r.row = q.row => r = q
    /\ summary \in [Ids \X Dirs -> Nat]
ContextTyped ==
    /\ context_session \in [Convs -> {"none", "due", "injected"}]
    /\ given \in [Convs -> [Keys -> Nat]] /\ cleared \in [Convs -> Nat]
LinkTyped == link \in LinkRecord

-----------------------------------------------------------------------------
(* The calls *)

\* An idle slot holds nothing.
IdleIsIdle == \A c \in Calls : call[c].st = "idle" => call[c] = IdleCall

CallsInv == CallsTyped /\ IdleIsIdle

\* What an action does to the calls: nothing, one call moves, or all end.
LEMMA CallsStep == CallsInv /\ made \in Nat /\ [HostNext]_hostVars => CallsInv'
<1> SUFFICES ASSUME CallsInv, made \in Nat, [HostNext]_hostVars PROVE CallsInv'
  OBVIOUS
<1>1. IdleCall \in CallRecord /\ IdleCall.st = "idle"
  BY DEF IdleCall, CallRecord, CallStates, ToolKinds
<1>2. ASSUME UNCHANGED call, runs' \in Nat PROVE CallsInv'
  BY <1>2 DEF CallsInv, CallsTyped, IdleIsIdle
<1>3. ASSUME NEW c \in Calls, NEW x \in CallRecord, call' = [call EXCEPT ![c] = x], UNCHANGED runs,
             x.st = "idle" => x = IdleCall
      PROVE  CallsInv'
  BY <1>3 DEF CallsInv, CallsTyped, IdleIsIdle
<1>4. ASSUME NEW c \in Calls
      PROVE  call[c] \in CallRecord
  BY <1>4 DEF CallsInv, CallsTyped
<1>5. runs \in Nat
  BY DEF CallsInv, CallsTyped
<1>6. CASE \/ start_local_host_runtime \/ cleanup_failed_runtime_start \/ toggle_context \/ run_retention
           \/ (\E v \in Convs : clear_local_agent_history(v)) \/ take_link
           \/ (\E ok \in BOOLEAN : copy_link(ok)) \/ close_admission \/ shutdown
           \/ UNCHANGED hostVars
  <2>1. UNCHANGED <<call, runs>>
    BY <1>6 DEF start_local_host_runtime, cleanup_failed_runtime_start, toggle_context, run_retention,
         clear_local_agent_history, take_link, copy_link, close_admission, shutdown, hostVars, parts
  <2> QED
    BY <1>2, <1>5, <2>1
<1>7. CASE next_host
  <2>1. call' = [c \in Calls |-> IdleCall] /\ runs' \in Nat
    BY <1>5, <1>7 DEF next_host
  <2> QED
    BY <1>1, <2>1 DEF CallsInv, CallsTyped, IdleIsIdle
<1>8. ASSUME NEW c \in Calls, callStep(c) \/ context_failed(c) PROVE CallsInv'
  <2>1. CASE admit(c)
    <3> DEFINE x == [call[c] EXCEPT !.st = IF admission_closed THEN "replying" ELSE "admitted"]
    <3>1. call' = [call EXCEPT ![c] = x] /\ UNCHANGED runs
      BY <2>1 DEF admit, parts
    <3>2. x \in CallRecord /\ x.st # "idle"
      BY <1>4 DEF CallRecord, CallStates
    <3> QED
      BY <1>3, <3>1, <3>2
  <2>2. ASSUME NEW ok \in BOOLEAN, execute_with_context(c, ok) PROVE CallsInv'
    <3> DEFINE x == [call[c] EXCEPT !.st = "replying", !.ok = ok]
    <3>1. call' = [call EXCEPT ![c] = x] /\ UNCHANGED runs
      BY <2>2 DEF execute_with_context, parts
    <3>2. x \in CallRecord /\ x.st # "idle"
      BY <1>4 DEF CallRecord, CallStates
    <3> QED
      BY <1>3, <3>1, <3>2
  <2>3. CASE complete_invocation(c)
    <3> DEFINE x == [call[c] EXCEPT !.st = "global"]
    <3>1. call' = [call EXCEPT ![c] = x] /\ UNCHANGED runs
      BY <2>3 DEF complete_invocation, parts
    <3>2. x \in CallRecord /\ x.st # "idle"
      BY <1>4 DEF CallRecord, CallStates
    <3> QED
      BY <1>3, <3>1, <3>2
  <2>4. CASE claim_global_context_injection(c)
    <3> DEFINE S == IF call[c].global /\ context_session[call[c].conv] = "due" THEN {"global"} ELSE {}
               x == [call[c] EXCEPT !.st = "agents", !.sections = S]
    <3>1. call' = [call EXCEPT ![c] = x] /\ UNCHANGED runs
      BY <2>4 DEF claim_global_context_injection, parts
    <3>2. S \in SUBSET Sections
      BY DEF Sections
    <3> HIDE DEF S
    <3>3. x \in CallRecord /\ x.st # "idle"
      BY <1>4, <3>2 DEF CallRecord, CallStates
    <3> QED
      BY <1>3, <3>1, <3>3
  <2>5. ASSUME NEW k \in Checks, claim_repo_check(c, k) PROVE CallsInv'
    <3> DEFINE claimed == /\ enabled /\ call[c].ok /\ k \in call[c].repo
                          /\ <<call[c].conv, call[c].dir, k>> \notin checked
               S == IF claimed THEN call[c].sections \cup {k} ELSE call[c].sections
               t == IF k = "agents" THEN "skills" ELSE "send"
               x == [call[c] EXCEPT !.st = t, !.sections = S]
    <3>1. call' = [call EXCEPT ![c] = x] /\ UNCHANGED runs
      BY <2>5 DEF claim_repo_check, parts
    <3>2. S \in SUBSET Sections /\ t \in {"skills", "send"}
      BY <1>4 DEF Sections, CallRecord
    <3> HIDE DEF S, t
    <3>3. x \in CallRecord /\ x.st # "idle"
      BY <1>4, <3>2 DEF CallRecord, CallStates
    <3> QED
      BY <1>3, <3>1, <3>3
  <2>6. CASE reply(c)
    BY <1>1, <1>3, <2>6 DEF reply, parts
  <2>7. CASE context_failed(c)
    <3> DEFINE x == [call[c] EXCEPT !.st = "send", !.sections = {}]
    <3>1. call' = [call EXCEPT ![c] = x] /\ UNCHANGED runs
      BY <2>7 DEF context_failed, parts
    <3>2. x \in CallRecord /\ x.st # "idle"
      BY <1>4 DEF CallRecord, CallStates
    <3> QED
      BY <1>3, <3>1, <3>2
  <2> QED
    BY <1>8, <2>1, <2>2, <2>3, <2>4, <2>5, <2>6, <2>7 DEF callStep
<1>9. ASSUME NEW c \in Calls, NEW v \in Convs, NEW kind \in ToolKinds, NEW d \in Dirs,
             begin(c, kind, v, d) \/ begin_failed_open(c, kind, v, d)
      PROVE  CallsInv'
  <2> DEFINE dir == IF kind = "exec" THEN d ELSE 0
  <2>1. dir \in Dirs \cup {0}
    OBVIOUS
  <2> HIDE DEF dir
  <2>2. CASE begin(c, kind, v, d)
    <3> DEFINE g == context_session[v] # "injected"
               R == IF dir = 0 THEN {} ELSE {k \in Checks : <<v, dir, k>> \notin checked}
               y == [IdleCall EXCEPT !.st = "begun", !.kind = kind, !.conv = v, !.dir = dir]
               x == [y EXCEPT !.row = made + 1, !.global = g, !.repo = R]
    <3>1. call' = [call EXCEPT ![c] = x] /\ UNCHANGED runs
      BY <2>2 DEF begin, parts, dir
    <3>2. R \in SUBSET Checks /\ g \in BOOLEAN
      OBVIOUS
    <3>3. made + 1 \in Nat
      OBVIOUS
    <3> HIDE DEF R, g
    <3>4. x \in CallRecord /\ x.st # "idle"
      BY <1>1, <2>1, <3>2, <3>3 DEF CallRecord, CallStates
    <3> QED
      BY <1>3, <3>1, <3>4
  <2>3. CASE begin_failed_open(c, kind, v, d)
    <3> DEFINE x == [IdleCall EXCEPT !.st = "begun", !.kind = kind, !.conv = v, !.dir = dir]
    <3>1. call' = [call EXCEPT ![c] = x] /\ UNCHANGED runs
      BY <2>3 DEF begin_failed_open, parts, dir
    <3>2. x \in CallRecord /\ x.st # "idle"
      BY <1>1, <2>1 DEF CallRecord, CallStates
    <3> QED
      BY <1>3, <3>1, <3>2
  <2> QED
    BY <1>9, <2>2, <2>3
<1>10. ASSUME NEW c \in Calls, NEW v \in Convs, set_alias(c, v) PROVE CallsInv'
  <2> DEFINE g == context_session[v] # "injected"
             x == [IdleCall EXCEPT !.st = "global", !.kind = "alias", !.conv = v, !.global = g, !.ok = TRUE]
  <2>1. call' = [call EXCEPT ![c] = x] /\ UNCHANGED runs
    BY <1>10 DEF set_alias, parts
  <2>2. g \in BOOLEAN
    OBVIOUS
  <2> HIDE DEF g
  <2>3. x \in CallRecord /\ x.st # "idle"
    BY <1>1, <2>2 DEF CallRecord, CallStates, ToolKinds
  <2> QED
    BY <1>3, <2>1, <2>3
<1> QED
  BY <1>6, <1>7, <1>8, <1>9, <1>10 DEF HostNext

-----------------------------------------------------------------------------
(* Rows, agents and summaries *)

OneAgentEach == \A v, w \in Convs : agents[v].id = agents[w].id /\ known(v) => v = w
Attributed == \A r \in rows : agents[r.conv].id = r.agent

RowsInv == AgentsTyped /\ RowsTyped /\ OneAgentEach /\ Attributed /\ SummaryExact

\* Marking rows as done changes neither how many there are nor whose they are.
Numbered(R) == R \in SUBSET RowRecord /\ IsFiniteSet(R) /\ \A r, q \in R : r.row = q.row => r = q
Marks(f, R, Q) ==
    /\ Q = {f[r] : r \in R} /\ f \in [R -> RowRecord]
    /\ \A r \in R : /\ f[r].row = r.row /\ f[r].conv = r.conv /\ f[r].agent = r.agent
                     /\ f[r].dir = r.dir /\ f[r].rt = r.rt
LEMMA Marked ==
    ASSUME NEW R, NEW f, NEW Q, Numbered(R), Marks(f, R, Q)
    PROVE  Numbered(Q) /\ \A id \in Ids, d \in Dirs : count(Q, id, d) = count(R, id, d)
<1> USE DEF Numbered, Marks
<1>1. Q \in SUBSET RowRecord /\ \A r, q \in Q : r.row = q.row => r = q
  OBVIOUS
<1>2. ASSUME NEW S \in SUBSET R, NEW T, T = {f[r] : r \in S}
      PROVE  IsFiniteSet(T) /\ Cardinality(T) = Cardinality(S)
  <2> DEFINE g == [r \in S |-> f[r]]
  <2>1. g \in Bijection(S, T)
    <3>1. g \in [S -> T] /\ \A r, q \in S : g[r] = g[q] => r = q
      BY <1>2
    <3>2. \A t \in T : \E r \in S : g[r] = t
      BY <1>2
    <3> QED
      BY <3>1, <3>2 DEF Bijection, Injection, Surjection, IsInjective
  <2>2. ExistsBijection(S, T)
    BY <2>1 DEF ExistsBijection
  <2>3. IsFiniteSet(S)
    BY <1>2, FS_Subset
  <2> QED
    BY <2>2, <2>3, FS_Bijection
<1>3. IsFiniteSet(Q)
  BY <1>2
<1>4. ASSUME NEW id \in Ids, NEW d \in Dirs PROVE count(Q, id, d) = count(R, id, d)
  <2> DEFINE S == {r \in rowsOf(R, id) : r.dir = d}
             T == {r \in rowsOf(Q, id) : r.dir = d}
  <2>1. S \in SUBSET R /\ T = {f[r] : r \in S}
    BY DEF rowsOf
  <2> QED
    BY <1>2, <2>1 DEF count
<1> QED
  BY <1>1, <1>3, <1>4

\* A conversation keeps its agent, or takes one that no other has.
LEMMA Identified ==
    ASSUME RowsInv, runs \in Nat, NEW v \in Convs, NEW id \in resolve_agent(v),
           agents' = [agents EXCEPT ![v] = [id |-> id, rt |-> runs]]
    PROVE  /\ id \in Ids /\ AgentsTyped' /\ OneAgentEach'
           /\ \A r \in rows : agents'[r.conv].id = r.agent
           /\ agents'[v].id = id
<1>1. /\ id \in Ids /\ id \in Nat /\ id # 0
      /\ known(v) => id = agents[v].id
      /\ ~known(v) => \A w \in Convs : agents[w].id # id
  BY HostAssumption DEF resolve_agent, known, free, RowsInv, AgentsTyped, AgentRecord
<1>2. AgentsTyped' /\ agents'[v].id = id /\ \A w \in Convs \ {v} : agents'[w] = agents[w]
  BY <1>1 DEF RowsInv, AgentsTyped, AgentRecord
<1>3. OneAgentEach'
  BY <1>1, <1>2 DEF RowsInv, OneAgentEach, known
<1>4. ASSUME NEW r \in rows PROVE agents'[r.conv].id = r.agent
  <2>1. r.conv \in Convs /\ agents[r.conv].id = r.agent /\ r.agent # 0
    BY HostAssumption DEF RowsInv, RowsTyped, RowRecord, Attributed
  <2> QED
    BY <1>1, <1>2, <2>1 DEF known
<1> QED
  BY <1>1, <1>2, <1>3, <1>4

LEMMA RowsStep == RowsInv /\ CallsInv /\ [HostNext]_hostVars => RowsInv'
<1> SUFFICES ASSUME RowsInv, CallsInv, [HostNext]_hostVars PROVE RowsInv'
  OBVIOUS
<1>0. runs \in Nat /\ made \in Nat /\ rows \in SUBSET RowRecord /\ IsFiniteSet(rows)
      /\ summary \in [Ids \X Dirs -> Nat] /\ agents \in [Convs -> AgentRecord]
  BY DEF CallsInv, CallsTyped, RowsInv, RowsTyped, AgentsTyped
<1>1. ASSUME UNCHANGED <<agents, rows, summary>>, made' \in {made, made + 1} PROVE RowsInv'
  <2>1. made' \in Nat /\ \A r \in rows : r.row \in 1..made'
    BY <1>0, <1>1 DEF RowsInv, RowsTyped
  <2>2. RowsTyped'
    BY <1>1, <2>1 DEF RowsInv, RowsTyped
  <2> QED
    BY <1>1, <2>2 DEF RowsInv, AgentsTyped, OneAgentEach, known, Attributed, SummaryExact
<1>2. CASE \/ start_local_host_runtime \/ cleanup_failed_runtime_start \/ toggle_context
           \/ take_link \/ (\E ok \in BOOLEAN : copy_link(ok)) \/ close_admission \/ shutdown
           \/ UNCHANGED hostVars
  <2>1. UNCHANGED <<agents, rows, summary, made>>
    BY <1>2 DEF start_local_host_runtime, cleanup_failed_runtime_start, toggle_context,
         take_link, copy_link, close_admission, shutdown, hostVars, tables
  <2> QED
    BY <1>1, <2>1
\* Rows are marked, nothing else.
<1>3. ASSUME NEW f \in [rows -> RowRecord], rows' = {f[r] : r \in rows},
             \A r \in rows : /\ f[r].row = r.row /\ f[r].conv = r.conv /\ f[r].agent = r.agent
                              /\ f[r].dir = r.dir /\ f[r].rt = r.rt,
             UNCHANGED <<agents, summary, made>>
      PROVE  RowsInv'
  <2>1. /\ rows' \in SUBSET RowRecord /\ IsFiniteSet(rows')
        /\ \A r, q \in rows' : r.row = q.row => r = q
        /\ \A id \in Ids, d \in Dirs : count(rows', id, d) = count(rows, id, d)
    <3>1. \A r, q \in rows : r.row = q.row => r = q
      BY DEF RowsInv, RowsTyped
    <3>2. Numbered(rows) /\ Marks(f, rows, rows')
      <4>1. Numbered(rows)
        BY <1>0, <3>1 DEF Numbered
      <4>2. Marks(f, rows, rows')
        BY <1>3 DEF Marks
      <4> QED
        BY <4>1, <4>2
    <3>3. Numbered(rows') /\ \A id \in Ids, d \in Dirs : count(rows', id, d) = count(rows, id, d)
      BY <3>2, Marked
    <3> QED
      BY <3>3 DEF Numbered
  <2>2. \A r \in rows' : r.row \in 1..made'
    BY <1>3 DEF RowsInv, RowsTyped
  <2>3. Attributed'
    BY <1>3 DEF RowsInv, Attributed
  <2>4. SummaryExact'
    <3> SUFFICES ASSUME NEW x \in Ids \X Dirs PROVE summary[x] = count(rows', x[1], x[2])
      BY <1>0, <1>3 DEF SummaryExact
    <3>1. summary[x] = count(rows, x[1], x[2])
      BY <1>0 DEF RowsInv, SummaryExact
    <3> QED
      BY <2>1, <3>1
  <2> QED
    BY <1>0, <1>3, <2>1, <2>2, <2>3, <2>4 DEF RowsInv, RowsTyped, AgentsTyped, OneAgentEach, known
<1>4. CASE next_host
  <2> DEFINE f == [r \in rows |-> [r EXCEPT !.done = TRUE]]
  <2>1. rows' = {f[r] : r \in rows} /\ UNCHANGED <<agents, summary, made>>
    BY <1>4 DEF next_host
  <2>2. /\ f \in [rows -> RowRecord]
        /\ \A r \in rows : /\ f[r].row = r.row /\ f[r].conv = r.conv /\ f[r].agent = r.agent
                            /\ f[r].dir = r.dir /\ f[r].rt = r.rt
    BY <1>0 DEF RowRecord
  <2> HIDE DEF f
  <2> QED
    BY <1>3, <2>1, <2>2
<1>5. ASSUME NEW c \in Calls, complete_invocation(c) PROVE RowsInv'
  <2> DEFINE f == [r \in rows |-> IF r.row = call[c].row THEN [r EXCEPT !.done = TRUE] ELSE r]
  <2>1. rows' = {f[r] : r \in rows} /\ UNCHANGED <<agents, summary, made>>
    BY <1>5 DEF complete_invocation
  <2>2. /\ f \in [rows -> RowRecord]
        /\ \A r \in rows : /\ f[r].row = r.row /\ f[r].conv = r.conv /\ f[r].agent = r.agent
                            /\ f[r].dir = r.dir /\ f[r].rt = r.rt
    <3>1. ASSUME NEW r \in rows
          PROVE  /\ f[r] \in RowRecord
                 /\ f[r].row = r.row /\ f[r].conv = r.conv /\ f[r].agent = r.agent
                 /\ f[r].dir = r.dir /\ f[r].rt = r.rt
      <4>1. r \in RowRecord
        BY <1>0
      <4>2. f[r] = r \/ f[r] = [r EXCEPT !.done = TRUE]
        OBVIOUS
      <4> HIDE DEF f
      <4> QED
        BY <4>1, <4>2 DEF RowRecord
    <3>2. f \in [rows -> RowRecord]
      BY <3>1
    <3> QED
      BY <3>1, <3>2
  <2> HIDE DEF f
  <2> QED
    BY <1>3, <2>1, <2>2
<1>6. ASSUME NEW c \in Calls, callStep(c) \/ context_failed(c), ~complete_invocation(c) PROVE RowsInv'
  <2>1. UNCHANGED <<agents, rows, summary, made>>
    BY <1>6 DEF callStep, admit, execute_with_context, claim_global_context_injection, claim_repo_check,
         reply, context_failed, tables
  <2> QED
    BY <1>1, <2>1
<1>7. ASSUME NEW c \in Calls, NEW v \in Convs, NEW kind \in ToolKinds, NEW d \in Dirs, begin(c, kind, v, d)
      PROVE  RowsInv'
  <2> DEFINE dir == IF kind = "exec" THEN d ELSE 0
  <2>1. PICK id \in resolve_agent(v) :
          /\ agents' = [agents EXCEPT ![v] = [id |-> id, rt |-> runs]]
          /\ rows' = rows \cup {[row |-> made + 1, conv |-> v, agent |-> id, dir |-> dir,
                                 rt |-> runs, done |-> FALSE]}
          /\ summary' = IF dir = 0 THEN summary ELSE [summary EXCEPT ![<<id, dir>>] = @ + 1]
    BY <1>7 DEF begin, identified
  <2>2. made' = made + 1 /\ dir \in Dirs \cup {0} /\ (dir # 0 => dir \in Dirs)
    BY <1>7 DEF begin
  <2> HIDE DEF dir
  <2> DEFINE new == [row |-> made + 1, conv |-> v, agent |-> id, dir |-> dir, rt |-> runs, done |-> FALSE]
  <2>3. /\ id \in Ids /\ AgentsTyped' /\ OneAgentEach' /\ agents'[v].id = id
        /\ \A r \in rows : agents'[r.conv].id = r.agent
    BY <1>0, <2>1, Identified
  <2>4. new \in RowRecord /\ new.row = made + 1 /\ new.conv = v /\ new.agent = id /\ new.dir = dir
    BY <1>0, <2>2, <2>3 DEF RowRecord
  <2>5. rows' = rows \cup {new}
    BY <2>1
  <2> HIDE DEF new
  <2>6. \A r \in rows : r.row \in 1..made /\ r.row # made + 1
    BY <1>0 DEF RowsInv, RowsTyped
  <2>7. /\ rows' \in SUBSET RowRecord /\ IsFiniteSet(rows') /\ made' \in Nat
        /\ (\A r \in rows' : r.row \in 1..made')
        /\ (\A r, q \in rows' : r.row = q.row => r = q)
    <3>1. IsFiniteSet(rows')
      BY <1>0, <2>5, FS_AddElement
    <3>2. \A r \in rows' : r.row \in 1..made'
      BY <1>0, <2>2, <2>4, <2>5, <2>6
    <3>3. \A r, q \in rows' : r.row = q.row => r = q
      BY <2>4, <2>5, <2>6 DEF RowsInv, RowsTyped
    <3> QED
      BY <1>0, <2>2, <2>4, <2>5, <3>1, <3>2, <3>3
  <2>8. Attributed'
    BY <2>3, <2>4, <2>5 DEF Attributed
  <2>9. SummaryExact' /\ summary' \in [Ids \X Dirs -> Nat]
    <3>1. ASSUME NEW i \in Ids, NEW e \in Dirs
          PROVE  count(rows', i, e) = IF i = id /\ e = dir THEN count(rows, i, e) + 1 ELSE count(rows, i, e)
      <4> DEFINE S == {r \in rowsOf(rows, i) : r.dir = e}
                 T == {r \in rowsOf(rows', i) : r.dir = e}
      <4>1. T = IF i = id /\ e = dir THEN S \cup {new} ELSE S
        BY <2>4, <2>5 DEF rowsOf
      <4>2. new \notin S
        BY <2>4, <2>6 DEF rowsOf
      <4>3. S \in SUBSET rows
        BY DEF rowsOf
      <4>4. IsFiniteSet(S)
        BY <1>0, <4>3, FS_Subset
      <4> HIDE DEF S, T
      <4>5. Cardinality(T) = IF i = id /\ e = dir THEN Cardinality(S) + 1 ELSE Cardinality(S)
        BY <4>1, <4>2, <4>4, FS_AddElement
      <4> QED
        BY <4>5 DEF count, S, T
    <3>2. ASSUME NEW x \in Ids \X Dirs PROVE summary[x] = count(rows, x[1], x[2]) /\ summary[x] \in Nat
      BY <1>0 DEF RowsInv, SummaryExact
    <3>3. ASSUME NEW x \in Ids \X Dirs
          PROVE  summary'[x] = IF x[1] = id /\ x[2] = dir THEN summary[x] + 1 ELSE summary[x]
      <4>1. x = <<x[1], x[2]>> /\ x[1] \in Ids /\ x[2] \in Dirs /\ x[2] # 0
        BY HostAssumption
      <4>2. CASE dir = 0
        BY <2>1, <4>1, <4>2
      <4>3. CASE dir # 0
        BY <1>0, <2>1, <4>1, <4>3
      <4> QED
        BY <4>2, <4>3
    <3>4. summary' \in [Ids \X Dirs -> Nat]
      <4>1. CASE dir = 0
        BY <1>0, <2>1, <4>1
      <4>2. CASE dir # 0
        <5>1. <<id, dir>> \in Ids \X Dirs /\ summary[<<id, dir>>] + 1 \in Nat
          BY <1>0, <2>2, <2>3, <4>2
        <5> QED
          BY <1>0, <2>1, <4>2, <5>1
      <4> QED
        BY <4>1, <4>2
    <3>5. ASSUME NEW x \in Ids \X Dirs PROVE summary'[x] = count(rows', x[1], x[2])
      <4>1. x[1] \in Ids /\ x[2] \in Dirs
        OBVIOUS
      <4> QED
        BY <3>1, <3>2, <3>3, <4>1
    <3> QED
      BY <3>4, <3>5 DEF SummaryExact
  <2> QED
    BY <2>3, <2>7, <2>8, <2>9 DEF RowsInv, RowsTyped
<1>8. ASSUME NEW c \in Calls, NEW v \in Convs, NEW kind \in ToolKinds, NEW d \in Dirs,
             begin_failed_open(c, kind, v, d)
      PROVE  RowsInv'
  BY <1>1, <1>8 DEF begin_failed_open
<1>9. ASSUME NEW c \in Calls, NEW v \in Convs, set_alias(c, v) PROVE RowsInv'
  <2>1. PICK id \in resolve_agent(v) : agents' = [agents EXCEPT ![v] = [id |-> id, rt |-> runs]]
    BY <1>9 DEF set_alias, identified
  <2>2. UNCHANGED <<rows, summary>> /\ made' = made + 1
    BY <1>9 DEF set_alias
  <2>3. AgentsTyped' /\ OneAgentEach' /\ \A r \in rows : agents'[r.conv].id = r.agent
    BY <1>0, <2>1, Identified
  <2>4. made' \in Nat /\ \A r \in rows : r.row \in 1..made'
    BY <1>0, <2>2 DEF RowsInv, RowsTyped
  <2>5. RowsTyped'
    BY <2>2, <2>4 DEF RowsInv, RowsTyped
  <2> QED
    BY <2>2, <2>3, <2>5 DEF RowsInv, Attributed, SummaryExact
\* Retention forgets the agents whose last row goes, no other.
<1>10. CASE run_retention
  <2>1. PICK D : rows' = rows \ D /\ recompute_summaries(rows \ D) /\ made' = made
    BY <1>10 DEF run_retention, delete_expired
  <2>2. /\ summary' = [x \in DOMAIN summary |-> count(rows', x[1], x[2])]
        /\ agents' = [v \in Convs |-> IF rowsOf(rows', agents[v].id) = {} THEN [id |-> 0, rt |-> 0] ELSE agents[v]]
    BY <2>1 DEF recompute_summaries
  <2>3. rows' \in SUBSET rows /\ IsFiniteSet(rows')
    BY <1>0, <2>1, FS_Subset
  <2>4. AgentsTyped' /\ OneAgentEach'
    BY <1>0, <2>2, HostAssumption DEF AgentsTyped, AgentRecord, OneAgentEach, known, RowsInv
  <2>5. Attributed'
    <3> SUFFICES ASSUME NEW r \in rows' PROVE agents'[r.conv].id = r.agent
      BY DEF Attributed
    <3>1. r.conv \in Convs /\ agents[r.conv].id = r.agent
      BY <1>0, <2>3 DEF RowsInv, Attributed, RowRecord
    <3>2. r \in rowsOf(rows', agents[r.conv].id)
      BY <3>1 DEF rowsOf
    <3> QED
      BY <2>2, <3>1, <3>2
  <2>6. SummaryExact' /\ summary' \in [Ids \X Dirs -> Nat]
    <3>1. \A i \in Ids, e \in Dirs : count(rows', i, e) \in Nat
      <4> SUFFICES ASSUME NEW i \in Ids, NEW e \in Dirs PROVE count(rows', i, e) \in Nat
        OBVIOUS
      <4>1. {r \in rowsOf(rows', i) : r.dir = e} \in SUBSET rows'
        BY DEF rowsOf
      <4>2. IsFiniteSet({r \in rowsOf(rows', i) : r.dir = e})
        BY <2>3, <4>1, FS_Subset
      <4> QED
        BY <4>2, FS_CardinalityType DEF count
    <3> QED
      BY <1>0, <2>2, <3>1 DEF SummaryExact
  <2>7. RowsTyped'
    BY <1>0, <2>1, <2>3, <2>6 DEF RowsInv, RowsTyped
  <2> QED
    BY <2>4, <2>5, <2>6, <2>7 DEF RowsInv
<1>11. ASSUME NEW v \in Convs, clear_local_agent_history(v) PROVE RowsInv'
  <2>1. /\ rows' = rows \ rowsOf(rows, agents[v].id)
        /\ agents' = [agents EXCEPT ![v] = [id |-> 0, rt |-> 0]]
        /\ summary' = [x \in DOMAIN summary |-> IF x[1] = agents[v].id THEN 0 ELSE summary[x]]
        /\ made' = made
    BY <1>11 DEF clear_local_agent_history
  <2>2. rows' \in SUBSET rows /\ IsFiniteSet(rows')
    BY <1>0, <2>1, FS_Subset
  <2>3. AgentsTyped' /\ OneAgentEach'
    BY <1>0, <2>1, HostAssumption DEF AgentsTyped, AgentRecord, OneAgentEach, known, RowsInv
  <2>4. Attributed'
    <3> SUFFICES ASSUME NEW r \in rows' PROVE agents'[r.conv].id = r.agent
      BY DEF Attributed
    <3>1. r.conv \in Convs /\ agents[r.conv].id = r.agent
      BY <1>0, <2>2 DEF RowsInv, Attributed, RowRecord
    <3>2. r.conv # v
      BY <2>1, <3>1 DEF rowsOf
    <3> QED
      BY <1>0, <2>1, <3>1, <3>2
  <2>5. SummaryExact' /\ summary' \in [Ids \X Dirs -> Nat]
    <3>1. ASSUME NEW i \in Ids, NEW e \in Dirs
          PROVE  count(rows', i, e) = IF i = agents[v].id THEN 0 ELSE count(rows, i, e)
      <4>1. CASE i = agents[v].id
        <5>1. {r \in rowsOf(rows', i) : r.dir = e} = {}
          BY <2>1, <4>1 DEF rowsOf
        <5> QED
          BY <4>1, <5>1, FS_EmptySet DEF count
      <4>2. CASE i # agents[v].id
        <5>1. rowsOf(rows', i) = rowsOf(rows, i)
          BY <2>1, <4>2 DEF rowsOf
        <5> QED
          BY <4>2, <5>1 DEF count
      <4> QED
        BY <4>1, <4>2
    <3>2. summary' \in [Ids \X Dirs -> Nat]
      BY <1>0, <2>1
    <3>3. ASSUME NEW x \in Ids \X Dirs PROVE summary'[x] = count(rows', x[1], x[2])
      <4>1. summary[x] = count(rows, x[1], x[2]) /\ x[1] \in Ids /\ x[2] \in Dirs
        BY <1>0 DEF RowsInv, SummaryExact
      <4> QED
        BY <1>0, <2>1, <3>1, <4>1
    <3> QED
      BY <3>2, <3>3 DEF SummaryExact
  <2>6. RowsTyped'
    BY <1>0, <2>1, <2>2, <2>5 DEF RowsInv, RowsTyped
  <2> QED
    BY <2>3, <2>4, <2>5, <2>6 DEF RowsInv
<1> QED
  BY <1>2, <1>4, <1>5, <1>6, <1>7, <1>8, <1>9, <1>10, <1>11 DEF HostNext, callStep

-----------------------------------------------------------------------------
(* Calls in flight, and what they owe to the store *)

Serving == {"serving", "sessions", "notifier", "mcp_stop"}
Recording == {"mcp", "bearer", "observability", "liveboard", "history_stop"} \cup Serving
Over == {"history", "failed", "observability_stop", "liveboard_stop", "down"}

\* Only while the MCP listener runs are there calls, and the history writer
\* runs longer than the listener.
PhasesInv ==
    /\ phase \in Recording \cup Over
    /\ phase \notin Serving => \A c \in Calls : call[c].st = "idle"
    /\ phase \in Recording => "history" \in up

\* A row without a result is that of a call that has still to complete.
PendingInFlight ==
    \A r \in rows : r.done \/ \E c \in Calls : /\ call[c].row = r.row
                                              /\ call[c].st \in {"begun", "admitted", "replying"}

EnvelopesInv == PhasesInv /\ PendingInFlight

LEMMA Steps ==
    /\ DOMAIN StartSteps = {"history", "mcp", "bearer", "observability", "liveboard"}
    /\ \A p \in DOMAIN StartSteps : StartSteps[p] \in {"mcp", "bearer", "observability", "liveboard", "serving"}
    /\ DOMAIN StopSteps = {"sessions", "notifier", "mcp_stop", "history_stop", "observability_stop", "liveboard_stop"}
    /\ StopSteps["sessions"] = "notifier" /\ StopSteps["notifier"] = "mcp_stop"
    /\ StopSteps["mcp_stop"] = "history_stop" /\ StopSteps["history_stop"] = "observability_stop"
    /\ StopSteps["observability_stop"] = "liveboard_stop" /\ StopSteps["liveboard_stop"] = "down"
    /\ \A p : "history" \in Stopped(p) => p = "history_stop"
  BY DEF StartSteps, StopSteps, Stopped

LEMMA PhasesStep == PhasesInv /\ CallsInv /\ [HostNext]_hostVars => PhasesInv'
<1> SUFFICES ASSUME PhasesInv, CallsInv, [HostNext]_hostVars PROVE PhasesInv'
  OBVIOUS
<1>1. CASE UNCHANGED <<phase, up, call>>
  BY <1>1 DEF PhasesInv
<1>2. CASE start_local_host_runtime
  BY <1>2, Steps DEF start_local_host_runtime, PhasesInv, Part, Recording, Serving, Over
<1>3. CASE cleanup_failed_runtime_start
  BY <1>3, Steps DEF cleanup_failed_runtime_start, PhasesInv, Recording, Serving, Over
<1>4. CASE next_host
  BY <1>4 DEF next_host, PhasesInv, Recording, Serving, Over, IdleCall
<1>5. CASE close_admission
  BY <1>5 DEF close_admission, PhasesInv, Recording, Serving, Over
<1>6. CASE shutdown
  <2>1. phase \in DOMAIN StopSteps /\ phase' = StopSteps[phase] /\ up' = up \ Stopped(phase) /\ UNCHANGED call
        /\ ready(phase)
    BY <1>6 DEF shutdown
  <2> QED
    BY <2>1, Steps DEF PhasesInv, Recording, Serving, Over, ready
\* A call moves only while the listener runs.
<1>7. ASSUME UNCHANGED <<phase, up>>, phase \in Serving PROVE PhasesInv'
  BY <1>7 DEF PhasesInv
<1>8. ASSUME NEW c \in Calls, callStep(c) \/ context_failed(c) PROVE PhasesInv'
  <2>1. call[c].st # "idle" /\ UNCHANGED <<phase, up>>
    BY <1>8 DEF callStep, admit, execute_with_context, complete_invocation, claim_global_context_injection,
         claim_repo_check, reply, context_failed, parts, Checks
  <2> QED
    BY <1>7, <2>1 DEF PhasesInv
<1>9. ASSUME NEW c \in Calls, NEW v \in Convs, NEW kind \in ToolKinds, NEW d \in Dirs,
             begin(c, kind, v, d) \/ begin_failed_open(c, kind, v, d)
      PROVE  PhasesInv'
  <2>1. phase = "serving" /\ UNCHANGED <<phase, up>>
    BY <1>9 DEF begin, begin_failed_open, parts
  <2> QED
    BY <1>7, <2>1 DEF Serving
<1>10. ASSUME NEW c \in Calls, NEW v \in Convs, set_alias(c, v) PROVE PhasesInv'
  <2>1. phase = "serving" /\ UNCHANGED <<phase, up>>
    BY <1>10 DEF set_alias, parts
  <2> QED
    BY <1>7, <2>1 DEF Serving
<1>11. CASE \/ toggle_context \/ run_retention \/ (\E v \in Convs : clear_local_agent_history(v)) \/ take_link
            \/ (\E ok \in BOOLEAN : copy_link(ok)) \/ UNCHANGED hostVars
  <2>1. UNCHANGED <<phase, up, call>>
    BY <1>11 DEF toggle_context, run_retention, clear_local_agent_history, take_link, copy_link, parts, hostVars
  <2> QED
    BY <1>1, <2>1
<1> QED
  BY <1>2, <1>3, <1>4, <1>5, <1>6, <1>8, <1>9, <1>10, <1>11 DEF HostNext

LEMMA EnvelopesStep == EnvelopesInv /\ CallsInv /\ RowsTyped /\ [HostNext]_hostVars => EnvelopesInv'
<1> SUFFICES ASSUME EnvelopesInv, CallsInv, RowsTyped, [HostNext]_hostVars PROVE PendingInFlight'
  BY PhasesStep DEF EnvelopesInv
<1> DEFINE Held(c, r) == call[c].row = r.row /\ call[c].st \in {"begun", "admitted", "replying"}
<1>0. /\ \A r \in rows : r.done \/ \E c \in Calls : Held(c, r)
      /\ call \in [Calls -> CallRecord] /\ rows \in SUBSET RowRecord
  BY DEF EnvelopesInv, PendingInFlight, CallsInv, CallsTyped, RowsTyped
\* No row is added, and the calls that hold one keep it.
<1>1. ASSUME rows' \subseteq rows,
             \A c \in Calls : \/ call'[c] = call[c]
                              \/ call[c].st \notin {"begun", "admitted", "replying"}
                              \/ call'[c].row = call[c].row /\ call'[c].st \in {"begun", "admitted", "replying"}
      PROVE  PendingInFlight'
  BY <1>0, <1>1 DEF PendingInFlight
<1>2. CASE \/ start_local_host_runtime \/ cleanup_failed_runtime_start \/ toggle_context \/ run_retention
           \/ (\E v \in Convs : clear_local_agent_history(v)) \/ take_link
           \/ (\E ok \in BOOLEAN : copy_link(ok)) \/ close_admission \/ shutdown
           \/ UNCHANGED hostVars
  <2>1. UNCHANGED call /\ rows' \subseteq rows
    BY <1>2 DEF start_local_host_runtime, cleanup_failed_runtime_start, toggle_context, run_retention, delete_expired,
         clear_local_agent_history, take_link, copy_link, close_admission, shutdown, hostVars, tables
  <2> QED
    BY <1>1, <2>1
<1>3. CASE next_host
  <2>1. rows' = {[r EXCEPT !.done = TRUE] : r \in rows}
    BY <1>3 DEF next_host
  <2>2. \A r \in rows : [r EXCEPT !.done = TRUE].done
    BY <1>0 DEF RowRecord
  <2> QED
    BY <2>1, <2>2 DEF PendingInFlight
<1>4. ASSUME NEW c \in Calls, admit(c) \/ (\E ok \in BOOLEAN : execute_with_context(c, ok)) PROVE PendingInFlight'
  <2>1. /\ UNCHANGED rows /\ \A d \in Calls \ {c} : call'[d] = call[d]
        /\ call'[c].row = call[c].row /\ call'[c].st \in {"begun", "admitted", "replying"}
    <3>1. call[c] \in CallRecord
      BY <1>0
    <3>2. CASE admit(c)
      BY <1>0, <3>1, <3>2 DEF admit, tables, CallRecord
    <3>3. ASSUME NEW ok \in BOOLEAN, execute_with_context(c, ok)
          PROVE  /\ UNCHANGED rows /\ \A d \in Calls \ {c} : call'[d] = call[d]
                 /\ call'[c].row = call[c].row /\ call'[c].st = "replying"
      BY <1>0, <3>1, <3>3 DEF execute_with_context, tables, CallRecord
    <3> QED
      BY <1>4, <3>2, <3>3
  <2> QED
    BY <1>1, <2>1
<1>5. ASSUME NEW c \in Calls, complete_invocation(c) PROVE PendingInFlight'
  <2>1. /\ rows' = {IF r.row = call[c].row THEN [r EXCEPT !.done = TRUE] ELSE r : r \in rows}
        /\ \A d \in Calls \ {c} : call'[d] = call[d]
    BY <1>5 DEF complete_invocation
  <2>2. ASSUME NEW r \in rows, r.row # call[c].row PROVE r.done \/ \E d \in Calls : Held(d, r)'
    BY <1>0, <2>1, <2>2
  <2>3. \A r \in rows : [r EXCEPT !.done = TRUE].done
    BY <1>0 DEF RowRecord
  <2> QED
    BY <2>1, <2>2, <2>3 DEF PendingInFlight
<1>6. ASSUME NEW c \in Calls, \/ claim_global_context_injection(c) \/ (\E k \in Checks : claim_repo_check(c, k))
                               \/ reply(c) \/ context_failed(c)
      PROVE  PendingInFlight'
  <2>1. /\ UNCHANGED rows /\ call[c].st \notin {"begun", "admitted", "replying"}
        /\ \A d \in Calls \ {c} : call'[d] = call[d]
    BY <1>0, <1>6 DEF claim_global_context_injection, claim_repo_check, reply, context_failed, tables, Checks
  <2> QED
    BY <1>1, <2>1
<1>7. ASSUME NEW c \in Calls, NEW v \in Convs, NEW kind \in ToolKinds, NEW d \in Dirs, begin(c, kind, v, d)
      PROVE  PendingInFlight'
  <2>1. PICK id : rows' = rows \cup {[row |-> made + 1, conv |-> v, agent |-> id,
                                       dir |-> IF kind = "exec" THEN d ELSE 0, rt |-> runs, done |-> FALSE]}
    BY <1>7 DEF begin
  <2>2. /\ call[c].st = "idle" /\ \A e \in Calls \ {c} : call'[e] = call[e]
        /\ call'[c].row = made + 1 /\ call'[c].st = "begun"
    BY <1>0, <1>7 DEF begin, IdleCall
  <2>3. \A r \in rows : r.done \/ \E e \in Calls : Held(e, r)'
    BY <1>0, <2>2
  <2> QED
    BY <2>1, <2>2, <2>3 DEF PendingInFlight
<1>8. ASSUME NEW c \in Calls, NEW v \in Convs,
             set_alias(c, v) \/ \E kind \in ToolKinds, d \in Dirs : begin_failed_open(c, kind, v, d)
      PROVE  PendingInFlight'
  <2>1. UNCHANGED rows /\ call[c].st = "idle" /\ \A e \in Calls \ {c} : call'[e] = call[e]
    BY <1>0, <1>8 DEF set_alias, begin_failed_open
  <2> QED
    BY <1>1, <2>1
<1> QED
  BY <1>2, <1>3, <1>4, <1>5, <1>6, <1>7, <1>8 DEF HostNext, callStep

-----------------------------------------------------------------------------
(* Context: sent once, and sent at all *)

Global == <<0, "global">>

\* A call that has claimed section s for its conversation v and not replied.
Holds(c, v, s) == call[c].conv = v /\ s[2] \in call[c].sections /\ (s = Global \/ s[1] = call[c].dir)
Holders(v, s) == {c \in Calls : Holds(c, v, s)}
Claimed(v, s) == IF s = Global THEN context_session[v] = "injected" ELSE <<v, s[1], s[2]>> \in checked

\* What was sent, what is about to be sent and what may still be claimed are
\* together at most one more than the number of times the conversation was
\* forgotten.
Once(v, s) == given[v][s] + Cardinality(Holders(v, s)) + (IF Claimed(v, s) THEN 0 ELSE 1) <= 1 + cleared[v]
SentOnce == \A v \in Convs, s \in Keys : Once(v, s)

\* Nothing is claimed before the call completed.
EarlyHoldsNothing ==
    \A c \in Calls : call[c].st \in {"idle", "begun", "admitted", "replying", "global"} => call[c].sections = {}

SentAtAll ==
    ~trouble => \A v \in Convs : context_session[v] = "injected" =>
        given[v][Global] > 0 \/ \E c \in Calls : call[c].conv = v /\ "global" \in call[c].sections

ContextInv == ContextTyped /\ SentOnce /\ EarlyHoldsNothing /\ SentAtAll

LEMMA KeysAre ==
    /\ Global \in Keys /\ Global[1] = 0 /\ Global[2] = "global" /\ "global" \notin Checks
    /\ \A s \in Keys : s # Global => s[1] \in Dirs /\ s[1] # 0 /\ s[2] \in Checks /\ s = <<s[1], s[2]>>
    /\ \A s \in Keys : s[2] \in Sections
  BY HostAssumption DEF Keys, Global, Checks, Sections

\* How one conversation's account of one section can change.
LEMMA Accounts ==
    ASSUME NEW H, NEW I, IsFiniteSet(H), IsFiniteSet(I), NEW g \in Nat, NEW h \in Nat, NEW k \in Nat, NEW l \in Nat,
           NEW u \in {0, 1}, NEW w \in {0, 1}, NEW c,
           g + Cardinality(H) + u <= 1 + k,
           \/ I \subseteq H /\ h = g /\ w <= u /\ l = k
           \/ I \subseteq H \cup {c} /\ h = g /\ u = 1 /\ w = 0 /\ l = k
           \/ c \in H /\ I = H \ {c} /\ h = g + 1 /\ w = u /\ l = k
           \/ I = H /\ h = g /\ l = k + 1
    PROVE  h + Cardinality(I) + w <= 1 + l
<1>1. Cardinality(H) \in Nat /\ Cardinality(I) \in Nat
  BY FS_CardinalityType
<1>2. CASE I \subseteq H /\ h = g /\ w <= u /\ l = k
  <2>1. Cardinality(I) <= Cardinality(H)
    BY <1>2, FS_Subset
  <2> QED
    BY <1>1, <1>2, <2>1
<1>3. CASE I \subseteq H \cup {c} /\ h = g /\ u = 1 /\ w = 0 /\ l = k
  <2>1. /\ IsFiniteSet(H \cup {c})
        /\ Cardinality(H \cup {c}) = IF c \in H THEN Cardinality(H) ELSE Cardinality(H) + 1
    BY FS_AddElement
  <2>2. Cardinality(I) <= Cardinality(H \cup {c}) /\ Cardinality(H \cup {c}) \in Nat
    BY <1>3, <2>1, FS_Subset, FS_CardinalityType
  <2> QED
    BY <1>1, <1>3, <2>1, <2>2
<1>4. CASE c \in H /\ I = H \ {c} /\ h = g + 1 /\ w = u /\ l = k
  <2>1. Cardinality(I) = Cardinality(H) - 1
    BY <1>4, FS_RemoveElement
  <2> QED
    BY <1>1, <1>4, <2>1
<1>5. CASE I = H /\ h = g /\ l = k + 1
  BY <1>1, <1>5
<1> QED
  BY <1>2, <1>3, <1>4, <1>5

LEMMA ContextTypes == ContextTyped /\ CallsInv /\ [HostNext]_hostVars => ContextTyped'
<1> SUFFICES ASSUME ContextTyped, CallsInv, [HostNext]_hostVars PROVE ContextTyped'
  OBVIOUS
<1>0. /\ context_session \in [Convs -> {"none", "due", "injected"}]
      /\ given \in [Convs -> [Keys -> Nat]] /\ cleared \in [Convs -> Nat]
  BY DEF ContextTyped
<1>1. CASE UNCHANGED <<context_session, given, cleared>>
  BY <1>1 DEF ContextTyped
<1>2. ASSUME NEW v \in Convs, NEW t \in {"none", "due", "injected"}, context_session' = [context_session EXCEPT ![v] = t],
             UNCHANGED given, cleared' \in {cleared, [cleared EXCEPT ![v] = @ + 1]}
      PROVE  ContextTyped'
  BY <1>0, <1>2 DEF ContextTyped
<1>3. ASSUME NEW v \in Convs, NEW id, identified(v, id), UNCHANGED <<given, cleared>> PROVE ContextTyped'
  <2>1. context_session' = [context_session EXCEPT ![v] = IF context_session[v] = "none" THEN "due" ELSE context_session[v]]
    BY <1>3 DEF identified
  <2>2. (IF context_session[v] = "none" THEN "due" ELSE context_session[v]) \in {"none", "due", "injected"}
    BY <1>0
  <2> QED
    BY <1>2, <1>3, <2>1, <2>2
<1>4. ASSUME NEW c \in Calls, claim_global_context_injection(c) PROVE ContextTyped'
  BY <1>0, <1>4 DEF claim_global_context_injection, ghosts, ContextTyped
<1>5. ASSUME NEW c \in Calls, reply(c) PROVE ContextTyped'
  BY <1>0, <1>5 DEF reply, tables, ContextTyped
<1>6. ASSUME NEW v \in Convs, clear_local_agent_history(v) PROVE ContextTyped'
  BY <1>2, <1>6 DEF clear_local_agent_history
<1>7. ASSUME NEW c \in Calls, NEW v \in Convs, NEW kind \in ToolKinds, NEW d \in Dirs, begin(c, kind, v, d)
      PROVE  ContextTyped'
  BY <1>3, <1>7 DEF begin, ghosts
<1>8. ASSUME NEW c \in Calls, NEW v \in Convs, set_alias(c, v) PROVE ContextTyped'
  BY <1>3, <1>8 DEF set_alias
<1>9. ASSUME NEW c \in Calls, \/ admit(c) \/ (\E ok \in BOOLEAN : execute_with_context(c, ok)) \/ complete_invocation(c)
                               \/ (\E k \in Checks : claim_repo_check(c, k)) \/ context_failed(c)
      PROVE  ContextTyped'
  BY <1>1, <1>9 DEF admit, execute_with_context, complete_invocation, claim_repo_check, context_failed, tables, ghosts
<1>10. ASSUME NEW c \in Calls, NEW v \in Convs, NEW kind \in ToolKinds, NEW d \in Dirs, begin_failed_open(c, kind, v, d)
       PROVE  ContextTyped'
  BY <1>1, <1>10 DEF begin_failed_open, ghosts
<1>11. CASE \/ start_local_host_runtime \/ cleanup_failed_runtime_start \/ next_host \/ toggle_context \/ run_retention
            \/ take_link \/ (\E ok \in BOOLEAN : copy_link(ok)) \/ close_admission \/ shutdown \/ UNCHANGED hostVars
  BY <1>1, <1>11 DEF start_local_host_runtime, cleanup_failed_runtime_start, next_host, toggle_context, run_retention,
     take_link, copy_link, close_admission, shutdown, hostVars, tables, ghosts
<1> QED
  BY <1>4, <1>5, <1>6, <1>7, <1>8, <1>9, <1>10, <1>11 DEF HostNext, callStep

LEMMA HoldersFinite == \A v, s : IsFiniteSet(Holders(v, s)) /\ IsFiniteSet(Holders(v, s))'
<1> SUFFICES ASSUME NEW v, NEW s PROVE IsFiniteSet(Holders(v, s)) /\ IsFiniteSet(Holders(v, s))'
  OBVIOUS
<1>1. Holders(v, s) \in SUBSET Calls /\ Holders(v, s)' \in SUBSET Calls
  BY DEF Holders
<1> QED
  BY <1>1, HostAssumption, FS_Subset

\* The calls that move keep what they hold, unless the step says otherwise.
LEMMA EarlyStep == EarlyHoldsNothing /\ CallsInv /\ [HostNext]_hostVars => EarlyHoldsNothing'
<1> SUFFICES ASSUME EarlyHoldsNothing, CallsInv, [HostNext]_hostVars PROVE EarlyHoldsNothing'
  OBVIOUS
<1>0. call \in [Calls -> CallRecord]
  BY DEF CallsInv, CallsTyped
<1>1. ASSUME UNCHANGED call PROVE EarlyHoldsNothing'
  BY <1>1 DEF EarlyHoldsNothing
<1>2. ASSUME NEW c \in Calls, NEW x, call' = [call EXCEPT ![c] = x],
             x.st \in {"idle", "begun", "admitted", "replying", "global"} => x.sections = {}
      PROVE  EarlyHoldsNothing'
  BY <1>0, <1>2 DEF EarlyHoldsNothing
<1>3. CASE \/ start_local_host_runtime \/ cleanup_failed_runtime_start \/ toggle_context \/ run_retention
           \/ (\E v \in Convs : clear_local_agent_history(v)) \/ take_link
           \/ (\E ok \in BOOLEAN : copy_link(ok)) \/ close_admission \/ shutdown
           \/ UNCHANGED hostVars
  BY <1>1, <1>3 DEF start_local_host_runtime, cleanup_failed_runtime_start, toggle_context, run_retention,
     clear_local_agent_history, take_link, copy_link, close_admission, shutdown, hostVars, parts
<1>4. CASE next_host
  BY <1>4 DEF next_host, EarlyHoldsNothing, IdleCall
<1>5. ASSUME NEW c \in Calls, callStep(c) \/ context_failed(c) PROVE EarlyHoldsNothing'
  <2>0. call[c] \in CallRecord
    BY <1>0
  <2>1. CASE admit(c)
    <3> DEFINE x == [call[c] EXCEPT !.st = IF admission_closed THEN "replying" ELSE "admitted"]
    <3>1. call' = [call EXCEPT ![c] = x] /\ x.sections = {}
      BY <2>0, <2>1 DEF admit, EarlyHoldsNothing, CallRecord
    <3> QED
      BY <1>2, <3>1
  <2>2. ASSUME NEW ok \in BOOLEAN, execute_with_context(c, ok) PROVE EarlyHoldsNothing'
    <3> DEFINE x == [call[c] EXCEPT !.st = "replying", !.ok = ok]
    <3>1. call' = [call EXCEPT ![c] = x] /\ x.sections = {}
      BY <2>0, <2>2 DEF execute_with_context, EarlyHoldsNothing, CallRecord
    <3> QED
      BY <1>2, <3>1
  <2>3. CASE complete_invocation(c)
    <3> DEFINE x == [call[c] EXCEPT !.st = "global"]
    <3>1. call' = [call EXCEPT ![c] = x] /\ x.sections = {}
      BY <2>0, <2>3 DEF complete_invocation, EarlyHoldsNothing, CallRecord
    <3> QED
      BY <1>2, <3>1
  <2>4. CASE claim_global_context_injection(c)
    <3> DEFINE x == [call[c] EXCEPT !.st = "agents",
                       !.sections = IF call[c].global /\ context_session[call[c].conv] = "due" THEN {"global"} ELSE {}]
    <3>1. call' = [call EXCEPT ![c] = x] /\ x.st = "agents"
      BY <2>0, <2>4 DEF claim_global_context_injection, CallRecord
    <3> QED
      BY <1>2, <3>1
  <2>5. ASSUME NEW k \in Checks, claim_repo_check(c, k) PROVE EarlyHoldsNothing'
    <3>1. /\ \A d \in Calls \ {c} : call'[d] = call[d]
          /\ call'[c].st \in {"skills", "send"}
      BY <1>0, <2>0, <2>5 DEF claim_repo_check, CallRecord
    <3> QED
      BY <3>1 DEF EarlyHoldsNothing
  <2>6. CASE reply(c)
    BY <1>2, <2>6 DEF reply, IdleCall
  <2>7. CASE context_failed(c)
    <3> DEFINE x == [call[c] EXCEPT !.st = "send", !.sections = {}]
    <3>1. call' = [call EXCEPT ![c] = x] /\ x.sections = {}
      BY <2>0, <2>7 DEF context_failed, CallRecord
    <3> QED
      BY <1>2, <3>1
  <2> QED
    BY <1>5, <2>1, <2>2, <2>3, <2>4, <2>5, <2>6, <2>7 DEF callStep
<1>6. ASSUME NEW c \in Calls, NEW v \in Convs, NEW kind \in ToolKinds, NEW d \in Dirs,
             begin(c, kind, v, d) \/ begin_failed_open(c, kind, v, d)
      PROVE  EarlyHoldsNothing'
  <2>1. CASE begin(c, kind, v, d)
    <3>1. /\ \A e \in Calls \ {c} : call'[e] = call[e]
          /\ call'[c].sections = {}
      BY <1>0, <2>1 DEF begin, IdleCall
    <3> QED
      BY <3>1 DEF EarlyHoldsNothing
  <2>2. CASE begin_failed_open(c, kind, v, d)
    <3>1. /\ \A e \in Calls \ {c} : call'[e] = call[e]
          /\ call'[c].sections = {}
      BY <1>0, <2>2 DEF begin_failed_open, IdleCall
    <3> QED
      BY <3>1 DEF EarlyHoldsNothing
  <2> QED
    BY <1>6, <2>1, <2>2
<1>7. ASSUME NEW c \in Calls, NEW v \in Convs, set_alias(c, v) PROVE EarlyHoldsNothing'
  <2>1. /\ \A e \in Calls \ {c} : call'[e] = call[e]
        /\ call'[c].sections = {}
    BY <1>0, <1>7 DEF set_alias, IdleCall
  <2> QED
    BY <2>1 DEF EarlyHoldsNothing
<1> QED
  BY <1>3, <1>4, <1>5, <1>6, <1>7 DEF HostNext

LEMMA OnceStep == ContextTyped /\ SentOnce /\ EarlyHoldsNothing /\ CallsInv /\ [HostNext]_hostVars => SentOnce'
<1> SUFFICES ASSUME ContextTyped, SentOnce, EarlyHoldsNothing, CallsInv, [HostNext]_hostVars,
                    NEW v \in Convs, NEW s \in Keys
             PROVE  Once(v, s)'
  BY DEF SentOnce
<1>0. /\ context_session \in [Convs -> {"none", "due", "injected"}]
      /\ given \in [Convs -> [Keys -> Nat]] /\ cleared \in [Convs -> Nat]
      /\ call \in [Calls -> CallRecord] /\ v # 0
  BY HostAssumption DEF ContextTyped, CallsInv, CallsTyped
<1> DEFINE H == Holders(v, s)
           I == Holders(v, s)'
           u == IF Claimed(v, s) THEN 0 ELSE 1
           w == IF Claimed(v, s)' THEN 0 ELSE 1
<1>1. /\ given[v][s] \in Nat /\ given'[v][s] \in Nat /\ cleared[v] \in Nat /\ cleared'[v] \in Nat
      /\ IsFiniteSet(H) /\ IsFiniteSet(I) /\ u \in {0, 1} /\ w \in {0, 1}
      /\ given[v][s] + Cardinality(H) + u <= 1 + cleared[v]
  BY <1>0, ContextTypes, HoldersFinite DEF SentOnce, Once, ContextTyped
<1>2. (given'[v][s] + Cardinality(I) + w <= 1 + cleared'[v]) => Once(v, s)'
  BY DEF Once
<1>3. ASSUME I \subseteq H, Claimed(v, s) => Claimed(v, s)', given'[v][s] = given[v][s], cleared'[v] = cleared[v]
      PROVE  Once(v, s)'
  <2>1. w <= u
    BY <1>3
  <2> HIDE DEF H, I, u, w
  <2> QED
    BY <1>1, <1>2, <1>3, <2>1, Accounts
<1>4. ASSUME NEW c, I \subseteq H \cup {c}, ~Claimed(v, s), Claimed(v, s)', given'[v][s] = given[v][s], cleared'[v] = cleared[v]
      PROVE  Once(v, s)'
  <2>1. u = 1 /\ w = 0
    BY <1>4
  <2> HIDE DEF H, I, u, w
  <2> QED
    BY <1>1, <1>2, <1>4, <2>1, Accounts
<1>5. ASSUME NEW c, c \in H, I = H \ {c}, Claimed(v, s)' <=> Claimed(v, s), given'[v][s] = given[v][s] + 1, cleared'[v] = cleared[v]
      PROVE  Once(v, s)'
  <2>1. w = u
    BY <1>5
  <2> HIDE DEF H, I, u, w
  <2> QED
    BY <1>1, <1>2, <1>5, <2>1, Accounts
<1>6. ASSUME I = H, given'[v][s] = given[v][s], cleared'[v] = cleared[v] + 1
      PROVE  Once(v, s)'
  <2> HIDE DEF H, I, u, w
  <2> QED
    BY <1>1, <1>2, <1>6, Accounts
\* Whoever keeps conversation and workdir and holds no more than before.
<1>7. ASSUME \A c \in Calls : \/ call'[c] = call[c]
                              \/ call'[c].sections = {}
                              \/ /\ call'[c].conv = call[c].conv /\ call'[c].dir = call[c].dir
                                 /\ call'[c].sections \subseteq call[c].sections
      PROVE  I \subseteq H
  BY <1>7 DEF Holders, Holds
<1>8. CASE UNCHANGED <<call, context_session, checked, given, cleared>>
  BY <1>3, <1>8 DEF Holders, Holds, Claimed
<1>9. CASE \/ start_local_host_runtime \/ cleanup_failed_runtime_start \/ toggle_context \/ run_retention
           \/ take_link \/ (\E ok \in BOOLEAN : copy_link(ok)) \/ close_admission \/ shutdown
           \/ UNCHANGED hostVars
  <2>1. UNCHANGED <<call, context_session, checked, given, cleared>>
    BY <1>9 DEF start_local_host_runtime, cleanup_failed_runtime_start, toggle_context, run_retention,
     take_link, copy_link, close_admission, shutdown, hostVars, tables, ghosts
  <2> QED
    BY <1>8, <2>1
<1>10. CASE next_host
  <2>1. call' = [c \in Calls |-> IdleCall] /\ UNCHANGED <<context_session, checked, given, cleared>>
    BY <1>10 DEF next_host, ghosts
  <2>2. I \subseteq H
    BY <1>7, <2>1 DEF IdleCall
  <2> QED
    BY <1>3, <2>1, <2>2 DEF Claimed
\* A call that has not claimed anything yet, or drops what it claimed.
<1>11. ASSUME NEW c \in Calls, \/ admit(c) \/ (\E ok \in BOOLEAN : execute_with_context(c, ok))
                                \/ complete_invocation(c) \/ context_failed(c)
       PROVE  Once(v, s)'
  <2>0. call[c] \in CallRecord
    BY <1>0
  <2>1. UNCHANGED <<context_session, checked, given, cleared>>
    BY <1>11 DEF admit, execute_with_context, complete_invocation, context_failed, tables, ghosts
  <2>2. /\ \A d \in Calls \ {c} : call'[d] = call[d]
        /\ \/ call'[c].sections = {}
           \/ call'[c].conv = call[c].conv /\ call'[c].dir = call[c].dir /\ call'[c].sections = call[c].sections
    <3>1. CASE admit(c)
      BY <1>0, <2>0, <3>1 DEF admit, CallRecord
    <3>2. ASSUME NEW ok \in BOOLEAN, execute_with_context(c, ok)
          PROVE  /\ \A d \in Calls \ {c} : call'[d] = call[d]
                 /\ call'[c].conv = call[c].conv /\ call'[c].dir = call[c].dir /\ call'[c].sections = call[c].sections
      BY <1>0, <2>0, <3>2 DEF execute_with_context, CallRecord
    <3>3. CASE complete_invocation(c)
      BY <1>0, <2>0, <3>3 DEF complete_invocation, CallRecord
    <3>4. CASE context_failed(c)
      BY <1>0, <2>0, <3>4 DEF context_failed, CallRecord
    <3> QED
      BY <1>11, <3>1, <3>2, <3>3, <3>4
  <2>3. I \subseteq H
    BY <1>7, <2>2
  <2> QED
    BY <1>3, <2>1, <2>3 DEF Claimed
<1>12. ASSUME NEW c \in Calls, NEW x \in Convs, NEW id, identified(x, id), UNCHANGED <<checked, given, cleared>>,
              \A d \in Calls \ {c} : call'[d] = call[d], call'[c].sections = {}
       PROVE  Once(v, s)'
  <2>1. I \subseteq H
    BY <1>7, <1>12
  <2>2. Claimed(v, s) => Claimed(v, s)'
    BY <1>0, <1>12 DEF identified, Claimed
  <2> QED
    BY <1>3, <1>12, <2>1, <2>2
<1>13. ASSUME NEW c \in Calls, NEW x \in Convs, NEW kind \in ToolKinds, NEW d \in Dirs, begin(c, kind, x, d)
       PROVE  Once(v, s)'
  <2>1. PICK id : identified(x, id)
    BY <1>13 DEF begin
  <2>2. UNCHANGED <<checked, given, cleared>> /\ (\A e \in Calls \ {c} : call'[e] = call[e]) /\ call'[c].sections = {}
    BY <1>0, <1>13 DEF begin, IdleCall, ghosts
  <2> QED
    BY <1>12, <2>1, <2>2
<1>14. ASSUME NEW c \in Calls, NEW x \in Convs, set_alias(c, x) PROVE Once(v, s)'
  <2>1. PICK id : identified(x, id)
    BY <1>14 DEF set_alias
  <2>2. UNCHANGED <<checked, given, cleared>> /\ (\A e \in Calls \ {c} : call'[e] = call[e]) /\ call'[c].sections = {}
    BY <1>0, <1>14 DEF set_alias, IdleCall
  <2> QED
    BY <1>12, <2>1, <2>2
<1>15. ASSUME NEW c \in Calls, NEW x \in Convs, NEW kind \in ToolKinds, NEW d \in Dirs, begin_failed_open(c, kind, x, d)
       PROVE  Once(v, s)'
  <2>1. /\ UNCHANGED <<context_session, checked, given, cleared>>
        /\ (\A e \in Calls \ {c} : call'[e] = call[e]) /\ call'[c].sections = {}
    BY <1>0, <1>15 DEF begin_failed_open, IdleCall, ghosts
  <2>2. I \subseteq H
    BY <1>7, <2>1
  <2> QED
    BY <1>3, <2>1, <2>2 DEF Claimed
\* The two claims: one update of the table decides.
<1>16. ASSUME NEW c \in Calls, claim_global_context_injection(c) PROVE Once(v, s)'
  <2> DEFINE claimed == call[c].global /\ context_session[call[c].conv] = "due"
  <2>1. /\ UNCHANGED <<checked, given, cleared>> /\ \A d \in Calls \ {c} : call'[d] = call[d]
        /\ context_session' = [context_session EXCEPT ![call[c].conv] = IF claimed THEN "injected" ELSE @]
    BY <1>0, <1>16 DEF claim_global_context_injection, ghosts
  <2>2. /\ call'[c].sections = (IF claimed THEN {"global"} ELSE {}) /\ call'[c].conv = call[c].conv
    BY <1>0, <1>16 DEF claim_global_context_injection, CallRecord
  <2>3. Claimed(v, s) => Claimed(v, s)'
    BY <1>0, <2>1 DEF Claimed
  <2>4. CASE ~claimed \/ call[c].conv # v \/ s # Global
    <3>1. c \notin I
      BY <2>2, <2>4, KeysAre DEF Holders, Holds, Checks
    <3>2. I \subseteq H
      BY <2>1, <3>1 DEF Holders, Holds
    <3> QED
      BY <1>3, <2>1, <2>3, <3>2
  <2>5. CASE claimed /\ call[c].conv = v /\ s = Global
    <3>1. I \subseteq H \cup {c}
      BY <2>1 DEF Holders, Holds
    <3>2. ~Claimed(v, s) /\ Claimed(v, s)'
      BY <1>0, <2>1, <2>5 DEF Claimed
    <3> QED
      BY <1>4, <2>1, <3>1, <3>2
  <2> QED
    BY <2>4, <2>5
<1>17. ASSUME NEW c \in Calls, NEW k \in Checks, claim_repo_check(c, k) PROVE Once(v, s)'
  <2> DEFINE item == <<call[c].conv, call[c].dir, k>>
             claimed == enabled /\ call[c].ok /\ k \in call[c].repo /\ item \notin checked
  <2>1. /\ UNCHANGED <<context_session, given, cleared>> /\ \A d \in Calls \ {c} : call'[d] = call[d]
        /\ checked' = IF claimed THEN checked \cup {item} ELSE checked
    BY <1>0, <1>17 DEF claim_repo_check, ghosts
  <2>2. /\ call'[c].sections = (IF claimed THEN call[c].sections \cup {k} ELSE call[c].sections)
        /\ call'[c].conv = call[c].conv /\ call'[c].dir = call[c].dir
    BY <1>0, <1>17 DEF claim_repo_check, CallRecord
  <2>3. Claimed(v, s) => Claimed(v, s)'
    BY <2>1 DEF Claimed
  <2>4. CASE ~claimed \/ call[c].conv # v \/ s # <<call[c].dir, k>>
    <3>1. c \in I => c \in H
      BY <2>2, <2>4, KeysAre DEF Holders, Holds
    <3>2. I \subseteq H
      BY <2>1, <3>1 DEF Holders, Holds
    <3> QED
      BY <1>3, <2>1, <2>3, <3>2
  <2>5. CASE claimed /\ call[c].conv = v /\ s = <<call[c].dir, k>>
    <3>1. I \subseteq H \cup {c}
      BY <2>1 DEF Holders, Holds
    <3>2. s # Global /\ s[1] = call[c].dir /\ s[2] = k
      BY <2>5, KeysAre
    <3>3. ~Claimed(v, s) /\ Claimed(v, s)'
      BY <2>1, <2>5, <3>2 DEF Claimed
    <3> QED
      BY <1>4, <2>1, <3>1, <3>3
  <2> QED
    BY <2>4, <2>5
<1>18. ASSUME NEW c \in Calls, reply(c) PROVE Once(v, s)'
  <2>1. /\ UNCHANGED <<context_session, checked, cleared>> /\ call' = [call EXCEPT ![c] = IdleCall]
        /\ given'[v][s] = IF sends(call[c], v, s) THEN given[v][s] + 1 ELSE given[v][s]
    BY <1>0, <1>18 DEF reply, tables
  <2>2. sends(call[c], v, s) <=> Holds(c, v, s)
    BY KeysAre DEF sends, Holds, Global
  <2>3. I = H \ {c}
    BY <1>0, <2>1 DEF Holders, Holds, IdleCall
  <2>4. c \in H <=> Holds(c, v, s)
    BY DEF Holders
  <2>5. Claimed(v, s)' <=> Claimed(v, s)
    BY <2>1 DEF Claimed
  <2> HIDE DEF H, I
  <2> QED
    BY <1>3, <1>5, <2>1, <2>2, <2>3, <2>4, <2>5
<1>19. ASSUME NEW x \in Convs, clear_local_agent_history(x) PROVE Once(v, s)'
  <2>1. /\ UNCHANGED <<call, given>> /\ cleared' = [cleared EXCEPT ![x] = @ + 1]
        /\ context_session' = [context_session EXCEPT ![x] = "none"]
        /\ checked' = {y \in checked : y[1] # x}
    BY <1>19 DEF clear_local_agent_history
  <2>2. I = H
    BY <2>1 DEF Holders, Holds
  <2>3. CASE x = v
    BY <1>0, <1>6, <2>1, <2>2, <2>3
  <2>4. CASE x # v
    <3>1. Claimed(v, s) <=> Claimed(v, s)'
      BY <1>0, <2>1, <2>4 DEF Claimed
    <3> QED
      BY <1>0, <1>3, <2>1, <2>2, <2>4, <3>1
  <2> QED
    BY <2>3, <2>4
<1> QED
  BY <1>9, <1>10, <1>11, <1>13, <1>14, <1>15, <1>16, <1>17, <1>18, <1>19 DEF HostNext, callStep

\* Trouble is recorded for good: no step of the host forgets a failed operation.
LEMMA TroubleStays == [HostNext]_hostVars /\ trouble => trouble'
<1> SUFFICES ASSUME [HostNext]_hostVars, trouble PROVE trouble'
  OBVIOUS
<1>1. CASE start_local_host_runtime
  BY <1>1 DEF start_local_host_runtime, budget
<1>2. CASE cleanup_failed_runtime_start
  BY <1>2 DEF cleanup_failed_runtime_start, errs
<1>3. CASE next_host
  BY <1>3 DEF next_host
<1>4. CASE toggle_context \/ run_retention
  BY <1>4 DEF toggle_context, run_retention
<1>5. CASE \E v \in Convs : clear_local_agent_history(v)
  BY <1>5 DEF clear_local_agent_history
<1>6. CASE take_link
  BY <1>6 DEF take_link, budget
<1>7. CASE \E ok \in BOOLEAN : copy_link(ok)
  BY <1>7 DEF copy_link, budget, errs
<1>8. CASE close_admission
  BY <1>8 DEF close_admission, budget
<1>9. CASE shutdown
  BY <1>9 DEF shutdown, budget, errs
<1>10. CASE \E c \in Calls : callStep(c)
  <2> PICK c \in Calls : callStep(c)
    BY <1>10
  <2>1. CASE admit(c) \/ (\E ok \in BOOLEAN : execute_with_context(c, ok)) \/ complete_invocation(c)
    BY <2>1 DEF admit, execute_with_context, complete_invocation, budget
  <2>2. CASE claim_global_context_injection(c)
    BY <2>2 DEF claim_global_context_injection, budget
  <2>3. CASE \E k \in Checks : claim_repo_check(c, k)
    BY <2>3 DEF claim_repo_check, budget
  <2>4. CASE reply(c)
    BY <2>4 DEF reply, budget
  <2> QED
    BY <2>1, <2>2, <2>3, <2>4 DEF callStep
<1>11. CASE \E c \in Calls : context_failed(c)
  BY <1>11 DEF context_failed, errs
<1>12. CASE \E c \in Calls : \E v \in Convs : set_alias(c, v)
  BY <1>12 DEF set_alias, budget
<1>13. CASE \E c \in Calls, v \in Convs, kind \in ToolKinds, d \in Dirs : begin(c, kind, v, d)
  BY <1>13 DEF begin, budget
<1>14. CASE \E c \in Calls, v \in Convs, kind \in ToolKinds, d \in Dirs : begin_failed_open(c, kind, v, d)
  BY <1>14 DEF begin_failed_open, errs
<1>15. CASE UNCHANGED hostVars
  BY <1>15 DEF hostVars
<1> QED
  BY <1>1, <1>2, <1>3, <1>4, <1>5, <1>6, <1>7, <1>8, <1>9, <1>10, <1>11, <1>12, <1>13, <1>14, <1>15 DEF HostNext

LEMMA SentStep == ContextInv /\ CallsInv /\ PhasesInv /\ [HostNext]_hostVars => SentAtAll'
<1> SUFFICES ASSUME ContextInv, CallsInv, PhasesInv, [HostNext]_hostVars, ~trouble', NEW v \in Convs,
                    context_session'[v] = "injected"
             PROVE  given'[v][Global] > 0 \/ \E c \in Calls : call'[c].conv = v /\ "global" \in call'[c].sections
  BY DEF SentAtAll
<1> DEFINE Sending(c) == call[c].conv = v /\ "global" \in call[c].sections
           Goal == given'[v][Global] > 0 \/ \E c \in Calls : Sending(c)'
<1>0. /\ context_session \in [Convs -> {"none", "due", "injected"}]
      /\ given \in [Convs -> [Keys -> Nat]] /\ call \in [Calls -> CallRecord] /\ given[v][Global] \in Nat
  BY KeysAre DEF ContextInv, ContextTyped, CallsInv, CallsTyped
<1>1. ~trouble
  BY TroubleStays
<1>2. ASSUME context_session[v] = "injected" PROVE given[v][Global] > 0 \/ \E c \in Calls : Sending(c)
  BY <1>1, <1>2 DEF ContextInv, SentAtAll
<1>3. ASSUME context_session[v] = "injected", given'[v][Global] = given[v][Global],
             \A c \in Calls : Sending(c) => Sending(c)'
      PROVE  Goal
  BY <1>2, <1>3
<1>4. CASE \/ start_local_host_runtime \/ cleanup_failed_runtime_start \/ toggle_context \/ run_retention
           \/ take_link \/ (\E ok \in BOOLEAN : copy_link(ok)) \/ close_admission \/ shutdown
           \/ UNCHANGED hostVars
  <2>1. UNCHANGED <<call, context_session, given>>
    BY <1>4 DEF start_local_host_runtime, cleanup_failed_runtime_start, toggle_context, run_retention,
     take_link, copy_link, close_admission, shutdown, hostVars, tables, ghosts, parts
  <2> QED
    BY <1>3, <2>1
<1>5. CASE next_host
  <2>1. phase \notin Serving /\ UNCHANGED <<context_session, given>>
    BY <1>5 DEF next_host, Serving, ghosts
  <2>2. \A c \in Calls : ~Sending(c)
    BY <2>1 DEF PhasesInv, ContextInv, EarlyHoldsNothing
  <2> QED
    BY <1>3, <2>1, <2>2
<1>6. ASSUME NEW c \in Calls, \/ admit(c) \/ (\E ok \in BOOLEAN : execute_with_context(c, ok))
                               \/ complete_invocation(c) \/ (\E k \in Checks : claim_repo_check(c, k))
      PROVE  Goal
  <2>0. call[c] \in CallRecord
    BY <1>0
  <2>1. UNCHANGED <<context_session, given>>
    BY <1>6 DEF admit, execute_with_context, complete_invocation, claim_repo_check, tables, ghosts
  <2>2. /\ \A d \in Calls \ {c} : call'[d] = call[d]
        /\ call'[c].conv = call[c].conv /\ call[c].sections \subseteq call'[c].sections
    <3>1. CASE admit(c)
      BY <1>0, <2>0, <3>1 DEF admit, CallRecord
    <3>2. ASSUME NEW ok \in BOOLEAN, execute_with_context(c, ok)
          PROVE  /\ \A d \in Calls \ {c} : call'[d] = call[d]
                 /\ call'[c].conv = call[c].conv /\ call'[c].sections = call[c].sections
      BY <1>0, <2>0, <3>2 DEF execute_with_context, CallRecord
    <3>3. CASE complete_invocation(c)
      BY <1>0, <2>0, <3>3 DEF complete_invocation, CallRecord
    <3>4. ASSUME NEW k \in Checks, claim_repo_check(c, k)
          PROVE  /\ \A d \in Calls \ {c} : call'[d] = call[d]
                 /\ call'[c].conv = call[c].conv /\ call[c].sections \subseteq call'[c].sections
      BY <1>0, <2>0, <3>4 DEF claim_repo_check, CallRecord
    <3> QED
      BY <1>6, <3>1, <3>2, <3>3, <3>4
  <2> QED
    BY <1>3, <2>1, <2>2
<1>7. ASSUME NEW c \in Calls, context_failed(c) PROVE FALSE
  BY <1>7 DEF context_failed, errs
\* A call that begins held nothing.
<1>8. ASSUME NEW c \in Calls, call[c].st = "idle", \A d \in Calls \ {c} : call'[d] = call[d],
             UNCHANGED given, context_session[v] = "injected"
      PROVE  Goal
  BY <1>3, <1>8 DEF ContextInv, EarlyHoldsNothing
<1>9. ASSUME NEW x \in Convs, NEW id, identified(x, id) PROVE context_session[v] = "injected"
  BY <1>0, <1>9 DEF identified
<1>10. ASSUME NEW c \in Calls, NEW x \in Convs, NEW kind \in ToolKinds, NEW d \in Dirs, begin(c, kind, x, d) PROVE Goal
  <2>1. call[c].st = "idle" /\ (\A e \in Calls \ {c} : call'[e] = call[e]) /\ UNCHANGED given
    BY <1>0, <1>10 DEF begin, ghosts
  <2> QED
    BY <1>8, <1>9, <1>10, <2>1 DEF begin
<1>11. ASSUME NEW c \in Calls, NEW x \in Convs, set_alias(c, x) PROVE Goal
  <2>1. call[c].st = "idle" /\ (\A e \in Calls \ {c} : call'[e] = call[e]) /\ UNCHANGED given
    BY <1>0, <1>11 DEF set_alias
  <2> QED
    BY <1>8, <1>9, <1>11, <2>1 DEF set_alias
<1>12. ASSUME NEW c \in Calls, NEW x \in Convs, NEW kind \in ToolKinds, NEW d \in Dirs, begin_failed_open(c, kind, x, d)
       PROVE  Goal
  BY <1>0, <1>8, <1>12 DEF begin_failed_open, ghosts
<1>13. ASSUME NEW c \in Calls, claim_global_context_injection(c) PROVE Goal
  <2> DEFINE claimed == call[c].global /\ context_session[call[c].conv] = "due"
  <2>1. /\ UNCHANGED given /\ \A d \in Calls \ {c} : call'[d] = call[d]
        /\ context_session' = [context_session EXCEPT ![call[c].conv] = IF claimed THEN "injected" ELSE @]
    BY <1>0, <1>13 DEF claim_global_context_injection, ghosts
  <2>2. /\ call'[c].sections = (IF claimed THEN {"global"} ELSE {}) /\ call'[c].conv = call[c].conv
        /\ call[c].sections = {}
    BY <1>0, <1>13 DEF claim_global_context_injection, CallRecord, ContextInv, EarlyHoldsNothing
  <2>3. CASE context_session[v] = "injected"
    BY <1>3, <2>1, <2>2, <2>3
  <2>4. CASE context_session[v] # "injected"
    <3>1. claimed /\ call[c].conv = v
      BY <1>0, <2>1, <2>4
    <3> QED
      BY <2>2, <3>1
  <2> QED
    BY <2>3, <2>4
<1>14. ASSUME NEW c \in Calls, reply(c) PROVE Goal
  <2>1. /\ UNCHANGED context_session /\ \A d \in Calls \ {c} : call'[d] = call[d]
        /\ given'[v][Global] = IF sends(call[c], v, Global) THEN given[v][Global] + 1 ELSE given[v][Global]
    BY <1>0, <1>14, KeysAre DEF reply, tables
  <2>2. Sending(c) => sends(call[c], v, Global)
    BY DEF sends, Global
  <2>3. CASE Sending(c)
    BY <1>0, <2>1, <2>2, <2>3
  <2>4. CASE ~Sending(c)
    BY <1>0, <1>2, <2>1, <2>4
  <2> QED
    BY <2>3, <2>4
<1>15. ASSUME NEW x \in Convs, clear_local_agent_history(x) PROVE Goal
  <2>1. UNCHANGED <<call, given>> /\ context_session' = [context_session EXCEPT ![x] = "none"]
    BY <1>15 DEF clear_local_agent_history
  <2> QED
    BY <1>0, <1>3, <2>1
<1> QED
  BY <1>4, <1>5, <1>6, <1>7, <1>10, <1>11, <1>12, <1>13, <1>14, <1>15 DEF HostNext, callStep

-----------------------------------------------------------------------------
(* The notifier *)

\* While links are accepted, that of the last conversation waits in the slot,
\* or the worker has it, or it was copied.
LinkOnItsWay ==
    link.accepting /\ link.last # 0 =>
        IF link.slot # 0 THEN link.slot = link.last
        ELSE IF link.worker # 0 THEN link.worker = link.last ELSE link.copied = link.last
NothingBeforeStart == phase \in DOMAIN StartSteps => link.last = 0 /\ ~link.accepting

LinkInv == LinkTyped /\ LinkOnItsWay /\ NothingBeforeStart

LEMMA LinkStep == LinkInv /\ CallsInv /\ RowsInv /\ [HostNext]_hostVars => LinkInv'
<1> SUFFICES ASSUME LinkInv, CallsInv, RowsInv, [HostNext]_hostVars PROVE LinkInv'
  OBVIOUS
<1>0. link \in LinkRecord
  BY DEF LinkInv, LinkTyped
<1>1. ASSUME UNCHANGED link, phase' \notin DOMAIN StartSteps \/ phase' = phase \/ phase \in DOMAIN StartSteps
      PROVE  LinkInv'
  BY <1>1 DEF LinkInv, LinkTyped, LinkOnItsWay, NothingBeforeStart
<1>2. CASE start_local_host_runtime
  <2>1. CASE phase # "liveboard"
    BY <1>1, <1>2, <2>1 DEF start_local_host_runtime
  <2>2. CASE phase = "liveboard"
    <3>1. link' = [link EXCEPT !.accepting = TRUE] /\ phase' = "serving" /\ link.last = 0
      BY <1>2, <2>2 DEF start_local_host_runtime, LinkInv, NothingBeforeStart, StartSteps
    <3>2. link' \in LinkRecord /\ link'.last = 0
      BY <1>0, <3>1 DEF LinkRecord
    <3> QED
      BY <3>1, <3>2, Steps DEF LinkInv, LinkTyped, LinkOnItsWay, NothingBeforeStart
  <2> QED
    BY <2>1, <2>2
<1>3. CASE cleanup_failed_runtime_start
  BY <1>1, <1>3, Steps DEF cleanup_failed_runtime_start
<1>4. CASE next_host
  <2>1. link' \in LinkRecord /\ link'.last = 0 /\ ~link'.accepting
    BY <1>0, <1>4 DEF next_host, LinkRecord
  <2> QED
    BY <2>1 DEF LinkInv, LinkTyped, LinkOnItsWay, NothingBeforeStart
<1>5. ASSUME NEW v \in Convs, NEW id \in resolve_agent(v), identified(v, id), UNCHANGED phase, phase = "serving"
      PROVE  LinkInv'
  <2>1. id \in Nat /\ id # 0
    BY HostAssumption DEF RowsInv, AgentsTyped, AgentRecord, resolve_agent, known, free
  <2>2. link' = link \/ link' = [link EXCEPT !.slot = id, !.last = id]
    BY <1>5 DEF identified, enqueue
  <2>3. CASE link' = link
    BY <1>1, <1>5, <2>3
  <2>4. CASE link' = [link EXCEPT !.slot = id, !.last = id]
    <3>1. link' \in LinkRecord /\ link'.slot = id /\ link'.last = id
      BY <1>0, <2>1, <2>4 DEF LinkRecord
    <3> QED
      BY <1>5, <2>1, <3>1, Steps DEF LinkInv, LinkTyped, LinkOnItsWay, NothingBeforeStart
  <2> QED
    BY <2>2, <2>3, <2>4
<1>6. ASSUME NEW c \in Calls, NEW v \in Convs, NEW kind \in ToolKinds, NEW d \in Dirs, begin(c, kind, v, d)
      PROVE  LinkInv'
  BY <1>5, <1>6 DEF begin, parts
<1>7. ASSUME NEW c \in Calls, NEW v \in Convs, set_alias(c, v) PROVE LinkInv'
  BY <1>5, <1>7 DEF set_alias, parts
<1>8. ASSUME NEW c \in Calls, NEW v \in Convs, NEW kind \in ToolKinds, NEW d \in Dirs, begin_failed_open(c, kind, v, d)
      PROVE  LinkInv'
  BY <1>1, <1>8 DEF begin_failed_open, parts
<1>9. ASSUME NEW c \in Calls, callStep(c) \/ context_failed(c) PROVE LinkInv'
  <2>1. UNCHANGED <<link, phase>>
    BY <1>9 DEF callStep, admit, execute_with_context, complete_invocation, claim_global_context_injection,
         claim_repo_check, reply, context_failed, parts
  <2> QED
    BY <1>1, <2>1
<1>10. CASE \/ toggle_context \/ run_retention \/ (\E v \in Convs : clear_local_agent_history(v)) \/ UNCHANGED hostVars
  <2>1. UNCHANGED <<link, phase>>
    BY <1>10 DEF toggle_context, run_retention, clear_local_agent_history, parts, hostVars
  <2> QED
    BY <1>1, <2>1
<1>11. CASE take_link
  <2>1. link' = [link EXCEPT !.worker = link.slot, !.slot = 0] /\ link.slot # 0 /\ UNCHANGED phase
    BY <1>11 DEF take_link, parts
  <2>2. /\ link' \in LinkRecord /\ link'.slot = 0 /\ link'.worker = link.slot
        /\ link'.last = link.last /\ link'.accepting = link.accepting
    BY <1>0, <2>1 DEF LinkRecord
  <2> QED
    BY <2>1, <2>2 DEF LinkInv, LinkTyped, LinkOnItsWay, NothingBeforeStart
\* A copy that fails is only logged: the link is given up.
<1>12. ASSUME NEW ok \in BOOLEAN, copy_link(ok) PROVE LinkInv'
  <2>1. /\ link.worker # 0 /\ UNCHANGED phase
        /\ link' = [link EXCEPT !.worker = 0, !.copied = IF ok THEN link.worker ELSE @, !.last = IF ok THEN @ ELSE 0]
    BY <1>12 DEF copy_link, parts
  <2>2. /\ link' \in LinkRecord /\ link'.worker = 0 /\ link'.slot = link.slot /\ link'.accepting = link.accepting
        /\ IF ok THEN link'.copied = link.worker /\ link'.last = link.last ELSE link'.last = 0
    BY <1>0, <2>1 DEF LinkRecord
  <2> QED
    BY <2>1, <2>2 DEF LinkInv, LinkTyped, LinkOnItsWay, NothingBeforeStart
<1>13. CASE close_admission
  <2>1. link' = [link EXCEPT !.accepting = FALSE, !.slot = 0] /\ phase' = "sessions"
    BY <1>13 DEF close_admission
  <2>2. link' \in LinkRecord /\ ~link'.accepting
    BY <1>0, <2>1 DEF LinkRecord
  <2> QED
    BY <2>1, <2>2, Steps DEF LinkInv, LinkTyped, LinkOnItsWay, NothingBeforeStart
<1>14. CASE shutdown
  <2>1. UNCHANGED link /\ phase \in DOMAIN StopSteps /\ phase' = StopSteps[phase]
    BY <1>14 DEF shutdown
  <2>2. phase' \notin DOMAIN StartSteps
    BY <2>1, Steps
  <2> QED
    BY <1>1, <2>1, <2>2
<1> QED
  BY <1>2, <1>3, <1>4, <1>6, <1>7, <1>8, <1>9, <1>10, <1>11, <1>12, <1>13, <1>14 DEF HostNext

-----------------------------------------------------------------------------
(* The theorems *)

HostInv == CallsInv /\ RowsInv /\ EnvelopesInv /\ ContextInv /\ LinkInv

LEMMA HostInitially == HostInit => HostInv
<1> SUFFICES ASSUME HostInit PROVE HostInv
  OBVIOUS
<1>1. CallsInv
  BY DEF HostInit, CallsInv, CallsTyped, IdleIsIdle, IdleCall, CallRecord, CallStates, ToolKinds
<1>2. RowsInv
  <2>1. AgentsTyped /\ OneAgentEach /\ Attributed
    BY DEF HostInit, AgentsTyped, AgentRecord, OneAgentEach, known, Attributed
  <2>2. \A i \in Ids, d \in Dirs : count(rows, i, d) = 0
    <3> SUFFICES ASSUME NEW i \in Ids, NEW d \in Dirs PROVE count(rows, i, d) = 0
      OBVIOUS
    <3>1. {r \in rowsOf(rows, i) : r.dir = d} = {}
      BY DEF HostInit, rowsOf
    <3> QED
      BY <3>1, FS_EmptySet DEF count
  <2>3. RowsTyped /\ SummaryExact
    BY <2>2, FS_EmptySet DEF HostInit, RowsTyped, SummaryExact
  <2> QED
    BY <2>1, <2>3 DEF RowsInv
<1>3. EnvelopesInv
  BY DEF HostInit, EnvelopesInv, PhasesInv, PendingInFlight, Recording, Serving, Over, IdleCall
<1>4. ContextTyped /\ EarlyHoldsNothing /\ SentAtAll
  BY DEF HostInit, ContextTyped, EarlyHoldsNothing, SentAtAll, IdleCall, Keys
<1>5. ASSUME NEW v \in Convs, NEW s \in Keys PROVE Once(v, s)
  <2>1. Holders(v, s) = {}
    BY DEF HostInit, Holders, Holds, IdleCall
  <2>2. given[v][s] = 0 /\ cleared[v] = 0
    BY DEF HostInit, Keys
  <2> QED
    BY <2>1, <2>2, FS_EmptySet DEF Once
<1>6. LinkInv
  BY DEF HostInit, LinkInv, LinkTyped, LinkRecord, LinkOnItsWay, NothingBeforeStart
<1> QED
  BY <1>1, <1>2, <1>3, <1>4, <1>5, <1>6 DEF HostInv, ContextInv, SentOnce

\* The invariants above hold together, in every state of the runtime.
THEOREM HostInvariant == HostSpec => []HostInv
<1>1. HostInv /\ [HostNext]_hostVars => HostInv'
  <2> SUFFICES ASSUME HostInv, [HostNext]_hostVars PROVE HostInv'
    OBVIOUS
  <2>1. CallsInv' /\ RowsInv'
    BY CallsStep, RowsStep DEF HostInv, RowsInv, RowsTyped
  <2>2. EnvelopesInv'
    BY EnvelopesStep DEF HostInv, RowsInv
  <2>3. ContextInv'
    BY ContextTypes, EarlyStep, OnceStep, SentStep DEF HostInv, ContextInv, EnvelopesInv
  <2>4. LinkInv'
    BY LinkStep DEF HostInv
  <2> QED
    BY <2>1, <2>2, <2>3, <2>4 DEF HostInv
<1> QED
  BY <1>1, HostInitially, PTL DEF HostSpec

\* Each conversation is sent the global context and each workdir check at
\* most once however many of its calls run at the same time, and what was
\* claimed is sent (claim_global_context_injection, the workdir claims and
\* appended_context in mcp_context.rs).
THEOREM ContextIsExactlyOnce == HostSpec => []ContextExactlyOnce
<1>1. HostInv => ContextExactlyOnce
  <2> SUFFICES ASSUME HostInv PROVE ContextExactlyOnce
    OBVIOUS
  <2>1. ContextTyped /\ SentOnce /\ SentAtAll
    BY DEF HostInv, ContextInv
  <2>2. ASSUME NEW v \in Convs, NEW s \in DOMAIN given[v] PROVE given[v][s] <= 1 + cleared[v]
    <3>1. s \in Keys /\ given[v][s] \in Nat /\ cleared[v] \in Nat
      BY <2>1 DEF ContextTyped
    <3>2. IsFiniteSet(Holders(v, s))
      BY HoldersFinite
    <3>3. Cardinality(Holders(v, s)) \in Nat
      BY <3>2, FS_CardinalityType
    <3> QED
      BY <2>1, <3>1, <3>3 DEF SentOnce, Once
  <2>3. ClaimedIsSent
    BY <2>1 DEF SentAtAll, ClaimedIsSent, Global
  <2> QED
    BY <2>2, <2>3 DEF ContextExactlyOnce, ContextOnce
<1> QED
  BY <1>1, HostInvariant, PTL

\* What the store says of an agent is true of that agent (resolve_agent,
\* begin_with_metadata, run_retention, clear_local_agent_history,
\* recompute_summaries): no row is shown under the agent of another
\* conversation, and every summary counts exactly the rows it summarises.
THEOREM AgentsAreAccounted == HostSpec => []AgentsAccounted
<1>1. HostInv => AgentsAccounted
  <2> SUFFICES ASSUME RowsInv PROVE RowsBelong
    BY DEF HostInv, RowsInv, AgentsAccounted
  <2>1. ASSUME NEW r \in rows, NEW v \in Convs, agents[v].id = r.agent PROVE v = r.conv
    <3>1. r.conv \in Convs /\ agents[r.conv].id = r.agent /\ r.agent # 0
      BY HostAssumption DEF RowsInv, RowsTyped, RowRecord, Attributed
    <3> QED
      BY <2>1, <3>1 DEF RowsInv, OneAgentEach, known
  <2> QED
    BY <2>1 DEF RowsBelong
<1> QED
  BY <1>1, HostInvariant, PTL

\* When the history writer has stopped every row of the runtime has its
\* result, and at rest the clipboard holds the link of the conversation seen
\* last (LocalHostRuntime::shutdown, LiveboardLinkNotifier).
THEOREM NothingIsLeftOpen == HostSpec => []NothingLeftOpen
<1>1. HostInv => NothingLeftOpen
  <2> SUFFICES ASSUME HostInv PROVE EnvelopesSettled /\ LatestLink
    BY DEF NothingLeftOpen
  <2>1. EnvelopesSettled
    BY DEF HostInv, EnvelopesInv, PhasesInv, PendingInFlight, EnvelopesSettled, Recording, Serving, Over
  <2>2. LatestLink
    BY DEF HostInv, LinkInv, LinkOnItsWay, LatestLink
  <2> QED
    BY <2>1, <2>2
<1> QED
  BY <1>1, HostInvariant, PTL
Elements(q) == {q[k] : k \in DOMAIN q}
Rising(q, R) == \A j, k \in DOMAIN q : j < k => <<q[j], q[k]>> \in R

LEMMA Appended ==
    ASSUME NEW S, NEW q \in Seq(S), NEW x \in S
    PROVE  /\ Append(q, x) \in Seq(S) /\ Elements(Append(q, x)) = Elements(q) \cup {x}
           /\ \A R : Rising(q, R) /\ (\A e \in Elements(q) : <<e, x>> \in R) => Rising(Append(q, x), R)
<1> DEFINE z == Append(q, x)
<1>1. /\ z \in Seq(S) /\ Len(z) = Len(q) + 1 /\ z[Len(q) + 1] = x
      /\ \A k \in 1..Len(q) : z[k] = q[k]
  BY AppendProperties
<1>2. Len(q) \in Nat /\ DOMAIN q = 1..Len(q) /\ DOMAIN z = 1..Len(q) + 1
  BY <1>1, LenProperties
<1> HIDE DEF z
<1>3. \A k \in DOMAIN z : k \in DOMAIN q \/ k = Len(q) + 1
  BY <1>2
<1>4. DOMAIN q \subseteq DOMAIN z /\ Len(q) + 1 \in DOMAIN z
  BY <1>2
<1>5. Elements(z) = Elements(q) \cup {x}
  <2>1. \A k \in DOMAIN z : z[k] \in Elements(q) \cup {x}
    BY <1>1, <1>2, <1>3 DEF Elements
  <2>2. \A k \in DOMAIN q : q[k] = z[k]
    BY <1>1, <1>2
  <2> QED
    BY <1>1, <1>4, <2>1, <2>2 DEF Elements
<1>6. ASSUME NEW R, Rising(q, R), \A e \in Elements(q) : <<e, x>> \in R PROVE Rising(z, R)
  <2> SUFFICES ASSUME NEW j \in DOMAIN z, NEW k \in DOMAIN z, j < k PROVE <<z[j], z[k]>> \in R
    BY DEF Rising
  <2>1. j \in DOMAIN q /\ z[j] = q[j] /\ q[j] \in Elements(q)
    BY <1>1, <1>2 DEF Elements
  <2>2. CASE k \in DOMAIN q
    <3>1. z[k] = q[k]
      BY <1>1, <1>2, <2>2
    <3> QED
      BY <1>6, <2>1, <2>2, <3>1 DEF Rising
  <2>3. CASE k = Len(q) + 1
    BY <1>1, <1>6, <2>1, <2>3
  <2> QED
    BY <1>3, <2>2, <2>3
<1> QED
  BY <1>1, <1>5, <1>6 DEF z

LEMMA Taken ==
    ASSUME NEW S, NEW q \in Seq(S), q # <<>>
    PROVE  /\ Tail(q) \in Seq(S) /\ Head(q) \in S /\ Elements(q) = {Head(q)} \cup Elements(Tail(q))
           /\ Elements(Tail(q)) \subseteq S /\ Len(Tail(q)) + 1 = Len(q)
           /\ \A R : Rising(q, R) => Rising(Tail(q), R) /\ \A e \in Elements(Tail(q)) : <<Head(q), e>> \in R
<1> DEFINE z == Tail(q)
<1>1. /\ z \in Seq(S) /\ Len(z) = Len(q) - 1 /\ Head(q) = q[1] /\ Head(q) \in S
      /\ \A k \in 1..Len(z) : z[k] = q[k + 1]
  BY HeadTailProperties
<1>2. Len(q) \in Nat /\ Len(q) > 0 /\ DOMAIN q = 1..Len(q) /\ DOMAIN z = 1..Len(q) - 1
  <2>1. Len(q) \in Nat /\ DOMAIN q = 1..Len(q) /\ DOMAIN z = 1..Len(z) /\ (Len(q) = 0 => q = <<>>)
    BY <1>1, LenProperties, EmptySeq
  <2> QED
    BY <1>1, <2>1
<1>3. \A k \in DOMAIN z : z[k] \in S
  BY <1>1, <1>2, ElementOfSeq
<1>4. \A k \in DOMAIN z : k + 1 \in DOMAIN q /\ k + 1 > 1 /\ z[k] = q[k + 1]
  BY <1>1, <1>2
<1>5. \A k \in DOMAIN q : k = 1 \/ (k - 1 \in DOMAIN z /\ z[k - 1] = q[k])
  BY <1>1, <1>2
<1>6. 1 \in DOMAIN q
  BY <1>2
<1> HIDE DEF z
<1>7. Elements(q) = {Head(q)} \cup Elements(z)
  <2>1. Elements(q) \subseteq {Head(q)} \cup Elements(z)
    BY <1>1, <1>5 DEF Elements
  <2>2. Elements(z) \subseteq Elements(q) /\ Head(q) \in Elements(q)
    BY <1>1, <1>4, <1>6 DEF Elements
  <2> QED
    BY <2>1, <2>2
<1>8. ASSUME NEW R, Rising(q, R) PROVE Rising(z, R) /\ \A e \in Elements(z) : <<Head(q), e>> \in R
  <2>1. \A j, k \in DOMAIN z : j < k => j + 1 < k + 1
    BY <1>2
  <2>2. Rising(z, R)
    BY <1>4, <1>8, <2>1 DEF Rising
  <2>3. ASSUME NEW k \in DOMAIN z PROVE <<Head(q), z[k]>> \in R
    BY <1>1, <1>4, <1>6, <1>8 DEF Rising
  <2>4. \A e \in Elements(z) : <<Head(q), e>> \in R
    BY <2>3 DEF Elements
  <2> QED
    BY <2>2, <2>4
<1>9. Elements(z) \subseteq S /\ Len(z) + 1 = Len(q)
  BY <1>1, <1>2, <1>3 DEF Elements
<1> QED
  BY <1>1, <1>7, <1>8, <1>9 DEF z

LEMMA NothingIn == Elements(<<>>) = {} /\ \A R : Rising(<<>>, R)
BY DEF Elements, Rising

LEMMA Preceded ==
    ASSUME NEW S, NEW q \in Seq(S), NEW x \in S
    PROVE  /\ <<x>> \o q \in Seq(S) /\ Elements(<<x>> \o q) = {x} \cup Elements(q)
           /\ Head(<<x>> \o q) = x /\ (q # <<>> => Tail(<<x>> \o q) # <<>>)
           /\ \A R : Rising(q, R) /\ (\A e \in Elements(q) : <<x, e>> \in R) => Rising(<<x>> \o q, R)
<1> DEFINE z == <<x>> \o q
<1>1. /\ z \in Seq(S) /\ Len(z) = Len(q) + 1 /\ z[1] = x
      /\ \A k \in 1..Len(z) : z[k] = IF k <= 1 THEN x ELSE q[k - 1]
  <2>1. <<x>> \in Seq(S) /\ Len(<<x>>) = 1 /\ <<x>>[1] = x
    OBVIOUS
  <2>2. /\ z \in Seq(S) /\ Len(z) = 1 + Len(q)
        /\ \A k \in 1..Len(z) : z[k] = IF k <= 1 THEN <<x>>[k] ELSE q[k - 1]
    BY <2>1, ConcatProperties
  <2>3. Len(q) \in Nat
    BY LenProperties
  <2> QED
    BY <2>1, <2>2, <2>3
<1>2. Len(q) \in Nat /\ DOMAIN q = 1..Len(q) /\ DOMAIN z = 1..Len(q) + 1
  BY <1>1, LenProperties
<1> HIDE DEF z
<1>3. \A k \in DOMAIN z : (k = 1 /\ z[k] = x) \/ (k > 1 /\ k - 1 \in DOMAIN q /\ z[k] = q[k - 1])
  BY <1>1, <1>2
<1>4. \A k \in DOMAIN q : k + 1 \in DOMAIN z /\ z[k + 1] = q[k]
  BY <1>1, <1>2
<1>5. 1 \in DOMAIN z
  BY <1>2
<1>6. Elements(z) = {x} \cup Elements(q)
  <2>1. Elements(z) \subseteq {x} \cup Elements(q)
    BY <1>3 DEF Elements
  <2>2. x \in Elements(z)
    BY <1>1, <1>5 DEF Elements
  <2>3. Elements(q) \subseteq Elements(z)
    BY <1>4 DEF Elements
  <2> QED
    BY <2>1, <2>2, <2>3
<1>7. ASSUME NEW R, Rising(q, R), \A e \in Elements(q) : <<x, e>> \in R PROVE Rising(z, R)
  <2> SUFFICES ASSUME NEW j \in DOMAIN z, NEW k \in DOMAIN z, j < k PROVE <<z[j], z[k]>> \in R
    BY DEF Rising
  <2>1. k > 1 /\ k - 1 \in DOMAIN q /\ z[k] = q[k - 1]
    BY <1>2, <1>3
  <2>2. CASE j = 1
    BY <1>1, <1>7, <2>1, <2>2 DEF Elements
  <2>3. CASE j > 1
    <3>1. j - 1 \in DOMAIN q /\ z[j] = q[j - 1] /\ j - 1 < k - 1
      BY <1>2, <1>3, <2>3
    <3> QED
      BY <1>7, <2>1, <3>1 DEF Rising
  <2> QED
    BY <1>2, <2>2, <2>3
<1>8. Head(z) = x /\ (q # <<>> => Tail(z) # <<>>)
  <2>1. z # <<>>
    BY <1>5, NothingIn, <1>6 DEF Elements
  <2>2. Head(z) = z[1] /\ Len(Tail(z)) = Len(q)
    BY <1>1, <1>2, <2>1, HeadTailProperties
  <2>3. q # <<>> => Len(q) # 0
    BY EmptySeq, LenProperties
  <2>4. Len(<<>>) = 0
    OBVIOUS
  <2> QED
    BY <1>1, <2>2, <2>3, <2>4
<1> QED
  BY <1>1, <1>6, <1>7, <1>8 DEF z

LEMMA WithoutTwo ==
    ASSUME NEW S, NEW q \in Seq(S), q # <<>>, Tail(q) # <<>>
    PROVE  SubSeq(q, 3, Len(q)) = Tail(Tail(q)) /\ q[2] = Head(Tail(q)) /\ q[1] = Head(q)
<1>1. /\ Tail(q) \in Seq(S) /\ Len(Tail(q)) = Len(q) - 1 /\ q[1] = Head(q)
      /\ \A k \in 1..Len(Tail(q)) : Tail(q)[k] = q[k + 1]
  BY HeadTailProperties
<1>2. /\ Tail(Tail(q)) \in Seq(S) /\ Len(Tail(Tail(q))) = Len(Tail(q)) - 1 /\ Tail(q)[1] = Head(Tail(q))
      /\ \A k \in 1..Len(Tail(Tail(q))) : Tail(Tail(q))[k] = Tail(q)[k + 1]
  BY <1>1, HeadTailProperties
<1>3. Len(q) \in Nat /\ Len(Tail(q)) \in Nat /\ Len(Tail(q)) # 0
  BY <1>1, EmptySeq, LenProperties
<1>4. \A k \in 3..Len(q) : q[k] \in S
  BY <1>3, ElementOfSeq
<1>5. /\ SubSeq(q, 3, Len(q)) \in Seq(S) /\ Len(SubSeq(q, 3, Len(q))) = Len(q) - 2
      /\ \A k \in 1..Len(q) - 2 : SubSeq(q, 3, Len(q))[k] = q[k + 2]
  <2>1. 3 \in 1..Len(q) + 1 /\ Len(q) \in 3 - 1..Len(q)
    BY <1>1, <1>3
  <2>2. /\ SubSeq(q, 3, Len(q)) \in Seq(S) /\ Len(SubSeq(q, 3, Len(q))) = IF 3 <= Len(q) THEN Len(q) - 3 + 1 ELSE 0
        /\ \A k \in 1..Len(q) - 3 + 1 : SubSeq(q, 3, Len(q))[k] = q[3 + k - 1]
    BY <1>3, <1>4, <2>1, SubSeqProperties
  <2> QED
    BY <1>1, <1>3, <2>2
<1>6. \A k \in 1..Len(q) - 2 : Tail(Tail(q))[k] = q[k + 2]
  BY <1>1, <1>2, <1>3
<1> DEFINE y == SubSeq(q, 3, Len(q))
           z == Tail(Tail(q))
<1>7. /\ y \in Seq(S) /\ z \in Seq(S) /\ Len(y) = Len(z) /\ Len(y) = Len(q) - 2
      /\ \A k \in 1..Len(y) : y[k] = z[k]
  BY <1>1, <1>2, <1>3, <1>5, <1>6
<1> HIDE DEF y, z
<1>8. y = z
  BY <1>7, SeqEqual
<1>9. q[2] = Head(Tail(q))
  BY <1>1, <1>2, <1>3
<1> QED
  BY <1>1, <1>8, <1>9 DEF y, z

-----------------------------------------------------------------------------
(* The newest rows *)

Above(S, k) == {j \in S : j > k}

LEMMA LeastOf ==
    ASSUME NEW S, S \subseteq Nat, S # {}
    PROVE  \E x \in S : \A y \in S : x <= y
<1> DEFINE L == {x \in Nat \X Nat : x[1] < x[2]}
<1>1. IsWellFoundedOn(L, Nat)
  BY NatLessThanWellFounded DEF OpToRel
<1> HIDE DEF L
<1>2. PICK x \in S : \A y \in S : ~(<<y, x>> \in L)
  BY <1>1, WFMin
<1>3. \A y \in S : ~(y < x)
  BY <1>2 DEF L
<1> QED
  BY <1>3

LEMMA AboveIs ==
    ASSUME NEW S, IsFiniteSet(S), S \subseteq Nat, NEW k \in S
    PROVE  /\ IsFiniteSet(Above(S, k)) /\ Cardinality(Above(S, k)) \in Nat
           /\ \A j \in S : j > k => Cardinality(Above(S, j)) < Cardinality(Above(S, k))
<1>1. \A j \in S : IsFiniteSet(Above(S, j)) /\ Cardinality(Above(S, j)) \in Nat
  BY FS_Subset, FS_CardinalityType DEF Above
<1>2. ASSUME NEW j \in S, j > k PROVE Cardinality(Above(S, j)) < Cardinality(Above(S, k))
  <2>0. (\A i \in S : i > j => i > k) /\ ~(j > j)
    BY <1>2
  <2>1. Above(S, j) \in SUBSET Above(S, k) /\ j \in Above(S, k) /\ j \notin Above(S, j)
    BY <1>2, <2>0 DEF Above
  <2>2. /\ Cardinality(Above(S, j)) <= Cardinality(Above(S, k))
        /\ Cardinality(Above(S, j)) # Cardinality(Above(S, k))
    BY <1>1, <2>1, FS_Subset
  <2>3. Cardinality(Above(S, j)) \in Nat /\ Cardinality(Above(S, k)) \in Nat
    BY <1>1
  <2> QED
    BY <2>2, <2>3
<1> QED
  BY <1>1, <1>2

\* The element with the fewest above it is the greatest.
LEMMA GreatestOf ==
    ASSUME NEW S, IsFiniteSet(S), S \subseteq Nat, S # {}
    PROVE  \E x \in S : \A y \in S : x >= y
<1> DEFINE C == {Cardinality(Above(S, k)) : k \in S}
<1>1. C \subseteq Nat /\ C # {}
  BY AboveIs
<1>2. PICK n \in C : \A m \in C : n <= m
  BY <1>1, LeastOf
<1>3. PICK x \in S : n = Cardinality(Above(S, x))
  BY <1>2
<1>4. ASSUME NEW y \in S, y > x PROVE FALSE
  <2>1. Cardinality(Above(S, y)) < Cardinality(Above(S, x)) /\ Cardinality(Above(S, y)) \in C
    BY <1>4, AboveIs
  <2>2. Cardinality(Above(S, y)) \in Nat /\ Cardinality(Above(S, x)) \in Nat
    BY AboveIs
  <2> QED
    BY <1>2, <1>3, <2>1, <2>2
<1>5. \A y \in S : x >= y
  BY <1>4
<1> QED
  BY <1>5

\* The newest n elements are all of them unless they are exactly n.
LEMMA NewestAreAll ==
    ASSUME NEW S, IsFiniteSet(S), S \subseteq Nat, NEW n \in Nat \ {0},
           NEW T, T = {k \in S : Cardinality(Above(S, k)) < n}
    PROVE  T = S \/ Cardinality(T) = n
<1> SUFFICES ASSUME T # S PROVE Cardinality(T) = n
  OBVIOUS
<1> DEFINE U == S \ T
           C == {Cardinality(Above(S, k)) : k \in U}
<1>1. IsFiniteSet(U) /\ U \subseteq Nat /\ U # {} /\ IsFiniteSet(T) /\ T \subseteq Nat
  BY FS_Subset
<1>2. PICK i \in U : \A j \in U : i >= j
  BY <1>1, GreatestOf
<1>3. i \in S /\ Cardinality(Above(S, i)) >= n /\ Cardinality(Above(S, i)) \in Nat
  <2>1. i \in S /\ ~(Cardinality(Above(S, i)) < n)
    BY <1>2
  <2>2. Cardinality(Above(S, i)) \in Nat
    BY <2>1, AboveIs
  <2> QED
    BY <2>1, <2>2
<1>4. T = Above(S, i)
  <2>1. ASSUME NEW k \in T PROVE k > i
    <3>1. k \in S /\ Cardinality(Above(S, k)) < n /\ Cardinality(Above(S, k)) \in Nat /\ k # i /\ k \in Nat /\ i \in Nat
      BY <1>2, AboveIs
    <3>2. ~(i > k)
      <4>1. i > k => Cardinality(Above(S, i)) < Cardinality(Above(S, k))
        BY <1>3, <3>1, AboveIs
      <4> QED
        BY <1>3, <3>1, <4>1
    <3> QED
      BY <3>1, <3>2
  <2>2. ASSUME NEW k \in Above(S, i) PROVE k \in T
    BY <1>2, <2>2 DEF Above
  <2> QED
    BY <2>1, <2>2 DEF Above
<1>5. Cardinality(T) \in Nat /\ Cardinality(T) >= n
  BY <1>1, <1>3, <1>4
<1>6. T # {}
  <2>1. Cardinality({}) = 0
    BY FS_EmptySet
  <2>2. ~(0 >= n)
    OBVIOUS
  <2> QED
    BY <1>5, <2>1, <2>2
<1>7. PICK l \in T : \A k \in T : l <= k
  BY <1>1, <1>6, LeastOf
<1>8. Above(S, l) = T \ {l}
  <2>1. l \in Nat /\ i \in Nat /\ S \subseteq Nat /\ l > i
    BY <1>1, <1>3, <1>4, <1>7 DEF Above
  <2>2. \A k \in S : k > l => k > i
    BY <2>1
  <2>3. \A k \in T : k # l <=> k > l
    BY <1>1, <1>7
  <2> QED
    BY <1>4, <2>2, <2>3 DEF Above
<1>9. Cardinality(T \ {l}) = Cardinality(T) - 1
  BY <1>1, <1>7, FS_RemoveElement
<1>10. Cardinality(Above(S, l)) < n
  BY <1>7
<1> QED
  BY <1>5, <1>8, <1>9, <1>10

-----------------------------------------------------------------------------
(* The invariant *)

EventTypes == {"gap", "agent_first_seen", "presentation_updated"}
EventRecord == [type : EventTypes \cup {"none"}, agent : Nat, row : Rows \cup {0}, seq : Nat]
MessageRecord == [kind : {"connected", "disconnected", "live"}, gen : Nat, ev : EventRecord]
ListeningStates == {"connecting", "subscribed", "open", "down"}
StreamRecord ==
    [st : ListeningStates \cup {"none", "stopped"}, filter : WatchAgents \cup {0}, ring : Seq(EventRecord)]
Connections == {"connecting", "connected", "degraded"}
Scopes == [kind : {"waiting", "picker", "all", "unattributed", "agent"}, agent : WatchAgents \cup {0}]

\* An event the server numbered.
Told(h, ev) ==
    /\ ev.type \in EventTypes /\ ev.seq <= h.seq
    /\ IF ev.type = "presentation_updated" THEN ev.row # 0 /\ ev.agent = RowAgent[ev.row] ELSE ev.row = 0

HubOk(h) ==
    /\ h \in [seq : Nat, changes : Nat, seen : SUBSET WatchAgents, rev : [Rows -> Nat], last : [Rows -> Nat]]
    /\ \A i \in Rows : h.last[i] <= h.changes /\ (h.rev[i] = 0 => h.last[i] = 0)
    /\ IsFiniteSet({i \in Rows : h.rev[i] > 0})

ScopeOk(sc) == sc \in Scopes /\ (sc.kind = "agent" <=> sc.agent # 0)
AppOk(h, a) ==
    /\ a = [scope |-> a.scope, auto |-> a.auto, agents |-> a.agents, connection |-> a.connection,
            details |-> a.details, cards |-> a.cards, last |-> a.last]
    /\ ScopeOk(a.scope) /\ a.agents \in SUBSET WatchAgents /\ a.connection \in Connections
    /\ a.details \in [Rows -> Nat] /\ a.last \in Nat /\ a.last <= h.seq
SubOk(s) ==
    /\ s \in [generation : Nat \ {0}, previous : Nat, draining : Nat]
    /\ s.previous < s.generation

\* Sequence numbers rise along a ring, and only its head may be a gap, which
\* is never alone.
RingOrder == {p \in EventRecord \X EventRecord : p[1].seq < p[2].seq /\ p[2].type # "gap"}
RingOk(h, r) ==
    /\ r \in Seq(EventRecord) /\ \A e \in Elements(r) : Told(h, e)
    /\ Rising(r, RingOrder)
    /\ r # <<>> /\ Head(r).type = "gap" => Tail(r) # <<>>
StreamsOk(h, s, st) ==
    /\ st \in [Generations -> StreamRecord]
    /\ \A g \in Generations : RingOk(h, st[g].ring)
    /\ \A g \in Generations : st[g].st \in ListeningStates => g \in {s.generation, s.previous}

\* The live messages of one stream rise along the channel and then its ring.
LiveOf(m, g) == m.kind = "live" /\ m.gen = g
NetOrder(g) == {p \in MessageRecord \X MessageRecord :
                  LiveOf(p[1], g) /\ LiveOf(p[2], g) => p[1].ev.seq < p[2].ev.seq}
NetOk(h, s, n) ==
    /\ n \in Seq(MessageRecord)
    /\ \A m \in Elements(n) : m.gen <= s.generation /\ (m.kind = "live" => Told(h, m.ev))
InOrder(g, r, n) ==
    /\ Rising(n, NetOrder(g))
    /\ \A m \in Elements(n), e \in Elements(r) : LiveOf(m, g) => m.ev.seq < e.seq

\* Once a stream connected no other one is read, and the viewer knows.
TrustedOk(a, s, t) ==
    /\ t \in [gen : Nat, changes : Nat] /\ t.gen <= s.generation
    /\ t.gen = s.generation => s.previous = 0 /\ a.connection # "connecting"

\* What the viewer is to know: the agents, 0, and the rows of its scope that
\* changed since the stream connected.
Wanted(h, a, t, x) ==
    IF x = 0 THEN a.scope.agent = 0
    ELSE h.last[x] > t.changes /\ (a.scope.kind = "agent" => RowAgent[x] = a.scope.agent)
Shown(h, a, x) == IF x = 0 THEN a.agents = h.seen ELSE a.details[x] = h.rev[x]

\* An event that will be processed: what is left of another stream in the
\* channel is older.
Fresh(a, g, n, ev) ==
    /\ ev.seq > a.last
    /\ \A m \in Elements(n) : m.kind = "live" /\ m.gen # g => m.ev.seq < ev.seq
Announces(a, g, n, ev, x) == (ev.type = "gap" \/ ev.row = x) /\ Fresh(a, g, n, ev)
OnItsWay(a, g, r, n, x) ==
    \/ \E m \in Elements(n) : m.gen = g /\ m.kind = "connected"
    \/ \E m \in Elements(n) : LiveOf(m, g) /\ Announces(a, g, n, m.ev, x)
    \/ \E e \in Elements(r) : Announces(a, g, n, e, x)

\* What the viewer lacks is on its way, or it says that it is degraded.
Followed(h, a, g, r, open, n, t) ==
    \A x \in Rows \cup {0} : Wanted(h, a, t, x) =>
        Shown(h, a, x) \/ a.connection = "degraded" \/ ~open \/ OnItsWay(a, g, r, n, x)

ViewerOk(h, a, s, st, n, t) ==
    /\ HubOk(h) /\ AppOk(h, a) /\ SubOk(s) /\ s.generation \in Generations
    /\ StreamsOk(h, s, st) /\ NetOk(h, s, n) /\ TrustedOk(a, s, t)
    /\ st[s.generation].filter = a.scope.agent
    /\ InOrder(s.generation, st[s.generation].ring, n)
    /\ t.gen = s.generation =>
         Followed(h, a, s.generation, st[s.generation].ring, st[s.generation].st = "open", n, t)
WatchInv == ViewerOk(hub, app, sub, stream, net, trusted)

LEMMA RowsAre == 0 \notin Rows /\ Rows \subseteq Nat /\ RingCapacity \in Nat \ {0} /\ 1 \in Generations
BY WatchAssumption DEF Generations

-----------------------------------------------------------------------------
(* The ring of a slow reader *)

\* A record for it is in the ring, or a gap that reaches as far.
LEMMA LaggedKeeps ==
    ASSUME NEW h, NEW k, NEW r, NEW ev \in EventRecord, RingOk(h, r), h.seq \in Nat, k.seq = h.seq + 1,
           Told(k, ev), ev.type # "gap", ev.seq = k.seq
    PROVE  /\ RingOk(k, Lagged(r, ev)) /\ ev \in Elements(Lagged(r, ev))
           /\ \A e \in Elements(r) : \E d \in Elements(Lagged(r, ev)) :
                d = e \/ (d.type = "gap" /\ d.seq >= e.seq)
           /\ \A d \in Elements(Lagged(r, ev)) : d = ev \/ \E e \in Elements(r) : d.seq = e.seq
<1> DEFINE gap(n) == Event("gap", 0, 0, n)
<1>1. ASSUME NEW n \in Nat PROVE gap(n) \in EventRecord /\ gap(n).type = "gap" /\ gap(n).seq = n /\ gap(n).row = 0
  BY <1>1 DEF Event, EventRecord, EventTypes
<1>2. r \in Seq(EventRecord) /\ (\A e \in Elements(r) : Told(h, e) /\ Told(k, e) /\ e \in EventRecord /\ e.seq \in Nat /\ e.seq < ev.seq)
  <2>1. r \in Seq(EventRecord) /\ (\A e \in Elements(r) : Told(h, e) /\ e \in EventRecord)
    BY ElementOfSeq DEF RingOk, Elements
  <2>2. \A e \in EventRecord : e.seq \in Nat
    BY DEF EventRecord
  <2>3. \A n \in Nat : n <= h.seq => n <= k.seq /\ n < ev.seq
    OBVIOUS
  <2> QED
    BY <2>1, <2>2, <2>3 DEF Told
<1>3. CASE Len(r) < RingCapacity
  <2>1. Lagged(r, ev) = Append(r, ev)
    BY <1>3 DEF Lagged
  <2>2. Append(r, ev) \in Seq(EventRecord) /\ Elements(Append(r, ev)) = Elements(r) \cup {ev}
    BY <1>2, Appended
  <2>3. \A e \in Elements(r) : <<e, ev>> \in RingOrder
    BY <1>2 DEF RingOrder
  <2>4. Rising(Append(r, ev), RingOrder)
    BY <1>2, <2>3, Appended DEF RingOk
  <2>5. Head(Append(r, ev)).type = "gap" => Tail(Append(r, ev)) # <<>>
    <3>1. CASE r = <<>>
      BY <3>1
    <3>2. CASE r # <<>>
      <4>1. Len(r) \in Nat /\ Len(r) # 0 /\ Len(Append(r, ev)) = Len(r) + 1 /\ Append(r, ev) # <<>>
        BY <1>2, <3>2, AppendProperties, LenProperties, EmptySeq
      <4>2. Len(Tail(Append(r, ev))) = Len(r)
        BY <2>2, <4>1, HeadTailProperties
      <4>3. Len(<<>>) = 0
        OBVIOUS
      <4> QED
        BY <4>1, <4>2, <4>3
    <3> QED
      BY <3>1, <3>2
  <2>6. \A e \in Elements(Append(r, ev)) : Told(k, e)
    BY <1>2, <2>2
  <2> QED
    BY <2>1, <2>2, <2>4, <2>5, <2>6 DEF RingOk
<1>4. ASSUME NEW q \in Seq(EventRecord), NEW n \in Nat, n <= h.seq,
             Elements(q) \subseteq Elements(r), Rising(q, RingOrder),
             \A e \in Elements(q) : e.seq > n /\ e.type # "gap"
      PROVE  /\ RingOk(k, <<gap(n)>> \o Append(q, ev))
             /\ Elements(<<gap(n)>> \o Append(q, ev)) = {gap(n), ev} \cup Elements(q)
  <2> DEFINE y == Append(q, ev)
  <2>1. y \in Seq(EventRecord) /\ Elements(y) = Elements(q) \cup {ev} /\ y # <<>>
    <3>1. y \in Seq(EventRecord) /\ Elements(y) = Elements(q) \cup {ev}
      BY <1>4, Appended
    <3> QED
      BY <3>1, NothingIn
  <2>2. \A e \in Elements(q) : <<e, ev>> \in RingOrder
    BY <1>2, <1>4 DEF RingOrder
  <2>3. Rising(y, RingOrder)
    BY <1>4, <2>2, Appended
  <2>4. \A e \in Elements(y) : e \in EventRecord /\ Told(k, e) /\ e.seq > n /\ e.type # "gap"
    BY <1>2, <1>4, <2>1
  <2> HIDE DEF y
  <2>5. gap(n) \in EventRecord /\ Told(k, gap(n)) /\ gap(n).seq = n
    <3>1. n <= k.seq
      BY <1>4
    <3>2. gap(n) \in EventRecord /\ gap(n).type = "gap" /\ gap(n).seq = n /\ gap(n).row = 0
      BY <1>1, <1>4
    <3> HIDE DEF gap
    <3> QED
      BY <3>1, <3>2 DEF Told, EventTypes
  <2> HIDE DEF gap
  <2>6. \A e \in Elements(y) : <<gap(n), e>> \in RingOrder
    BY <2>4, <2>5 DEF RingOrder
  <2>7. /\ <<gap(n)>> \o y \in Seq(EventRecord) /\ Elements(<<gap(n)>> \o y) = {gap(n)} \cup Elements(y)
        /\ Tail(<<gap(n)>> \o y) # <<>> /\ Rising(<<gap(n)>> \o y, RingOrder)
    BY <2>1, <2>3, <2>5, <2>6, Preceded
  <2>8. RingOk(k, <<gap(n)>> \o y)
    BY <2>4, <2>5, <2>7 DEF RingOk
  <2> QED
    BY <2>1, <2>7, <2>8 DEF y
<1>5. CASE ~(Len(r) < RingCapacity)
  <2>1. r # <<>>
    <3>1. Len(<<>>) = 0 /\ 0 < RingCapacity
      BY RowsAre
    <3> QED
      BY <1>5, <3>1
  <2>2. /\ Tail(r) \in Seq(EventRecord) /\ Elements(r) = {Head(r)} \cup Elements(Tail(r))
        /\ Rising(Tail(r), RingOrder) /\ \A e \in Elements(Tail(r)) : <<Head(r), e>> \in RingOrder
    BY <1>2, <2>1, Taken DEF RingOk
  <2>3. \A e \in Elements(Tail(r)) : e.seq > Head(r).seq /\ e.type # "gap"
    <3>1. \A e, d \in EventRecord : e.seq < d.seq <=> d.seq > e.seq
      BY DEF EventRecord
    <3> QED
      BY <1>2, <2>2, <3>1 DEF RingOrder
  <2>4. Head(r).seq \in Nat /\ Head(r).seq <= h.seq /\ r[1] = Head(r)
    BY <1>2, <2>1, <2>2, HeadTailProperties DEF Told
  <2>5. CASE Head(r).type = "gap"
    <3> DEFINE q == Tail(Tail(r))
               n == Head(Tail(r)).seq
    <3>1. Tail(r) # <<>>
      BY <2>1, <2>5 DEF RingOk
    <3>2. SubSeq(r, 3, Len(r)) = q /\ r[2] = Head(Tail(r))
      BY <1>2, <2>1, <3>1, WithoutTwo
    <3>3. Lagged(r, ev) = <<gap(n)>> \o Append(q, ev)
      BY <1>5, <2>5, <3>2 DEF Lagged
    <3>4. /\ q \in Seq(EventRecord) /\ Elements(Tail(r)) = {Head(Tail(r))} \cup Elements(q)
          /\ Rising(q, RingOrder) /\ \A e \in Elements(q) : <<Head(Tail(r)), e>> \in RingOrder
      BY <2>2, <3>1, Taken
    <3>5. n \in Nat /\ n <= h.seq /\ n > Head(r).seq
      BY <1>2, <2>2, <2>3, <3>4 DEF Told
    <3>6. \A e \in Elements(q) : e.seq > n /\ e.type # "gap"
      <4>1. \A e, d \in EventRecord : e.seq < d.seq <=> d.seq > e.seq
        BY DEF EventRecord
      <4> QED
        BY <1>2, <2>2, <3>4, <4>1 DEF RingOrder
    <3> HIDE DEF q, n
    <3>7. RingOk(k, <<gap(n)>> \o Append(q, ev)) /\ Elements(<<gap(n)>> \o Append(q, ev)) = {gap(n), ev} \cup Elements(q)
      BY <1>4, <2>2, <3>4, <3>5, <3>6
    <3>8. gap(n).type = "gap" /\ gap(n).seq = n /\ n >= Head(r).seq /\ n >= n
      BY <1>1, <2>4, <3>5
    <3>9. \A e \in Elements(r) : e \in {Head(r), Head(Tail(r))} \cup Elements(q)
      BY <2>2, <3>4
    <3>10. \E e \in Elements(r) : n = e.seq
      BY <2>2, <3>4 DEF n
    <3>11. Head(Tail(r)).seq = n
      BY DEF n
    <3> HIDE DEF gap
    <3>12. \A e \in Elements(r) : \E d \in Elements(Lagged(r, ev)) : d = e \/ (d.type = "gap" /\ d.seq >= e.seq)
      BY <3>3, <3>7, <3>8, <3>9, <3>11
    <3>13. \A d \in Elements(Lagged(r, ev)) : d = ev \/ \E e \in Elements(r) : d.seq = e.seq
      BY <2>2, <3>3, <3>4, <3>7, <3>8, <3>10
    <3> QED
      BY <3>3, <3>7, <3>12, <3>13
  <2>6. CASE Head(r).type # "gap"
    <3> DEFINE q == Tail(r)
               n == Head(r).seq
    <3>1. Lagged(r, ev) = <<gap(n)>> \o Append(q, ev)
      BY <1>5, <2>4, <2>6 DEF Lagged
    <3>2. RingOk(k, <<gap(n)>> \o Append(q, ev)) /\ Elements(<<gap(n)>> \o Append(q, ev)) = {gap(n), ev} \cup Elements(q)
      BY <1>4, <2>2, <2>3, <2>4
    <3>3. gap(n).type = "gap" /\ gap(n).seq = n /\ n >= n /\ Head(r).seq = n
      BY <1>1, <2>4
    <3> HIDE DEF gap, q, n
    <3>4. \A e \in Elements(r) : e = Head(r) \/ e \in Elements(q)
      BY <2>2 DEF q
    <3>5. Head(r) \in Elements(r) /\ Elements(q) \subseteq Elements(r)
      BY <2>2 DEF q
    <3>6. \A e \in Elements(r) : \E d \in Elements(Lagged(r, ev)) : d = e \/ (d.type = "gap" /\ d.seq >= e.seq)
      BY <3>1, <3>2, <3>3, <3>4
    <3>7. \A d \in Elements(Lagged(r, ev)) : d = ev \/ \E e \in Elements(r) : d.seq = e.seq
      BY <3>1, <3>2, <3>3, <3>5
    <3> QED
      BY <3>1, <3>2, <3>6, <3>7
  <2> QED
    BY <2>5, <2>6
<1> QED
  BY <1>3, <1>5, RowsAre, <1>2, LenProperties

-----------------------------------------------------------------------------
(* The server *)

\* What the server said stays said.
LEMMA ToldStays ==
    ASSUME NEW h, NEW k, h.seq \in Nat, k.seq \in Nat, h.seq <= k.seq
    PROVE  /\ \A ev \in EventRecord : Told(h, ev) => Told(k, ev)
           /\ \A r : RingOk(h, r) => RingOk(k, r)
           /\ \A s, n : NetOk(h, s, n) => NetOk(k, s, n)
           /\ \A a : AppOk(h, a) => AppOk(k, a)
<1>1. ASSUME NEW ev \in EventRecord, Told(h, ev) PROVE Told(k, ev)
  <2>1. ev.seq \in Nat
    BY DEF EventRecord
  <2>2. ev.seq <= h.seq => ev.seq <= k.seq
    BY <2>1
  <2> QED
    BY <1>1, <2>2 DEF Told
<1>2. ASSUME NEW r, RingOk(h, r) PROVE RingOk(k, r)
  <2>1. Elements(r) \subseteq EventRecord
    BY <1>2, ElementOfSeq DEF RingOk, Elements
  <2> QED
    BY <1>1, <1>2, <2>1 DEF RingOk
<1>3. ASSUME NEW s, NEW n, NetOk(h, s, n) PROVE NetOk(k, s, n)
  <2>1. Elements(n) \subseteq MessageRecord
    BY <1>3, ElementOfSeq DEF NetOk, Elements
  <2>2. \A m \in Elements(n) : m.ev \in EventRecord
    BY <2>1 DEF MessageRecord
  <2> QED
    BY <1>1, <1>3, <2>2 DEF NetOk
<1>4. ASSUME NEW a, AppOk(h, a) PROVE AppOk(k, a)
  <2>1. a.last \in Nat /\ a.last <= h.seq
    BY <1>4 DEF AppOk
  <2>2. a.last <= k.seq
    BY <2>1
  <2> QED
    BY <1>4, <2>2 DEF AppOk
<1> QED
  BY <1>1, <1>2, <1>3, <1>4

LEMMA Typed ==
    ASSUME NEW h, NEW a, NEW s, NEW st, NEW n, NEW t, ViewerOk(h, a, s, st, n, t)
    PROVE  /\ h.seq \in Nat /\ h.changes \in Nat /\ a.last \in Nat /\ a.last <= h.seq
           /\ n \in Seq(MessageRecord) /\ Elements(n) \subseteq MessageRecord
           /\ \A m \in Elements(n) : m.ev \in EventRecord /\ m.ev.seq \in Nat /\ (m.kind = "live" => m.ev.seq <= h.seq)
           /\ \A g \in Generations : /\ st[g].ring \in Seq(EventRecord) /\ Elements(st[g].ring) \subseteq EventRecord
                                     /\ \A e \in Elements(st[g].ring) : e.seq \in Nat /\ e.seq <= h.seq
           /\ s.generation \in Nat /\ s.generation \in Generations /\ t.gen \in Nat /\ t.changes \in Nat
<1>1. h.seq \in Nat /\ h.changes \in Nat /\ a.last \in Nat /\ a.last <= h.seq
  BY DEF ViewerOk, HubOk, AppOk
<1>2. n \in Seq(MessageRecord) /\ Elements(n) \subseteq MessageRecord
  BY ElementOfSeq DEF ViewerOk, NetOk, Elements
<1>3. ASSUME NEW m \in Elements(n)
      PROVE  m.ev \in EventRecord /\ m.ev.seq \in Nat /\ (m.kind = "live" => m.ev.seq <= h.seq)
  <2>1. m.ev \in EventRecord
    BY <1>2 DEF MessageRecord
  <2>2. m.kind = "live" => Told(h, m.ev)
    BY DEF ViewerOk, NetOk
  <2> QED
    BY <2>1, <2>2 DEF EventRecord, Told
<1>4. ASSUME NEW g \in Generations
      PROVE  /\ st[g].ring \in Seq(EventRecord) /\ Elements(st[g].ring) \subseteq EventRecord
             /\ \A e \in Elements(st[g].ring) : e.seq \in Nat /\ e.seq <= h.seq
  <2>1. RingOk(h, st[g].ring)
    BY DEF ViewerOk, StreamsOk
  <2>2. st[g].ring \in Seq(EventRecord) /\ Elements(st[g].ring) \subseteq EventRecord
    BY <2>1, ElementOfSeq DEF RingOk, Elements
  <2>3. \A e \in EventRecord : e.seq \in Nat
    BY DEF EventRecord
  <2> QED
    BY <2>1, <2>2, <2>3 DEF RingOk, Told
<1>5. s.generation \in Nat /\ s.generation \in Generations /\ t.gen \in Nat /\ t.changes \in Nat
  BY DEF ViewerOk, SubOk, TrustedOk
<1> QED
  BY <1>1, <1>2, <1>3, <1>4, <1>5

LEMMA Emitted ==
    ASSUME WatchInv, NEW type, NEW agent, NEW row, emit_with(type, agent, row),
           \/ type = "agent_first_seen" /\ agent \in WatchAgents /\ row = 0
           \/ type = "presentation_updated" /\ row \in Rows /\ agent = RowAgent[row]
    PROVE  WatchInv'
<1> DEFINE heard == {g \in Generations : stream[g].st \in {"subscribed", "open"}}
           n == IF heard = {} THEN hub.seq ELSE hub.seq + 1
           ev == Event(type, agent, row, n)
<1>1. /\ hub' = [hub EXCEPT !.seq = n,
                     !.seen = IF type = "agent_first_seen" THEN @ \cup {agent} ELSE @,
                     !.rev = [i \in Rows |-> IF i = row THEN hub.rev[i] + 1 ELSE hub.rev[i]],
                     !.last = [i \in Rows |-> IF i = row THEN hub.changes + 1 ELSE hub.last[i]],
                     !.changes = @ + 1]
      /\ stream' = [g \in Generations |-> IF g \in heard
              THEN [stream[g] EXCEPT !.ring = Lagged(@, ev)] ELSE stream[g]]
      /\ UNCHANGED <<net, app, sub, spent, trusted>>
  BY DEF emit_with
<1>2. /\ HubOk(hub) /\ AppOk(hub, app) /\ SubOk(sub) /\ StreamsOk(hub, sub, stream) /\ NetOk(hub, sub, net)
      /\ TrustedOk(app, sub, trusted) /\ sub.generation \in Generations
  BY DEF WatchInv, ViewerOk
<1>3. hub.seq \in Nat /\ hub.changes \in Nat /\ n \in Nat /\ hub.seq <= n
  BY <1>2 DEF HubOk
<1> HIDE DEF n
<1>4. /\ hub'.seq = n /\ hub'.changes = hub.changes + 1
      /\ hub'.seen = IF type = "agent_first_seen" THEN hub.seen \cup {agent} ELSE hub.seen
      /\ hub'.rev = [i \in Rows |-> IF i = row THEN hub.rev[i] + 1 ELSE hub.rev[i]]
      /\ hub'.last = [i \in Rows |-> IF i = row THEN hub.changes + 1 ELSE hub.last[i]]
      /\ hub' = [seq |-> hub'.seq, changes |-> hub'.changes, seen |-> hub'.seen, rev |-> hub'.rev, last |-> hub'.last]
  <2>1. hub = [seq |-> hub.seq, changes |-> hub.changes, seen |-> hub.seen, rev |-> hub.rev, last |-> hub.last]
    BY <1>2 DEF HubOk
  <2>2. /\ hub'.seq = n /\ hub'.changes = hub.changes + 1
        /\ hub' = [seq |-> hub'.seq, changes |-> hub'.changes, seen |-> hub'.seen, rev |-> hub'.rev, last |-> hub'.last]
    BY <1>1, <2>1
  <2>3. hub'.seen = IF type = "agent_first_seen" THEN hub.seen \cup {agent} ELSE hub.seen
    BY <1>1, <2>1
  <2>4. /\ hub'.rev = [i \in Rows |-> IF i = row THEN hub.rev[i] + 1 ELSE hub.rev[i]]
        /\ hub'.last = [i \in Rows |-> IF i = row THEN hub.changes + 1 ELSE hub.last[i]]
    BY <1>1, <2>1
  <2> QED
    BY <2>2, <2>3, <2>4
<1>5. HubOk(hub')
  <2>1. /\ hub.seen \in SUBSET WatchAgents /\ hub.rev \in [Rows -> Nat] /\ hub.last \in [Rows -> Nat]
        /\ \A i \in Rows : hub.last[i] <= hub.changes /\ (hub.rev[i] = 0 => hub.last[i] = 0)
        /\ IsFiniteSet({i \in Rows : hub.rev[i] > 0})
    BY <1>2 DEF HubOk
  <2>2. /\ hub'.seen \in SUBSET WatchAgents /\ hub'.rev \in [Rows -> Nat] /\ hub'.last \in [Rows -> Nat]
        /\ hub'.changes \in Nat /\ hub'.seq \in Nat
    BY <1>3, <1>4, <2>1
  <2>3. ASSUME NEW i \in Rows PROVE hub'.last[i] <= hub'.changes /\ (hub'.rev[i] = 0 => hub'.last[i] = 0)
    <3>1. CASE row = i
      <4>1. hub'.last[i] = hub.changes + 1 /\ hub'.rev[i] = hub.rev[i] + 1 /\ hub.rev[i] \in Nat
        BY <1>4, <2>1, <3>1, RowsAre
      <4> QED
        BY <1>3, <1>4, <4>1
    <3>2. CASE row # i
      <4>1. hub'.last[i] = hub.last[i] /\ hub'.rev[i] = hub.rev[i] /\ hub.last[i] \in Nat
        BY <1>4, <2>1, <3>2
      <4> QED
        BY <1>3, <1>4, <2>1, <4>1
    <3> QED
      BY <3>1, <3>2
  <2>4. IsFiniteSet({i \in Rows : hub'.rev[i] > 0})
    <3>1. IsFiniteSet({i \in Rows : hub.rev[i] > 0} \cup {row})
      BY <2>1, FS_AddElement
    <3>2. {i \in Rows : hub'.rev[i] > 0} \in SUBSET ({i \in Rows : hub.rev[i] > 0} \cup {row})
      BY <1>4, <2>1
    <3> QED
      BY <3>1, <3>2, FS_Subset
  <2> QED
    BY <1>4, <2>2, <2>3, <2>4 DEF HubOk
<1>6. heard # {} => /\ ev \in EventRecord /\ Told(hub', ev) /\ ev.type # "gap" /\ ev.seq = hub'.seq /\ ev.row = row
                    /\ hub'.seq = hub.seq + 1
  <2> SUFFICES ASSUME heard # {} PROVE /\ ev \in EventRecord /\ Told(hub', ev) /\ ev.type # "gap" /\ ev.seq = hub'.seq
                                       /\ ev.row = row /\ hub'.seq = hub.seq + 1
    OBVIOUS
  <2>1. n = hub.seq + 1
    BY DEF n
  <2>2. agent \in Nat
    <3>1. \A b \in WatchAgents \cup {0} : b \in Nat
      BY WatchAssumption
    <3>2. row \in Rows => RowAgent[row] \in WatchAgents \cup {0}
      BY WatchAssumption
    <3> QED
      BY <3>1, <3>2
  <2>3. ev \in EventRecord /\ ev.type = type /\ ev.seq = n /\ ev.row = row /\ ev.agent = agent
    BY <1>3, <2>2 DEF Event, EventRecord, EventTypes
  <2> HIDE DEF ev
  <2>4. Told(hub', ev)
    BY <1>3, <1>4, <2>3, RowsAre DEF Told, EventTypes
  <2> QED
    BY <1>4, <2>1, <2>3, <2>4
<1>7. AppOk(hub', app) /\ NetOk(hub', sub, net) /\ \A r : RingOk(hub, r) => RingOk(hub', r)
  BY <1>2, <1>3, <1>4, ToldStays
<1> HIDE DEF ev, heard
<1>8. ASSUME NEW g \in Generations
      PROVE  /\ stream'[g] \in StreamRecord /\ RingOk(hub', stream'[g].ring)
             /\ stream'[g].st = stream[g].st /\ stream'[g].filter = stream[g].filter
             /\ g \in heard => stream'[g].ring = Lagged(stream[g].ring, ev)
             /\ g \notin heard => stream'[g].ring = stream[g].ring
  <2>1. stream[g] \in StreamRecord /\ RingOk(hub, stream[g].ring)
    BY <1>2 DEF StreamsOk
  <2>2. CASE g \in heard
    <3>1. stream'[g] = [stream[g] EXCEPT !.ring = Lagged(stream[g].ring, ev)]
      BY <1>1, <2>2
    <3>2. RingOk(hub', Lagged(stream[g].ring, ev))
      BY <1>3, <1>4, <1>6, <2>1, <2>2, LaggedKeeps
    <3>3. Lagged(stream[g].ring, ev) \in Seq(EventRecord)
      BY <3>2 DEF RingOk
    <3> HIDE DEF Lagged
    <3> QED
      BY <2>1, <2>2, <3>1, <3>2, <3>3 DEF StreamRecord
  <2>3. CASE g \notin heard
    BY <1>1, <1>7, <2>1, <2>3
  <2> QED
    BY <2>2, <2>3
<1>9. StreamsOk(hub', sub, stream')
  BY <1>1, <1>2, <1>8 DEF StreamsOk
<1> DEFINE g == sub.generation
<1>10. g \in heard => /\ ev \in Elements(stream'[g].ring)
                      /\ \A e \in Elements(stream[g].ring) : \E d \in Elements(stream'[g].ring) :
                           d = e \/ (d.type = "gap" /\ d.seq >= e.seq)
                      /\ \A d \in Elements(stream'[g].ring) : d = ev \/ \E e \in Elements(stream[g].ring) : d.seq = e.seq
  <2>1. RingOk(hub, stream[g].ring)
    BY <1>2 DEF StreamsOk
  <2> QED
    BY <1>2, <1>3, <1>4, <1>6, <1>8, <2>1, LaggedKeeps
<1>11. /\ Elements(net) \subseteq MessageRecord
       /\ \A m \in Elements(net) : m.ev.seq \in Nat /\ (m.kind = "live" => m.ev.seq <= hub.seq)
       /\ \A e \in Elements(stream[g].ring) : e.seq \in Nat /\ e.seq <= hub.seq
       /\ app.last \in Nat /\ app.last <= hub.seq
  BY <1>2, Typed DEF WatchInv
<1>12. InOrder(g, stream'[g].ring, net)
  <2>1. InOrder(g, stream[g].ring, net)
    BY DEF WatchInv, ViewerOk
  <2>2. CASE g \in heard
    <3>1. \A m \in Elements(net) : m.kind = "live" => m.ev.seq < ev.seq
      BY <1>3, <1>6, <1>11, <2>2
    <3> QED
      BY <1>10, <2>1, <2>2, <3>1 DEF InOrder, LiveOf
  <2>3. CASE g \notin heard
    BY <1>2, <1>8, <2>1, <2>3
  <2> QED
    BY <2>2, <2>3
<1>13. ASSUME trusted.gen = g
       PROVE  Followed(hub', app, g, stream'[g].ring, stream'[g].st = "open", net, trusted)
  <2> SUFFICES ASSUME NEW x \in Rows \cup {0}, Wanted(hub', app, trusted, x), stream[g].st = "open"
               PROVE  Shown(hub', app, x) \/ app.connection = "degraded" \/ OnItsWay(app, g, stream'[g].ring, net, x)
    BY <1>2, <1>8 DEF Followed
  <2>1. g \in heard
    BY <1>2 DEF heard
  <2>2. CASE x = row
    <3>1. ev.row = x /\ ev.seq > app.last /\ \A m \in Elements(net) : m.kind = "live" => m.ev.seq < ev.seq
      BY <1>3, <1>6, <1>11, <2>1, <2>2
    <3>2. Announces(app, g, net, ev, x)
      BY <3>1 DEF Announces, Fresh
    <3> QED
      BY <1>10, <2>1, <3>2 DEF OnItsWay
  <2>3. CASE x # row
    <3>1. Wanted(hub, app, trusted, x) /\ (Shown(hub, app, x) => Shown(hub', app, x))
      <4>1. CASE x = 0
        <5>1. hub'.seen = hub.seen
          BY <1>4, <2>3, <4>1
        <5> QED
          BY <4>1, <5>1 DEF Wanted, Shown
      <4>2. CASE x # 0
        <5>1. hub'.last[x] = hub.last[x] /\ hub'.rev[x] = hub.rev[x]
          BY <1>2, <1>4, <2>3, <4>2 DEF HubOk
        <5> QED
          BY <4>2, <5>1 DEF Wanted, Shown
      <4> QED
        BY <4>1, <4>2
    <3>2. Shown(hub, app, x) \/ app.connection = "degraded" \/ OnItsWay(app, g, stream[g].ring, net, x)
      BY <1>13, <3>1 DEF WatchInv, ViewerOk, Followed
    <3>3. OnItsWay(app, g, stream[g].ring, net, x) => OnItsWay(app, g, stream'[g].ring, net, x)
      <4>1. SUFFICES ASSUME NEW e \in Elements(stream[g].ring), Announces(app, g, net, e, x)
                     PROVE  \E d \in Elements(stream'[g].ring) : Announces(app, g, net, d, x)
        BY DEF OnItsWay
      <4>2. PICK d \in Elements(stream'[g].ring) : d = e \/ (d.type = "gap" /\ d.seq >= e.seq)
        BY <1>10, <2>1
      <4>3. CASE d = e
        BY <4>1, <4>2, <4>3
      <4>4. CASE d.type = "gap" /\ d.seq >= e.seq
        <5>1. d.seq \in Nat /\ e.seq \in Nat
          <6>1. d = ev \/ \E c \in Elements(stream[g].ring) : d.seq = c.seq
            BY <1>10, <2>1, <4>2
          <6> QED
            BY <1>3, <1>4, <1>6, <1>11, <2>1, <4>1, <6>1
        <5>2. d.seq > app.last /\ \A m \in Elements(net) : m.kind = "live" /\ m.gen # g => m.ev.seq < d.seq
          BY <1>11, <4>1, <4>4, <5>1 DEF Announces, Fresh
        <5> QED
          BY <4>2, <4>4, <5>2 DEF Announces, Fresh
      <4> QED
        BY <4>2, <4>3, <4>4
    <3> QED
      BY <3>1, <3>2, <3>3
  <2> QED
    BY <2>2, <2>3
<1>14. stream'[g].filter = app.scope.agent
  BY <1>2, <1>8 DEF WatchInv, ViewerOk
<1> QED
  BY <1>1, <1>2, <1>5, <1>7, <1>9, <1>12, <1>13, <1>14 DEF WatchInv, ViewerOk

-----------------------------------------------------------------------------
(* The stream tasks *)

LEMMA Listening ==
    ASSUME WatchInv, NEW g \in Generations, stream[g].st \in ListeningStates
    PROVE  g \in Nat /\ g <= sub.generation /\ (trusted.gen = sub.generation => g = sub.generation)
<1>1. g \in {sub.generation, sub.previous}
  BY DEF WatchInv, ViewerOk, StreamsOk
<1>2. sub.generation \in Nat /\ sub.previous \in Nat /\ sub.previous < sub.generation
  BY DEF WatchInv, ViewerOk, SubOk
<1>3. trusted.gen = sub.generation => sub.previous = 0
  BY DEF WatchInv, ViewerOk, TrustedOk
<1>4. g \in Nat \ {0}
  BY RowsAre DEF Generations
<1> QED
  BY <1>1, <1>2, <1>3, <1>4

LEMMA Posted ==
    ASSUME WatchInv, NEW g \in Generations, stream[g].st \in ListeningStates,
           NEW kind \in {"connected", "disconnected", "live"}, NEW ev \in EventRecord,
           kind = "live" => Told(hub, ev)
    PROVE  LET n == Append(net, Message(kind, g, ev))
           IN  /\ NetOk(hub, sub, n) /\ Elements(n) = Elements(net) \cup {Message(kind, g, ev)}
               /\ \/ kind # "live" \/ g # sub.generation
                  \/ \A m \in Elements(net) : LiveOf(m, g) => m.ev.seq < ev.seq
                  => Rising(n, NetOrder(sub.generation))
<1> DEFINE m == Message(kind, g, ev)
<1>1. g \in Nat /\ g <= sub.generation
  BY Listening
<1>2. m \in MessageRecord /\ m.kind = kind /\ m.gen = g /\ m.ev = ev
  BY <1>1 DEF Message, MessageRecord
<1>3. net \in Seq(MessageRecord) /\ Elements(net) \subseteq MessageRecord /\ NetOk(hub, sub, net)
  BY Typed DEF WatchInv, ViewerOk
<1> HIDE DEF m
<1> DEFINE n == Append(net, m)
<1>4. n \in Seq(MessageRecord) /\ Elements(n) = Elements(net) \cup {m}
      /\ \A R : Rising(net, R) /\ (\A e \in Elements(net) : <<e, m>> \in R) => Rising(n, R)
  BY <1>2, <1>3, Appended
<1> HIDE DEF n
<1>5. NetOk(hub, sub, n)
  BY <1>1, <1>2, <1>3, <1>4 DEF NetOk
<1>6. ASSUME \/ kind # "live" \/ g # sub.generation
             \/ \A e \in Elements(net) : LiveOf(e, g) => e.ev.seq < ev.seq
      PROVE  Rising(n, NetOrder(sub.generation))
  <2>1. \A e \in Elements(net) : <<e, m>> \in NetOrder(sub.generation)
    BY <1>2, <1>3, <1>6 DEF NetOrder, LiveOf
  <2>2. Rising(net, NetOrder(sub.generation))
    BY DEF WatchInv, ViewerOk, InOrder
  <2> QED
    BY <1>4, <2>1, <2>2
<1> QED
  BY <1>4, <1>5, <1>6 DEF m, n

LEMMA Rewired ==
    ASSUME WatchInv, NEW g \in Generations, NEW y \in StreamRecord, stream[g].st \in ListeningStates,
           stream' = [stream EXCEPT ![g] = y], UNCHANGED <<hub, app, sub, trusted>>,
           RingOk(hub, y.ring), y.filter = stream[g].filter, NetOk(hub, sub, net'),
           Rising(net', NetOrder(sub.generation)),
           g = sub.generation => InOrder(g, y.ring, net'),
           g # sub.generation => \A m \in Elements(net') : m \in Elements(net) \/ ~LiveOf(m, sub.generation),
           trusted.gen = g /\ g = sub.generation => Followed(hub, app, g, y.ring, y.st = "open", net', trusted)
    PROVE  WatchInv'
<1>1. /\ HubOk(hub) /\ AppOk(hub, app) /\ SubOk(sub) /\ StreamsOk(hub, sub, stream)
      /\ TrustedOk(app, sub, trusted) /\ sub.generation \in Generations
      /\ stream[sub.generation].filter = app.scope.agent
  BY DEF WatchInv, ViewerOk
<1>2. stream' \in [Generations -> StreamRecord] /\ stream'[g] = y /\ \A k \in Generations \ {g} : stream'[k] = stream[k]
  BY <1>1 DEF StreamsOk
<1>3. StreamsOk(hub, sub, stream')
  <2>1. \A k \in Generations : RingOk(hub, stream'[k].ring)
    BY <1>1, <1>2 DEF StreamsOk
  <2>2. \A k \in Generations : stream'[k].st \in ListeningStates => k \in {sub.generation, sub.previous}
    BY <1>1, <1>2 DEF StreamsOk
  <2> QED
    BY <1>2, <2>1, <2>2 DEF StreamsOk
<1>4. stream'[sub.generation].filter = app.scope.agent
  BY <1>1, <1>2
<1>5. InOrder(sub.generation, stream'[sub.generation].ring, net')
  <2>1. CASE g = sub.generation
    BY <1>2, <2>1
  <2>2. CASE g # sub.generation
    <3>1. stream'[sub.generation] = stream[sub.generation]
      BY <1>1, <1>2, <2>2
    <3>2. InOrder(sub.generation, stream[sub.generation].ring, net)
      BY DEF WatchInv, ViewerOk
    <3> QED
      BY <2>2, <3>1, <3>2 DEF InOrder
  <2> QED
    BY <2>1, <2>2
<1>6. trusted.gen = sub.generation =>
        Followed(hub, app, sub.generation, stream'[sub.generation].ring, stream'[sub.generation].st = "open", net', trusted)
  <2>1. trusted.gen = sub.generation => g = sub.generation
    BY Listening
  <2> QED
    BY <1>2, <2>1
<1> QED
  BY <1>1, <1>3, <1>4, <1>5, <1>6 DEF WatchInv, ViewerOk

LEMMA NothingRings == RingOk(hub, <<>>) /\ <<>> \in Seq(EventRecord)
BY NothingIn DEF RingOk

LEMMA TaskStep ==
    ASSUME WatchInv, NEW g \in Generations, subscribed(g) \/ connected(g) \/ disconnected(g) \/ reconnect(g)
    PROVE  WatchInv'
<1> DEFINE c == Message("connected", g, NoEvent)
           d == Message("disconnected", g, NoEvent)
           moved(st, r) == [stream[g] EXCEPT !.st = st, !.ring = r]
<1>1. /\ stream \in [Generations -> StreamRecord] /\ stream[g] \in StreamRecord /\ RingOk(hub, stream[g].ring)
      /\ NetOk(hub, sub, net) /\ Rising(net, NetOrder(sub.generation))
      /\ g = sub.generation => InOrder(g, stream[g].ring, net)
  BY DEF WatchInv, ViewerOk, StreamsOk, InOrder
<1>2. NoEvent \in EventRecord
  BY DEF NoEvent, Event, EventRecord
<1>3. ASSUME NEW st \in {"connecting", "subscribed", "down", "open"}, NEW r \in {<<>>, stream[g].ring}
      PROVE  /\ moved(st, r) \in StreamRecord
             /\ moved(st, r).st = st
             /\ moved(st, r).ring = r
             /\ moved(st, r).filter = stream[g].filter
             /\ RingOk(hub, r)
             /\ g = sub.generation => \A m \in Elements(net), e \in Elements(r) : LiveOf(m, g) => m.ev.seq < e.seq
  <2>1. RingOk(hub, r) /\ r \in Seq(EventRecord)
    BY <1>1, NothingRings DEF RingOk
  <2>2. g = sub.generation => \A m \in Elements(net), e \in Elements(r) : LiveOf(m, g) => m.ev.seq < e.seq
    BY <1>1, NothingIn DEF InOrder
  <2> QED
    BY <1>1, <2>1, <2>2 DEF StreamRecord, ListeningStates
<1> HIDE DEF moved
<1>4. ASSUME NEW st \in {"connecting", "subscribed", "down", "open"}, NEW r \in {<<>>, stream[g].ring},
             stream[g].st \in ListeningStates, UNCHANGED <<hub, app, sub, trusted>>,
             stream' = [stream EXCEPT ![g] = moved(st, r)],
             \/ net' = net /\ st # "open"
             \/ net' = Append(net, c)
             \/ net' = Append(net, d) /\ st # "open"
      PROVE  WatchInv'
  <2> DEFINE y == moved(st, r)
  <2>1. /\ y \in StreamRecord /\ y.st = st /\ y.ring = r /\ y.filter = stream[g].filter /\ RingOk(hub, r)
        /\ g = sub.generation => \A m \in Elements(net), e \in Elements(r) : LiveOf(m, g) => m.ev.seq < e.seq
    BY <1>3
  <2>2. stream' = [stream EXCEPT ![g] = y]
    BY <1>4
  <2> HIDE DEF y
  <2>3. \A m \in {c, d} : m.kind # "live" /\ ~LiveOf(m, sub.generation)
    BY DEF Message, LiveOf
  <2>4. /\ NetOk(hub, sub, net') /\ Rising(net', NetOrder(sub.generation))
        /\ Elements(net') = Elements(net) \/ Elements(net') = Elements(net) \cup {c} \/ Elements(net') = Elements(net) \cup {d}
    <3>1. CASE net' = net
      BY <1>1, <3>1
    <3>2. CASE net' = Append(net, c)
      BY <1>2, <1>4, <3>2, Posted
    <3>3. CASE net' = Append(net, d)
      BY <1>2, <1>4, <3>3, Posted
    <3> QED
      BY <1>4, <3>1, <3>2, <3>3
  <2>5. \A m \in Elements(net') : m \in Elements(net) \/ ~LiveOf(m, sub.generation)
    BY <2>3, <2>4
  <2>6. g = sub.generation => InOrder(g, r, net')
    BY <2>1, <2>4, <2>5 DEF InOrder
  <2>7. Followed(hub, app, g, r, st = "open", net', trusted)
    <3>1. CASE st # "open"
      BY <3>1 DEF Followed
    <3>2. CASE net' = Append(net, c)
      <4>1. c \in Elements(net') /\ c.gen = g /\ c.kind = "connected"
        <5>1. Elements(Append(net, c)) = Elements(net) \cup {c}
          BY <1>2, <1>4, Posted
        <5> QED
          BY <3>2, <5>1 DEF Message
      <4> QED
        BY <4>1 DEF Followed, OnItsWay
    <3> QED
      BY <1>4, <3>1, <3>2
  <2> QED
    BY <1>4, <2>1, <2>2, <2>4, <2>5, <2>6, <2>7, Rewired
<1>5. stream[g].ring \in {<<>>, stream[g].ring} /\ <<>> \in {<<>>, stream[g].ring}
  OBVIOUS
<1>6. CASE subscribed(g)
  <2>1. /\ stream' = [stream EXCEPT ![g] = [stream[g] EXCEPT !.st = "subscribed", !.ring = <<>>]]
        /\ stream[g].st \in ListeningStates /\ UNCHANGED <<hub, app, sub, trusted, net>>
    BY <1>1, <1>6 DEF subscribed, ListeningStates
  <2> QED
    BY <1>4, <1>5, <2>1 DEF moved
<1>7. CASE connected(g)
  <2>1. /\ stream' = [stream EXCEPT ![g] = [stream[g] EXCEPT !.st = "open", !.ring = stream[g].ring]]
        /\ stream[g].st \in ListeningStates /\ UNCHANGED <<hub, app, sub, trusted>> /\ net' = Append(net, c)
    BY <1>1, <1>7 DEF connected, ListeningStates, post, StreamRecord
  <2> QED
    BY <1>4, <1>5, <2>1 DEF moved
<1>8. CASE disconnected(g)
  <2>1. /\ stream' = [stream EXCEPT ![g] = [stream[g] EXCEPT !.st = "down", !.ring = <<>>]]
        /\ stream[g].st \in ListeningStates /\ UNCHANGED <<hub, app, sub, trusted>> /\ net' = Append(net, d)
    BY <1>1, <1>8 DEF disconnected, ListeningStates, post
  <2> QED
    BY <1>4, <1>5, <2>1 DEF moved
<1>9. CASE reconnect(g)
  <2>1. /\ stream' = [stream EXCEPT ![g] = [stream[g] EXCEPT !.st = "connecting", !.ring = stream[g].ring]]
        /\ stream[g].st \in ListeningStates /\ UNCHANGED <<hub, app, sub, trusted, net>>
    BY <1>1, <1>9 DEF reconnect, ListeningStates, StreamRecord
  <2> QED
    BY <1>4, <1>5, <2>1 DEF moved
<1> QED
  BY <1>6, <1>7, <1>8, <1>9

LEMMA ForwardStep ==
    ASSUME WatchInv, NEW g \in Generations, forward(g)
    PROVE  WatchInv'
<1> DEFINE r == stream[g].ring
           ev == Head(r)
           y == [stream[g] EXCEPT !.ring = Tail(r)]
           m == Message("live", g, ev)
<1>1. /\ stream \in [Generations -> StreamRecord] /\ stream[g] \in StreamRecord /\ RingOk(hub, r)
      /\ NetOk(hub, sub, net) /\ Rising(net, NetOrder(sub.generation))
      /\ g = sub.generation => InOrder(g, r, net)
  BY DEF WatchInv, ViewerOk, StreamsOk, InOrder
<1>2. /\ stream[g].st = "open" /\ r # <<>> /\ UNCHANGED <<hub, app, sub, trusted>>
      /\ stream' = [stream EXCEPT ![g] = y]
      /\ IF allows(stream[g].filter, ev) THEN net' = Append(net, m) ELSE net' = net
  BY <1>1 DEF forward, post
<1>3. /\ y \in StreamRecord /\ y.ring = Tail(r) /\ y.st = "open" /\ y.filter = stream[g].filter
  <2>1. Tail(r) \in Seq(EventRecord)
    BY <1>1, <1>2, Taken DEF RingOk
  <2> QED
    BY <1>1, <1>2, <2>1 DEF StreamRecord
<1> HIDE DEF y, r
<1>4. /\ Tail(r) \in Seq(EventRecord) /\ ev \in EventRecord /\ Elements(r) = {ev} \cup Elements(Tail(r))
      /\ Elements(Tail(r)) \subseteq EventRecord
      /\ Rising(Tail(r), RingOrder) /\ \A e \in Elements(Tail(r)) : <<ev, e>> \in RingOrder
  BY <1>1, <1>2, Taken DEF RingOk
<1>5. RingOk(hub, Tail(r)) /\ Told(hub, ev) /\ \A e \in Elements(Tail(r)) : ev.seq < e.seq
  <2>1. \A e \in Elements(Tail(r)) : ev.seq < e.seq /\ e.type # "gap"
    BY <1>4 DEF RingOrder
  <2>2. Tail(r) # <<>> => Head(Tail(r)) \in Elements(Tail(r))
    <3>1. ASSUME NEW q \in Seq(EventRecord), q # <<>> PROVE Head(q) \in Elements(q)
      BY <3>1, Taken
    <3> QED
      BY <1>4, <3>1
  <2> QED
    BY <1>1, <1>4, <2>1, <2>2 DEF RingOk
<1>6. m.kind = "live" /\ m.gen = g /\ m.ev = ev
  BY DEF Message
<1>7. stream[g].st \in ListeningStates
  BY <1>2 DEF ListeningStates
<1>8. g = sub.generation => \A e \in Elements(net) : LiveOf(e, g) => e.ev.seq < ev.seq
  BY <1>1, <1>4 DEF InOrder
<1>9. /\ NetOk(hub, sub, net') /\ Rising(net', NetOrder(sub.generation))
      /\ Elements(net) \subseteq Elements(net') /\ Elements(net') \subseteq Elements(net) \cup {m}
      /\ allows(stream[g].filter, ev) => m \in Elements(net')
  <2>1. CASE net' = net /\ ~allows(stream[g].filter, ev)
    BY <1>1, <2>1
  <2>2. CASE net' = Append(net, m)
    BY <1>4, <1>5, <1>7, <1>8, <2>2, Posted
  <2> QED
    BY <1>2, <2>1, <2>2
<1> HIDE DEF m, ev
<1>10. g = sub.generation => InOrder(g, Tail(r), net')
  BY <1>1, <1>4, <1>5, <1>6, <1>9 DEF InOrder
<1>11. g # sub.generation => \A e \in Elements(net') : e \in Elements(net) \/ ~LiveOf(e, sub.generation)
  BY <1>6, <1>9 DEF LiveOf
<1>12. ASSUME trusted.gen = g, g = sub.generation PROVE Followed(hub, app, g, Tail(r), TRUE, net', trusted)
  <2> SUFFICES ASSUME NEW x \in Rows \cup {0}, Wanted(hub, app, trusted, x)
               PROVE  Shown(hub, app, x) \/ app.connection = "degraded" \/ OnItsWay(app, g, Tail(r), net', x)
    BY DEF Followed
  <2>2. Shown(hub, app, x) \/ app.connection = "degraded" \/ OnItsWay(app, g, r, net, x)
    BY <1>2, <1>12 DEF WatchInv, ViewerOk, Followed, r
  <2>3. \A e : Fresh(app, g, net, e) => Fresh(app, g, net', e)
    BY <1>6, <1>9 DEF Fresh
  <2>4. ASSUME Announces(app, g, net, ev, x) PROVE allows(stream[g].filter, ev)
    <3>1. ev.type = "gap" \/ ev.row = x
      BY <2>4 DEF Announces
    <3>2. stream[g].filter = app.scope.agent /\ ScopeOk(app.scope)
      BY <1>12 DEF WatchInv, ViewerOk, AppOk
    <3>3. x = 0 => app.scope.agent = 0
      BY DEF Wanted
    <3>4. x # 0 => ev.type = "gap" \/ ev.agent = RowAgent[x]
      BY <1>5, <3>1 DEF Told
    <3>5. x # 0 => app.scope.kind # "agent" \/ RowAgent[x] = app.scope.agent
      BY DEF Wanted
    <3> QED
      BY <3>2, <3>3, <3>4, <3>5 DEF allows, ScopeOk
  <2>5. OnItsWay(app, g, r, net, x) => OnItsWay(app, g, Tail(r), net', x)
    <3>1. CASE \E e \in Elements(net) : e.gen = g /\ e.kind = "connected"
      BY <1>9, <3>1 DEF OnItsWay
    <3>2. CASE \E e \in Elements(net) : LiveOf(e, g) /\ Announces(app, g, net, e.ev, x)
      BY <1>9, <2>3, <3>2 DEF OnItsWay, Announces
    <3>3. CASE \E e \in Elements(Tail(r)) : Announces(app, g, net, e, x)
      BY <2>3, <3>3 DEF OnItsWay, Announces
    <3>4. CASE Announces(app, g, net, ev, x)
      BY <1>6, <1>9, <2>3, <2>4, <3>4 DEF OnItsWay, Announces, LiveOf
    <3> QED
      BY <1>4, <3>1, <3>2, <3>3, <3>4 DEF OnItsWay
  <2> QED
    BY <2>2, <2>5
<1> QED
  BY <1>2, <1>3, <1>5, <1>7, <1>9, <1>10, <1>11, <1>12, Rewired

-----------------------------------------------------------------------------
(* What a handler makes of the viewer's state *)

IsViewer(w) == w = [app |-> w.app, sub |-> w.sub, stream |-> w.stream] /\ AppOk(hub, w.app)
SameStreams(w, v) == IsViewer(v) /\ v.sub = w.sub /\ v.stream = w.stream

LEMMA WithConnection ==
    ASSUME NEW a, AppOk(hub, a), NEW c \in Connections, NEW b, b = [a EXCEPT !.connection = c]
    PROVE  /\ AppOk(hub, b) /\ b.scope = a.scope /\ b.auto = a.auto /\ b.agents = a.agents
           /\ b.connection = c /\ b.details = a.details /\ b.last = a.last
<1>1. a = [scope |-> a.scope, auto |-> a.auto, agents |-> a.agents, connection |-> a.connection,
           details |-> a.details, cards |-> a.cards, last |-> a.last]
  BY DEF AppOk
<1> QED
  BY <1>1 DEF AppOk

LEMMA WithScope ==
    ASSUME NEW a, AppOk(hub, a), NEW sc, ScopeOk(sc), NEW b, b = [a EXCEPT !.scope = sc]
    PROVE  /\ AppOk(hub, b) /\ b.scope = sc /\ b.auto = a.auto /\ b.agents = a.agents
           /\ b.connection = a.connection /\ b.details = a.details /\ b.last = a.last
<1>1. a = [scope |-> a.scope, auto |-> a.auto, agents |-> a.agents, connection |-> a.connection,
           details |-> a.details, cards |-> a.cards, last |-> a.last]
  BY DEF AppOk
<1> QED
  BY <1>1 DEF AppOk

CardsDetails(a, k, d) == [a EXCEPT !.cards = k, !.details = d]
LEMMA WithDetails ==
    ASSUME NEW a, AppOk(hub, a), NEW d \in [Rows -> Nat], NEW k
    PROVE  LET b == CardsDetails(a, k, d)
           IN  /\ AppOk(hub, b) /\ b.scope = a.scope /\ b.auto = a.auto /\ b.agents = a.agents
               /\ b.connection = a.connection /\ b.details = d /\ b.last = a.last
               /\ a.details = d => b = [a EXCEPT !.cards = k]
<1> DEFINE b == CardsDetails(a, k, d)
<1>1. a = [scope |-> a.scope, auto |-> a.auto, agents |-> a.agents, connection |-> a.connection,
           details |-> a.details, cards |-> a.cards, last |-> a.last]
  BY DEF AppOk
<1>2. /\ b = [scope |-> a.scope, auto |-> a.auto, agents |-> a.agents, connection |-> a.connection,
              details |-> d, cards |-> k, last |-> a.last]
      /\ [a EXCEPT !.cards = k] = [scope |-> a.scope, auto |-> a.auto, agents |-> a.agents, connection |-> a.connection,
              details |-> a.details, cards |-> k, last |-> a.last]
  <2> DEFINE c == [a EXCEPT !.cards = k]
  <2>1. c = [scope |-> a.scope, auto |-> a.auto, agents |-> a.agents, connection |-> a.connection,
              details |-> a.details, cards |-> k, last |-> a.last]
    BY <1>1
  <2>2. b = [c EXCEPT !.details = d]
    BY DEF CardsDetails
  <2> HIDE DEF c
  <2>3. [c EXCEPT !.details = d] = [scope |-> a.scope, auto |-> a.auto, agents |-> a.agents, connection |-> a.connection,
              details |-> d, cards |-> k, last |-> a.last]
    BY <2>1
  <2> QED
    BY <2>1, <2>2, <2>3 DEF c
<1>3. a.details = d => b = [a EXCEPT !.cards = k]
  BY <1>2
<1> HIDE DEF b
<1>4. /\ b.scope = a.scope /\ b.auto = a.auto /\ b.agents = a.agents
      /\ b.connection = a.connection /\ b.details = d /\ b.last = a.last /\ b.cards = k
  BY <1>2
<1>5. AppOk(hub, b)
  BY <1>2, <1>4 DEF AppOk
<1> QED
  BY <1>3, <1>4, <1>5 DEF b

LEMMA WithLast ==
    ASSUME NEW a, AppOk(hub, a), NEW n \in Nat, n <= hub.seq, NEW b, b = [a EXCEPT !.last = n]
    PROVE  /\ AppOk(hub, b) /\ b.scope = a.scope /\ b.auto = a.auto /\ b.agents = a.agents
           /\ b.connection = a.connection /\ b.details = a.details /\ b.last = n
<1>1. a = [scope |-> a.scope, auto |-> a.auto, agents |-> a.agents, connection |-> a.connection,
           details |-> a.details, cards |-> a.cards, last |-> a.last]
  BY DEF AppOk
<1> QED
  BY <1>1 DEF AppOk

LEMMA ViewerFields ==
    ASSUME NEW w, IsViewer(w), NEW a, AppOk(hub, a), NEW v, v = [w EXCEPT !.app = a]
    PROVE  SameStreams(w, v) /\ v.app = a
BY DEF IsViewer, SameStreams

LEMMA SetDegraded ==
    ASSUME NEW w, IsViewer(w)
    PROVE  LET v == set_degraded(w)
           IN  /\ SameStreams(w, v) /\ v.app.connection = "degraded" /\ v.app.scope = w.app.scope
               /\ v.app.agents = w.app.agents /\ v.app.details = w.app.details /\ v.app.last = w.app.last
<1> DEFINE b == [w.app EXCEPT !.connection = "degraded"]
<1>1. set_degraded(w) = [w EXCEPT !.app = b]
  BY DEF set_degraded, IsViewer
<1>2. "degraded" \in Connections /\ AppOk(hub, w.app)
  BY DEF Connections, IsViewer
<1>3. /\ AppOk(hub, b) /\ b.connection = "degraded" /\ b.scope = w.app.scope
      /\ b.agents = w.app.agents /\ b.details = w.app.details /\ b.last = w.app.last
  BY <1>2, WithConnection
<1> HIDE DEF b
<1> QED
  BY <1>1, <1>3, ViewerFields

LEMMA SetAgents ==
    ASSUME NEW a, AppOk(hub, a), HubOk(hub)
    PROVE  LET b == set_agents(a)
           IN  /\ AppOk(hub, b) /\ b.agents = hub.seen /\ b.connection = a.connection
               /\ b.details = a.details /\ b.last = a.last
               /\ b.scope = a.scope \/ (a.scope = Waiting /\ hub.seen # {})
<1> DEFINE sc == IF a.auto /\ a.scope = Waiting THEN automatic_scope_for_agents(hub.seen) ELSE a.scope
<1>1. set_agents(a) = [a EXCEPT !.agents = hub.seen, !.scope = sc]
  BY DEF set_agents
<1>2. hub.seen \in SUBSET WatchAgents /\ ScopeOk(a.scope)
  BY DEF HubOk, AppOk
<1>3. ScopeOk(automatic_scope_for_agents(hub.seen))
  <2>1. CASE hub.seen = {}
    <3>1. automatic_scope_for_agents(hub.seen) = Waiting
      BY <2>1, FS_EmptySet DEF automatic_scope_for_agents
    <3> QED
      BY <3>1 DEF Waiting, ScopeOk, Scopes
  <2>2. CASE Cardinality(hub.seen) = 1 /\ hub.seen # {}
    <3>1. (CHOOSE x \in hub.seen : TRUE) \in WatchAgents /\ 0 \notin WatchAgents
      BY <1>2, <2>2, WatchAssumption
    <3>2. ScopeOk(OneAgent(CHOOSE x \in hub.seen : TRUE))
      BY <3>1 DEF OneAgent, ScopeOk, Scopes
    <3> QED
      BY <2>2, <3>2 DEF automatic_scope_for_agents
  <2>3. CASE Cardinality(hub.seen) # 1 /\ hub.seen # {}
    <3>1. automatic_scope_for_agents(hub.seen) = Picker
      BY <2>3 DEF automatic_scope_for_agents
    <3> QED
      BY <3>1 DEF Picker, ScopeOk, Scopes
  <2> QED
    BY <2>1, <2>2, <2>3
<1>4. sc = a.scope \/ (a.scope = Waiting /\ hub.seen # {})
  <2>1. hub.seen = {} => automatic_scope_for_agents(hub.seen) = Waiting
    BY FS_EmptySet DEF automatic_scope_for_agents
  <2>2. sc = a.scope \/ (a.scope = Waiting /\ sc = automatic_scope_for_agents(hub.seen))
    OBVIOUS
  <2> HIDE DEF sc
  <2> QED
    BY <2>1, <2>2
<1>6. ScopeOk(sc)
  BY <1>2, <1>3
<1> HIDE DEF sc
<1>5. /\ AppOk(hub, set_agents(a)) /\ set_agents(a).scope = sc /\ set_agents(a).agents = hub.seen
      /\ set_agents(a).connection = a.connection /\ set_agents(a).details = a.details /\ set_agents(a).last = a.last
  BY <1>1, <1>2, <1>6 DEF AppOk
<1> QED
  BY <1>4, <1>5

\* The agents are read again, or the viewer is degraded, or a waiting viewer
\* turns to its first agent.
LEMMA Refreshes ==
    ASSUME NEW w, IsViewer(w), HubOk(hub), NEW f
    PROVE  LET v == refresh_agents(w, f)
           IN  \/ /\ SameStreams(w, v) /\ v.app.scope.agent = w.app.scope.agent
                  /\ v.app.details = w.app.details /\ v.app.last = w.app.last
                  /\ v.app.connection \in {w.app.connection, "degraded"}
                  /\ v.app.connection = "degraded" \/ v.app.agents = hub.seen
               \/ /\ w.app.scope = Waiting
                  /\ \E y : SameStreams(w, y) /\ v = Resubscribe(y)
<1> DEFINE a == set_agents(w.app)
           x == [w EXCEPT !.app = a]
           y == IF f = <<"status", 0>> THEN set_degraded(x) ELSE x
           v == refresh_agents(w, f)
<1>1. v = IF f = <<"agents", 0>> THEN set_degraded(w)
          ELSE IF stream_filter(a) # stream_filter(w.app) THEN Resubscribe(y) ELSE y
  BY DEF refresh_agents
<1>2. /\ AppOk(hub, a) /\ a.agents = hub.seen /\ a.connection = w.app.connection
      /\ a.details = w.app.details /\ a.last = w.app.last
      /\ a.scope = w.app.scope \/ w.app.scope = Waiting
  BY SetAgents DEF IsViewer
<1> HIDE DEF a, v
<1>3. SameStreams(w, x) /\ x.app = a
  BY <1>2, ViewerFields
<1> HIDE DEF x
<1>4. /\ SameStreams(w, y) /\ y.app.scope = a.scope /\ y.app.agents = a.agents
      /\ y.app.details = a.details /\ y.app.last = a.last /\ y.app.connection \in {a.connection, "degraded"}
  <2>1. CASE f = <<"status", 0>>
    <3>1. y = set_degraded(x) /\ IsViewer(x)
      BY <1>3, <2>1 DEF SameStreams
    <3> HIDE DEF y
    <3>2. /\ SameStreams(x, y) /\ y.app.connection = "degraded" /\ y.app.scope = x.app.scope
          /\ y.app.agents = x.app.agents /\ y.app.details = x.app.details /\ y.app.last = x.app.last
      BY <3>1, SetDegraded
    <3> QED
      BY <1>3, <3>2 DEF SameStreams
  <2>2. CASE f # <<"status", 0>>
    <3>1. y = x
      BY <2>2
    <3> HIDE DEF y
    <3> QED
      BY <1>3, <3>1
  <2> QED
    BY <2>1, <2>2
<1> HIDE DEF y
<1>5. CASE f = <<"agents", 0>>
  <2>1. v = set_degraded(w)
    BY <1>1, <1>5
  <2>2. /\ SameStreams(w, v) /\ v.app.connection = "degraded" /\ v.app.scope = w.app.scope
        /\ v.app.agents = w.app.agents /\ v.app.details = w.app.details /\ v.app.last = w.app.last
    BY <2>1, SetDegraded
  <2> QED
    BY <2>2 DEF v
<1>6. CASE f # <<"agents", 0>> /\ a.scope.agent # w.app.scope.agent
  <2>1. v = Resubscribe(y)
    BY <1>1, <1>6 DEF stream_filter
  <2>2. w.app.scope = Waiting
    BY <1>2, <1>6
  <2> QED
    BY <1>4, <2>1, <2>2 DEF v
<1>7. CASE f # <<"agents", 0>> /\ a.scope.agent = w.app.scope.agent
  <2>1. v = y
    BY <1>1, <1>7 DEF stream_filter
  <2> QED
    BY <1>2, <1>4, <1>7, <2>1 DEF v
<1> QED
  BY <1>5, <1>6, <1>7

LEMMA StopsPrevious ==
    ASSUME NEW h, NEW s, NEW st, StreamsOk(h, s, st), s.previous \in Nat, NEW g \in Generations
    PROVE  LET x == stop(st, s.previous)
           IN  /\ x \in [Generations -> StreamRecord] /\ RingOk(h, x[g].ring)
               /\ x[g].st \in ListeningStates => g = s.generation /\ g # s.previous
               /\ g # s.previous => x[g] = st[g]
<1> DEFINE x == stop(st, s.previous)
           o == [st[s.previous] EXCEPT !.st = "stopped", !.ring = <<>>]
<1>1. st \in [Generations -> StreamRecord] /\ RingOk(h, st[g].ring) /\ (st[g].st \in ListeningStates => g \in {s.generation, s.previous})
  BY DEF StreamsOk
<1>2. 0 \notin Generations
  BY RowsAre DEF Generations
<1>3. CASE s.previous \notin Generations
  <2>1. x = st
    BY <1>1, <1>3 DEF stop
  <2> QED
    BY <1>1, <1>3, <2>1
<1>4. CASE s.previous \in Generations
  <2>1. x = [st EXCEPT ![s.previous] = o]
    BY <1>1, <1>2, <1>4 DEF stop
  <2>2. o \in StreamRecord /\ o.st = "stopped" /\ o.ring = <<>>
    <3>1. st[s.previous] \in StreamRecord /\ <<>> \in Seq(EventRecord)
      BY <1>1, <1>4
    <3> QED
      BY <3>1 DEF StreamRecord
  <2> HIDE DEF o
  <2>3. RingOk(h, <<>>)
    BY NothingIn DEF RingOk
  <2>4. "stopped" \notin ListeningStates
    BY DEF ListeningStates
  <2> QED
    BY <1>1, <1>4, <2>1, <2>2, <2>3, <2>4
<1> QED
  BY <1>3, <1>4

\* Whether or not there is room for another stream, the scope stays.
LEMMA ScopeCarried ==
    ASSUME NEW w, IsViewer(w), NEW v, v = Resubscribe(w)
    PROVE  IsViewer(v) /\ v.app.scope = w.app.scope
<1> DEFINE b == [w.app EXCEPT !.connection = "connecting"]
<1>1. v = [app |-> v.app, sub |-> v.sub, stream |-> v.stream] /\ v.app = b
  BY DEF Resubscribe
<1>2. AppOk(hub, w.app) /\ "connecting" \in Connections
  BY DEF IsViewer, Connections
<1>3. AppOk(hub, b) /\ b.scope = w.app.scope
  BY <1>2, WithConnection
<1> QED
  BY <1>1, <1>3 DEF IsViewer

\* A new stream: nothing of it is in the channel, and it has not connected.
LEMMA Resubscribes ==
    ASSUME NEW w, IsViewer(w), HubOk(hub), SubOk(w.sub), StreamsOk(hub, w.sub, w.stream),
           NEW n, NetOk(hub, w.sub, n), NEW t, t \in [gen : Nat, changes : Nat], t.gen <= w.sub.generation,
           NEW v, v = Resubscribe(w), v.sub.generation <= MaxGenerations
    PROVE  IsViewer(v) /\ ViewerOk(hub, v.app, v.sub, v.stream, n, t) /\ v.app.scope = w.app.scope
           /\ v.sub.generation = w.sub.generation + 1
<1> DEFINE g == w.sub.generation + 1
           s == stop(w.stream, w.sub.previous)
           new == [st |-> "connecting", filter |-> w.app.scope.agent, ring |-> <<>>]
           b == [w.app EXCEPT !.connection = "connecting"]
           u == [generation |-> g, previous |-> w.sub.generation,
                 draining |-> IF w.sub.previous = 0 THEN w.sub.draining ELSE w.sub.previous]
           x == [k \in Generations |-> IF k = g THEN new ELSE s[k]]
<1>1. v = [app |-> b, sub |-> u, stream |-> x]
  BY DEF Resubscribe, stream_filter
<1>2. w.sub.generation \in Nat \ {0} /\ w.sub.previous \in Nat /\ w.sub.draining \in Nat
  BY DEF SubOk
<1>3. u.generation = g /\ u.previous = w.sub.generation /\ g \in Nat \ {0} /\ SubOk(u)
  BY <1>2 DEF SubOk
<1>4. AppOk(hub, b) /\ b.connection = "connecting" /\ b.scope = w.app.scope
  <2>1. AppOk(hub, w.app) /\ "connecting" \in Connections
    BY DEF IsViewer, Connections
  <2> QED
    BY <2>1, WithConnection
<1>5. v.app = b /\ v.sub = u /\ v.stream = x /\ v = [app |-> v.app, sub |-> v.sub, stream |-> v.stream]
  BY <1>1
<1>6. g \in Generations
  <2>1. g <= MaxGenerations /\ MaxGenerations \in Nat
    BY <1>3, <1>5, WatchAssumption
  <2> HIDE DEF g
  <2>2. g >= 1
    BY <1>3
  <2> QED
    BY <1>3, <2>1, <2>2 DEF Generations
<1>7. new \in StreamRecord /\ new.ring = <<>> /\ new.filter = w.app.scope.agent /\ RingOk(hub, new.ring)
  <2>1. w.app.scope.agent \in WatchAgents \cup {0}
    BY DEF IsViewer, AppOk, ScopeOk, Scopes
  <2> QED
    BY <2>1, NothingRings DEF StreamRecord, ListeningStates
<1> HIDE DEF b, u, new
<1>8. ASSUME NEW k \in Generations
      PROVE  /\ s[k] \in StreamRecord /\ RingOk(hub, s[k].ring)
             /\ s[k].st \in ListeningStates => k = w.sub.generation
  BY <1>2, StopsPrevious
<1> HIDE DEF s
<1>9. StreamsOk(hub, u, x)
  <2>1. ASSUME NEW k \in Generations
        PROVE  x[k] \in StreamRecord /\ RingOk(hub, x[k].ring) /\ (x[k].st \in ListeningStates => k \in {g, w.sub.generation})
    BY <1>7, <1>8
  <2>2. x \in [Generations -> StreamRecord]
    BY <2>1
  <2> HIDE DEF x
  <2> QED
    BY <1>3, <2>1, <2>2 DEF StreamsOk
<1>10. x[g] = new
  BY <1>6
<1> HIDE DEF x
<1>11. n \in Seq(MessageRecord) /\ Elements(n) \subseteq MessageRecord
       /\ \A m \in Elements(n) : m.gen \in Nat /\ m.gen <= w.sub.generation
  <2>1. n \in Seq(MessageRecord) /\ Elements(n) \subseteq MessageRecord
    BY ElementOfSeq DEF NetOk, Elements
  <2> QED
    BY <2>1 DEF NetOk, MessageRecord
<1>12. \A m \in Elements(n) : m.gen < g /\ m.gen <= g /\ ~LiveOf(m, g)
  BY <1>2, <1>11 DEF LiveOf
<1>13. NetOk(hub, u, n)
  BY <1>3, <1>12 DEF NetOk
<1>14. InOrder(g, <<>>, n)
  <2>1. Rising(n, NetOrder(g))
    BY <1>11, <1>12 DEF Rising, NetOrder, Elements
  <2> QED
    BY <2>1, NothingIn DEF InOrder
<1>15. t.gen < g /\ t.gen <= g /\ t.gen # g
  BY <1>2
<1>16. TrustedOk(b, u, t)
  BY <1>3, <1>15 DEF TrustedOk
<1> HIDE DEF g
<1>17. ViewerOk(hub, b, u, x, n, t)
  BY <1>3, <1>4, <1>6, <1>7, <1>9, <1>10, <1>13, <1>14, <1>15, <1>16 DEF ViewerOk
<1> QED
  BY <1>3, <1>4, <1>5, <1>17 DEF IsViewer, g

LEMMA MarksConnected ==
    ASSUME NEW w, IsViewer(w), SubOk(w.sub), StreamsOk(hub, w.sub, w.stream), w.sub.generation \in Generations,
           NEW v, v = mark_connected(w)
    PROVE  /\ IsViewer(v) /\ v.app = w.app /\ SubOk(v.sub) /\ v.sub.generation = w.sub.generation
           /\ v.sub.previous = 0 /\ StreamsOk(hub, v.sub, v.stream)
           /\ v.stream[w.sub.generation] = w.stream[w.sub.generation]
<1> DEFINE s == stop(w.stream, w.sub.previous)
           d == IF w.sub.previous = 0 THEN w.sub.draining ELSE w.sub.previous
           u == [w.sub EXCEPT !.draining = d, !.previous = 0]
<1>1. w = [app |-> w.app, sub |-> w.sub, stream |-> w.stream]
  BY DEF IsViewer
<1>2. w.sub = [generation |-> w.sub.generation, previous |-> w.sub.previous, draining |-> w.sub.draining]
      /\ w.sub.generation \in Nat \ {0} /\ w.sub.previous \in Nat /\ w.sub.draining \in Nat /\ w.sub.previous < w.sub.generation
  BY DEF SubOk
<1>3. v = [app |-> w.app, sub |-> u, stream |-> s]
  <2>1. [w EXCEPT !.stream = s] = [app |-> w.app, sub |-> w.sub, stream |-> s]
    BY <1>1
  <2> HIDE DEF s
  <2>2. [[app |-> w.app, sub |-> w.sub, stream |-> s] EXCEPT !.sub.draining = d]
          = [app |-> w.app, sub |-> [w.sub EXCEPT !.draining = d], stream |-> s]
    OBVIOUS
  <2> HIDE DEF d
  <2>3. [[app |-> w.app, sub |-> [w.sub EXCEPT !.draining = d], stream |-> s] EXCEPT !.sub.previous = 0]
          = [app |-> w.app, sub |-> u, stream |-> s]
    OBVIOUS
  <2> QED
    BY <2>1, <2>2, <2>3 DEF mark_connected, s, d
<1>4. SubOk(u) /\ u.generation = w.sub.generation /\ u.previous = 0
  <2>1. d \in Nat
    BY <1>2
  <2> HIDE DEF d
  <2>2. u = [generation |-> w.sub.generation, previous |-> 0, draining |-> d]
    <3> DEFINE x == [w.sub EXCEPT !.draining = d]
    <3>1. x = [generation |-> w.sub.generation, previous |-> w.sub.previous, draining |-> d]
      BY <1>2
    <3>2. u = [x EXCEPT !.previous = 0]
      OBVIOUS
    <3> HIDE DEF x
    <3>3. [x EXCEPT !.previous = 0] = [generation |-> w.sub.generation, previous |-> 0, draining |-> d]
      BY <3>1
    <3> QED
      BY <3>2, <3>3
  <2> HIDE DEF u
  <2>3. 0 < w.sub.generation
    BY <1>2
  <2> QED
    BY <1>2, <2>1, <2>2, <2>3 DEF SubOk
<1> HIDE DEF u
<1>5. ASSUME NEW k \in Generations
      PROVE  /\ s \in [Generations -> StreamRecord] /\ RingOk(hub, s[k].ring)
             /\ s[k].st \in ListeningStates => k = w.sub.generation
             /\ k # w.sub.previous => s[k] = w.stream[k]
  BY <1>2, StopsPrevious
<1> HIDE DEF s
<1>6. StreamsOk(hub, u, s)
  BY <1>4, <1>5 DEF StreamsOk
<1>7. s[w.sub.generation] = w.stream[w.sub.generation]
  BY <1>2, <1>5
<1>8. v.app = w.app /\ v.sub = u /\ v.stream = s /\ v = [app |-> v.app, sub |-> v.sub, stream |-> v.stream]
  BY <1>3
<1> QED
  BY <1>4, <1>6, <1>7, <1>8 DEF IsViewer

\* A recovery without an error read every row of the scope that changed.
LEMMA Recovers ==
    ASSUME NEW w, IsViewer(w), HubOk(hub), NEW f
    PROVE  LET v == recover_from_history(w, f)
           IN  /\ SameStreams(w, v) /\ v.app.scope = w.app.scope /\ v.app.auto = w.app.auto
               /\ v.app.agents = w.app.agents /\ v.app.last = w.app.last
               /\ v.app.connection \in {"connected", "degraded"}
               /\ \/ v.app.connection = "degraded"
                  \/ \A x \in Rows : hub.last[x] > 0 /\ (w.app.scope.kind = "agent" => RowAgent[x] = w.app.scope.agent)
                       => v.app.details[x] = hub.rev[x]
<1> DEFINE list == IF f = <<"list", 0>> THEN {} ELSE recovery_invocations(stream_filter(w.app))
           ids == {i \in Rows : w.app.details[i] > 0} \cup list
           read == {i \in ids : f # <<"detail", i>>}
           errors == f = <<"list", 0>> \/ Cardinality(list) = RecoveryLimit \/ read # ids
           c == IF errors THEN "degraded" ELSE "connected"
           v == recover_from_history(w, f)
<1>1. v = [w EXCEPT !.app = [read_again(w.app, read) EXCEPT !.connection = c]]
  BY DEF recover_from_history
<1>2. AppOk(hub, w.app) /\ hub.rev \in [Rows -> Nat] /\ w.app.details \in [Rows -> Nat]
  BY DEF IsViewer, HubOk, AppOk
<1>3. list \subseteq Rows /\ ids \subseteq Rows /\ read \subseteq Rows
  BY DEF recovery_invocations
<1>4. c \in {"connected", "degraded"} /\ c \in Connections /\ (c = "connected" => ~errors)
  BY DEF Connections
<1> HIDE DEF c
<1> DEFINE a == read_again(w.app, read)
           d == [i \in Rows |-> IF i \in read THEN hub.rev[i] ELSE w.app.details[i]]
<1>5. \E k : a = CardsDetails(w.app, k, d)
  BY DEF read_again, CardsDetails
<1>6. d \in [Rows -> Nat]
  BY <1>2
<1> HIDE DEF a
<1>7. /\ AppOk(hub, a) /\ a.details = d /\ a.auto = w.app.auto /\ a.agents = w.app.agents
      /\ a.scope = w.app.scope /\ a.last = w.app.last
  <2> HIDE DEF d
  <2>1. PICK k : a = CardsDetails(w.app, k, d)
    BY <1>5
  <2> DEFINE z == CardsDetails(w.app, k, d)
  <2>2. /\ AppOk(hub, z) /\ z.details = d /\ z.auto = w.app.auto /\ z.agents = w.app.agents
        /\ z.scope = w.app.scope /\ z.last = w.app.last
    BY <1>2, <1>6, WithDetails
  <2> QED
    BY <2>1, <2>2
<1> DEFINE b == [a EXCEPT !.connection = c]
<1>8. /\ AppOk(hub, b) /\ b.connection = c /\ b.details = d /\ b.auto = w.app.auto /\ b.agents = w.app.agents
      /\ b.scope = w.app.scope /\ b.last = w.app.last
  <2>1. /\ AppOk(hub, b) /\ b.connection = c /\ b.details = a.details /\ b.auto = a.auto /\ b.agents = a.agents
        /\ b.scope = a.scope /\ b.last = a.last
    BY <1>4, <1>7, WithConnection
  <2> QED
    BY <1>7, <2>1
<1>9. v = [w EXCEPT !.app = b]
  BY <1>1 DEF a
<1> HIDE DEF v, b
<1>10. SameStreams(w, v) /\ v.app = b
  BY <1>8, <1>9, ViewerFields
<1>11. ASSUME ~errors, NEW x \in Rows, hub.last[x] > 0, w.app.scope.kind = "agent" => RowAgent[x] = w.app.scope.agent
       PROVE  d[x] = hub.rev[x]
  <2> DEFINE filter == w.app.scope.agent
             changed == {i \in Rows : hub.rev[i] > 0 /\ (filter = 0 \/ RowAgent[i] = filter)}
  <2>1. list = {i \in changed : Cardinality({j \in changed : j > i}) < RecoveryLimit} /\ Cardinality(list) # RecoveryLimit
    BY <1>11 DEF recovery_invocations, stream_filter
  <2>2. x \in changed
    <3>1. hub.rev[x] > 0
      <4>1. hub.rev[x] \in Nat /\ hub.last[x] \in Nat /\ (hub.rev[x] = 0 => hub.last[x] = 0)
        BY DEF HubOk
      <4> QED
        BY <1>11, <4>1
    <3>2. filter = 0 \/ RowAgent[x] = filter
      BY <1>2, <1>11 DEF AppOk, ScopeOk
    <3> QED
      BY <3>1, <3>2
  <2>3. IsFiniteSet(changed) /\ changed \subseteq Nat
    <3>1. IsFiniteSet({i \in Rows : hub.rev[i] > 0}) /\ changed \in SUBSET {i \in Rows : hub.rev[i] > 0}
      BY DEF HubOk
    <3>2. IsFiniteSet(changed)
      BY <3>1, FS_Subset
    <3> QED
      BY <3>2, RowsAre
  <2>4. RecoveryLimit \in Nat \ {0}
    BY WatchAssumption
  <2> HIDE DEF changed, list
  <2>5. list = {i \in changed : Cardinality(Above(changed, i)) < RecoveryLimit}
    BY <2>1 DEF Above
  <2>6. list = changed
    BY <2>1, <2>3, <2>4, <2>5, NewestAreAll
  <2>7. x \in read
    BY <1>11, <2>2, <2>6
  <2> QED
    BY <2>7
<1> HIDE DEF errors, d
<1> QED
  BY <1>4, <1>8, <1>10, <1>11 DEF v

\* A live record is merged, or the viewer is degraded; no other row changes.
LEMMA MergesLive ==
    ASSUME NEW w, IsViewer(w), HubOk(hub), NEW i \in Rows, NEW f
    PROVE  LET v == merge_live_detail(w, i, f)
           IN  /\ SameStreams(w, v) /\ v.app.scope = w.app.scope /\ v.app.agents = w.app.agents
               /\ v.app.last = w.app.last /\ v.app.connection \in {w.app.connection, "degraded"}
               /\ v.app.connection = "degraded" \/ v.app.details[i] = hub.rev[i]
               /\ \A x \in Rows \ {i} : v.app.details[x] = w.app.details[x]
<1> DEFINE d == [w.app.details EXCEPT ![i] = hub.rev[i]]
           v == merge_live_detail(w, i, f)
<1>1. AppOk(hub, w.app) /\ hub.rev \in [Rows -> Nat] /\ w.app.details \in [Rows -> Nat]
  BY DEF IsViewer, HubOk, AppOk
<1>2. d \in [Rows -> Nat] /\ d[i] = hub.rev[i] /\ \A x \in Rows \ {i} : d[x] = w.app.details[x]
  BY <1>1
<1>3. ASSUME NEW a, a.details = d \/ a.details = w.app.details, AppOk(hub, a), NEW k
      PROVE  [a EXCEPT !.cards = k, !.details[i] = hub.rev[i]] = CardsDetails(a, k, d)
  <2>1. [a.details EXCEPT ![i] = hub.rev[i]] = d
    BY <1>1, <1>3
  <2>2. a = [scope |-> a.scope, auto |-> a.auto, agents |-> a.agents, connection |-> a.connection,
             details |-> a.details, cards |-> a.cards, last |-> a.last]
    BY <1>3 DEF AppOk
  <2> HIDE DEF d
  <2> QED
    BY <2>1, <2>2 DEF CardsDetails
<1>4. ASSUME NEW a, a.details = d \/ a.details = w.app.details, AppOk(hub, a)
      PROVE  \E k : merge_detail(a, i) = CardsDetails(a, k, d)
  BY <1>3, <1>4 DEF merge_detail, CardsDetails
<1> DEFINE cached == [w.app EXCEPT !.details[i] = hub.rev[i]]
<1>5. /\ AppOk(hub, cached) /\ cached.details = d /\ cached.scope = w.app.scope /\ cached.agents = w.app.agents
      /\ cached.last = w.app.last /\ cached.connection = w.app.connection
  <2> DEFINE z == CardsDetails(w.app, w.app.cards, d)
  <2>1. cached = z
    BY DEF IsViewer, AppOk, CardsDetails
  <2>2. /\ AppOk(hub, z) /\ z.details = d /\ z.scope = w.app.scope /\ z.agents = w.app.agents
        /\ z.last = w.app.last /\ z.connection = w.app.connection
    <3> HIDE DEF d
    <3> QED
      BY <1>1, <1>2, WithDetails
  <2> QED
    BY <2>1, <2>2
<1> HIDE DEF d
\* Every outcome changes only the cards and the detail of the row.
<1>6. ASSUME NEW a, a \in {cached, w.app}, NEW b, \E k : b = CardsDetails(a, k, d)
      PROVE  /\ AppOk(hub, b) /\ b.details = d /\ b.scope = w.app.scope /\ b.agents = w.app.agents
             /\ b.last = w.app.last /\ b.connection = w.app.connection
  <2>1. PICK k : b = CardsDetails(a, k, d)
    BY <1>6
  <2> DEFINE z == CardsDetails(a, k, d)
  <2>2. /\ AppOk(hub, a) /\ a.scope = w.app.scope /\ a.agents = w.app.agents
        /\ a.last = w.app.last /\ a.connection = w.app.connection
    BY <1>1, <1>5, <1>6
  <2> HIDE DEF cached
  <2>3. /\ AppOk(hub, z) /\ z.details = d /\ z.scope = a.scope /\ z.agents = a.agents
        /\ z.last = a.last /\ z.connection = a.connection
    BY <1>2, <2>2, WithDetails
  <2> QED
    BY <2>1, <2>2, <2>3
<1> DEFINE merged == merge_detail(w.app, i)
           folded == merge_detail(cached, i)
           shown == [cached EXCEPT !.cards[RowParent[i]] = Folded(RowParent[i])]
           ok(b) == /\ AppOk(hub, b) /\ b.details = d /\ b.scope = w.app.scope /\ b.agents = w.app.agents
                    /\ b.last = w.app.last /\ b.connection = w.app.connection
<1>7. ok(merged)
  <2>1. \E k : merged = CardsDetails(w.app, k, d)
    BY <1>1, <1>4
  <2> HIDE DEF merged, cached
  <2> QED
    BY <1>6, <2>1
<1>8. ok(folded)
  <2> HIDE DEF cached
  <2>1. \E k : folded = CardsDetails(cached, k, d)
    BY <1>4, <1>5
  <2> HIDE DEF folded
  <2> QED
    BY <1>6, <2>1
<1>9. ok(shown)
  <2> DEFINE k == [cached.cards EXCEPT ![RowParent[i]] = Folded(RowParent[i])]
  <2> HIDE DEF cached
  <2>1. shown = [cached EXCEPT !.cards = k]
    OBVIOUS
  <2>2. [cached EXCEPT !.cards = k] = CardsDetails(cached, k, d)
    <3> HIDE DEF k
    <3> QED
      BY <1>2, <1>5, WithDetails
  <2>3. \E j : shown = CardsDetails(cached, j, d)
    BY <2>1, <2>2
  <2> HIDE DEF shown
  <2> QED
    BY <1>6, <2>3
<1> HIDE DEF ok
<1> DEFINE x == [w EXCEPT !.app = merged]
           y == [w EXCEPT !.app = folded]
           z == [w EXCEPT !.app = shown]
<1>10. \/ v = set_degraded(w)
       \/ v = x \/ v = set_degraded(y) \/ v = z
  <2>1. w = [app |-> w.app, sub |-> w.sub, stream |-> w.stream]
    BY DEF IsViewer
  <2>2. [w EXCEPT !.app.details[i] = hub.rev[i]] = [w EXCEPT !.app = cached]
    BY <2>1
  <2>3. [w EXCEPT !.app = cached].app = cached
    BY <2>1
  <2> HIDE DEF cached, merged, folded
  <2>4. [[w EXCEPT !.app = cached] EXCEPT !.app.cards[RowParent[i]] = Folded(RowParent[i])] = z
    BY <2>1
  <2>5. [w EXCEPT !.app = merge_detail(@, i)] = x
    BY <2>1 DEF merged
  <2> HIDE DEF x, y, z
  <2> QED
    BY <2>2, <2>3, <2>4, <2>5 DEF merge_live_detail, y, folded
<1> HIDE DEF merged, folded, shown, cached, v
<1>11. ASSUME NEW b, ok(b), NEW u, u = [w EXCEPT !.app = b] \/ u = set_degraded([w EXCEPT !.app = b])
       PROVE  /\ SameStreams(w, u) /\ u.app.scope = w.app.scope /\ u.app.agents = w.app.agents
              /\ u.app.last = w.app.last /\ u.app.connection \in {w.app.connection, "degraded"}
              /\ u.app.details = d
  <2> DEFINE m == [w EXCEPT !.app = b]
  <2>1. SameStreams(w, m) /\ m.app = b
    BY <1>11, ViewerFields DEF ok
  <2> HIDE DEF m
  <2>2. CASE u = m
    BY <1>11, <2>1, <2>2 DEF ok
  <2>3. CASE u = set_degraded(m)
    <3>1. IsViewer(m)
      BY <2>1 DEF SameStreams
    <3>2. /\ SameStreams(m, u) /\ u.app.connection = "degraded" /\ u.app.scope = m.app.scope
          /\ u.app.agents = m.app.agents /\ u.app.details = m.app.details /\ u.app.last = m.app.last
      BY <2>3, <3>1, SetDegraded
    <3> QED
      BY <1>11, <2>1, <3>2 DEF ok, SameStreams
  <2> QED
    BY <1>11, <2>2, <2>3 DEF m
<1>12. CASE v = set_degraded(w)
  <2>1. /\ SameStreams(w, v) /\ v.app.connection = "degraded" /\ v.app.scope = w.app.scope
        /\ v.app.agents = w.app.agents /\ v.app.details = w.app.details /\ v.app.last = w.app.last
    BY <1>12, SetDegraded
  <2> QED
    BY <2>1 DEF v
<1>13. CASE v = x \/ v = set_degraded(y) \/ v = z
  <2>1. /\ SameStreams(w, v) /\ v.app.scope = w.app.scope /\ v.app.agents = w.app.agents
        /\ v.app.last = w.app.last /\ v.app.connection \in {w.app.connection, "degraded"}
        /\ v.app.details = d
    BY <1>7, <1>8, <1>9, <1>11, <1>13
  <2> QED
    BY <1>2, <2>1 DEF v
<1> QED
  BY <1>10, <1>12, <1>13

-----------------------------------------------------------------------------
(* Network events *)

\* The agent that a key turns to is one of the agents listed.
LEMMA NextAgent ==
    ASSUME NEW a, a.agents \in SUBSET WatchAgents, a.agents # {}, NEW d
    PROVE  next_agent(a, d) \in WatchAgents
<1>1. ASSUME NEW S, S \subseteq a.agents, S # {} PROVE Min(S) \in WatchAgents /\ Max(S) \in WatchAgents
  <2>1. S \subseteq Nat /\ IsFiniteSet(S)
    BY <1>1, WatchAssumption, FS_Subset
  <2>2. (\E x \in S : \A y \in S : x <= y) /\ (\E x \in S : \A y \in S : x >= y)
    BY <1>1, <2>1, LeastOf, GreatestOf
  <2>3. Min(S) \in S
    BY <2>2 DEF Min
  <2>4. Max(S) \in S
    BY <2>2 DEF Max
  <2> QED
    BY <1>1, <2>3, <2>4
<1> DEFINE current == IF a.scope.agent \in a.agents THEN a.scope.agent ELSE 0
           after == {x \in a.agents : x > current}
           before == {x \in a.agents : x < current}
           S == IF before = {} THEN a.agents ELSE before
           T == IF after = {} THEN a.agents ELSE after
<1>2. next_agent(a, d) = IF d < 0 THEN Max(S) ELSE Min(T)
  BY DEF next_agent
<1>3. S \subseteq a.agents /\ S # {} /\ T \subseteq a.agents /\ T # {}
  OBVIOUS
<1> HIDE DEF S, T
<1> QED
  BY <1>1, <1>2, <1>3

\* What the head of the channel brings of x.
Brings(x) ==
    \/ Head(net).gen = sub.generation /\ Head(net).kind = "connected"
    \/ LiveOf(Head(net), sub.generation) /\ Announces(app, sub.generation, net, Head(net).ev, x)

LEMMA ScopeKept ==
    ASSUME NEW a, NEW b, AppOk(hub, a), AppOk(hub, b), b.scope.agent = a.scope.agent, NEW t, NEW x
    PROVE  Wanted(hub, b, t, x) <=> Wanted(hub, a, t, x)
<1>1. (a.scope.kind = "agent" <=> a.scope.agent # 0) /\ (b.scope.kind = "agent" <=> b.scope.agent # 0)
  BY DEF AppOk, ScopeOk
<1> QED
  BY <1>1 DEF Wanted

LEMMA Shorter ==
    ASSUME WatchInv, net # <<>>
    PROVE  /\ Elements(net) = {Head(net)} \cup Elements(Tail(net)) /\ Head(net) \in MessageRecord
           /\ NetOk(hub, sub, Tail(net)) /\ InOrder(sub.generation, stream[sub.generation].ring, Tail(net))
           /\ \A m \in Elements(Tail(net)) : LiveOf(Head(net), sub.generation) /\ LiveOf(m, sub.generation)
                => Head(net).ev.seq < m.ev.seq
           /\ \A e \in Elements(stream[sub.generation].ring) : LiveOf(Head(net), sub.generation)
                => Head(net).ev.seq < e.seq
           /\ Head(net).kind = "live" => Told(hub, Head(net).ev)
<1>1. NetOk(hub, sub, net) /\ net \in Seq(MessageRecord) /\ InOrder(sub.generation, stream[sub.generation].ring, net)
  BY DEF WatchInv, ViewerOk, NetOk
<1>2. /\ Elements(net) = {Head(net)} \cup Elements(Tail(net)) /\ Head(net) \in MessageRecord
      /\ Tail(net) \in Seq(MessageRecord) /\ Elements(Tail(net)) \subseteq MessageRecord
      /\ Rising(Tail(net), NetOrder(sub.generation))
      /\ \A m \in Elements(Tail(net)) : <<Head(net), m>> \in NetOrder(sub.generation)
  BY <1>1, Taken DEF InOrder
<1>3. NetOk(hub, sub, Tail(net)) /\ (Head(net).kind = "live" => Told(hub, Head(net).ev))
  BY <1>1, <1>2 DEF NetOk
<1>4. InOrder(sub.generation, stream[sub.generation].ring, Tail(net))
  BY <1>1, <1>2 DEF InOrder
<1>5. \A m \in Elements(Tail(net)) : LiveOf(Head(net), sub.generation) /\ LiveOf(m, sub.generation)
        => Head(net).ev.seq < m.ev.seq
  BY <1>2 DEF NetOrder
<1>6. \A e \in Elements(stream[sub.generation].ring) : LiveOf(Head(net), sub.generation) => Head(net).ev.seq < e.seq
  BY <1>1, <1>2 DEF InOrder
<1> QED
  BY <1>2, <1>3, <1>4, <1>5, <1>6

\* A message handled on the same stream: what it brought is shown, or the
\* viewer is degraded, and what follows in the channel is still to be read.
LEMMA Handled ==
    ASSUME WatchInv, net # <<>>, NEW b, AppOk(hub, b), b.scope.agent = app.scope.agent,
           b.last = app.last \/ (Head(net).kind = "live" /\ b.last = Head(net).ev.seq),
           trusted.gen = sub.generation => b.connection # "connecting",
           \A x \in Rows \cup {0} : Wanted(hub, app, trusted, x) =>
             \/ b.connection = "degraded" \/ Shown(hub, b, x)
             \/ app.connection # "degraded" /\ ~Shown(hub, app, x) /\ ~Brings(x)
    PROVE  ViewerOk(hub, b, sub, stream, Tail(net), trusted)
<1> DEFINE g == sub.generation
           r == stream[g].ring
           n == Tail(net)
           m == Head(net)
<1>1. /\ HubOk(hub) /\ AppOk(hub, app) /\ SubOk(sub) /\ g \in Generations /\ StreamsOk(hub, sub, stream)
      /\ TrustedOk(app, sub, trusted) /\ stream[g].filter = app.scope.agent
      /\ trusted.gen = g => Followed(hub, app, g, r, stream[g].st = "open", net, trusted)
  BY DEF WatchInv, ViewerOk
<1>2. /\ Elements(net) = {m} \cup Elements(n) /\ NetOk(hub, sub, n) /\ InOrder(g, r, n)
      /\ \A o \in Elements(n) : LiveOf(m, g) /\ LiveOf(o, g) => m.ev.seq < o.ev.seq
      /\ \A e \in Elements(r) : LiveOf(m, g) => m.ev.seq < e.seq
  BY Shorter
<1>3. TrustedOk(b, sub, trusted)
  BY <1>1 DEF TrustedOk
<1>4. /\ \A o \in Elements(net) : o.ev.seq \in Nat
      /\ \A e \in Elements(r) : e.seq \in Nat
      /\ app.last \in Nat
  BY <1>1, Typed DEF WatchInv
<1> HIDE DEF n, m, r
<1>5. ASSUME NEW e, Fresh(app, g, net, e), e.seq \in Nat, LiveOf(m, g) => m.ev.seq < e.seq
      PROVE  Fresh(b, g, n, e)
  <2>1. e.seq > b.last
    <3>1. CASE b.last = app.last
      BY <1>5, <3>1 DEF Fresh
    <3>2. CASE m.kind = "live" /\ b.last = m.ev.seq
      <4>1. m.ev.seq < e.seq /\ m.ev.seq \in Nat
        BY <1>2, <1>4, <1>5, <3>2 DEF Fresh, LiveOf
      <4> QED
        BY <1>5, <3>2, <4>1
    <3> QED
      BY <3>1, <3>2 DEF m
  <2> QED
    BY <1>2, <1>5, <2>1 DEF Fresh
<1>6. ASSUME trusted.gen = g PROVE Followed(hub, b, g, r, stream[g].st = "open", n, trusted)
  <2> SUFFICES ASSUME NEW x \in Rows \cup {0}, Wanted(hub, b, trusted, x), b.connection # "degraded",
                      ~Shown(hub, b, x), stream[g].st = "open"
               PROVE  OnItsWay(b, g, r, n, x)
    BY DEF Followed
  <2>1. Wanted(hub, app, trusted, x)
    BY <1>1, ScopeKept
  <2>2. app.connection # "degraded" /\ ~Shown(hub, app, x) /\ ~Brings(x)
    BY <2>1
  <2>3. OnItsWay(app, g, r, net, x)
    BY <1>1, <1>6, <2>1, <2>2 DEF Followed
  <2>4. CASE \E o \in Elements(net) : o.gen = g /\ o.kind = "connected"
    BY <1>2, <2>2, <2>4 DEF OnItsWay, Brings, m
  <2>5. CASE \E o \in Elements(net) : LiveOf(o, g) /\ Announces(app, g, net, o.ev, x)
    <3>1. PICK o \in Elements(net) : LiveOf(o, g) /\ Announces(app, g, net, o.ev, x)
      BY <2>5
    <3>2. o \in Elements(n)
      BY <1>2, <2>2, <3>1 DEF Brings, m
    <3>3. Fresh(b, g, n, o.ev)
      BY <1>2, <1>4, <1>5, <3>1, <3>2 DEF Announces
    <3> QED
      BY <3>1, <3>2, <3>3 DEF OnItsWay, Announces
  <2>6. CASE \E e \in Elements(r) : Announces(app, g, net, e, x)
    <3>1. PICK e \in Elements(r) : Announces(app, g, net, e, x)
      BY <2>6
    <3>2. Fresh(b, g, n, e)
      BY <1>2, <1>4, <1>5, <3>1 DEF Announces
    <3> QED
      BY <3>1, <3>2 DEF OnItsWay, Announces
  <2> QED
    BY <2>3, <2>4, <2>5, <2>6 DEF OnItsWay
<1> QED
  BY <1>1, <1>2, <1>3, <1>6 DEF ViewerOk, n, r

\* A key handled on the same stream forgets nothing.
LEMMA Pressed ==
    ASSUME WatchInv, NEW b, AppOk(hub, b), b.scope.agent = app.scope.agent, b.last = app.last,
           b.connection \in {app.connection, "degraded"},
           \A x \in Rows \cup {0} : Shown(hub, app, x) => Shown(hub, b, x)
    PROVE  ViewerOk(hub, b, sub, stream, net, trusted)
<1>1. TrustedOk(b, sub, trusted)
  BY DEF WatchInv, ViewerOk, TrustedOk
<1>2. \A x : Wanted(hub, b, trusted, x) <=> Wanted(hub, app, trusted, x)
  BY ScopeKept DEF WatchInv, ViewerOk
<1>3. \A g, r, n, x : OnItsWay(app, g, r, n, x) => OnItsWay(b, g, r, n, x)
  BY DEF OnItsWay, Announces, Fresh
<1>4. \A g, r, open : Followed(hub, app, g, r, open, net, trusted) => Followed(hub, b, g, r, open, net, trusted)
  BY <1>2, <1>3 DEF Followed
<1> QED
  BY <1>1, <1>4 DEF WatchInv, ViewerOk

LEMMA Becomes ==
    ASSUME NEW w, NEW f, becomes(w, f), ViewerOk(hub, w.app, w.sub, w.stream, net', trusted')
    PROVE  WatchInv'
BY DEF becomes, WatchInv

LEMMA CurrentIs ==
    ASSUME WatchInv
    PROVE  IsViewer(Current) /\ Current.app = app /\ Current.sub = sub /\ Current.stream = stream
BY DEF WatchInv, ViewerOk, Current, IsViewer

LEMMA ConnectedStep ==
    ASSUME WatchInv, net # <<>>, net' = Tail(net), NEW f, handle_connected(Head(net).gen, f),
           Head(net).kind = "connected"
    PROVE  WatchInv'
<1> DEFINE g == sub.generation
           m == mark_connected(Current)
           b == [m.app EXCEPT !.connection = "connected"]
           c == [m EXCEPT !.app = b]
           r == IF recovers(app) THEN recover_from_history(c, f) ELSE c
           v == Refreshed(r, f)
           n == Tail(net)
<1>1. /\ HubOk(hub) /\ AppOk(hub, app) /\ SubOk(sub) /\ g \in Generations /\ StreamsOk(hub, sub, stream)
      /\ TrustedOk(app, sub, trusted) /\ stream[g].filter = app.scope.agent /\ g \in Nat /\ trusted.gen \in Nat
  BY DEF WatchInv, ViewerOk, SubOk, TrustedOk
<1>2. CASE Head(net).gen # g
  <2>1. becomes(Current, NoFailure) /\ UNCHANGED trusted
    BY <1>2 DEF handle_connected
  <2>2. ViewerOk(hub, app, sub, stream, Tail(net), trusted)
    <3>1. \A x \in Rows \cup {0} : ~Brings(x)
      BY <1>2 DEF Brings, LiveOf
    <3>2. trusted.gen = g => app.connection # "connecting"
      BY <1>1 DEF TrustedOk
    <3> QED
      BY <1>1, <3>1, <3>2, Handled
  <2> QED
    BY <2>1, <2>2, CurrentIs, Becomes
<1>3. CASE Head(net).gen = g
  <2>1. /\ IsViewer(m) /\ m.app = app /\ SubOk(m.sub) /\ m.sub.generation = g /\ m.sub.previous = 0
        /\ StreamsOk(hub, m.sub, m.stream) /\ m.stream[g] = stream[g]
    BY <1>1, CurrentIs, MarksConnected
  <2>2. [m EXCEPT !.app.connection = "connected"] = c
    BY <2>1 DEF IsViewer
  <2>3. /\ becomes(v, f)
        /\ trusted' = IF trusted.gen = g THEN trusted ELSE [gen |-> g, changes |-> hub.changes]
    BY <1>3, <2>2 DEF handle_connected
  <2> HIDE DEF m
  <2>4. /\ AppOk(hub, b) /\ b.connection = "connected" /\ b.scope = app.scope /\ b.agents = app.agents
        /\ b.details = app.details /\ b.last = app.last
    BY <1>1, <2>1, WithConnection DEF Connections
  <2> HIDE DEF b
  <2>5. SameStreams(m, c) /\ c.app = b
    BY <2>1, <2>4, ViewerFields
  <2> HIDE DEF c
  <2>6. /\ SameStreams(m, r) /\ r.app.scope = app.scope /\ r.app.connection \in {"connected", "degraded"}
        /\ recovers(app) => \/ r.app.connection = "degraded"
             \/ \A x \in Rows : hub.last[x] > 0 /\ (app.scope.kind = "agent" => RowAgent[x] = app.scope.agent)
                  => r.app.details[x] = hub.rev[x]
    <3>1. CASE recovers(app)
      <4>1. r = recover_from_history(c, f) /\ IsViewer(c)
        BY <2>5, <3>1 DEF SameStreams
      <4> HIDE DEF r
      <4>2. /\ SameStreams(c, r) /\ r.app.scope = c.app.scope /\ r.app.connection \in {"connected", "degraded"}
            /\ \/ r.app.connection = "degraded"
               \/ \A x \in Rows : hub.last[x] > 0 /\ (c.app.scope.kind = "agent" => RowAgent[x] = c.app.scope.agent)
                    => r.app.details[x] = hub.rev[x]
        BY <1>1, <4>1, Recovers
      <4> QED
        BY <2>4, <2>5, <4>2 DEF SameStreams
    <3>2. CASE ~recovers(app)
      <4>1. r = c
        BY <3>2
      <4> HIDE DEF r
      <4> QED
        BY <2>4, <2>5, <3>2, <4>1 DEF SameStreams
    <3> QED
      BY <3>1, <3>2
  <2> HIDE DEF r
  <2>7. \/ /\ SameStreams(r, v) /\ v.app.scope.agent = r.app.scope.agent
           /\ v.app.details = r.app.details /\ v.app.last = r.app.last
           /\ v.app.connection \in {r.app.connection, "degraded"}
           /\ v.app.connection = "degraded" \/ v.app.agents = hub.seen
        \/ \E y : SameStreams(r, y) /\ v = Resubscribe(y)
    <3>1. IsViewer(r) /\ v = refresh_agents(r, f)
      BY <2>6 DEF SameStreams, Refreshed
    <3> HIDE DEF v
    <3> QED
      BY <1>1, <3>1, Refreshes
  <2> HIDE DEF v
  <2>8. NetOk(hub, m.sub, n) /\ InOrder(g, stream[g].ring, n)
    <3>1. NetOk(hub, sub, n) /\ InOrder(g, stream[g].ring, n)
      BY Shorter
    <3> QED
      BY <2>1, <3>1 DEF NetOk
  <2>9. trusted' \in [gen : Nat, changes : Nat] /\ trusted'.gen = g
    BY <1>1, <2>3 DEF TrustedOk, HubOk
  <2>10. ViewerOk(hub, v.app, v.sub, v.stream, n, trusted')
    <3>1. CASE \E y : SameStreams(r, y) /\ v = Resubscribe(y)
      <4>1. PICK y : SameStreams(r, y) /\ v = Resubscribe(y)
        BY <3>1
      <4>2. IsViewer(y) /\ y.sub = m.sub /\ y.stream = m.stream
        BY <2>6, <4>1 DEF SameStreams
      <4>3. v.sub.generation <= MaxGenerations
        BY <2>3 DEF becomes
      <4>4. trusted'.gen <= y.sub.generation
        BY <1>1, <2>1, <2>9, <4>2
      <4> QED
        BY <1>1, <2>1, <2>8, <2>9, <4>1, <4>2, <4>3, <4>4, Resubscribes
    <3>2. CASE /\ SameStreams(r, v) /\ v.app.scope.agent = r.app.scope.agent
               /\ v.app.details = r.app.details /\ v.app.last = r.app.last
               /\ v.app.connection \in {r.app.connection, "degraded"}
               /\ v.app.connection = "degraded" \/ v.app.agents = hub.seen
      <4>1. AppOk(hub, v.app) /\ v.sub = m.sub /\ v.stream = m.stream
        BY <2>6, <3>2 DEF SameStreams, IsViewer
      <4>2. TrustedOk(v.app, v.sub, trusted')
        BY <1>1, <2>1, <2>6, <2>9, <3>2, <4>1 DEF TrustedOk
      <4>3. Followed(hub, v.app, g, stream[g].ring, stream[g].st = "open", n, trusted')
        <5> SUFFICES ASSUME NEW x \in Rows \cup {0}, Wanted(hub, v.app, trusted', x), v.app.connection # "degraded"
                     PROVE  Shown(hub, v.app, x)
          BY DEF Followed
        <5>1. CASE x = 0
          BY <3>2, <5>1 DEF Shown
        <5>2. CASE x # 0
          <6>1. hub.last[x] > trusted'.changes /\ hub.last[x] \in Nat /\ hub.last[x] <= hub.changes /\ hub.changes \in Nat
            BY <1>1, <5>2 DEF Wanted, HubOk
          <6>2. trusted.gen = g
            <7>1. trusted.gen # g => trusted'.changes = hub.changes
              BY <2>3
            <7> QED
              BY <6>1, <7>1
          <6>3. recovers(app) /\ r.app.connection # "degraded"
            BY <1>1, <3>2, <6>2 DEF TrustedOk, recovers
          <6>4. hub.last[x] > 0
            BY <2>9, <6>1
          <6>5. app.scope.kind = "agent" => RowAgent[x] = app.scope.agent
            <7>1. Wanted(hub, app, trusted', x)
              BY <1>1, <2>6, <3>2, <4>1, ScopeKept
            <7> QED
              BY <5>2, <7>1 DEF Wanted
          <6>6. r.app.details[x] = hub.rev[x]
            BY <2>6, <5>2, <6>3, <6>4, <6>5
          <6> QED
            BY <3>2, <5>2, <6>6 DEF Shown
        <5> QED
          BY <5>1, <5>2
      <4> QED
        BY <1>1, <2>1, <2>6, <2>8, <3>2, <4>1, <4>2, <4>3 DEF ViewerOk
    <3> QED
      BY <2>7, <3>1, <3>2
  <2> QED
    BY <2>3, <2>10, Becomes
<1> QED
  BY <1>2, <1>3

LEMMA DisconnectedStep ==
    ASSUME WatchInv, net # <<>>, net' = Tail(net), handle_disconnected(Head(net).gen),
           Head(net).kind = "disconnected"
    PROVE  WatchInv'
<1> DEFINE w == IF Head(net).gen = sub.generation THEN set_degraded(Current) ELSE Current
<1>1. becomes(w, NoFailure) /\ UNCHANGED trusted
  BY DEF handle_disconnected
<1>2. /\ IsViewer(Current) /\ Current.app = app /\ Current.sub = sub /\ Current.stream = stream
      /\ TrustedOk(app, sub, trusted)
  BY CurrentIs DEF WatchInv, ViewerOk
<1>3. /\ SameStreams(Current, w) /\ w.app.scope = app.scope /\ w.app.last = app.last
      /\ w.app.connection = "degraded" \/ w.app = app
  <2>1. CASE Head(net).gen = sub.generation
    <3>1. w = set_degraded(Current)
      BY <2>1
    <3> HIDE DEF w
    <3> QED
      BY <1>2, <3>1, SetDegraded
  <2>2. CASE Head(net).gen # sub.generation
    <3>1. w = Current
      BY <2>2
    <3> HIDE DEF w
    <3> QED
      BY <1>2, <3>1 DEF SameStreams
  <2> QED
    BY <2>1, <2>2
<1> HIDE DEF w
<1>4. \A x \in Rows \cup {0} : ~Brings(x)
  BY DEF Brings, LiveOf
<1>5. ViewerOk(hub, w.app, sub, stream, Tail(net), trusted)
  <2>1. AppOk(hub, w.app)
    BY <1>3 DEF SameStreams, IsViewer
  <2>2. trusted.gen = sub.generation => w.app.connection # "connecting"
    BY <1>2, <1>3 DEF TrustedOk
  <2> QED
    BY <1>3, <1>4, <2>1, <2>2, Handled
<1> QED
  BY <1>1, <1>2, <1>3, <1>5, Becomes DEF SameStreams

LEMMA LiveStep ==
    ASSUME WatchInv, net # <<>>, net' = Tail(net), NEW f, handle_live(Head(net).gen, Head(net).ev, f),
           Head(net).kind = "live"
    PROVE  WatchInv'
<1> DEFINE g == sub.generation
           ev == Head(net).ev
           n == Tail(net)
           here(b) == ViewerOk(hub, b, sub, stream, n, trusted)
<1>1. /\ HubOk(hub) /\ AppOk(hub, app) /\ SubOk(sub) /\ g \in Generations /\ StreamsOk(hub, sub, stream)
      /\ TrustedOk(app, sub, trusted) /\ g \in Nat \ {0} /\ ScopeOk(app.scope)
  BY DEF WatchInv, ViewerOk, SubOk, AppOk
<1>2. Told(hub, ev) /\ ev \in EventRecord /\ NetOk(hub, sub, n)
  <2>1. Head(net) \in MessageRecord /\ Told(hub, ev) /\ NetOk(hub, sub, n)
    BY Shorter
  <2> QED
    BY <2>1 DEF MessageRecord
<1>3. UNCHANGED trusted
  BY DEF handle_live
<1>4. trusted.gen = g => app.connection # "connecting"
  BY <1>1 DEF TrustedOk
<1>5. CASE ~(accepts_generation(Head(net).gen) /\ should_process_live_event(ev))
  <2>1. becomes(Current, NoFailure)
    BY <1>5 DEF handle_live
  <2>2. ASSUME NEW x \in Rows \cup {0}, Wanted(hub, app, trusted, x), Brings(x) PROVE FALSE
    <3>1. Head(net).gen = g /\ (ev.type = "gap" \/ ev.row = x) /\ ev.seq > app.last
      BY <2>2 DEF Brings, LiveOf, Announces, Fresh
    <3>2. accepts_generation(Head(net).gen)
      BY <1>1, <3>1 DEF accepts_generation
    <3>3. ev.type = "gap" \/ app.scope.kind # "agent" \/ ev.agent = app.scope.agent
      <4>1. CASE x = 0
        BY <1>1, <2>2, <4>1 DEF Wanted, ScopeOk
      <4>2. CASE x # 0
        BY <1>2, <2>2, <3>1, <4>2 DEF Wanted, Told
      <4> QED
        BY <4>1, <4>2
    <3> QED
      BY <1>5, <3>1, <3>2, <3>3 DEF should_process_live_event
  <2>3. here(app)
    BY <1>1, <1>4, <2>2, Handled
  <2> QED
    BY <1>3, <2>1, <2>3, CurrentIs, Becomes
<1>6. CASE accepts_generation(Head(net).gen) /\ should_process_live_event(ev)
  <2> DEFINE seen == [Current EXCEPT !.app.last = ev.seq]
             b == [app EXCEPT !.last = ev.seq]
             v == apply_live_update(ev, f)
  <2>1. becomes(v, f)
    BY <1>6 DEF handle_live
  <2>2. /\ AppOk(hub, b) /\ b.scope = app.scope /\ b.auto = app.auto /\ b.agents = app.agents
        /\ b.connection = app.connection /\ b.details = app.details /\ b.last = ev.seq
    <3>1. ev.seq \in Nat /\ ev.seq <= hub.seq
      BY <1>2 DEF EventRecord, Told
    <3> HIDE DEF ev
    <3> QED
      BY <1>1, <3>1, WithLast
  <2>3. SameStreams(Current, seen) /\ seen.app = b
    <3>1. seen = [Current EXCEPT !.app = b]
      BY DEF Current
    <3> HIDE DEF b, seen
    <3> QED
      BY <2>2, <3>1, CurrentIs, ViewerFields
  <2> HIDE DEF b
  \* The agents read again after w.
  <2>4. ASSUME NEW w, SameStreams(Current, w), w.app.scope.agent = app.scope.agent, w.app.last = ev.seq,
               v = refresh_agents(w, f),
               \/ w.app.connection \in {"connected", "degraded"} /\
                    \/ w.app.connection = "degraded"
                    \/ \A x \in Rows : hub.last[x] > 0 /\ (app.scope.kind = "agent" => RowAgent[x] = app.scope.agent)
                         => w.app.details[x] = hub.rev[x]
               \/ w.app.connection = app.connection /\ w.app.details = app.details /\ ev.type = "agent_first_seen"
        PROVE  WatchInv'
    <3>1. IsViewer(w) /\ w.sub = sub /\ w.stream = stream
      BY <2>4, CurrentIs DEF SameStreams
    <3>2. \/ /\ SameStreams(w, v) /\ v.app.scope.agent = w.app.scope.agent
             /\ v.app.details = w.app.details /\ v.app.last = w.app.last
             /\ v.app.connection \in {w.app.connection, "degraded"}
             /\ v.app.connection = "degraded" \/ v.app.agents = hub.seen
          \/ \E y : SameStreams(w, y) /\ v = Resubscribe(y)
      <4> HIDE DEF v
      <4> QED
        BY <1>1, <2>4, <3>1, Refreshes
    <3> HIDE DEF v, seen
    <3>3. CASE \E y : SameStreams(w, y) /\ v = Resubscribe(y)
      <4>1. PICK y : SameStreams(w, y) /\ v = Resubscribe(y)
        BY <3>3
      <4>2. IsViewer(y) /\ y.sub = sub /\ y.stream = stream
        BY <3>1, <4>1 DEF SameStreams
      <4>3. v.sub.generation <= MaxGenerations
        BY <2>1 DEF becomes
      <4>4. trusted \in [gen : Nat, changes : Nat] /\ trusted.gen <= y.sub.generation
        BY <1>1, <4>2 DEF TrustedOk
      <4>5. ViewerOk(hub, v.app, v.sub, v.stream, n, trusted)
        BY <1>1, <1>2, <4>1, <4>2, <4>3, <4>4, Resubscribes
      <4> QED
        BY <1>3, <2>1, <4>5, Becomes
    <3>4. CASE /\ SameStreams(w, v) /\ v.app.scope.agent = w.app.scope.agent
               /\ v.app.details = w.app.details /\ v.app.last = w.app.last
               /\ v.app.connection \in {w.app.connection, "degraded"}
               /\ v.app.connection = "degraded" \/ v.app.agents = hub.seen
      <4>1. AppOk(hub, v.app) /\ v.sub = sub /\ v.stream = stream
        BY <3>1, <3>4 DEF SameStreams, IsViewer
      <4>2. trusted.gen = g => v.app.connection # "connecting"
        BY <1>4, <2>4, <3>4
      <4>3. ASSUME NEW x \in Rows \cup {0}, Wanted(hub, app, trusted, x), v.app.connection # "degraded",
                   ~Shown(hub, v.app, x)
            PROVE  app.connection # "degraded" /\ ~Shown(hub, app, x) /\ ~Brings(x)
        <5>1. x # 0
          BY <3>4, <4>3 DEF Shown
        <5>2. hub.last[x] > 0 /\ (app.scope.kind = "agent" => RowAgent[x] = app.scope.agent)
          <6>1. hub.last[x] > trusted.changes /\ hub.last[x] \in Nat /\ trusted.changes \in Nat
            BY <1>1, <4>3, <5>1 DEF Wanted, HubOk, TrustedOk
          <6>2. hub.last[x] > 0
            BY <6>1
          <6> QED
            BY <4>3, <5>1, <6>2 DEF Wanted
        <5>3. v.app.details[x] # hub.rev[x]
          BY <4>3, <5>1 DEF Shown
        <5>4. w.app.connection # "degraded" /\ w.app.details[x] # hub.rev[x]
          BY <3>4, <4>3, <5>3
        <5>5. w.app.connection = app.connection /\ w.app.details = app.details /\ ev.type = "agent_first_seen"
          BY <2>4, <5>1, <5>2, <5>4
        <5>6. ~Brings(x)
          <6>1. ev.row = 0 /\ ev.type # "gap"
            BY <1>2, <5>5 DEF Told
          <6> QED
            BY <5>1, <6>1 DEF Brings, Announces, LiveOf
        <5> QED
          BY <5>1, <5>4, <5>5, <5>6 DEF Shown
      <4>4. here(v.app)
        BY <2>4, <3>4, <4>1, <4>2, <4>3, Handled
      <4> QED
        BY <1>3, <2>1, <4>1, <4>4, Becomes
    <3> QED
      BY <3>2, <3>3, <3>4
  <2>5. IsViewer(seen) /\ ev.type \in EventTypes
    BY <1>2, <2>3 DEF SameStreams, Told
  <2>6. CASE ev.type = "gap"
    <3> DEFINE w == recover_from_history(seen, f)
    <3>1. v = refresh_agents(w, f)
      BY <2>6 DEF apply_live_update
    <3> HIDE DEF v, w, seen
    <3>2. /\ SameStreams(seen, w) /\ w.app.scope = seen.app.scope /\ w.app.last = seen.app.last
          /\ w.app.connection \in {"connected", "degraded"}
          /\ \/ w.app.connection = "degraded"
             \/ \A x \in Rows : hub.last[x] > 0 /\ (seen.app.scope.kind = "agent" => RowAgent[x] = seen.app.scope.agent)
                  => w.app.details[x] = hub.rev[x]
      BY <1>1, <2>5, Recovers DEF w
    <3>3. SameStreams(Current, w) /\ w.app.scope.agent = app.scope.agent /\ w.app.last = ev.seq
      BY <2>2, <2>3, <3>2 DEF SameStreams
    <3>4. w.app.connection = "degraded"
             \/ \A x \in Rows : hub.last[x] > 0 /\ (app.scope.kind = "agent" => RowAgent[x] = app.scope.agent)
                  => w.app.details[x] = hub.rev[x]
      BY <2>2, <2>3, <3>2
    <3> QED
      BY <2>4, <3>1, <3>2, <3>3, <3>4
  <2>7. CASE ev.type = "agent_first_seen"
    <3>1. v = refresh_agents(seen, f)
      BY <2>7 DEF apply_live_update
    <3> HIDE DEF v, seen
    <3> QED
      BY <2>2, <2>3, <2>4, <2>7, <3>1
  <2>8. CASE ev.type = "presentation_updated"
    <3> DEFINE sc == IF app.auto /\ app.scope = Waiting /\ ev.agent = 0 THEN Unattributed ELSE app.scope
               d == [b EXCEPT !.scope = sc]
               w == [seen EXCEPT !.app = d]
    <3>1. v = merge_live_detail(w, ev.row, f)
      <4>1. seen.app = b /\ b.scope = app.scope /\ b.auto = app.auto /\ seen = [app |-> seen.app, sub |-> seen.sub, stream |-> seen.stream]
        BY <2>2, <2>3 DEF SameStreams, IsViewer
      <4>2. v = merge_live_detail([seen EXCEPT !.app.scope = sc], ev.row, f)
        BY <2>8, <4>1 DEF apply_live_update
      <4> HIDE DEF seen, sc
      <4>3. [seen EXCEPT !.app.scope = sc] = w
        BY <4>1
      <4> QED
        BY <4>2, <4>3
    <3>2. ScopeOk(sc) /\ sc.agent = app.scope.agent
      BY <1>1 DEF ScopeOk, Scopes, Unattributed, Waiting
    <3> HIDE DEF v, seen, sc
    <3>3. /\ AppOk(hub, d) /\ d.scope = sc /\ d.agents = app.agents /\ d.connection = app.connection
          /\ d.details = app.details /\ d.last = ev.seq
      BY <2>2, <3>2, WithScope
    <3> HIDE DEF d
    <3>4. SameStreams(seen, w) /\ w.app = d
      BY <2>5, <3>3, ViewerFields
    <3> HIDE DEF w
    <3>5. ev.row \in Rows
      BY <1>2, <2>8 DEF Told, EventRecord
    <3>6. /\ SameStreams(w, v) /\ v.app.scope = w.app.scope /\ v.app.agents = w.app.agents
          /\ v.app.last = w.app.last /\ v.app.connection \in {w.app.connection, "degraded"}
          /\ v.app.connection = "degraded" \/ v.app.details[ev.row] = hub.rev[ev.row]
          /\ \A x \in Rows \ {ev.row} : v.app.details[x] = w.app.details[x]
      <4>1. IsViewer(w)
        BY <3>4 DEF SameStreams
      <4> HIDE DEF ev
      <4> QED
        BY <1>1, <3>1, <3>5, <4>1, MergesLive
    <3>7. AppOk(hub, v.app) /\ v.sub = sub /\ v.stream = stream
      BY <2>3, <3>4, <3>6, CurrentIs DEF SameStreams, IsViewer
    <3>8. trusted.gen = g => v.app.connection # "connecting"
      BY <1>4, <3>3, <3>4, <3>6
    <3>9. ASSUME NEW x \in Rows \cup {0}, Wanted(hub, app, trusted, x), v.app.connection # "degraded",
                 ~Shown(hub, v.app, x)
          PROVE  app.connection # "degraded" /\ ~Shown(hub, app, x) /\ ~Brings(x)
      <4>1. x # ev.row
        BY <3>5, <3>6, <3>9, RowsAre DEF Shown
      <4>2. ~Brings(x)
        BY <2>8, <4>1 DEF Brings, LiveOf, Announces
      <4>3. Shown(hub, v.app, x) <=> Shown(hub, app, x)
        <5>1. CASE x = 0
          BY <3>3, <3>4, <3>6, <5>1 DEF Shown
        <5>2. CASE x # 0
          BY <3>3, <3>4, <3>6, <4>1, <5>2 DEF Shown
        <5> QED
          BY <5>1, <5>2
      <4> QED
        BY <3>3, <3>4, <3>6, <3>9, <4>2, <4>3
    <3>10. here(v.app)
      BY <3>2, <3>3, <3>4, <3>6, <3>7, <3>8, <3>9, Handled
    <3> QED
      BY <1>3, <2>1, <3>7, <3>10, Becomes DEF v
  <2> QED
    BY <2>5, <2>6, <2>7, <2>8 DEF EventTypes
<1> QED
  BY <1>5, <1>6

-----------------------------------------------------------------------------
(* Keys *)

LEMMA KeyStep ==
    ASSUME WatchInv, UNCHANGED <<net, trusted>>, NEW w, NEW f, becomes(w, f),
           \/ \E y : SameStreams(Current, y) /\ w = Resubscribe(y)
           \/ \E y : SameStreams(Current, y) /\ y.app.scope = Picker /\ w = refresh_agents(Resubscribe(y), f)
           \/ /\ SameStreams(Current, w) /\ w.app.scope.agent = app.scope.agent /\ w.app.last = app.last
              /\ w.app.connection \in {app.connection, "degraded"}
              /\ \A x \in Rows \cup {0} : Shown(hub, app, x) => Shown(hub, w.app, x)
    PROVE  WatchInv'
<1>1. /\ HubOk(hub) /\ SubOk(sub) /\ StreamsOk(hub, sub, stream) /\ NetOk(hub, sub, net)
      /\ trusted \in [gen : Nat, changes : Nat] /\ trusted.gen <= sub.generation
  BY DEF WatchInv, ViewerOk, TrustedOk
<1>2. Current.sub = sub /\ Current.stream = stream
  BY CurrentIs
<1>3. w.sub.generation <= MaxGenerations
  BY DEF becomes
<1>4. ASSUME NEW y, SameStreams(Current, y), NEW v, v = Resubscribe(y), v.sub.generation <= MaxGenerations
      PROVE  IsViewer(v) /\ ViewerOk(hub, v.app, v.sub, v.stream, net, trusted) /\ v.app.scope = y.app.scope
             /\ v.sub.generation = sub.generation + 1
  <2>1. IsViewer(y) /\ y.sub = sub /\ y.stream = stream
    BY <1>2, <1>4 DEF SameStreams
  <2> QED
    BY <1>1, <1>4, <2>1, Resubscribes
<1>5. CASE \E y : SameStreams(Current, y) /\ w = Resubscribe(y)
  <2>1. PICK y : SameStreams(Current, y) /\ w = Resubscribe(y)
    BY <1>5
  <2>2. ViewerOk(hub, w.app, w.sub, w.stream, net, trusted)
    BY <1>3, <1>4, <2>1
  <2> QED
    BY <2>2, Becomes
<1>6. CASE \E y : SameStreams(Current, y) /\ y.app.scope = Picker /\ w = refresh_agents(Resubscribe(y), f)
  <2>1. PICK y : SameStreams(Current, y) /\ y.app.scope = Picker /\ w = refresh_agents(Resubscribe(y), f)
    BY <1>6
  <2> DEFINE v == Resubscribe(y)
  <2>2. IsViewer(v) /\ v.app.scope = Picker
    <3>1. IsViewer(y)
      BY <2>1 DEF SameStreams
    <3> QED
      BY <2>1, <3>1, ScopeCarried
  <2> HIDE DEF v
  <2>3. SameStreams(v, w) /\ w.app.scope.agent = v.app.scope.agent
    <3>1. Waiting # Picker
      BY DEF Waiting, Picker
    <3>2. w = refresh_agents(v, f)
      BY <2>1 DEF v
    <3> QED
      BY <1>1, <2>2, <3>1, <3>2, Refreshes
  <2>4. v.sub.generation <= MaxGenerations
    BY <1>3, <2>3 DEF SameStreams
  <2>5. ViewerOk(hub, v.app, v.sub, v.stream, net, trusted) /\ v.sub.generation = sub.generation + 1
    BY <1>4, <2>1, <2>4 DEF v
  <2>6. trusted.gen # w.sub.generation /\ trusted.gen <= w.sub.generation
    <3>1. sub.generation \in Nat /\ trusted.gen \in Nat
      BY <1>1 DEF SubOk
    <3> QED
      BY <1>1, <2>3, <2>5, <3>1 DEF SameStreams
  <2>7. ViewerOk(hub, w.app, w.sub, w.stream, net, trusted)
    <3>1. AppOk(hub, w.app) /\ w.sub = v.sub /\ w.stream = v.stream
      BY <2>3 DEF SameStreams, IsViewer
    <3>2. TrustedOk(w.app, w.sub, trusted)
      BY <1>1, <2>6 DEF TrustedOk
    <3> QED
      BY <2>3, <2>5, <2>6, <3>1, <3>2 DEF ViewerOk
  <2> QED
    BY <2>7, Becomes
<1>7. CASE /\ SameStreams(Current, w) /\ w.app.scope.agent = app.scope.agent /\ w.app.last = app.last
           /\ w.app.connection \in {app.connection, "degraded"}
           /\ \A x \in Rows \cup {0} : Shown(hub, app, x) => Shown(hub, w.app, x)
  <2>1. AppOk(hub, w.app) /\ w.sub = sub /\ w.stream = stream
    BY <1>2, <1>7 DEF SameStreams, IsViewer
  <2>2. ViewerOk(hub, w.app, sub, stream, net, trusted)
    BY <1>7, <2>1, Pressed
  <2> QED
    BY <2>1, <2>2, Becomes
<1> QED
  BY <1>5, <1>6, <1>7

LEMMA CycleStep ==
    ASSUME WatchInv, NEW d, NEW f, cycle_agents(d, f)
    PROVE  WatchInv'
<1> DEFINE a == set_agents(app)
           x == next_agent(a, d)
           b == [a EXCEPT !.scope = OneAgent(x)]
           y == [Current EXCEPT !.app = b]
<1>1. HubOk(hub) /\ AppOk(hub, app) /\ IsViewer(Current) /\ Current.app = app
  BY CurrentIs DEF WatchInv, ViewerOk
<1>2. CASE f = <<"agents", 0>>
  <2> DEFINE w == set_degraded(Current)
  <2>1. becomes(w, f) /\ UNCHANGED <<net, trusted>>
    BY <1>2 DEF cycle_agents, key
  <2>2. /\ SameStreams(Current, w) /\ w.app.connection = "degraded" /\ w.app.scope = app.scope
        /\ w.app.agents = app.agents /\ w.app.details = app.details /\ w.app.last = app.last
    BY <1>1, SetDegraded
  <2> HIDE DEF w
  <2>3. \A i \in Rows \cup {0} : Shown(hub, app, i) => Shown(hub, w.app, i)
    BY <2>2 DEF Shown
  <2> QED
    BY <2>1, <2>2, <2>3, KeyStep
<1>3. CASE f # <<"agents", 0>>
  <2>1. /\ AppOk(hub, a) /\ a.agents = hub.seen /\ a.connection = app.connection
        /\ a.details = app.details /\ a.last = app.last
        /\ a.scope = app.scope \/ hub.seen # {}
    BY <1>1, SetAgents
  <2>2. /\ a.agents = {} => key([Current EXCEPT !.app = a], f)
        /\ a.agents # {} => key(Resubscribe(y), f)
    BY <1>3 DEF cycle_agents
  <2> HIDE DEF a
  <2>3. CASE a.agents = {}
    <3> DEFINE w == [Current EXCEPT !.app = a]
    <3>1. becomes(w, f) /\ UNCHANGED <<net, trusted>>
      BY <2>2, <2>3 DEF key
    <3>2. SameStreams(Current, w) /\ w.app = a
      BY <1>1, <2>1, ViewerFields
    <3> HIDE DEF w
    <3>3. \A i \in Rows \cup {0} : Shown(hub, app, i) => Shown(hub, w.app, i)
      BY <2>1, <3>2 DEF Shown
    <3>4. w.app.scope.agent = app.scope.agent /\ w.app.last = app.last /\ w.app.connection = app.connection
      BY <2>1, <2>3, <3>2
    <3> QED
      BY <3>1, <3>2, <3>3, <3>4, KeyStep
  <2>4. CASE a.agents # {}
    <3>1. x \in WatchAgents /\ 0 \notin WatchAgents
      <4>1. a.agents \in SUBSET WatchAgents
        BY <2>1 DEF AppOk
      <4> QED
        BY <2>4, <4>1, NextAgent, WatchAssumption
    <3> HIDE DEF x
    <3>2. ScopeOk(OneAgent(x))
      BY <3>1 DEF ScopeOk, Scopes, OneAgent
    <3>3. AppOk(hub, b)
      BY <2>1, <3>2, WithScope
    <3> HIDE DEF b
    <3>4. SameStreams(Current, y)
      BY <1>1, <3>3, ViewerFields
    <3> HIDE DEF y
    <3> DEFINE w == Resubscribe(y)
    <3>5. becomes(w, f) /\ UNCHANGED <<net, trusted>>
      BY <2>2, <2>4 DEF key
    <3>6. w = Resubscribe(y)
      OBVIOUS
    <3> HIDE DEF w
    <3> QED
      BY <3>4, <3>5, <3>6, KeyStep
  <2> QED
    BY <2>3, <2>4
<1> QED
  BY <1>2, <1>3

\* The current state with another scope.
LEMMA Scoped ==
    ASSUME WatchInv, NEW sc, ScopeOk(sc)
    PROVE  SameStreams(Current, [Current EXCEPT !.app.scope = sc])
           /\ [Current EXCEPT !.app.scope = sc].app.scope = sc
<1> DEFINE b == [app EXCEPT !.scope = sc]
           y == [Current EXCEPT !.app.scope = sc]
<1>1. HubOk(hub) /\ AppOk(hub, app) /\ IsViewer(Current) /\ Current.app = app
  BY CurrentIs DEF WatchInv, ViewerOk
<1>2. AppOk(hub, b) /\ b.scope = sc
  BY <1>1, WithScope
<1>3. y = [Current EXCEPT !.app = b]
  BY DEF Current
<1> HIDE DEF b, y
<1>4. SameStreams(Current, y) /\ y.app = b
  BY <1>1, <1>2, <1>3, ViewerFields
<1> QED
  BY <1>2, <1>4 DEF y

LEMMA PickerStep ==
    ASSUME WatchInv, NEW f, open_picker(f)
    PROVE  WatchInv'
<1> DEFINE y == [Current EXCEPT !.app.scope = Picker]
           w == refresh_agents(Resubscribe(y), f)
<1>1. becomes(w, f) /\ UNCHANGED <<net, trusted>>
  BY DEF open_picker, key
<1>2. ScopeOk(Picker)
  BY DEF Picker, ScopeOk, Scopes
<1>3. SameStreams(Current, y) /\ y.app.scope = Picker
  BY <1>2, Scoped
<1> HIDE DEF y
<1>4. w = refresh_agents(Resubscribe(y), f)
  OBVIOUS
<1> HIDE DEF w
<1> QED
  BY <1>1, <1>3, <1>4, KeyStep

LEMMA ChooseStep ==
    ASSUME WatchInv, NEW s \in {All} \cup {OneAgent(a) : a \in app.agents}, choose_picker(s)
    PROVE  WatchInv'
<1> DEFINE y == [Current EXCEPT !.app.scope = s]
           w == Resubscribe(y)
<1>1. becomes(w, NoFailure) /\ UNCHANGED <<net, trusted>>
  BY DEF choose_picker, key
<1>2. ScopeOk(s)
  <2>1. app.agents \subseteq WatchAgents /\ 0 \notin WatchAgents
    BY WatchAssumption DEF WatchInv, ViewerOk, AppOk
  <2> QED
    BY <2>1 DEF All, OneAgent, ScopeOk, Scopes
<1>3. SameStreams(Current, y)
  BY <1>2, Scoped
<1> HIDE DEF y
<1>4. w = Resubscribe(y)
  OBVIOUS
<1> HIDE DEF w
<1> QED
  BY <1>1, <1>3, <1>4, KeyStep

-----------------------------------------------------------------------------
(* The viewer *)

LEMMA HandleStep ==
    ASSUME WatchInv, handle_network_event
    PROVE  WatchInv'
<1>1. PICK f : /\ net # <<>> /\ net' = Tail(net)
               /\ CASE Head(net).kind = "connected" -> handle_connected(Head(net).gen, f)
                    [] Head(net).kind = "disconnected" -> f = NoFailure /\ handle_disconnected(Head(net).gen)
                    [] Head(net).kind = "live" -> handle_live(Head(net).gen, Head(net).ev, f)
  BY DEF handle_network_event
<1>2. Head(net).kind \in {"connected", "disconnected", "live"}
  <2>1. Head(net) \in MessageRecord
    BY <1>1, Shorter
  <2> QED
    BY <2>1 DEF MessageRecord
<1>3. CASE Head(net).kind = "connected"
  BY <1>1, <1>3, ConnectedStep
<1>4. CASE Head(net).kind = "disconnected"
  <2>1. handle_disconnected(Head(net).gen)
    BY <1>1, <1>4
  <2> QED
    BY <1>1, <1>4, <2>1, DisconnectedStep
<1>5. CASE Head(net).kind = "live"
  <2>1. handle_live(Head(net).gen, Head(net).ev, f)
    BY <1>1, <1>5
  <2> QED
    BY <1>1, <1>5, <2>1, LiveStep
<1> QED
  BY <1>2, <1>3, <1>4, <1>5

LEMMA ServerStep ==
    ASSUME WatchInv, \/ \E a \in WatchAgents : agent_first_seen(a)
                     \/ \E i \in Rows : row_changes(i)
    PROVE  WatchInv'
<1>1. CASE \E a \in WatchAgents : agent_first_seen(a)
  <2>1. PICK a \in WatchAgents : emit_with("agent_first_seen", a, 0)
    BY <1>1 DEF agent_first_seen
  <2> QED
    BY <2>1, Emitted
<1>2. CASE \E i \in Rows : row_changes(i)
  <2>1. PICK i \in Rows : emit_with("presentation_updated", RowAgent[i], i)
    BY <1>2 DEF row_changes
  <2> QED
    BY <2>1, Emitted
<1> QED
  BY <1>1, <1>2

LEMMA WatchInitially ==
    ASSUME WatchInit
    PROVE  WatchInv
<1>1. PICK seen \in SUBSET WatchAgents, asked \in Asked :
      LET scope == CASE asked = "auto" -> automatic_scope_for_agents(seen)
                     [] asked = "all" -> All
                     [] asked = "agent" -> OneAgent(CHOOSE a \in WatchAgents : TRUE)
      IN  /\ hub = [seq |-> 0, changes |-> 0, seen |-> seen, rev |-> [i \in Rows |-> 0], last |-> [i \in Rows |-> 0]]
          /\ app = [scope |-> scope, auto |-> asked = "auto", agents |-> seen,
                    connection |-> "connecting", details |-> [i \in Rows |-> 0],
                    cards |-> [i \in Rows |-> NoCard], last |-> 0]
          /\ sub = [generation |-> 1, previous |-> 0, draining |-> 0]
          /\ stream = [g \in Generations |->
                        [st |-> IF g = 1 THEN "connecting" ELSE "none",
                         filter |-> IF g = 1 THEN scope.agent ELSE 0, ring |-> <<>>]]
          /\ net = <<>>
          /\ spent = [refused |-> 0, cut |-> 0]
          /\ trusted = [gen |-> 0, changes |-> 0]
  BY DEF WatchInit
<1> DEFINE scope == CASE asked = "auto" -> automatic_scope_for_agents(seen)
                      [] asked = "all" -> All
                      [] asked = "agent" -> OneAgent(CHOOSE a \in WatchAgents : TRUE)
<1>2. ScopeOk(scope)
  <2>1. CASE asked = "auto"
    <3>1. CASE seen = {}
      <4>1. scope = Waiting
        BY <2>1, <3>1, FS_EmptySet DEF automatic_scope_for_agents
      <4> HIDE DEF scope
      <4> QED
        BY <4>1 DEF Waiting, ScopeOk, Scopes
    <3>2. CASE seen # {} /\ Cardinality(seen) = 1
      <4>1. (CHOOSE x \in seen : TRUE) \in WatchAgents /\ 0 \notin WatchAgents
        BY <3>2, WatchAssumption
      <4>2. ScopeOk(OneAgent(CHOOSE x \in seen : TRUE))
        BY <4>1 DEF OneAgent, ScopeOk, Scopes
      <4> QED
        BY <2>1, <3>2, <4>2 DEF automatic_scope_for_agents
    <3>3. CASE seen # {} /\ Cardinality(seen) # 1
      <4>1. scope = Picker
        BY <2>1, <3>3 DEF automatic_scope_for_agents
      <4> HIDE DEF scope
      <4> QED
        BY <4>1 DEF Picker, ScopeOk, Scopes
    <3> QED
      BY <3>1, <3>2, <3>3
  <2>2. CASE asked = "all"
    <3>1. scope = All
      BY <2>2
    <3> HIDE DEF scope
    <3> QED
      BY <3>1 DEF All, ScopeOk, Scopes
  <2>3. CASE asked = "agent"
    <3>1. scope = OneAgent(CHOOSE a \in WatchAgents : TRUE)
      BY <2>3
    <3>2. (CHOOSE a \in WatchAgents : TRUE) \in WatchAgents /\ 0 \notin WatchAgents
      BY <2>3, WatchAssumption
    <3> HIDE DEF scope
    <3> QED
      BY <3>1, <3>2 DEF OneAgent, ScopeOk, Scopes
  <2> QED
    BY <2>1, <2>2, <2>3, WatchAssumption
<1>3. /\ hub = [seq |-> 0, changes |-> 0, seen |-> seen, rev |-> [i \in Rows |-> 0], last |-> [i \in Rows |-> 0]]
      /\ app = [scope |-> scope, auto |-> asked = "auto", agents |-> seen,
                connection |-> "connecting", details |-> [i \in Rows |-> 0],
                cards |-> [i \in Rows |-> NoCard], last |-> 0]
      /\ sub = [generation |-> 1, previous |-> 0, draining |-> 0]
      /\ stream = [g \in Generations |->
                    [st |-> IF g = 1 THEN "connecting" ELSE "none",
                     filter |-> IF g = 1 THEN scope.agent ELSE 0, ring |-> <<>>]]
      /\ net = <<>>
      /\ trusted = [gen |-> 0, changes |-> 0]
  BY <1>1
<1> HIDE DEF scope
<1>4. HubOk(hub)
  <2>1. {i \in Rows : hub.rev[i] > 0} = {}
    BY <1>3
  <2>2. IsFiniteSet({i \in Rows : hub.rev[i] > 0})
    BY <2>1, FS_EmptySet
  <2>3. /\ hub = [seq |-> hub.seq, changes |-> hub.changes, seen |-> hub.seen, rev |-> hub.rev, last |-> hub.last]
        /\ hub.seq = 0 /\ hub.changes = 0 /\ hub.seen \in SUBSET WatchAgents
        /\ hub.rev \in [Rows -> Nat] /\ hub.last \in [Rows -> Nat]
        /\ \A i \in Rows : hub.last[i] = 0
    BY <1>3
  <2> QED
    BY <2>2, <2>3 DEF HubOk
<1>5. AppOk(hub, app) /\ app.scope = scope
  BY <1>2, <1>3 DEF AppOk, Connections
<1>6. SubOk(sub) /\ sub.generation = 1 /\ sub.previous = 0 /\ 1 \in Generations
  BY <1>3, RowsAre DEF SubOk
<1>7. ASSUME NEW g \in Generations
      PROVE  stream[g] \in StreamRecord /\ stream[g].ring = <<>> /\ (stream[g].st \in ListeningStates => g = 1)
             /\ (g = 1 => stream[g].filter = scope.agent)
  <2>1. stream[g] = [st |-> IF g = 1 THEN "connecting" ELSE "none",
                     filter |-> IF g = 1 THEN scope.agent ELSE 0, ring |-> <<>>]
    BY <1>3
  <2>2. scope.agent \in WatchAgents \cup {0}
    BY <1>2 DEF ScopeOk, Scopes
  <2> QED
    BY <2>1, <2>2 DEF StreamRecord, ListeningStates
<1>8. RingOk(hub, <<>>)
  BY NothingIn DEF RingOk
<1>9. StreamsOk(hub, sub, stream)
  <2>1. stream \in [Generations -> StreamRecord]
    BY <1>3, <1>7
  <2> QED
    BY <1>6, <1>7, <1>8, <2>1 DEF StreamsOk
<1>10. NetOk(hub, sub, net) /\ InOrder(1, <<>>, net)
  BY <1>3, NothingIn DEF NetOk, InOrder
<1>11. TrustedOk(app, sub, trusted) /\ trusted.gen # 1
  BY <1>3, <1>6 DEF TrustedOk
<1> QED
  BY <1>4, <1>5, <1>6, <1>7, <1>9, <1>10, <1>11 DEF WatchInv, ViewerOk

LEMMA WatchStep ==
    ASSUME WatchInv, [WatchNext]_watchVars
    PROVE  WatchInv'
<1>1. CASE \/ \E a \in WatchAgents : agent_first_seen(a)
           \/ \E i \in Rows : row_changes(i)
  BY <1>1, ServerStep
<1>2. CASE \E g \in Generations :
             subscribed(g) \/ connected(g) \/ forward(g) \/ disconnected(g) \/ reconnect(g)
  BY <1>2, TaskStep, ForwardStep
<1>3. CASE handle_network_event
  BY <1>3, HandleStep
<1>4. CASE \E d \in {-1, 1}, f \in {NoFailure, <<"agents", 0>>} : cycle_agents(d, f)
  BY <1>4, CycleStep
<1>5. CASE \E f \in {NoFailure, <<"agents", 0>>, <<"status", 0>>} : open_picker(f)
  BY <1>5, PickerStep
<1>6. CASE \E s \in {All} \cup {OneAgent(a) : a \in app.agents} : choose_picker(s)
  BY <1>6, ChooseStep
<1>7. CASE UNCHANGED watchVars
  BY <1>7 DEF watchVars, WatchInv
<1> QED
  BY <1>1, <1>2, <1>3, <1>4, <1>5, <1>6, <1>7 DEF WatchNext

\* What a viewer that is at rest lacks would be on its way.
LEMMA RestIsCurrent ==
    ASSUME WatchInv
    PROVE  WatchCurrent
<1> DEFINE g == sub.generation
<1>1. ASSUME WatchAtRest, NEW x \in Rows \cup {0}, Wanted(hub, app, trusted, x)
      PROVE  Shown(hub, app, x)
  <2>1. Followed(hub, app, g, stream[g].ring, stream[g].st = "open", net, trusted)
    BY <1>1 DEF WatchInv, ViewerOk, WatchAtRest
  <2>2. Elements(net) = {} /\ Elements(stream[g].ring) = {}
    BY <1>1, NothingIn DEF WatchAtRest
  <2>3. ~OnItsWay(app, g, stream[g].ring, net, x)
    BY <2>2 DEF OnItsWay
  <2> QED
    BY <1>1, <2>1, <2>3 DEF Followed, WatchAtRest
<1>2. DetailsCurrent
  BY <1>1, RowsAre DEF DetailsCurrent, Wanted, Shown
<1>3. AgentsCurrent
  BY <1>1 DEF AgentsCurrent, Wanted, Shown, stream_filter
<1> QED
  BY <1>2, <1>3 DEF WatchCurrent

\* The streams of the terminal viewer, its channel and its state hold together:
\* sequence numbers rise along each stream, only the newest two streams may be
\* open, and what the viewer lacks since its stream connected is on its way, or
\* the viewer says that it is degraded (src/local/watch/mod.rs, run_watch).
THEOREM WatchInvariant == WatchSpec => []WatchInv
<1>1. WatchInit => WatchInv
  BY WatchInitially
<1>2. WatchInv /\ [WatchNext]_watchVars => WatchInv'
  BY WatchStep
<1> QED
  BY <1>1, <1>2, PTL DEF WatchSpec

\* A terminal viewer that says it is connected and has handled everything holds
\* the latest revision of every invocation in its scope that changed since its
\* stream connected, and every agent seen (handle_network_event).
THEOREM WatchIsCurrent == WatchSpec => []WatchCurrent
<1>1. WatchInv => WatchCurrent
  BY RestIsCurrent
<1> QED
  BY <1>1, WatchInvariant, PTL
=============================================================================
