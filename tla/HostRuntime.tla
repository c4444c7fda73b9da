----------------------------- MODULE HostRuntime -----------------------------
(***************************************************************************)
(* The Local host runtime around the session manager: start and shutdown   *)
(* of its parts in order, tool calls of several conversations running      *)
(* through recorder, admission, service and context provider, the agent    *)
(* and context tables they share with retention and with the clear command *)
(* of another process, and the notifier that copies focused links.  The    *)
(* queue between a call and the store is HistoryPipeline's; here a         *)
(* completion is stored at once.                                           *)
(***************************************************************************)
EXTENDS Naturals, FiniteSets

CONSTANTS
    Calls,      \* tool calls in flight at the same time
    Convs,      \* conversations (provider session keys)
    Dirs,       \* declared workdirs
    Ids,        \* four-character agent ids, a set of naturals above 0
    MaxCalls,   \* bound: tool calls made
    MaxEvents   \* bound: failing operations, restarts, retention passes, clears
                \* and edits of the config file, together
\* 0 stands for no agent, no conversation, no workdir and no row.
ASSUME HostAssumption ==
    /\ Ids \subseteq Nat \ {0} /\ Cardinality(Ids) >= Cardinality(Convs)
    /\ 0 \notin Convs /\ 0 \notin Dirs /\ IsFiniteSet(Calls)

VARIABLES
    phase,    \* step of start_local_host_runtime or of shutdown
    up,       \* parts that are running
    runs,     \* runtime id: how many hosts started
    admission_closed,   \* ServiceAdmission::closed
    call,     \* the tool handlers
    agents,   \* agents: id 0 when the conversation has no row
    context_session,  \* mcp_context_sessions: none, due, injected
    checked,  \* mcp_context_workdirs and mcp_context_workdir_skills
    rows,     \* invocations
    made,     \* tool calls made so far; numbers the rows
    summary,  \* agent_workdirs.retained_invocation_count
    alias,    \* Liveboard preferences: the agents that have an alias
    link,     \* LiveboardLinkNotifier
    enabled,  \* config.context.enabled in the config file
    events,
    trouble,  \* ghost: an operation failed
    given,    \* ghost: contexts a conversation was sent
    cleared   \* ghost: how often the user had a conversation forgotten

hostVars == <<phase, up, runs, admission_closed, call, agents, context_session, checked, rows, made,
              summary, alias, link, enabled, events, trouble,
              given, cleared>>
tables == <<agents, context_session, checked, rows, made, summary>>
parts == <<phase, up, runs, admission_closed>>
ghosts == <<given, cleared>>

ToolKinds == {"exec", "stdin", "alias"}   \* exec: exec_command and apply_patch
Checks == {"agents", "skills"}
IdleCall == [st |-> "idle", kind |-> "exec", conv |-> 0, dir |-> 0, row |-> 0, global |-> FALSE,
             repo |-> {}, ok |-> FALSE, sections |-> {}]
budget == <<events, trouble>>
happens == events < MaxEvents /\ events' = events + 1
errs == happens /\ trouble' = TRUE

-----------------------------------------------------------------------------
(* Start.  A step that fails takes down what the host had started.         *)

StartSteps == [history |-> "mcp", mcp |-> "bearer", bearer |-> "observability",
               observability |-> "liveboard", liveboard |-> "serving"]
Part(p) == IF p = "bearer" THEN {} ELSE {p}

start_local_host_runtime ==
    /\ phase \in DOMAIN StartSteps
    /\ up' = up \cup Part(phase) \cup (IF phase = "liveboard" THEN {"notifier"} ELSE {})
    /\ link' = IF phase = "liveboard" THEN [link EXCEPT !.accepting = TRUE] ELSE link
    /\ phase' = StartSteps[phase]
    /\ UNCHANGED <<runs, admission_closed, call, tables, alias, enabled, budget, ghosts>>

\* Liveboard and the notifier are optional; a failure of the MCP listener
\* only drops the history handle, which ends its writer.
cleanup_failed_runtime_start ==
    /\ errs /\ phase \in DOMAIN StartSteps
    /\ IF phase = "liveboard" THEN phase' = "serving" /\ UNCHANGED up
       ELSE phase' = "failed" /\ up' = {}
    /\ UNCHANGED <<runs, admission_closed, call, tables, alias, link, enabled, ghosts>>

\* The lifecycle starts the next host; the store keeps what is durable and
\* settles what the last runtime left pending.
next_host ==
    /\ happens /\ phase \in {"down", "failed"}
    /\ runs' = runs + 1 /\ phase' = "history" /\ up' = {} /\ admission_closed' = FALSE
    /\ rows' = {[r EXCEPT !.done = TRUE] : r \in rows}
    /\ call' = [c \in Calls |-> IdleCall]
    /\ link' = [link EXCEPT !.accepting = FALSE, !.slot = 0, !.worker = 0, !.last = 0, !.copied = 0]
    /\ UNCHANGED <<agents, context_session, checked, made, summary, alias, enabled, trouble, ghosts>>

-----------------------------------------------------------------------------
(* The store's foreground transactions.                                    *)

known(v) == agents[v].id # 0
free == Ids \ {agents[v].id : v \in Convs}
rowsOf(R, id) == {r \in R : r.agent = id}
count(R, id, d) == Cardinality({r \in rowsOf(R, id) : r.dir = d})

\* Mutant: an id is taken without the unique constraint.
ResolveAnyId(v) == IF known(v) THEN {agents[v].id} ELSE Ids

\* resolve_agent: the ids the conversation may get.
resolve_agent(v) == IF known(v) THEN {agents[v].id} ELSE free

\* The observer runs when the runtime sees the agent for the first time.
enqueue(id, first) ==
    link' = IF first /\ link.accepting THEN [link EXCEPT !.slot = id, !.last = id] ELSE link

\* identify_agent and the agent part of begin_with_metadata.
identified(v, id) ==
    /\ agents' = [agents EXCEPT ![v] = [id |-> id, rt |-> runs]]
    /\ context_session' = [context_session EXCEPT ![v] = IF @ = "none" THEN "due" ELSE @]
    /\ enqueue(id, agents[v].rt # runs)

-----------------------------------------------------------------------------
(* A tool call.                                                            *)

\* A refused token, or a listener that is going down, leaves no trace.
begin(c, kind, v, d) ==
    LET dir == IF kind = "exec" THEN d ELSE 0
        x == [IdleCall EXCEPT !.st = "begun", !.kind = kind, !.conv = v, !.dir = dir]
    IN  /\ call[c].st = "idle" /\ phase = "serving" /\ kind # "alias" /\ made < MaxCalls
        /\ \E id \in resolve_agent(v) :
              /\ identified(v, id)
              /\ rows' = rows \cup {[row |-> made + 1, conv |-> v, agent |-> id, dir |-> dir,
                                     rt |-> runs, done |-> FALSE]}
              /\ summary' = IF dir = 0 THEN summary
                            ELSE [summary EXCEPT ![<<id, dir>>] = @ + 1]
        /\ made' = made + 1
        /\ call' = [call EXCEPT ![c] = [x EXCEPT !.row = made + 1,
              !.global = context_session[v] # "injected",
              !.repo = IF dir = 0 THEN {} ELSE {k \in Checks : <<v, dir, k>> \notin checked}]]
        /\ UNCHANGED <<parts, checked, alias, enabled, budget, ghosts>>

\* Recording fails open: the call goes on without an envelope.
begin_failed_open(c, kind, v, d) ==
    /\ errs /\ call[c].st = "idle" /\ phase = "serving" /\ kind # "alias" /\ made < MaxCalls
    /\ made' = made + 1
    /\ call' = [call EXCEPT ![c] = [IdleCall EXCEPT !.st = "begun", !.kind = kind, !.conv = v,
                                       !.dir = IF kind = "exec" THEN d ELSE 0]]
    /\ UNCHANGED <<parts, agents, context_session, checked, rows, summary, alias, link, enabled, ghosts>>

admit(c) ==
    /\ call[c].st = "begun"
    /\ call' = [call EXCEPT ![c].st = IF admission_closed THEN "replying" ELSE "admitted"]
    /\ UNCHANGED <<parts, tables, alias, link, enabled, budget, ghosts>>

\* The session manager or the patch runs; the error may be its own.
execute_with_context(c, ok) ==
    /\ call[c].st = "admitted"
    /\ call' = [call EXCEPT ![c] = [@ EXCEPT !.st = "replying", !.ok = ok]]
    /\ UNCHANGED <<parts, tables, alias, link, enabled, budget, ghosts>>

complete_invocation(c) ==
    /\ call[c].st = "replying"
    /\ rows' = {IF r.row = call[c].row THEN [r EXCEPT !.done = TRUE] ELSE r : r \in rows}
    /\ call' = [call EXCEPT ![c].st = "global"]
    /\ UNCHANGED <<parts, agents, context_session, checked, made, summary, alias, link, enabled,
                   budget, ghosts>>

\* set_alias: an agent row without an invocation, then the preferences.
set_alias(c, v) ==
    /\ call[c].st = "idle" /\ phase = "serving" /\ made < MaxCalls
    /\ made' = made + 1
    /\ \E id \in resolve_agent(v) :
          /\ identified(v, id)
          /\ alias' = alias \cup {id}
    /\ call' = [call EXCEPT ![c] = [IdleCall EXCEPT !.st = "global", !.kind = "alias", !.conv = v,
                                       !.global = context_session[v] # "injected", !.ok = TRUE]]
    /\ UNCHANGED <<parts, checked, rows, summary, enabled, budget, given, cleared>>

\* Mutant: the flag read when the call began decides.
ClaimByFlag(c) ==
    LET x == call[c] IN
    /\ x.st = "global"
    /\ call' = [call EXCEPT ![c] = [x EXCEPT !.st = "agents",
                   !.sections = IF x.global THEN {"global"} ELSE {}]]
    /\ context_session' = [context_session EXCEPT ![x.conv] = IF x.global /\ @ = "due" THEN "injected" ELSE @]
    /\ UNCHANGED <<parts, agents, checked, rows, made, summary, alias, link, enabled, budget,
                   ghosts>>

\* appended_context, first claim: one row update decides who sends it.
claim_global_context_injection(c) ==
    LET x == call[c] claimed == x.global /\ context_session[x.conv] = "due" IN
    /\ x.st = "global"
    /\ call' = [call EXCEPT ![c] = [x EXCEPT !.st = "agents",
                   !.sections = IF claimed THEN {"global"} ELSE {}]]
    /\ context_session' = [context_session EXCEPT ![x.conv] = IF claimed THEN "injected" ELSE @]
    /\ UNCHANGED <<parts, agents, checked, rows, made, summary, alias, link, enabled, budget,
                   ghosts>>

\* Then the two claims for the workdir, only for a call that succeeded.
claim_repo_check(c, k) ==
    LET x == call[c]
        claimed == enabled /\ x.ok /\ k \in x.repo /\ <<x.conv, x.dir, k>> \notin checked
    IN  /\ x.st = k
        /\ checked' = IF claimed THEN checked \cup {<<x.conv, x.dir, k>>} ELSE checked
        /\ call' = [call EXCEPT ![c] = [x EXCEPT
              !.st = IF k = "agents" THEN "skills" ELSE "send",
              !.sections = IF claimed THEN @ \cup {k} ELSE @]]
        /\ UNCHANGED <<parts, agents, context_session, rows, made, summary, alias, link, enabled,
                       budget, ghosts>>

\* A claim that errors drops the sections claimed before it.
context_failed(c) ==
    /\ errs /\ call[c].st \in {"global"} \cup Checks
    /\ call' = [call EXCEPT ![c] = [@ EXCEPT !.st = "send", !.sections = {}]]
    /\ UNCHANGED <<parts, tables, alias, link, enabled, ghosts>>

sends(x, v, s) == /\ v = x.conv
                  /\ \/ s = <<0, "global">> /\ "global" \in x.sections
                     \/ s[1] = x.dir /\ s[2] \in x.sections \cap Checks
reply(c) ==
    /\ call[c].st = "send"
    /\ given' = [v \in Convs |-> [s \in DOMAIN given[v] |->
                   IF sends(call[c], v, s) THEN given[v][s] + 1 ELSE given[v][s]]]
    /\ call' = [call EXCEPT ![c] = IdleCall]
    /\ UNCHANGED <<parts, tables, alias, link, enabled, budget, cleared>>

toggle_context ==
    /\ happens /\ enabled' = ~enabled
    /\ UNCHANGED <<trouble, parts, call, tables, alias, link, ghosts>>

-----------------------------------------------------------------------------
(* Retention and the clear command.                                        *)

\* recompute_summaries also prunes the agents that have no row left.
recompute_summaries(R) ==
    /\ summary' = [x \in DOMAIN summary |-> count(R, x[1], x[2])]
    /\ agents' = [v \in Convs |-> IF rowsOf(R, agents[v].id) = {} THEN [id |-> 0, rt |-> 0]
                                  ELSE agents[v]]

delete_expired(D) ==
    /\ D # {} /\ rows' = rows \ D /\ recompute_summaries(rows \ D)

run_retention ==
    /\ happens /\ "history" \in up
    /\ \E n \in {r.row : r \in rows} :   \* the cutoff; completion follows the start order
          delete_expired({r \in rows : r.done /\ r.row <= n})
    /\ UNCHANGED <<parts, call, context_session, checked, made, alias, link, enabled, trouble, ghosts>>

\* clear_local_agent_history, refused while a row of the agent is pending.
clear_local_agent_history(v) ==
    /\ happens /\ known(v)
    /\ \A r \in rowsOf(rows, agents[v].id) : r.done
    /\ rows' = rows \ rowsOf(rows, agents[v].id)
    /\ agents' = [agents EXCEPT ![v] = [id |-> 0, rt |-> 0]]
    /\ summary' = [x \in DOMAIN summary |-> IF x[1] = agents[v].id THEN 0 ELSE summary[x]]
    /\ context_session' = [context_session EXCEPT ![v] = "none"]
    /\ checked' = {x \in checked : x[1] # v}
    /\ cleared' = [cleared EXCEPT ![v] = @ + 1]
    /\ UNCHANGED <<parts, call, made, alias, link, enabled, trouble, given>>

-----------------------------------------------------------------------------
(* The notifier's worker.                                                  *)

take_link ==
    /\ link.accepting /\ link.worker = 0 /\ link.slot # 0
    /\ link' = [link EXCEPT !.worker = link.slot, !.slot = 0]
    /\ UNCHANGED <<parts, call, tables, alias, enabled, budget, ghosts>>

\* The helper, then pbcopy; a failing copy is only logged.
copy_link(ok) ==
    /\ link.worker # 0
    /\ IF ok THEN UNCHANGED budget ELSE errs
    /\ link' = [link EXCEPT !.worker = 0, !.copied = IF ok THEN link.worker ELSE @,
                            !.last = IF ok THEN @ ELSE 0]
    /\ UNCHANGED <<parts, call, tables, alias, enabled, ghosts>>

-----------------------------------------------------------------------------
(* Shutdown, each step tried whatever the one before it reported.          *)

StopSteps == [sessions |-> "notifier", notifier |-> "mcp_stop", mcp_stop |-> "history_stop",
              history_stop |-> "observability_stop", observability_stop |-> "liveboard_stop",
              liveboard_stop |-> "down"]
Stopped(p) == CASE p = "notifier" -> {"notifier"}           [] p = "mcp_stop" -> {"mcp"}
                [] p = "history_stop" -> {"history"}
                [] p = "observability_stop" -> {"observability"}
                [] p = "liveboard_stop" -> {"liveboard"}    [] OTHER -> {}

close_admission ==
    /\ phase = "serving" /\ phase' = "sessions" /\ admission_closed' = TRUE
    /\ link' = [link EXCEPT !.accepting = FALSE, !.slot = 0]
    /\ UNCHANGED <<up, runs, call, tables, alias, enabled, budget, ghosts>>

\* Mutant: the listener is told to stop and not waited for.
ReadyAlways(p) == TRUE

\* The listener's graceful shutdown waits for the requests it has accepted.
ready(p) == p = "mcp_stop" => \A c \in Calls : call[c].st = "idle"

\* Mutant: a step that reports an error ends the shutdown.
ShutdownGivesUp ==
    /\ phase \in DOMAIN StopSteps /\ ready(phase)
    /\ \/ phase' = StopSteps[phase] /\ up' = up \ Stopped(phase) /\ UNCHANGED budget
       \/ errs /\ phase' = "failed" /\ UNCHANGED up
    /\ UNCHANGED <<runs, admission_closed, call, tables, alias, link, enabled, ghosts>>

shutdown ==
    /\ phase \in DOMAIN StopSteps /\ ready(phase)
    /\ phase' = StopSteps[phase] /\ up' = up \ Stopped(phase)
    /\ UNCHANGED budget \/ errs
    /\ UNCHANGED <<runs, admission_closed, call, tables, alias, link, enabled, ghosts>>

-----------------------------------------------------------------------------
HostInit ==
    /\ phase = "history" /\ up = {} /\ runs = 1 /\ admission_closed = FALSE
    /\ call = [c \in Calls |-> IdleCall]
    /\ agents = [v \in Convs |-> [id |-> 0, rt |-> 0]]
    /\ context_session = [v \in Convs |-> "none"] /\ checked = {}
    /\ rows = {} /\ made = 0 /\ summary = [x \in Ids \X Dirs |-> 0]
    /\ alias = {} /\ enabled = TRUE /\ events = 0 /\ trouble = FALSE
    /\ link = [accepting |-> FALSE, slot |-> 0, worker |-> 0, last |-> 0, copied |-> 0]
    /\ given = [v \in Convs |-> [s \in {<<0, "global">>} \cup (Dirs \X Checks) |-> 0]]
    /\ cleared = [v \in Convs |-> 0]

callStep(c) == \/ admit(c) \/ (\E ok \in BOOLEAN : execute_with_context(c, ok))
               \/ complete_invocation(c) \/ claim_global_context_injection(c)
               \/ (\E k \in Checks : claim_repo_check(c, k)) \/ reply(c)

HostNext ==
    \/ start_local_host_runtime \/ cleanup_failed_runtime_start \/ next_host
    \/ \E c \in Calls : \/ callStep(c) \/ context_failed(c)
                        \/ \E v \in Convs : \/ set_alias(c, v)
                              \/ \E kind \in ToolKinds, d \in Dirs : \/ begin(c, kind, v, d)
                                                                 \/ begin_failed_open(c, kind, v, d)
    \/ toggle_context \/ run_retention \/ (\E v \in Convs : clear_local_agent_history(v))
    \/ take_link \/ (\E ok \in BOOLEAN : copy_link(ok))
    \/ close_admission \/ shutdown

\* A call in flight goes on and the shutdown's steps are taken.
HostFairness == WF_hostVars(shutdown) /\ \A c \in Calls : WF_hostVars(callStep(c))
HostSpec == HostInit /\ [][HostNext]_hostVars

-----------------------------------------------------------------------------
\* Each conversation is sent the global context at most once, and each
\* workdir check at most once, however many of its calls run at the same
\* time, unless the user had the conversation forgotten in between.
ContextOnce == \A v \in Convs : \A s \in DOMAIN given[v] :
                  given[v][s] <= 1 + cleared[v]

\* A claimed context was sent or is about to be, unless an operation failed:
\* nothing else takes it away between the claim and the reply.
ClaimedIsSent ==
    ~trouble => \A v \in Convs : context_session[v] = "injected" =>
        \/ given[v][<<0, "global">>] > 0
        \/ \E c \in Calls : call[c].conv = v /\ "global" \in call[c].sections

\* Context reaches each conversation exactly once.
ContextExactlyOnce == ContextOnce /\ ClaimedIsSent

\* No stored invocation is attributed to the agent of another conversation,
\* also when the id of a forgotten agent is given out again.
RowsBelong == \A r \in rows : \A v \in Convs : agents[v].id = r.agent => v = r.conv

\* The summary an agent shows per workdir counts exactly its retained
\* invocations, through calls, retention, pruning and the clear command.
SummaryExact == \A x \in DOMAIN summary : summary[x] = count(rows, x[1], x[2])

\* What the store says of an agent is true of that agent.
AgentsAccounted == RowsBelong /\ SummaryExact

\* When the history writer has stopped, every call of this runtime that has
\* an envelope also has its result in it.
EnvelopesSettled ==
    "history" \notin up /\ phase \notin {"history", "failed"} =>
        \A r \in rows : r.rt = runs => r.done

\* At rest the clipboard holds the link of the conversation seen last.
LatestLink == link.accepting /\ link.slot = 0 /\ link.worker = 0 /\ link.last # 0
                 => link.copied = link.last

\* Neither a stop nor a burst leaves the last thing undone.
NothingLeftOpen == EnvelopesSettled /\ LatestLink

\* Once admission is closed the runtime goes down, whatever calls are in
\* flight and whichever of its steps report an error.
ShutdownCompletes == []<>(admission_closed => phase = "down")
=============================================================================
