------------------------------ MODULE Timeline ------------------------------
(***************************************************************************)
(* The canonical timeline over the invocation rows: polls fold into the    *)
(* command they ask about, polls whose command is unknown group by session *)
(* handle, and everything else is a card of its own.  The writer thread    *)
(* keeps a cache of the cards, triggers drop what an update makes stale,   *)
(* and readers page through the roots and a root's checkpoints by keyset   *)
(* cursors while calls begin and end and rows are deleted.                 *)
(***************************************************************************)
EXTENDS Naturals, SequencesExt, FiniteSetsExt

CONSTANTS
    Scripts,       \* sequences of calls: what row i, 1, 2, ..., will hold
    Limits,        \* page sizes a client asks for
    MaxDeletions   \* bound: retention passes and cleared agents

\* Agents and calls are numbered from 1, 0 is none; a poll's command begins before it.
Calls == [kind : {"exec", "poll", "other"}, agent : Nat, parent : Nat, handle : Nat,
          at : Nat, st : {"new"}]
ASSUME TimelineAssumption ==
    /\ Limits \subseteq Nat \ {0} /\ MaxDeletions \in Nat
    /\ Scripts \subseteq Seq(Calls)
    /\ \A s \in Scripts : \A i \in DOMAIN s : s[i].parent < i

VARIABLES
    row,       \* invocations: NoRow before the insert and after the delete
    next,      \* AUTOINCREMENT
    script,    \* the calls of this behaviour
    begun,     \* calls inserted whose refresh is not queued yet
    refresh,   \* pending_presentation_refreshes and dirty_presentations
    cache,     \* presentation_materializations
    writer,    \* the refresh between its read and its write
    pager,     \* a client paging, and its read-only connection
    stay,      \* ghost: what the query listed at its start and ever since
    torn,      \* ghost: roots written back from a read older than a clearing
    deletions

timelineVars == <<row, next, script, begun, refresh, cache, writer, pager, stay, torn, deletions>>

Ids == 1..Max({Len(s) : s \in Scripts})
NoRow == [kind |-> "none", agent |-> 0, parent |-> 0, handle |-> 0, at |-> 0, st |-> "gone"]
NoCard == [root |-> 0, rep |-> NoRow, at |-> 0, polls |-> {}, count |-> 0, final |-> "none", evidence |-> "none"]
Everyone == 0   \* as the agent of a call: none
present == {i \in Ids : row[i] # NoRow}

-----------------------------------------------------------------------------
(* The roots of the timeline.                                              *)

poll(i) == row[i].kind = "poll"
orphan(i) == poll(i) /\ row[i].parent = 0
later(i, j) == row[i].at > row[j].at \/ (row[i].at = row[j].at /\ i > j)
latest(S) == CHOOSE i \in S : \A j \in S \ {i} : later(i, j)
group(h) == {i \in present : orphan(i) /\ row[i].handle = h}
handles == {row[i].handle : i \in {j \in present : orphan(j)}} \ {0}
TimelineRoot(id, rep, at, kind, h) == [id |-> id, rep |-> rep, at |-> at, kind |-> kind, handle |-> h]

\* Every row is a root, a member of a group of orphans, or folded away.
ROOTS_CTE ==
    {TimelineRoot(i, i, row[i].at, 0, 0) : i \in {j \in present : ~poll(j)}}
    \cup {TimelineRoot(Min(group(h)), latest(group(h)), Min({row[i].at : i \in group(h)}), 1, h) : h \in handles}
    \cup {TimelineRoot(i, i, row[i].at, 2, 0) : i \in group(0)}

push_invocation_filters(i, agent) == agent = Everyone \/ row[i].agent = agent

\* Mutant: a newer poll counts only when it passes the filter itself.
NewestOfItsAgent(i, agent) ==
    \A j \in group(row[i].handle) : ~(push_invocation_filters(j, agent) /\ later(j, i))

newest(i, agent) == \A j \in group(row[i].handle) : ~later(j, i)

\* The same roots for one agent, built from that agent's rows only.
roots_cte_for_query(agent) ==
    LET mine == {i \in present : push_invocation_filters(i, agent)}
    IN  IF agent = Everyone THEN ROOTS_CTE
        ELSE {TimelineRoot(i, i, row[i].at, 0, 0) : i \in {j \in mine : ~poll(j)}}
             \cup {TimelineRoot(Min(group(row[i].handle)), i, Min({row[j].at : j \in group(row[i].handle)}),
                                1, row[i].handle) :
                     i \in {j \in mine : orphan(j) /\ row[j].handle # 0 /\ newest(j, agent)}}
             \cup {TimelineRoot(i, i, row[i].at, 2, 0) : i \in mine \cap group(0)}

-----------------------------------------------------------------------------
(* A root's card, hydrated from its rows.                                  *)

\* The polls' counts, callers and worst evidence, and the latest one's status.
load_poll_aggregates(P) ==
    [polls |-> {<<i, row[i].agent>> : i \in P}, count |-> Cardinality(P),
     final |-> IF P = {} THEN "none" ELSE row[latest(P)].st,
     evidence |-> CASE \E i \in P : row[i].st = "incomplete" -> "incomplete"
                    [] ~(\E i \in P : row[i].st = "incomplete") /\ \E i \in P : row[i].st = "pending" -> "pending"
                    [] OTHER -> "complete"]

load_parent_poll_aggregates(id) == load_poll_aggregates({i \in present : poll(i) /\ row[i].parent = id})
load_handle_poll_aggregates(h) == load_poll_aggregates(group(h))
single_poll_aggregate(i) == load_poll_aggregates({i})

Card(r, a) == [root |-> r.id, rep |-> row[r.rep], at |-> r.at, polls |-> a.polls, count |-> a.count,
               final |-> a.final, evidence |-> a.evidence]
hydrate_roots_uncached(r) ==
    Card(r, CASE r.kind = 0 /\ row[r.rep].kind = "exec" -> load_parent_poll_aggregates(r.id)
              [] r.kind = 0 /\ row[r.rep].kind # "exec" -> load_poll_aggregates({})
              [] r.kind = 1 -> load_handle_poll_aggregates(r.handle)
              [] r.kind = 2 -> single_poll_aggregate(r.rep))

\* A root whose rows went between the two reads fails the page.
lost(r) == row[r.rep] = NoRow \/ (r.kind = 1 /\ group(r.handle) = {})

-----------------------------------------------------------------------------
(* The triggers of schema version 5, per statement on the invocations.     *)

\* The root whose card holds row i, under the rows as they are then.
root_of(i) == CASE poll(i) /\ row[i].parent # 0 -> row[i].parent
                [] orphan(i) /\ row[i].handle # 0 -> Min(group(row[i].handle))
                [] OTHER -> i
drop(S) == /\ cache' = [i \in Ids |-> IF i \in S THEN NoCard ELSE cache[i]]
           /\ torn' = torn \ S

\* Deleted rows take their cards with them, and those of the commands and
\* groups they were folded into; a poll whose command goes joins a group.
invalidated_by_delete(gone) ==
    LET freed == {i \in present \ gone : row[i].parent \in gone}
        touched == {row[i].handle : i \in {j \in gone : orphan(j)} \cup {j \in freed : poll(j)}} \ {0}
    IN  gone \cup freed \cup {row[i].parent : i \in {j \in gone : poll(j)}}
        \cup {Min(group(h)') : h \in {k \in touched : group(k)' # {}}}

delete(gone) ==
    row' = [i \in Ids |-> IF i \in gone THEN NoRow
                          ELSE IF row[i].parent \in gone THEN [row[i] EXCEPT !.parent = 0] ELSE row[i]]

\* What the pager's query lists at the moment, as keys.
query_rows(r) == CASE r.kind = 0 -> {i \in present : i = r.id \/ (poll(i) /\ row[i].parent = r.id)}
                   [] r.kind = 1 -> group(r.handle)
                   [] r.kind = 2 -> {r.id} \cap present
keys(R) == {[id |-> r.id, at |-> r.at] : r \in R}
root_named(id) == {r \in ROOTS_CTE : r.id = id}
listed(q) == IF q.mode = "history" THEN keys(roots_cte_for_query(q.scope))
             ELSE UNION {{[id |-> i, at |-> row[i].at] : i \in query_rows(r)} : r \in root_named(q.scope)}
Watched == stay' = stay \cap listed(pager)'

-----------------------------------------------------------------------------
(* Calls and the writer thread.                                            *)

Idle == [st |-> "idle", root |-> 0, card |-> NoCard]

\* The envelope is committed on a foreground connection.
begin_with_metadata(i) ==
    LET c == script[i] IN
    /\ i = next /\ i <= Len(script)
    /\ c.parent # 0 => row[c.parent] # NoRow
    /\ row' = [row EXCEPT ![i] = [c EXCEPT !.st = "pending"]]
    /\ next' = i + 1 /\ begun' = begun \cup {i}
    /\ UNCHANGED pager
    /\ drop(IF c.kind = "poll" THEN {root_of(i)'} ELSE {})
    /\ Watched /\ UNCHANGED <<script, refresh, writer, deletions>>

\* An orphan poll has no root of its own to refresh.
presentation_root_invocation_id(i) ==
    CASE row[i] = NoRow -> script[i].parent
      [] row[i] # NoRow /\ poll(i) -> row[i].parent
      [] row[i] # NoRow /\ ~poll(i) -> i

queue_presentation_refresh(i) ==
    /\ i \in begun /\ begun' = begun \ {i}
    /\ refresh' = refresh \cup ({presentation_root_invocation_id(i)} \ {0})
    /\ UNCHANGED <<row, next, script, cache, writer, pager, stay, torn, deletions>>

\* A completion updates the row and makes its root dirty; a row marked
\* incomplete is only invalidated.
update_row(i, st) ==
    /\ writer = Idle /\ row[i].st = "pending" /\ i \notin begun
    /\ row' = [row EXCEPT ![i].st = st]
    /\ refresh' = refresh \cup (IF st = "complete" THEN {presentation_root_invocation_id(i)} \ {0} ELSE {})
    /\ UNCHANGED pager
    /\ drop({root_of(i)})
    /\ Watched /\ UNCHANGED <<next, script, begun, writer, deletions>>

reads(r) == writer' = [st |-> "persist", root |-> r.id, card |-> hydrate_roots_uncached(r)]

\* The refresh reads, on the writer's connection but in no transaction.
refresh_presentation_materialization(id) ==
    /\ writer = Idle /\ id \in refresh /\ refresh' = refresh \ {id}
    /\ IF root_named(id) = {} THEN UNCHANGED writer ELSE \E r \in root_named(id) : reads(r)
    /\ UNCHANGED <<row, next, script, begun, cache, pager, stay, torn, deletions>>

\* The newest root that has no card, when nothing is to be refreshed.
backfill_presentation_materializations ==
    /\ writer = Idle /\ refresh = {}
    /\ \E r \in ROOTS_CTE :
          /\ cache[r.id] = NoCard
          /\ \A s \in ROOTS_CTE : cache[s.id] = NoCard => s = r \/ s.at < r.at \/ (s.at = r.at /\ s.id < r.id)
          /\ reads(r)
    /\ UNCHANGED <<row, next, script, begun, refresh, cache, pager, stay, torn, deletions>>

\* The foreign key refuses the card of a row that is gone.
persist_materialized ==
    /\ writer.st = "persist" /\ writer' = Idle
    /\ cache' = IF row[writer.root] = NoRow THEN cache ELSE [cache EXCEPT ![writer.root] = writer.card]
    /\ UNCHANGED <<row, next, script, begun, refresh, pager, stay, torn, deletions>>

delete_another == deletions < MaxDeletions /\ deletions' = deletions + 1

\* Some settled rows, or under size pressure every card, too.
run_retention(gone, discard) ==
    /\ writer = Idle /\ delete_another
    /\ gone \subseteq {i \in present : row[i].st # "pending"}
    /\ delete(gone) /\ UNCHANGED pager
    /\ drop(IF discard THEN Ids ELSE invalidated_by_delete(gone))
    /\ Watched /\ UNCHANGED <<next, script, begun, refresh, writer>>

\* On a connection of its own: all rows of an agent whose calls are settled,
\* and every card that names it.
clear_local_agent_history(agent) ==
    LET gone == {i \in present : row[i].agent = agent}
        naming == {i \in Ids : cache[i].rep.agent = agent \/ \E p \in cache[i].polls : p[2] = agent}
    IN  /\ delete_another /\ gone # {} /\ \A i \in gone : row[i].st # "pending"
        /\ delete(gone) /\ UNCHANGED pager
        /\ cache' = [i \in Ids |-> IF i \in naming \cup invalidated_by_delete(gone) THEN NoCard ELSE cache[i]]
        /\ torn' = (torn \ (naming \cup invalidated_by_delete(gone)))
                   \cup (IF writer = Idle THEN {} ELSE {writer.root})
        /\ Watched /\ UNCHANGED <<next, script, begun, refresh, writer>>

-----------------------------------------------------------------------------
(* Paging.                                                                 *)

NoCursor == [mode |-> "none", id |-> 0, at |-> 0, scope |-> 0]
NewPager == [st |-> "new", mode |-> "history", scope |-> Everyone, limit |-> 1, cursor |-> NoCursor,
             page |-> <<>>, more |-> FALSE, roots |-> {}, shown |-> <<>>]

\* What a cursor belongs to: one history query, or the checkpoints of one root.
matches(cursor, q) == cursor = NoCursor \/ (cursor.mode = q.mode
                                           /\ (q.mode = "checkpoints" => cursor.scope = q.scope))

before(a, b) == a.at < b.at \/ (a.at = b.at /\ a.id < b.id)
beyond(q, S) ==
    {k \in S : q.cursor = NoCursor \/ IF q.mode = "history" THEN before(k, q.cursor) ELSE before(q.cursor, k)}
ahead(q, a, b) == IF q.mode = "history" THEN before(b, a) ELSE before(a, b)

\* The n-th has n - 1 others ahead of it.
in_order(q, S) ==
    [n \in 1..Cardinality(S) |-> CHOOSE k \in S : Cardinality({j \in S : ahead(q, j, k)}) = n - 1]

\* Up to one more than the page holds is read, to know whether there is more.
cut(q, S) == LET all == in_order(q, beyond(q, S))
             IN  [page |-> SubSeq(all, 1, IF Len(all) > q.limit THEN q.limit ELSE Len(all)),
                  more |-> Len(all) > q.limit]

PagerOnly == UNCHANGED <<row, next, script, begun, refresh, cache, writer, torn, deletions>>

open_timeline(mode, scope, limit) ==
    LET q == [NewPager EXCEPT !.st = "ask", !.mode = mode, !.scope = scope, !.limit = limit]
    IN  /\ pager.st = "new"
        /\ mode = "checkpoints" => root_named(scope) # {}
        /\ pager' = q /\ stay' = listed(q) /\ PagerOnly

\* query_history_roots; the cards are read by further statements.
query_history_roots ==
    LET R == roots_cte_for_query(pager.scope)
        c == cut(pager, keys(R))
    IN  /\ pager.st = "ask" /\ pager.mode = "history" /\ matches(pager.cursor, pager)
        /\ pager' = [pager EXCEPT !.st = "hydrate", !.page = c.page, !.more = c.more,
                                  !.roots = {r \in R : [id |-> r.id, at |-> r.at] \in ToSet(c.page)}]
        /\ PagerOnly /\ UNCHANGED stay

root_cursor(q) ==
    IF q.more THEN [mode |-> q.mode, id |-> Last(q.page).id, at |-> Last(q.page).at, scope |-> q.scope]
    ELSE q.cursor
turned(q, shown) == [q EXCEPT !.st = IF q.more THEN "ask" ELSE "done", !.cursor = root_cursor(q),
                              !.page = <<>>, !.more = FALSE, !.roots = {}, !.shown = shown]

\* An error sends the client back to the page it asked for.
hydrate_roots ==
    /\ pager.st = "hydrate"
    /\ pager' = IF \E r \in pager.roots : cache[r.id] = NoCard /\ lost(r)
                THEN [pager EXCEPT !.st = "ask", !.page = <<>>, !.more = FALSE, !.roots = {}]
                ELSE turned(pager, Reverse(pager.page) \o pager.shown)
    /\ PagerOnly /\ UNCHANGED stay

\* The root is looked up again for every page of checkpoints.
timeline_checkpoints ==
    /\ pager.st = "ask" /\ pager.mode = "checkpoints" /\ matches(pager.cursor, pager)
    /\ pager' = IF root_named(pager.scope) = {} THEN [pager EXCEPT !.st = "gone"]
                ELSE [pager EXCEPT !.st = "rows", !.roots = root_named(pager.scope)]
    /\ PagerOnly /\ UNCHANGED stay

checkpoint_rows ==
    LET c == cut(pager, UNION {{[id |-> i, at |-> row[i].at] : i \in query_rows(r)} : r \in pager.roots})
        q == [pager EXCEPT !.page = c.page, !.more = c.more]
    IN  /\ pager.st = "rows"
        /\ pager' = turned(q, pager.shown \o c.page)
        /\ PagerOnly /\ UNCHANGED stay

-----------------------------------------------------------------------------
TimelineInit ==
    /\ row = [i \in Ids |-> NoRow] /\ next = 1 /\ script \in Scripts
    /\ begun = {} /\ refresh = {} /\ cache = [i \in Ids |-> NoCard] /\ writer = Idle
    /\ pager = NewPager /\ stay = {} /\ torn = {} /\ deletions = 0

agents == {row[i].agent : i \in present} \ {Everyone}

TimelineNext ==
    \/ \E i \in Ids : \/ begin_with_metadata(i) \/ queue_presentation_refresh(i)
                      \/ refresh_presentation_materialization(i)
                      \/ \E st \in {"complete", "incomplete"} : update_row(i, st)
    \/ backfill_presentation_materializations \/ persist_materialized
    \/ \E gone \in SUBSET present : run_retention(gone, FALSE)
    \/ run_retention({}, TRUE)
    \/ \E a \in agents : clear_local_agent_history(a)
    \/ \E scope \in agents \cup {Everyone}, limit \in Limits : open_timeline("history", scope, limit)
    \/ \E r \in ROOTS_CTE, limit \in Limits : open_timeline("checkpoints", r.id, limit)
    \/ query_history_roots \/ hydrate_roots \/ timeline_checkpoints \/ checkpoint_rows

TimelineSpec == TimelineInit /\ [][TimelineNext]_timelineVars

-----------------------------------------------------------------------------
\* The roots read for one agent are the canonical roots it represents, also
\* where several agents polled one unknown handle.
AgentViewExact ==
    \A a \in agents : roots_cte_for_query(a) = {r \in ROOTS_CTE : row[r.rep].agent = a}

\* Whoever pages through a changing store meets every card, or checkpoint,
\* that was there all the time exactly once and in order.
PagesAreExact ==
    /\ \A i, j \in DOMAIN pager.shown : i < j => before(pager.shown[i], pager.shown[j])
    /\ pager.st = "done" => stay \subseteq ToSet(pager.shown)

\* A cached card that is not what its rows say is about to be rebuilt, or
\* waits for one of its polls to end; only a clearing that ran between the
\* refresh's read and its write leaves one behind.
owed(r) == \/ r.id \in refresh \/ writer.root = r.id \/ \E i \in begun : presentation_root_invocation_id(i) = r.id
           \/ r.kind # 0 /\ \E i \in query_rows(r) : row[i].st = "pending"
CacheIsTruthful ==
    \A r \in ROOTS_CTE : cache[r.id] \in {NoCard, hydrate_roots_uncached(r)} \/ owed(r) \/ r.id \in torn

\* The timeline shows every card once, as its rows are.
TimelineIsTrue == AgentViewExact /\ PagesAreExact /\ CacheIsTruthful
=============================================================================
