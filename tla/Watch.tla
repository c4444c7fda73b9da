------------------------------- MODULE Watch --------------------------------
(***************************************************************************)
(* The terminal viewer `zodex local watch --tui`.  One task owns the       *)
(* application state and handles network events and keys one at a time;    *)
(* each event stream is a task of its own that subscribes, forwards what   *)
(* the server sends into one bounded channel, and reconnects.  A change of *)
(* the agent filter starts a new stream while the old one is still open.   *)
(*                                                                         *)
(* A record is its revision: the number of times it changed since the      *)
(* viewer started.  Requests made by one handler read the server at one    *)
(* moment; what changes later also arrives on the subscribed stream.       *)
(***************************************************************************)
EXTENDS Integers, Sequences, FiniteSets, SequencesExt

CONSTANTS
    WatchAgents,      \* agent IDs, positive numbers in the order the API lists them
    Rows,             \* invocations, numbered in the order they start
    RowAgent,         \* the agent of an invocation, 0 when unattributed
    RowParent,        \* the command a poll belongs to; itself for a command
    Asked,            \* the scopes the command line asks for, "auto", "all" or an agent
    RingCapacity,     \* live events the server keeps for a slow reader
    NetCapacity,      \* NETWORK_EVENT_CAPACITY
    RecoveryLimit,    \* RECOVERY_INVOCATION_LIMIT
    MaxRevision,      \* bound: changes of one invocation
    MaxGenerations,   \* bound: event streams started
    MaxRefused,       \* bound: requests that fail
    MaxCut            \* bound: streams that break

ASSUME WatchAssumption ==
    /\ WatchAgents \subseteq Nat \ {0} /\ Rows \subseteq Nat \ {0}
    /\ RowAgent \in [Rows -> WatchAgents \cup {0}]
    /\ RowParent \in [Rows -> Rows] /\ \A i \in Rows : RowParent[RowParent[i]] = RowParent[i]
    /\ IsFiniteSet(WatchAgents)    \* an ID has four characters
    /\ Asked \subseteq {"auto", "all", "agent"} /\ ("agent" \in Asked => WatchAgents # {})
    /\ {RingCapacity, NetCapacity, RecoveryLimit, MaxGenerations} \subseteq Nat \ {0}

VARIABLES
    hub,      \* the server: control sequence, agents seen, revision of each row;
              \* history: changes so far, and the latest one of each row
    stream,   \* per generation: its task's state, its filter, the events not yet read
    net,      \* the channel from the stream tasks to the viewer
    app,      \* WatchApp
    sub,      \* Subscription: current, previous and draining generation
    spent,    \* failures used
    trusted   \* history: the generation that connected, and the changes before that

watchVars == <<hub, stream, net, app, sub, spent, trusted>>

Generations == 1..MaxGenerations
NoCard == [kind |-> "none", polls |-> {}]
IsPoll(i) == RowParent[i] # i

\* Scopes: agent 0 unless the scope is one agent's.
Waiting == [kind |-> "waiting", agent |-> 0]
Picker == [kind |-> "picker", agent |-> 0]
All == [kind |-> "all", agent |-> 0]
Unattributed == [kind |-> "unattributed", agent |-> 0]
OneAgent(a) == [kind |-> "agent", agent |-> a]

stream_filter(a) == a.scope.agent
automatic_scope_for_agents(agents) ==
    CASE agents = {} -> Waiting
      [] Cardinality(agents) = 1 -> OneAgent(CHOOSE a \in agents : TRUE)
      [] OTHER -> Picker

-----------------------------------------------------------------------------
(* The server. *)

Event(type, agent, row, n) == [type |-> type, agent |-> agent, row |-> row, seq |-> n]

\* A full ring overwrites its oldest event; the reader is told up to which
\* sequence number it lagged.
Lagged(ring, ev) ==
    IF Len(ring) < RingCapacity THEN Append(ring, ev)
    ELSE IF Head(ring).type = "gap"
         THEN <<Event("gap", 0, 0, ring[2].seq)>> \o Append(SubSeq(ring, 3, Len(ring)), ev)
         ELSE <<Event("gap", 0, 0, ring[1].seq)>> \o Append(Tail(ring), ev)

\* An event is numbered only when somebody listens.
emit_with(type, agent, row) ==
    LET heard == {g \in Generations : stream[g].st \in {"subscribed", "open"}}
        n == IF heard = {} THEN hub.seq ELSE hub.seq + 1
    IN  /\ hub' = [hub EXCEPT !.seq = n,
                     !.seen = IF type = "agent_first_seen" THEN @ \cup {agent} ELSE @,
                     !.rev = [i \in Rows |-> IF i = row THEN hub.rev[i] + 1 ELSE hub.rev[i]],
                     !.last = [i \in Rows |-> IF i = row THEN hub.changes + 1 ELSE hub.last[i]],
                     !.changes = @ + 1]
        /\ stream' = [g \in Generations |-> IF g \in heard
              THEN [stream[g] EXCEPT !.ring = Lagged(@, Event(type, agent, row, n))]
              ELSE stream[g]]
        /\ UNCHANGED <<net, app, sub, spent, trusted>>

agent_first_seen(a) == a \notin hub.seen /\ emit_with("agent_first_seen", a, 0)

\* An invocation starts, changes or completes.  Its agent was seen before, and
\* a poll follows its command.
row_changes(i) ==
    /\ hub.rev[i] < MaxRevision
    /\ RowAgent[i] \in hub.seen \cup {0}
    /\ IsPoll(i) => hub.rev[RowParent[i]] > 0
    /\ emit_with("presentation_updated", RowAgent[i], i)

allows(filter, ev) == ev.type = "gap" \/ filter = 0 \/ ev.agent = filter

\* The newest rows that changed since the viewer started.
recovery_invocations(filter) ==
    LET changed == {i \in Rows : hub.rev[i] > 0 /\ (filter = 0 \/ RowAgent[i] = filter)}
    IN  {i \in changed : Cardinality({j \in changed : j > i}) < RecoveryLimit}

-----------------------------------------------------------------------------
(* A stream task: spawn_event_stream and stream_once. *)

Message(kind, g, ev) == [kind |-> kind, gen |-> g, ev |-> ev]
NoEvent == Event("none", 0, 0, 0)
post(m) == Len(net) < NetCapacity /\ net' = Append(net, m)

subscribed(g) ==
    /\ stream[g].st = "connecting"
    /\ stream' = [stream EXCEPT ![g].st = "subscribed", ![g].ring = <<>>]
    /\ UNCHANGED <<hub, net, app, sub, spent, trusted>>

connected(g) ==
    /\ stream[g].st = "subscribed"
    /\ post(Message("connected", g, NoEvent))
    /\ stream' = [stream EXCEPT ![g].st = "open"]
    /\ UNCHANGED <<hub, app, sub, spent, trusted>>

forward(g) ==
    LET ev == Head(stream[g].ring)
    IN  /\ stream[g].st = "open" /\ stream[g].ring # <<>>
        /\ IF allows(stream[g].filter, ev) THEN post(Message("live", g, ev)) ELSE UNCHANGED net
        /\ stream' = [stream EXCEPT ![g].ring = Tail(@)]
        /\ UNCHANGED <<hub, app, sub, spent, trusted>>

disconnected(g) ==
    /\ stream[g].st \in {"connecting", "open"}
    /\ spent.cut < MaxCut
    /\ spent' = [spent EXCEPT !.cut = @ + 1]
    /\ post(Message("disconnected", g, NoEvent))
    /\ stream' = [stream EXCEPT ![g].st = "down", ![g].ring = <<>>]
    /\ UNCHANGED <<hub, app, sub, trusted>>

reconnect(g) ==
    /\ stream[g].st = "down"
    /\ stream' = [stream EXCEPT ![g].st = "connecting"]
    /\ UNCHANGED <<hub, net, app, sub, spent, trusted>>

-----------------------------------------------------------------------------
(* The viewer's state, as functions from one state w = [app, sub, stream]  *)
(* to the next.  f is the request of this handler that fails, if any.      *)

NoFailure == <<"none", 0>>
Requests == {<<"agents", 0>>, <<"status", 0>>, <<"list", 0>>, <<"timeline", 0>>}
              \cup {<<"detail", i>> : i \in Rows}

set_degraded(w) == [w EXCEPT !.app.connection = "degraded"]

stop(s, g) == IF g = 0 THEN s ELSE [s EXCEPT ![g].st = "stopped", ![g].ring = <<>>]

\* Effect Resubscribe: the current stream becomes the previous one, and the
\* previous one, if the new one never connected, is stopped.
Resubscribe(w) ==
    LET g == w.sub.generation + 1
        s == stop(w.stream, w.sub.previous)
    IN  [app |-> [w.app EXCEPT !.connection = "connecting"],
         sub |-> [generation |-> g, previous |-> w.sub.generation,
                  draining |-> IF w.sub.previous = 0 THEN w.sub.draining ELSE w.sub.previous],
         stream |-> [h \in Generations |->
             IF h = g THEN [st |-> "connecting", filter |-> stream_filter(w.app), ring |-> <<>>]
             ELSE s[h]]]

mark_connected(w) ==
    [w EXCEPT !.stream = stop(@, w.sub.previous),
              !.sub.draining = IF w.sub.previous = 0 THEN @ ELSE w.sub.previous,
              !.sub.previous = 0]

accepts_generation(g) == g # 0 /\ g \in {sub.generation, sub.previous, sub.draining}

set_agents(a) ==
    [a EXCEPT !.agents = hub.seen,
              !.scope = IF a.auto /\ @ = Waiting THEN automatic_scope_for_agents(hub.seen) ELSE @]

refresh_agents(w, f) ==
    LET a == set_agents(w.app)
        x == [w EXCEPT !.app = a]
        y == IF f = <<"status", 0>> THEN set_degraded(x) ELSE x
    IN  IF f = <<"agents", 0>> THEN set_degraded(w)
        ELSE IF stream_filter(a) # stream_filter(w.app) THEN Resubscribe(y) ELSE y

-----------------------------------------------------------------------------
(* Cards.  The detail of one command is a command card without its polls;  *)
(* the detail of one poll is an orphan poll record under its command's     *)
(* presentation ID; the timeline's record of a command has its polls       *)
(* folded in.                                                              *)

Folded(c) == [kind |-> "command", polls |-> {p \in Rows : IsPoll(p) /\ RowParent[p] = c /\ hub.rev[p] > 0}]
DetailCard(i) == IF IsPoll(i) THEN [kind |-> "polls", polls |-> {i}] ELSE [kind |-> "command", polls |-> {}]

\* A record replaces the card of the same presentation ID, except that a poll
\* seen before changes nothing in a poll card.
merge_card(cards, i, duplicate_detail) ==
    IF duplicate_detail /\ IsPoll(i) /\ cards[RowParent[i]].kind = "polls" THEN cards
    ELSE [cards EXCEPT ![RowParent[i]] = DetailCard(i)]

merge_detail(a, i) ==
    [a EXCEPT !.cards = merge_card(@, i, a.details[i] > 0), !.details[i] = hub.rev[i]]

merge_live_detail(w, i, f) ==
    LET cached == [w EXCEPT !.app.details[i] = hub.rev[i]]
    IN  IF f = <<"detail", i>> THEN set_degraded(w)
        ELSE IF ~IsPoll(i) THEN [w EXCEPT !.app = merge_detail(@, i)]
        ELSE IF f = <<"timeline", 0>> THEN set_degraded([w EXCEPT !.app = merge_detail(cached.app, i)])
        ELSE [cached EXCEPT !.app.cards[RowParent[i]] = Folded(RowParent[i])]

\* Each record read is merged in turn, in the order of the IDs.
read_again(a, read) ==
    [a EXCEPT !.cards = FoldLeft(merge_detail, a, SetToSortSeq(read, <)).cards,
              !.details = [i \in Rows |-> IF i \in read THEN hub.rev[i] ELSE a.details[i]]]

\* recover_from_history, then set_recovered or set_degraded.
recover_from_history(w, f) ==
    LET list == IF f = <<"list", 0>> THEN {} ELSE recovery_invocations(stream_filter(w.app))
        ids == {i \in Rows : w.app.details[i] > 0} \cup list
        read == {i \in ids : f # <<"detail", i>>}
        errors == f = <<"list", 0>> \/ Cardinality(list) = RecoveryLimit \/ read # ids
    IN  [w EXCEPT !.app = [read_again(w.app, read) EXCEPT
                             !.connection = IF errors THEN "degraded" ELSE "connected"]]

-----------------------------------------------------------------------------
(* handle_network_event *)

Current == [app |-> app, sub |-> sub, stream |-> stream]

\* A handler's result takes effect; a bound on the streams started ends the run.
becomes(w, f) ==
    /\ w.sub.generation <= MaxGenerations
    /\ app' = w.app /\ sub' = w.sub /\ stream' = w.stream
    /\ IF f = NoFailure THEN UNCHANGED spent
       ELSE /\ w.app.connection = "degraded"    \* f is a request the handler makes
            /\ spent.refused < MaxRefused /\ spent' = [spent EXCEPT !.refused = @ + 1]
    /\ UNCHANGED hub

\* Mutant of recovers: only a gap recovers.
NeverRecovers(a) == FALSE

\* A stream that connects after the viewer knew it was not connected.
recovers(a) == a.connection # "connecting"

\* Agents may have been seen between bootstrap and subscription.
Refreshed(w, f) == refresh_agents(w, f)

handle_connected(g, f) ==
    LET m == mark_connected(Current)
        c == [m EXCEPT !.app.connection = "connected"]
        r == IF recovers(app) THEN recover_from_history(c, f) ELSE c
    IN  IF g # sub.generation THEN becomes(Current, NoFailure) /\ UNCHANGED trusted
        ELSE /\ becomes(Refreshed(r, f), f)
             /\ trusted' = IF trusted.gen = g THEN trusted ELSE [gen |-> g, changes |-> hub.changes]

handle_disconnected(g) ==
    /\ becomes(IF g = sub.generation THEN set_degraded(Current) ELSE Current, NoFailure)
    /\ UNCHANGED trusted

should_process_live_event(ev) ==
    /\ ev.seq > app.last
    /\ ev.type = "gap" \/ app.scope.kind # "agent" \/ ev.agent = app.scope.agent

apply_live_update(ev, f) ==
    LET seen == [Current EXCEPT !.app.last = ev.seq]
        scoped == [seen EXCEPT !.app.scope =
                     IF app.auto /\ @ = Waiting /\ ev.agent = 0 THEN Unattributed ELSE @]
    IN  CASE ev.type = "gap" -> refresh_agents(recover_from_history(seen, f), f)
          [] ev.type = "agent_first_seen" -> refresh_agents(seen, f)
          [] OTHER -> merge_live_detail(scoped, ev.row, f)

handle_live(g, ev, f) ==
    /\ IF accepts_generation(g) /\ should_process_live_event(ev)
       THEN becomes(apply_live_update(ev, f), f)
       ELSE becomes(Current, NoFailure)
    /\ UNCHANGED trusted

handle_network_event ==
    \E f \in Requests \cup {NoFailure} :
      LET m == Head(net)
      IN  /\ net # <<>> /\ net' = Tail(net)
          /\ CASE m.kind = "connected" -> handle_connected(m.gen, f)
               [] m.kind = "disconnected" -> f = NoFailure /\ handle_disconnected(m.gen)
               [] m.kind = "live" -> handle_live(m.gen, m.ev, f)

-----------------------------------------------------------------------------
(* Keys: apply_input and apply_effects. *)

key(w, f) == becomes(w, f) /\ UNCHANGED <<net, trusted>>

\* The next agent around the list; the first or the last when none is shown.
next_agent(a, direction) ==
    LET current == IF a.scope.agent \in a.agents THEN a.scope.agent ELSE 0
        after == {x \in a.agents : x > current}
        before == {x \in a.agents : x < current}
    IN  IF direction < 0 THEN Max(IF before = {} THEN a.agents ELSE before)
        ELSE Min(IF after = {} THEN a.agents ELSE after)

cycle_agents(direction, f) ==
    LET a == set_agents(app)
    IN  IF f = <<"agents", 0>> THEN key(set_degraded(Current), f)
        ELSE /\ f = NoFailure
             /\ IF a.agents = {} THEN key([Current EXCEPT !.app = a], f)
                ELSE key(Resubscribe([Current EXCEPT !.app = [a EXCEPT !.scope = OneAgent(next_agent(a, direction))]]), f)

\* The stream is replaced first: effects are taken from the end of the list.
open_picker(f) ==
    /\ f \in {NoFailure, <<"agents", 0>>, <<"status", 0>>}
    /\ key(refresh_agents(Resubscribe([Current EXCEPT !.app.scope = Picker]), f), f)

choose_picker(scope) ==
    /\ app.scope = Picker
    /\ key(Resubscribe([Current EXCEPT !.app.scope = scope]), NoFailure)

-----------------------------------------------------------------------------
WatchInit ==
    \E seen \in SUBSET WatchAgents, asked \in Asked :
      LET scope == CASE asked = "auto" -> automatic_scope_for_agents(seen)
                     [] asked = "all" -> All
                     [] asked = "agent" -> OneAgent(CHOOSE a \in WatchAgents : TRUE)
      IN  /\ hub = [seq |-> 0, changes |-> 0, seen |-> seen, rev |-> [i \in Rows |-> 0], last |-> [i \in Rows |-> 0]]
          /\ app = [scope |-> scope, auto |-> asked = "auto", agents |-> seen,
                    connection |-> "connecting", details |-> [i \in Rows |-> 0],
                    cards |-> [i \in Rows |-> NoCard], last |-> 0]
          /\ sub = [generation |-> 1, previous |-> 0, draining |-> 0]
          /\ stream = [g \in Generations |->
                        [st |-> IF g = 1 THEN "connecting" ELSE "none",
                         filter |-> IF g = 1 THEN scope.agent ELSE 0, ring |-> <<>>]]
          /\ net = <<>>
          /\ spent = [refused |-> 0, cut |-> 0]
          /\ trusted = [gen |-> 0, changes |-> 0]

WatchNext ==
    \/ \E a \in WatchAgents : agent_first_seen(a)
    \/ \E i \in Rows : row_changes(i)
    \/ \E g \in Generations :
         subscribed(g) \/ connected(g) \/ forward(g) \/ disconnected(g) \/ reconnect(g)
    \/ handle_network_event
    \/ \E d \in {-1, 1}, f \in {NoFailure, <<"agents", 0>>} : cycle_agents(d, f)
    \/ \E f \in {NoFailure, <<"agents", 0>>, <<"status", 0>>} : open_picker(f)
    \/ \E s \in {All} \cup {OneAgent(a) : a \in app.agents} : choose_picker(s)

WatchSpec == WatchInit /\ [][WatchNext]_watchVars

-----------------------------------------------------------------------------
\* The viewer says it is connected, and nothing is on its way.
WatchAtRest ==
    /\ app.connection = "connected" /\ net = <<>>
    /\ trusted.gen = sub.generation
    /\ stream[sub.generation].st = "open" /\ stream[sub.generation].ring = <<>>

\* Once the viewer is connected and has handled everything, it holds the latest
\* revision of every invocation in its scope that changed since its stream was
\* connected: through lagging, broken streams, refused requests and streams that
\* overlap, a change is applied, recovered from history, or admitted as degraded.
DetailsCurrent ==
    WatchAtRest => \A i \in Rows :
        hub.last[i] > trusted.changes /\ (app.scope.kind = "agent" => RowAgent[i] = app.scope.agent)
            => app.details[i] = hub.rev[i]

\* An agent first seen between bootstrap and subscription, or while the stream
\* was down, does not leave a connected viewer waiting or picking among the
\* agents it knew before.
AgentsCurrent == WatchAtRest /\ stream_filter(app) = 0 => app.agents = hub.seen

\* A connected viewer is up to date.
WatchCurrent == DetailsCurrent /\ AgentsCurrent
=============================================================================
