---------------------------- MODULE SharedBoard ----------------------------
(***************************************************************************)
(* What the browser tabs of one Liveboard share: the preferences file,     *)
(* which the host changes under a lock and the alias tool changes too, and *)
(* the one event stream of the shared worker.  A change is announced, never *)
(* carried: each tab reads the file again, in one queue with its own saves. *)
(* Announcements are lost while the stream is down.  Each tab also keeps   *)
(* its own board of visible Agents, ahead of what it has saved.            *)
(* A tab has one subscription here: the change of its filter is the        *)
(* handover of module Liveboard.                                           *)
(***************************************************************************)
EXTENDS Integers, Sequences, FiniteSets, SequencesExt, TLC

CONSTANTS
    Tabs,          \* browser tabs
    Focused,       \* the tabs that show one Agent
    Agents,        \* Agents of the current runtime
    MaxColumns,    \* MAX_VISIBLE_AGENTS
    DefaultColumns, \* max_visible_agents by default
    MaxChanges,    \* bound: changes made by users and by the alias tool
    MaxOutages     \* bound: outages, lagging streams, failed requests, closed tabs

ASSUME SharedBoardAssumption ==
    /\ Focused \subseteq Tabs /\ MaxColumns \in Nat /\ DefaultColumns \in 1..MaxColumns
    /\ MaxChanges \in Nat /\ MaxOutages \in Nat

VARIABLES
    saved,       \* liveboard preferences as stored
    lock,        \* holders of LiveboardPreferenceLock, with what each loaded
    worker,      \* the shared worker: its subscribers and its EventSource
    tab,         \* the pages
    changes, outages,
    accepted     \* history: the value each preference was last given

boardVars == <<saved, lock, worker, tab, changes, outages, accepted>>

\* Preferences are a function of their fields; a patch is a part of one.
Theme == <<"theme">>
Maximum == <<"max">>
Shown(a) == <<"visible", a>>
Order(a) == <<"order", a>>
Alias(a) == <<"alias", a>>
Defaults ==
    Theme :> "system" @@ Maximum :> DefaultColumns @@ [k \in {Shown(a) : a \in Agents} |-> "unset"]
    @@ [k \in {Order(a) : a \in Agents} |-> 0] @@ [k \in {Alias(a) : a \in Agents} |-> "none"]
Layout == {Maximum} \cup {Shown(a) : a \in Agents} \cup {Order(a) : a \in Agents}
Fetch == <<>>

Mcp == "mcp"

-----------------------------------------------------------------------------
(* The board of one tab *)

Has(s, a) == \E i \in DOMAIN s : s[i] = a
\* An Agent has one column.
removeAgentFromBoard(s, a) ==
    IF Has(s, a) THEN RemoveAt(s, CHOOSE i \in DOMAIN s : s[i] = a) ELSE s
addAgentToBoard(s, a, max) == IF Has(s, a) \/ Len(s) >= max THEN s ELSE Append(s, a)

\* Agents come one at a time, so admitting them in their order is admitting each as it comes.
admitAgent(s, a, p) == IF p[Shown(a)] = "hidden" THEN s ELSE addAgentToBoard(s, a, p[Maximum])

moveAgent(s, from, to) == InsertAt(RemoveAt(s, from), to, s[from])

orderPatch(s) == [k \in {Order(s[i]) : i \in DOMAIN s} |-> CHOOSE i \in DOMAIN s : Order(s[i]) = k]

withoutFocusedLayoutMutations(patch) == [k \in DOMAIN patch \ Layout |-> patch[k]]

persistPreferences(t, r, patch) ==
    LET p == IF t \in Focused THEN withoutFocusedLayoutMutations(patch) ELSE patch
    IN  IF p = Fetch THEN r ELSE [r EXCEPT !.error = FALSE, !.queue = Append(@, p)]

-----------------------------------------------------------------------------
(* What the user does in a tab *)

Change == changes < MaxChanges /\ changes' = changes + 1
Fault == outages < MaxOutages /\ outages' = outages + 1
Live(t) == tab[t].st = "live"
Does(t, r) == Change /\ tab' = [tab EXCEPT ![t] = r] /\ UNCHANGED <<saved, lock, worker, outages, accepted>>

set_theme(t) ==
    /\ Live(t)
    /\ Does(t, persistPreferences(t, tab[t], Theme :> (IF tab[t].prefs[Theme] = "dark" THEN "light" ELSE "dark")))

save_alias(t, a) == Live(t) /\ a \in tab[t].agents /\ Does(t, persistPreferences(t, tab[t], Alias(a) :> "user"))

hideAgent(t, a) ==
    /\ Live(t) /\ t \notin Focused /\ Has(tab[t].visible, a)
    /\ LET r == [tab[t] EXCEPT !.hidden = @ \cup {a}, !.chose = @ \cup {a},
                               !.visible = removeAgentFromBoard(@, a)]
       IN  Does(t, persistPreferences(t, r, Shown(a) :> "hidden"))

addAgent(t, a) ==
    LET next == addAgentToBoard(tab[t].visible, a, tab[t].prefs[Maximum])
        r == [tab[t] EXCEPT !.hidden = @ \ {a}, !.chose = @ \ {a}, !.visible = next]
    IN  /\ Live(t) /\ t \notin Focused /\ a \in tab[t].agents /\ next # tab[t].visible
        /\ Does(t, persistPreferences(t, r, Shown(a) :> "shown" @@ Order(a) :> Len(next)))

setMaximum(t, max) ==
    LET v == tab[t].visible
        gone == {v[i] : i \in {j \in DOMAIN v : j > max}}
        r == [tab[t] EXCEPT !.hidden = @ \cup gone, !.chose = @ \cup gone,
                            !.visible = SubSeq(@, 1, IF Len(@) < max THEN Len(@) ELSE max)]
    IN  /\ Live(t) /\ t \notin Focused
        /\ Does(t, persistPreferences(t, r, Maximum :> max @@ [k \in {Shown(a) : a \in gone} |-> "hidden"]))

\* A drag works on the columns as they were when it began ...
beginReorder(t) ==
    /\ Live(t) /\ t \notin Focused /\ tab[t].drag = <<>> /\ Len(tab[t].visible) > 1
    /\ tab' = [tab EXCEPT ![t].drag = tab[t].visible]
    /\ UNCHANGED <<saved, lock, worker, changes, outages, accepted>>

\* ... so its drop brings back a column that was taken off meanwhile.
endReorder(t, from, to) ==
    LET s == tab[t].drag
        next == moveAgent(s, from, to)
        r == [tab[t] EXCEPT !.visible = next, !.drag = <<>>, !.chose = @ \ {s[i] : i \in DOMAIN s}]
    IN  /\ Live(t) /\ {from, to} \subseteq DOMAIN s
        /\ Does(t, IF from = to THEN [tab[t] EXCEPT !.drag = <<>>]
                   ELSE persistPreferences(t, r, orderPatch(next)))

\* An Agent is first seen, or its summary changes: the board's effect runs again.
agents_update(t, a) ==
    /\ Live(t)
    /\ tab' = [tab EXCEPT ![t].agents = @ \cup {a},
                          ![t].visible = IF t \in Focused \/ a \in tab[t].hidden THEN @
                                         ELSE admitAgent(@, a, tab[t].prefs)]
    /\ UNCHANGED <<saved, lock, worker, changes, outages, accepted>>

-----------------------------------------------------------------------------
(* The preferences store and the announcements *)

Tell(h, m) == [t \in Tabs |-> IF t \in h.clients THEN Append(h.inbox[t], m) ELSE h.inbox[t]]

\* A lagging stream turns what it missed into a gap, which every tab is told of.
announce ==
    \/ /\ worker' = IF worker.source = "open" THEN [worker EXCEPT !.inbox = Tell(worker, "preferences_changed")] ELSE worker
       /\ UNCHANGED outages
    \/ worker.source = "open" /\ Fault /\ worker' = [worker EXCEPT !.inbox = Tell(worker, "gap")]

\* Mutant of acquire: the lock is not waited for.
TakesAnyway(who, patch) == lock' = lock \cup {[by |-> who, loaded |-> saved, patch |-> patch]}

\* The file is loaded under the lock.
acquire(who, patch) == lock = {} /\ lock' = {[by |-> who, loaded |-> saved, patch |-> patch]}

merge_preferences(current, patch) == patch @@ current

Missed(r) == IF r.st = "live" /\ outages' > outages THEN [r EXCEPT !.missed = TRUE] ELSE r

\* write_user_only_json_atomic, then the lock is dropped and the change announced.
mutate_saves(w) ==
    LET updated == merge_preferences(w.loaded, w.patch)
    IN  /\ saved' = updated /\ lock' = lock \ {w}
        /\ accepted' = w.patch @@ accepted
        /\ announce
        /\ tab' = [t \in Tabs |-> Missed(IF t # w.by \/ tab[t].st # "live" \/ tab[t].req # "served" THEN tab[t]
                                         ELSE [tab[t] EXCEPT !.req = "answered", !.answer = updated])]
        /\ UNCHANGED changes

set_alias(a) ==
    /\ Change /\ acquire(Mcp, Alias(a) :> "tool")
    /\ UNCHANGED <<saved, worker, tab, outages, accepted>>

-----------------------------------------------------------------------------
(* A tab's requests: one at a time, in the order of mutationQueue *)

sends(t) ==
    /\ Live(t) /\ tab[t].req = "none" /\ tab[t].queue # <<>>
    /\ tab' = [tab EXCEPT ![t].req = "sent"]
    /\ UNCHANGED <<saved, lock, worker, changes, outages, accepted>>

preferences(t) ==
    /\ Live(t) /\ tab[t].req = "sent" /\ Head(tab[t].queue) = Fetch
    /\ tab' = [tab EXCEPT ![t].req = "answered", ![t].answer = saved, ![t].missed = FALSE]
    /\ UNCHANGED <<saved, lock, worker, changes, outages, accepted>>

patch_preferences(t) ==
    /\ Live(t) /\ tab[t].req = "sent" /\ Head(tab[t].queue) # Fetch
    /\ acquire(t, Head(tab[t].queue))
    /\ tab' = [tab EXCEPT ![t].req = "served", ![t].missed = FALSE]
    /\ UNCHANGED <<saved, worker, changes, outages, accepted>>

answered(t) ==
    /\ Live(t) /\ tab[t].req = "answered"
    /\ tab' = [tab EXCEPT ![t].req = "none", ![t].queue = Tail(@), ![t].prefs = tab[t].answer]
    /\ UNCHANGED <<saved, lock, worker, changes, outages, accepted>>

\* The request or its answer is lost; what the host does with it goes on.
request_fails(t) ==
    /\ Live(t) /\ tab[t].req # "none" /\ Fault
    /\ tab' = [tab EXCEPT ![t].req = "none", ![t].queue = Tail(@), ![t].error = TRUE]
    /\ UNCHANGED <<saved, lock, worker, changes, accepted>>

-----------------------------------------------------------------------------
(* The tab and the shared worker *)

reopened(r) == [r EXCEPT !.connected = TRUE, !.queue = Append(@, Fetch)]

receives(t) ==
    /\ Live(t) /\ worker.inbox[t] # <<>>
    /\ LET m == Head(worker.inbox[t])
       IN  tab' = [tab EXCEPT ![t] = CASE m = "open" -> reopened(@)
                                       [] m = "error" -> [@ EXCEPT !.connected = FALSE]
                                       [] m = "preferences_changed" -> [@ EXCEPT !.queue = Append(@, Fetch)]
                                       [] m = "gap" -> @]
    /\ worker' = [worker EXCEPT !.inbox[t] = Tail(@)]
    /\ UNCHANGED <<saved, lock, changes, outages, accepted>>

\* loadBootstrap reads the preferences before the stream is asked for.
loadBootstrap(t) ==
    /\ tab[t].st = "closed"
    /\ tab' = [tab EXCEPT ![t] =
          [st |-> "booted", prefs |-> saved, queue |-> <<>>, req |-> "none", answer |-> saved,
           error |-> FALSE, missed |-> FALSE, connected |-> FALSE, agents |-> {}, visible |-> <<>>,
           hidden |-> {a \in Agents : saved[Shown(a)] = "hidden"}, chose |-> {}, drag |-> <<>>]]
    /\ UNCHANGED <<saved, lock, worker, changes, outages, accepted>>

subscribe(t) ==
    /\ tab[t].st = "booted" /\ tab' = [tab EXCEPT ![t].st = "live"]
    /\ worker' = [worker EXCEPT !.clients = @ \cup {t}, !.source = IF @ = "none" THEN "connecting" ELSE @,
                          !.inbox[t] = IF worker.source # "none" /\ worker.opened THEN Append(@, "open") ELSE @]
    /\ UNCHANGED <<saved, lock, changes, outages, accepted>>

source_opens ==
    /\ worker.source \in {"connecting", "down"}
    /\ worker' = [worker EXCEPT !.source = "open", !.opened = TRUE, !.inbox = Tell(worker, "open")]
    /\ UNCHANGED <<saved, lock, tab, changes, outages, accepted>>

source_breaks ==
    /\ worker.source = "open" /\ Fault
    /\ worker' = [worker EXCEPT !.source = "down", !.inbox = Tell(worker, "error")]
    /\ UNCHANGED <<saved, lock, tab, changes, accepted>>

\* pagehide: the last subscriber closes the EventSource.
detach(t) ==
    /\ Live(t) /\ Fault
    /\ tab' = [tab EXCEPT ![t] = [st |-> "gone"]]
    /\ LET left == worker.clients \ {t}
       IN  worker' = [worker EXCEPT !.clients = left, !.inbox[t] = <<>>,
                     !.source = IF left = {} THEN "none" ELSE @, !.opened = left # {} /\ @]
    /\ UNCHANGED <<saved, lock, changes, accepted>>

-----------------------------------------------------------------------------
BoardInit ==
    /\ saved = Defaults /\ accepted = Defaults /\ lock = {}
    /\ worker = [clients |-> {}, source |-> "none", opened |-> FALSE, inbox |-> [t \in Tabs |-> <<>>]]
    /\ tab = [t \in Tabs |-> [st |-> "closed"]]
    /\ changes = 0 /\ outages = 0

BoardNext ==
    \/ \E t \in Tabs : \/ set_theme(t) \/ (\E max \in 1..MaxColumns : setMaximum(t, max))
                       \/ beginReorder(t) \/ (\E from, to \in 1..MaxColumns : endReorder(t, from, to))
                       \/ sends(t) \/ preferences(t) \/ patch_preferences(t)
                       \/ answered(t) \/ request_fails(t) \/ receives(t) \/ loadBootstrap(t)
                       \/ subscribe(t) \/ detach(t)
    \/ \E t \in Tabs, a \in Agents : \/ save_alias(t, a) \/ hideAgent(t, a) \/ addAgent(t, a)
                                     \/ agents_update(t, a)
    \/ \E a \in Agents : set_alias(a)
    \/ \E w \in lock : mutate_saves(w)
    \/ source_opens \/ source_breaks

BoardSpec == BoardInit /\ [][BoardNext]_boardVars

-----------------------------------------------------------------------------
\* Two tabs and the alias tool never undo each other's changes: every field
\* holds the value it was last given, although each writes the whole file.
NoChangeLost == saved = accepted

Delivered == lock = {} /\ worker.source = "open" /\ \A t \in Tabs :
               Live(t) => tab[t].queue = <<>> /\ worker.inbox[t] = <<>>

\* When everything is delivered, a tab shows the saved preferences, whatever
\* it saved and received in between, unless it says that a request failed; one
\* whose announcement fell into a gap of the stream waits for the next.
TabsShowSaved ==
    Delivered => \A t \in Tabs : Live(t) => tab[t].prefs = saved \/ tab[t].error \/ tab[t].missed

\* An Agent the user took off a board stays off it, however late the save is
\* and however often the Agent is heard of before it, until the user adds it
\* or drops a column of a drag that began before.
HiddenStaysHidden ==
    \A t \in Tabs : Live(t) => \A i \in DOMAIN tab[t].visible : tab[t].visible[i] \notin tab[t].chose

\* The board's three promises.
BoardIsShared == NoChangeLost /\ TabsShowSaved /\ HiddenStaysHidden
=============================================================================
