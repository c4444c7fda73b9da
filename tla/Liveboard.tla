------------------------------ MODULE Liveboard ------------------------------
(***************************************************************************)
(* Live observation: the writer commits a change of a presentation card    *)
(* and broadcasts it; every SSE stream is a bounded receiver that turns    *)
(* lag into a "gap" frame; the browser's runtime connection applies the    *)
(* frames and repairs what it missed from the durable timeline.  Fetches   *)
(* are two steps: the server reads, then the response is applied.  One     *)
(* agent is observed; a card is a version counter, FinalVer when its       *)
(* process has ended.                                                      *)
(***************************************************************************)
EXTENDS Integers, Sequences, FiniteSets, FiniteSetsExt, SequencesExt

CONSTANTS
    Cards,      \* presentation roots of the agent: a set of naturals (ids)
    Still,      \* bound: cards that are running all along and do not change
    FinalVer,   \* bound: versions of a card
    Cap,        \* DEFAULT_EVENT_CAPACITY
    WireCap,    \* bound: frames in transit on one connection
    PageSize,   \* RECOVERY_PAGE_SIZE
    MaxTime,    \* bound: wall clock
    MaxSeq,     \* bound: control events
    MaxFaults   \* bound: broken connections, restarts, failing requests,
                \* cache evictions and changes of the viewer, together

ASSUME LiveboardAssumption ==
    /\ Cap \in Nat \ {0} /\ PageSize \in Nat \ {0} /\ MaxTime \in Nat
    /\ Cards \subseteq Nat \ {0} /\ IsFiniteSet(Cards)

VARIABLES
    db,       \* per card: version, time of its last change, start time
    dirty,    \* committed cards whose presentation_updated is not out yet
    cache,    \* HistoryEventHub::presentations; 0 when not cached
    hub,      \* runtime id, last sequence, wall clock
    src,      \* the two SSE connections
    active, pending,   \* activeSource, pendingSource (0: undefined)
    board,    \* runtime id, visible, hydrated, initialRecoveryComplete, marks, seen
    shown,    \* cards: version and the runtime it was read from
    touched,  \* cards whose mutationVersion passed the recovery's checkpoint
    late,     \* detailPendingWatermarks
    detail,   \* detailQueue and the requests detailVersions still admits
    rec,      \* recoverAgent: of the current and of a disposed controller
    hist,     \* loadEarlier
    chain,    \* the synchronization promise: queued jobs
    stage,    \* how far its first job is
    faults,
    race      \* ghost: the windows the protocol leaves open that were hit

serverVars == <<db, dirty, cache, hub>>
sourceVars == <<src, active, pending>>
cardVars == <<shown, touched, late, detail>>
fetchVars == <<rec, hist, chain, stage>>
vars == <<db, dirty, cache, hub, src, active, pending, board, shown, touched,
          late, detail, rec, hist, chain, stage, faults, race>>

Sources == {1, 2}
Never == MaxTime + 1
Closed == [st |-> "closed", opened |-> FALSE, chan |-> <<>>, skipped |-> 0,
           last |-> 0, wire |-> <<>>]
Idle == [st |-> "idle", since |-> 0, cursor |-> <<0, 0>>, page |-> {}, more |-> FALSE]
NoCard == [ver |-> 0, rt |-> 0]
NoDetail == [st |-> "none", ver |-> 0, rt |-> 0]
max(a, b) == IF a >= b THEN a ELSE b
subscribed(s) == src[s].st \in {"subscribed", "open"}
fault == faults < MaxFaults /\ faults' = faults + 1

-----------------------------------------------------------------------------
(* The runtime: truth, hub and streams.                                    *)

\* A committed lifecycle change clears the cached presentation.
change(c) ==
    /\ db[c].ver < FinalVer /\ c \notin Still
    /\ db' = [db EXCEPT ![c] = [ver |-> @.ver + 1, at |-> hub.now,
                                start |-> IF @.ver = 0 THEN hub.now ELSE @.start]]
    /\ dirty' = dirty \cup {c}
    /\ cache' = [cache EXCEPT ![c] = 0]
    /\ UNCHANGED <<hub, sourceVars, board, cardVars, fetchVars, faults, race>>

tick == /\ hub.now < MaxTime
        /\ hub' = [hub EXCEPT !.now = @ + 1]
        /\ UNCHANGED <<db, dirty, cache, sourceVars, board, cardVars, fetchVars, faults, race>>

\* A full receiver loses its oldest event and counts it.
send(ev) == [s \in Sources |->
    IF ~subscribed(s) THEN src[s]
    ELSE IF Len(src[s].chan) < Cap
         THEN [src[s] EXCEPT !.chan = Append(@, ev)]
         ELSE [src[s] EXCEPT !.chan = Append(Tail(@), ev), !.skipped = @ + 1]]

\* Without a receiver there is neither an event nor a sequence number.
emit_with(kind, c) ==
    IF \E s \in Sources : subscribed(s)
    THEN /\ hub.seq < MaxSeq
         /\ hub' = [hub EXCEPT !.seq = @ + 1]
         /\ src' = send([kind |-> kind, seq |-> hub.seq + 1, card |-> c, at |-> hub.now])
    ELSE UNCHANGED <<hub, src>>

refresh_and_emit_presentation(c) ==
    /\ c \in dirty
    /\ dirty' = dirty \ {c}
    /\ cache' = [cache EXCEPT ![c] = db[c].ver]
    /\ emit_with("updated", c)
    /\ UNCHANGED <<db, active, pending, board, cardVars, fetchVars, faults, race>>

\* invocation_started, invocation_completed, process_started, process_ended.
emit_lifecycle(c) ==
    /\ c \in dirty /\ \E s \in Sources : subscribed(s)
    /\ emit_with("lifecycle", c)
    /\ UNCHANGED <<db, dirty, cache, active, pending, board, cardVars, fetchVars, faults, race>>

evict_presentation(c) ==
    /\ fault /\ cache[c] # 0
    /\ cache' = [cache EXCEPT ![c] = 0]
    /\ UNCHANGED <<db, dirty, hub, sourceVars, board, cardVars, fetchVars, race>>

\* The stream of one subscriber: lag first, then the oldest retained event,
\* enriched with whatever record the cache holds by now.
events(s) ==
    LET x == src[s]
        ev == Head(x.chan)
        gap == [kind |-> "gap", rt |-> hub.rt, seq |-> x.last + x.skipped,
                card |-> 0, ver |-> 0, at |-> hub.now]
        frame == [kind |-> ev.kind, rt |-> hub.rt, seq |-> ev.seq, card |-> ev.card,
                  ver |-> IF ev.kind = "updated" THEN cache[ev.card] ELSE 0, at |-> ev.at]
    IN  /\ subscribed(s) /\ Len(x.wire) < WireCap /\ x.chan # <<>>
        /\ src' = [src EXCEPT ![s] =
              IF x.skipped > 0
              THEN [x EXCEPT !.wire = Append(@, gap), !.skipped = 0, !.last = gap.seq]
              ELSE [x EXCEPT !.wire = Append(@, frame), !.chan = Tail(@), !.last = ev.seq]]
        /\ UNCHANGED <<serverVars, active, pending, board, cardVars, fetchVars, faults, race>>

subscribe_live_event_channels(s) ==
    /\ src[s].st = "connecting"
    /\ src' = [src EXCEPT ![s] = [@ EXCEPT !.st = "subscribed", !.chan = <<>>,
                                     !.skipped = 0, !.last = hub.seq, !.wire = <<>>]]
    /\ UNCHANGED <<serverVars, active, pending, board, cardVars, fetchVars, faults, race>>

\* The runtime is replaced: sequence and cache restart, every stream breaks.
restart ==
    /\ fault /\ hub.rt = 1 /\ dirty = {}
    /\ hub' = [hub EXCEPT !.rt = 2, !.seq = 0]
    /\ cache' = [c \in Cards |-> 0]
    /\ src' = [s \in Sources |-> IF src[s].st = "closed" THEN src[s]
                                 ELSE [Closed EXCEPT !.st = "broken", !.opened = src[s].opened]]
    /\ UNCHANGED <<db, dirty, active, pending, board, cardVars, fetchVars, race>>

disconnect(s) ==
    /\ fault /\ subscribed(s)
    /\ src' = [src EXCEPT ![s] = [Closed EXCEPT !.st = "broken", !.opened = src[s].opened]]
    /\ UNCHANGED <<serverVars, active, pending, board, cardVars, fetchVars, race>>

-----------------------------------------------------------------------------
(* Queries the client makes.                                               *)

\* query_recovery_roots: a root still running counts as changed at since.
effective(c, since) == IF db[c].ver < FinalVer THEN max(db[c].at, since) ELSE db[c].at
recoverable(since) == {c \in Cards : db[c].ver > 0 /\ effective(c, since) >= since}
key(c, since) == <<effective(c, since), c>>
before(x, y) == x[1] < y[1] \/ (x[1] = y[1] /\ x[2] < y[2])
beyond(since, cursor) == {c \in recoverable(since) : before(cursor, key(c, since))}
page(since, cursor) ==
    {c \in beyond(since, cursor) :
        Cardinality({d \in beyond(since, cursor) : before(key(d, since), key(c, since))}) < PageSize}
snapshot(C) == {<<c, db[c].ver>> : c \in C}

safeRecoveryWatermark == Min({board.mark} \cup {late[c] : c \in Cards})

-----------------------------------------------------------------------------
(* Cards and recovery.                                                     *)

\* A frame about the card, or the gap that replaces it, is still to come on the
\* connection that the board reads.
coming(c) == \/ c \in dirty
             \/ src[active].skipped > 0
             \/ \E f \in ToSet(src[active].chan) \cup ToSet(src[active].wire) : f.card \in {0, c}

\* The board lacks the current version of a card that it has shown or that has
\* changed since it attached.
lacks(c) == /\ db[c].ver > 0 /\ shown[c].ver # db[c].ver
            /\ shown[c].ver > 0 \/ db[c].at >= board.attach
behind == {c \in Cards : lacks(c) /\ ~coming(c)}

\* Starting a recovery whose boundary is already past the change of a card
\* that nothing else will repair.
tooLate(since) == IF \E c \in behind : effective(c, since) < since THEN {"boundary"} ELSE {}

\* A snapshot older than the truth is applied with nothing to follow it.
stale(c, ver) == IF ver < db[c].ver /\ ~coming(c) THEN {"snapshot"} ELSE {}

\* recoverAgent returns at once while the agent is already hydrating.
recoverAgent(since) ==
    IF rec["cur"].st # "idle"
    THEN /\ race' = race \cup {"coalesced"}
         /\ UNCHANGED <<rec, touched>>
    ELSE /\ rec' = [rec EXCEPT !["cur"] = [Idle EXCEPT !.st = "fetch", !.since = since,
                                                        !.cursor = <<since - 1, 0>>]]
         /\ touched' = {}
         /\ race' = race \cup tooLate(since)

fetch_page(k) ==
    LET r == rec[k] P == page(r.since, r.cursor) IN
    /\ r.st = "fetch" /\ board.rt = hub.rt
    /\ rec' = [rec EXCEPT ![k] = [r EXCEPT !.st = "page", !.page = snapshot(P),
          !.more = Cardinality(beyond(r.since, r.cursor)) > PageSize,
          !.cursor = IF P = {} THEN r.cursor
                     ELSE CHOOSE x \in {key(c, r.since) : c \in P} :
                            \A c \in P : x = key(c, r.since) \/ before(key(c, r.since), x)]]
    /\ UNCHANGED <<serverVars, sourceVars, board, cardVars, hist, chain, stage, faults, race>>

\* mergeRecovery without the checkpoint: every record of the page wins.
MergeAll(P, checkpointed) ==
    [c \in Cards |-> IF \E x \in P : x[1] = c
                     THEN [ver |-> (CHOOSE x \in P : x[1] = c)[2], rt |-> board.rt]
                     ELSE shown[c]]

mergeRecovery(P, checkpointed) ==
    [c \in Cards |-> IF (\E x \in P : x[1] = c) /\ ~(checkpointed /\ c \in touched)
                     THEN [ver |-> (CHOOSE x \in P : x[1] = c)[2], rt |-> board.rt]
                     ELSE shown[c]]

\* Every upsert counts as a mutation, those of a recovery included.
merge(P, checkpointed) ==
    /\ shown' = mergeRecovery(P, checkpointed)
    /\ touched' = touched \cup {x[1] : x \in P}

\* A page of a disposed controller changes nothing; the end of the last page
\* marks the agent hydrated whichever controller it was for.
merge_page(k) ==
    LET r == rec[k] IN
    /\ r.st = "page"
    /\ IF k = "cur" THEN merge(r.page, TRUE) ELSE UNCHANGED <<shown, touched>>
    /\ rec' = [rec EXCEPT ![k] = IF r.more THEN [r EXCEPT !.st = "fetch", !.page = {}] ELSE Idle]
    /\ board' = IF r.more THEN board ELSE [board EXCEPT !.hydrated = TRUE]
    /\ UNCHANGED <<serverVars, sourceVars, late, detail, hist, chain, stage, faults, race>>

\* A fetch that fails, or that the replaced runtime refuses.
recovery_failed(k) ==
    /\ rec[k].st = "fetch"
    /\ IF board.rt = hub.rt THEN fault ELSE UNCHANGED faults
    /\ rec' = [rec EXCEPT ![k] = Idle]
    /\ stage' = IF k = "cur" /\ stage = "wait" THEN "failed" ELSE stage
    /\ race' = race \cup {"failed"}
    /\ UNCHANGED <<serverVars, sourceVars, board, cardVars, hist, chain>>

\* One page of roots that started before the viewer attached.
loadEarlier ==
    /\ fault /\ hist.st = "idle" /\ board.visible /\ board.rt = hub.rt
    /\ hist' = [st |-> "page", page |-> snapshot({c \in Cards : db[c].ver > 0
                                                      /\ db[c].start < board.attach})]
    /\ UNCHANGED <<serverVars, sourceVars, board, cardVars, rec, chain, stage, race>>

merge_history ==
    /\ hist.st = "page"
    /\ merge(hist.page, FALSE)
    /\ hist' = [st |-> "idle", page |-> {}]
    /\ race' = race \cup UNION {stale(x[1], x[2]) : x \in hist.page}
    /\ UNCHANGED <<serverVars, sourceVars, board, late, detail, rec, chain, stage, faults>>

-----------------------------------------------------------------------------
(* Live frames.                                                            *)

upsert(c, ver) == /\ shown' = [shown EXCEPT ![c] = [ver |-> ver, rt |-> board.rt]]
                  /\ touched' = touched \cup {c}

\* Mutant: the skip of a gap frame is only noted.
QueueMismatchOnly(f) ==
    chain' = IF f.rt = board.rt THEN chain
             ELSE Append(chain, [kind |-> "mismatch", since |-> safeRecoveryWatermark,
                                 at |-> f.at, rt |-> f.rt])

\* A gap or a frame of another runtime is queued behind what synchronizes
\* already; the gap fixes its boundary now.
queueJob(f) == chain' = Append(chain, [kind |-> IF f.rt # board.rt THEN "mismatch" ELSE "gap",
                                       since |-> safeRecoveryWatermark, at |-> f.at, rt |-> f.rt])

\* The record of the frame replaces the card and every detail request for it.
apply_record(c, ver) ==
    /\ detail' = [detail EXCEPT ![c] = NoDetail]
    /\ late' = [late EXCEPT ![c] = Never]
    /\ IF board.visible THEN upsert(c, ver) ELSE UNCHANGED <<shown, touched>>

\* scheduleDetailRefresh: an answer to an earlier request no longer counts.
scheduleDetailRefresh(c, at) ==
    /\ IF board.visible
       THEN /\ late' = [late EXCEPT ![c] = Min({@, at})]
            /\ detail' = [detail EXCEPT ![c] = [NoDetail EXCEPT !.st = "queued"]]
       ELSE UNCHANGED <<late, detail>>
    /\ UNCHANGED <<shown, touched>>

handleLiveEvent(s) ==
    LET f == Head(src[s].wire) IN
    /\ src[s].st = "open" /\ src[s].wire # <<>>
    /\ src' = [src EXCEPT ![s].wire = Tail(@)]
    /\ CASE f.rt # board.rt -> queueJob(f) /\ UNCHANGED <<board, cardVars>>
         [] f.rt = board.rt /\ f.seq \in board.seen -> UNCHANGED <<board, cardVars, chain>>
         [] f.rt = board.rt /\ f.seq \notin board.seen /\ f.kind = "gap" ->
              /\ board' = [board EXCEPT !.seen = @ \cup {f.seq}]
              /\ queueJob(f) /\ UNCHANGED cardVars
         [] OTHER ->
              /\ board' = [board EXCEPT !.seen = @ \cup {f.seq}, !.mark = max(@, f.at)]
              /\ UNCHANGED chain
              /\ CASE f.kind = "lifecycle" -> UNCHANGED cardVars
                   [] f.kind = "updated" /\ f.ver > 0 -> apply_record(f.card, f.ver)
                   [] OTHER -> scheduleDetailRefresh(f.card, f.at)
    /\ UNCHANGED <<serverVars, active, pending, rec, hist, stage, faults, race>>

\* The next animation frame sends the queued request.
flushDetailQueue(c) ==
    /\ detail[c].st = "queued" /\ board.rt = hub.rt
    /\ detail' = [detail EXCEPT ![c] = [st |-> "answered", ver |-> db[c].ver, rt |-> hub.rt]]
    /\ UNCHANGED <<serverVars, sourceVars, board, shown, touched, late, fetchVars, faults, race>>

refreshDetail(c) ==
    /\ detail[c].st = "answered"
    /\ detail' = [detail EXCEPT ![c] = NoDetail]
    /\ late' = [late EXCEPT ![c] = Never]
    /\ IF board.visible
       THEN /\ shown' = [shown EXCEPT ![c] = [ver |-> detail[c].ver, rt |-> detail[c].rt]]
            /\ touched' = touched \cup {c}
       ELSE UNCHANGED <<shown, touched>>
    /\ race' = race \cup stale(c, detail[c].ver)
    /\ UNCHANGED <<serverVars, sourceVars, board, fetchVars, faults>>

\* The watermark of a failed refresh stays and holds the boundary back.
detail_failed(c) ==
    /\ detail[c].st = "queued"
    /\ IF board.rt = hub.rt THEN fault ELSE UNCHANGED faults
    /\ detail' = [detail EXCEPT ![c] = NoDetail]
    /\ race' = race \cup {"failed"}
    /\ UNCHANGED <<serverVars, sourceVars, board, shown, touched, late, fetchVars>>

-----------------------------------------------------------------------------
(* Connections and the synchronization chain.                              *)

\* EventSource reconnects by itself.
reconnect(s) ==
    /\ src[s].st = "broken" /\ s # pending
    /\ src' = [src EXCEPT ![s].st = "connecting"]
    /\ board' = IF s = active THEN [board EXCEPT !.down = Min({@, hub.now})] ELSE board
    /\ UNCHANGED <<serverVars, active, pending, cardVars, fetchVars, faults, race>>

\* onopen of the active source synchronizes; of a handover source it only
\* replaces the old connection, frames in transit included.
onopen(s) ==
    /\ src[s].st = "subscribed"
    /\ IF s = pending
       THEN /\ src' = [src EXCEPT ![s] = [@ EXCEPT !.st = "open", !.opened = TRUE],
                                  ![active] = Closed]
            /\ active' = s /\ pending' = 0
            /\ race' = race \cup (IF src[active].st # "open" \/ \E x \in Sources :
                                         src[x].wire # <<>> \/ src[x].chan # <<>>
                                  THEN {"handover"} ELSE {})
            /\ UNCHANGED chain
       ELSE /\ src' = [src EXCEPT ![s] = [@ EXCEPT !.st = "open", !.opened = TRUE]]
            /\ chain' = Append(chain, [kind |-> IF ~src[s].opened /\ ~board.init THEN "first"
                                                ELSE "open", since |-> 0, at |-> 0, rt |-> 0])
            /\ UNCHANGED <<active, pending, race>>
    /\ UNCHANGED <<serverVars, board, cardVars, rec, hist, stage, faults>>

\* onerror of a handover source: closed, retried later.
handover_failed ==
    /\ pending # 0 /\ src[pending].st = "broken"
    /\ src' = [src EXCEPT ![pending] = [Closed EXCEPT !.st = "connecting"]]
    /\ UNCHANGED <<serverVars, active, pending, board, cardVars, fetchVars, faults, race>>

requestHandover ==
    LET s == 3 - active IN
    /\ src' = [src EXCEPT ![s] = [Closed EXCEPT !.st = "connecting"]]
    /\ pending' = s /\ UNCHANGED active

\* setVisibleAgentIds: the column goes and its controller is disposed; a
\* recovery in flight goes on for the disposed one.
hide ==
    /\ fault /\ board.visible /\ rec["old"].st = "idle"
    /\ board' = [board EXCEPT !.visible = FALSE, !.hydrated = FALSE]
    /\ shown' = [c \in Cards |-> NoCard] /\ touched' = {}
    /\ rec' = [rec EXCEPT !["old"] = rec["cur"], !["cur"] = Idle]
    /\ hist' = [st |-> "idle", page |-> {}]
    /\ requestHandover
    /\ stage' = IF stage = "wait" THEN "orphan" ELSE stage
    /\ UNCHANGED <<serverVars, late, detail, chain, race>>

\* ensureController: a column that is back is hydrated from the attach mark.
show ==
    /\ ~board.visible
    /\ board' = [board EXCEPT !.visible = TRUE]
    /\ IF board.init /\ ~board.hydrated THEN recoverAgent(board.attach)
       ELSE /\ race' = race \cup (IF board.hydrated \/ stage \in {"wait", "orphan", "failed"}
                                  THEN {"unhydrated"} ELSE {})
            /\ UNCHANGED <<rec, touched>>
    /\ requestHandover
    /\ UNCHANGED <<serverVars, shown, late, detail, hist, chain, stage, faults>>

\* resetRuntime; a page still in flight ends in a disposed controller.
resetRuntime(boundary) ==
    /\ shown' = [c \in Cards |-> NoCard] /\ touched' = {}
    /\ late' = [c \in Cards |-> Never]
    /\ detail' = [c \in Cards |-> NoDetail]
    /\ rec' = [k \in {"cur", "old"} |-> Idle]
    /\ hist' = [st |-> "idle", page |-> {}]
    /\ board' = [board EXCEPT !.rt = hub.rt, !.hydrated = FALSE, !.init = FALSE,
                    !.attach = boundary, !.mark = boundary, !.seen = {}]

job == Head(chain)
boundaryOnReset == IF board.down # Never THEN board.down ELSE job.at

\* fetchStatus and the agent list: a replaced runtime resets the board.
sync_status ==
    /\ chain # <<>> /\ stage = "idle"
    /\ IF (job.kind = "mismatch" /\ job.rt = hub.rt /\ job.rt # board.rt)
          \/ (job.kind \in {"first", "open"} /\ hub.rt # board.rt)
       THEN resetRuntime(boundaryOnReset) /\ stage' = "recover" /\ UNCHANGED chain
       ELSE /\ IF job.kind = "mismatch"
               THEN stage' = "idle" /\ chain' = Tail(chain)
               ELSE stage' = "recover" /\ UNCHANGED chain
            /\ UNCHANGED <<board, cardVars, rec, hist>>
    /\ UNCHANGED <<serverVars, sourceVars, faults, race>>

sync_failed ==
    /\ fault /\ chain # <<>> /\ stage = "idle"
    /\ chain' = Tail(chain)
    /\ race' = race \cup {"failed"}
    /\ UNCHANGED <<serverVars, sourceVars, board, cardVars, rec, hist, stage>>

\* The boundary of an open is computed here, after the awaits.
boundary == CASE job.kind = "first" -> board.attach
              [] job.kind = "gap" -> job.since
              [] job.kind = "mismatch" -> board.attach
              [] OTHER -> safeRecoveryWatermark

recoverVisible ==
    /\ chain # <<>> /\ stage = "recover"
    /\ chain' = <<[job EXCEPT !.since = boundary]>> \o Tail(chain)
    /\ stage' = "wait"
    /\ IF board.visible THEN recoverAgent(boundary)
       ELSE UNCHANGED <<rec, touched, race>>
    /\ UNCHANGED <<serverVars, sourceVars, board, shown, late, detail, hist, faults>>

\* The job ends when its recovery does; a failed one advances nothing.
sync_done ==
    /\ chain # <<>>
    /\ \/ stage = "wait" /\ rec["cur"].st = "idle"
       \/ stage = "orphan" /\ rec["old"].st = "idle"
       \/ stage = "failed"
    /\ board' = IF stage = "failed" THEN board
                ELSE [board EXCEPT !.mark = max(@, IF job.kind \in {"gap", "mismatch"}
                                                   THEN job.at ELSE job.since),
                                   !.init = IF job.kind = "gap" THEN @ ELSE TRUE,
                                   !.down = IF job.kind \in {"first", "open"} THEN Never ELSE @]
    /\ chain' = Tail(chain) /\ stage' = "idle"
    /\ UNCHANGED <<serverVars, sourceVars, cardVars, rec, hist, faults, race>>

-----------------------------------------------------------------------------
Init ==
    /\ db \in [Cards -> [ver : {0, 1}, at : {0}, start : {0}]]
    /\ \A c \in Still : db[c].ver = 1
    /\ dirty = {} /\ cache = [c \in Cards |-> 0]
    /\ hub = [rt |-> 1, seq |-> 0, now |-> 1]
    /\ src = [s \in Sources |-> IF s = 1 THEN [Closed EXCEPT !.st = "connecting"] ELSE Closed]
    /\ active = 1 /\ pending = 0
    /\ board = [rt |-> 1, visible |-> TRUE, hydrated |-> FALSE, init |-> FALSE,
                attach |-> 1, mark |-> 1, down |-> Never, seen |-> {}]
    /\ shown = [c \in Cards |-> NoCard] /\ touched = {}
    /\ late = [c \in Cards |-> Never] /\ detail = [c \in Cards |-> NoDetail]
    /\ rec = [k \in {"cur", "old"} |-> Idle] /\ hist = [st |-> "idle", page |-> {}]
    /\ chain = <<>> /\ stage = "idle" /\ faults = 0 /\ race = {}

Next ==
    \/ \E c \in Cards : \/ change(c) \/ refresh_and_emit_presentation(c)
                         \/ emit_lifecycle(c) \/ evict_presentation(c)
                         \/ flushDetailQueue(c) \/ refreshDetail(c) \/ detail_failed(c)
    \/ \E s \in Sources : \/ events(s) \/ subscribe_live_event_channels(s) \/ disconnect(s)
                           \/ handleLiveEvent(s) \/ reconnect(s) \/ onopen(s)
    \/ \E k \in {"cur", "old"} : fetch_page(k) \/ merge_page(k) \/ recovery_failed(k)
    \/ tick \/ restart \/ loadEarlier \/ merge_history \/ handover_failed
    \/ hide \/ show \/ sync_status \/ sync_failed \/ recoverVisible \/ sync_done

Spec == Init /\ [][Next]_vars

-----------------------------------------------------------------------------
\* A page of recoverAgent never takes a card back to an earlier version than
\* the one shown: the checkpoint protects live mutations that arrived while
\* the page was fetched.
RecoveryKeepsLive == [][\A c \in Cards : rec["cur"].st = "page" /\ rec'["cur"] # rec["cur"]
                            /\ shown'[c] # shown[c] => shown'[c].ver >= shown[c].ver
                                                      \/ ~board'.visible \/ board'.rt # board.rt]_vars

\* Whatever the board shows was read from the runtime it says it observes,
\* however late a response of the replaced runtime arrives.
RuntimeScoped == \A c \in Cards : shown[c].ver > 0 => shown[c].rt = board.rt

\* Neither a recovered page nor a response of another runtime undoes what the
\* board has shown.
LiveStays == []RuntimeScoped /\ RecoveryKeepsLive

Quiet == /\ dirty = {} /\ chain = <<>> /\ hist.st = "idle" /\ pending = 0
         /\ src[active].st = "open" /\ src[active].chan = <<>> /\ src[active].wire = <<>>
         /\ \A k \in {"cur", "old"} : rec[k].st = "idle"
         /\ \A c \in Cards : detail[c].st = "none"

\* At rest a visible board shows the current version of every card that has
\* changed since it attached, unless a request failed or one of the windows
\* recorded in race was hit: lag, reconnection, restart of the runtime and
\* cache eviction by themselves are always repaired.
ConvergesAtRest ==
    Quiet /\ board.visible /\ race = {} => \A c \in Cards : ~lacks(c)
=============================================================================
