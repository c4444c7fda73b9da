-------------------------- MODULE LiveboardProofs ---------------------------
(***************************************************************************)
(* Proofs about the Liveboard: the cards of a column, which live frames,   *)
(* recovered pages and details change, the output of one command, and the  *)
(* preferences its tabs share.                                             *)
(***************************************************************************)
EXTENDS Liveboard, CommandOutput, SharedBoard, SequenceTheorems, FiniteSetTheorems, TLAPS

-----------------------------------------------------------------------------
(* Queues, whatever they hold *)

IsQueue(q) == \E S : q \in Seq(S)
Elements(q) == {q[i] : i \in DOMAIN q}

LEMMA QueueAppended ==
    ASSUME NEW q, IsQueue(q), NEW x
    PROVE  /\ IsQueue(Append(q, x)) /\ Append(q, x) # <<>>
           /\ q # <<>> => Len(Append(q, x)) > 1
<1>1. PICK S : q \in Seq(S)
  BY DEF IsQueue
<1>2. q \in Seq(S \cup {x}) /\ x \in S \cup {x}
  BY <1>1, SeqMonotonic
<1>3. Append(q, x) \in Seq(S \cup {x}) /\ Append(q, x) # <<>> /\ Len(Append(q, x)) = Len(q) + 1
  BY <1>2, AppendProperties
<1>4. q # <<>> => Len(q) \in Nat \ {0}
  BY <1>1, EmptySeq
<1> QED
  BY <1>3, <1>4 DEF IsQueue

LEMMA QueueShortened ==
    ASSUME NEW q, IsQueue(q), q # <<>>
    PROVE  IsQueue(Tail(q)) /\ (Len(q) > 1 => Tail(q) # <<>>)
<1>1. PICK S : q \in Seq(S)
  BY DEF IsQueue
<1>2. Tail(q) \in Seq(S) /\ Len(Tail(q)) = Len(q) - 1 /\ Len(q) \in Nat
  BY <1>1, HeadTailProperties, LenProperties
<1>3. Tail(q) = <<>> => Len(Tail(q)) = 0
  BY EmptySeq
<1> QED
  BY <1>2, <1>3 DEF IsQueue

LEMMA Queued ==
    ASSUME NEW q, IsQueue(q), NEW x
    PROVE  IsQueue(Append(q, x)) /\ Elements(Append(q, x)) = Elements(q) \cup {x}
<1> DEFINE z == Append(q, x)
<1>1. PICK S : q \in Seq(S)
  BY DEF IsQueue
<1>2. q \in Seq(S \cup {x}) /\ x \in S \cup {x}
  BY <1>1, SeqMonotonic
<1>3. /\ z \in Seq(S \cup {x}) /\ Len(z) = Len(q) + 1 /\ (\A i \in 1..Len(q) : z[i] = q[i]) /\ z[Len(q) + 1] = x
  BY <1>2, AppendProperties
<1>4. Len(q) \in Nat /\ DOMAIN q = 1..Len(q) /\ DOMAIN z = 1..Len(z)
  BY <1>1, <1>3, LenProperties
<1> HIDE DEF z
<1>5. IsQueue(z)
  BY <1>3 DEF IsQueue
<1>6. \A i \in DOMAIN z : i \in DOMAIN q \/ i = Len(q) + 1
  BY <1>3, <1>4
<1>7. DOMAIN q \subseteq DOMAIN z /\ Len(q) + 1 \in DOMAIN z
  BY <1>3, <1>4
<1>8. Elements(z) = Elements(q) \cup {x}
  BY <1>3, <1>4, <1>6, <1>7 DEF Elements
<1> QED
  BY <1>5, <1>8 DEF z

LEMMA Dequeued ==
    ASSUME NEW q, IsQueue(q), q # <<>>
    PROVE  IsQueue(Tail(q)) /\ Elements(Tail(q)) \subseteq Elements(q) /\ Head(q) \in Elements(q)
<1> DEFINE z == Tail(q)
<1>1. PICK S : q \in Seq(S)
  BY DEF IsQueue
<1>2. z \in Seq(S) /\ Len(z) = Len(q) - 1 /\ (\A i \in 1..Len(z) : z[i] = q[i + 1]) /\ Len(q) \in Nat \ {0}
  BY <1>1, HeadTailProperties, EmptySeq
<1>3. DOMAIN q = 1..Len(q) /\ DOMAIN z = 1..Len(z) /\ Head(q) = q[1]
  BY <1>1, <1>2, LenProperties
<1> HIDE DEF z
<1>4. IsQueue(z)
  BY <1>2 DEF IsQueue
<1>5. \A i \in DOMAIN z : i + 1 \in DOMAIN q
  BY <1>2, <1>3
<1>6. Elements(z) \subseteq Elements(q)
  BY <1>2, <1>3, <1>5 DEF Elements
<1>7. 1 \in DOMAIN q
  BY <1>2, <1>3
<1> QED
  BY <1>3, <1>4, <1>6, <1>7 DEF Elements, z

LEMMA NothingQueued == IsQueue(<<>>) /\ Elements(<<>>) = {}
BY DEF IsQueue, Elements

-----------------------------------------------------------------------------
(* Nothing the client applies takes a card back behind a live frame, and   *)
(* whatever it shows it read from the runtime it observes.  No version on  *)
(* its way is newer than the row, so a page just read is not older than    *)
(* what is shown, and until it is merged every card that moves is touched. *)

SourceFields == {"st", "opened", "chan", "skipped", "last", "wire"}
RecoveryFields == {"st", "since", "cursor", "page", "more"}
BoardFields == {"rt", "visible", "hydrated", "init", "attach", "mark", "down", "seen"}

\* Nobody knows a version of a card that its row d[c] has not had.
Had(c, ver, d) == c \in Cards /\ ver \in Nat /\ ver <= d[c].ver
FrameTrue(f, d) == f.ver = 0 \/ Had(f.card, f.ver, d)
Stream(x, d) ==
    /\ x = [f \in SourceFields |-> x[f]] /\ IsQueue(x.chan) /\ IsQueue(x.wire)
    /\ \A e \in Elements(x.chan) : e.card \in Cards
    /\ \A f \in Elements(x.wire) : FrameTrue(f, d)
PageTrue(P, d) == \A x \in P : Had(x[1], x[2], d)

Rows ==
    /\ db = [c \in Cards |-> db[c]] /\ cache = [c \in Cards |-> cache[c]]
    /\ \A c \in Cards : db[c].ver \in Nat /\ Had(c, cache[c], db)
Streams == src = [s \in Sources |-> src[s]] /\ \A s \in Sources : Stream(src[s], db)
Pages ==
    /\ rec = [k \in {"cur", "old"} |-> rec[k]]
    /\ \A k \in {"cur", "old"} : rec[k] = [f \in RecoveryFields |-> rec[k][f]] /\ PageTrue(rec[k].page, db)
    /\ PageTrue(hist.page, db)

\* What is shown, or about to be, was read from the runtime the board observes.
ShownTrue ==
    /\ shown = [c \in Cards |-> shown[c]]
    /\ \A c \in Cards : Had(c, shown[c].ver, db) /\ (shown[c].ver > 0 => shown[c].rt = board.rt)
DetailsTrue ==
    /\ detail = [c \in Cards |-> detail[c]]
    /\ \A c \in Cards : detail[c].st = "answered" => Had(c, detail[c].ver, db) /\ detail[c].rt = board.rt

\* A card that the checkpoint does not protect has not moved since the page was
\* read.
PageIsFresh ==
    rec["cur"].st = "page" =>
        \A x \in rec["cur"].page : x[1] \notin touched => shown[x[1]].ver <= x[2]

BoardKnown == board = [f \in BoardFields |-> board[f]]

LiveInv == Rows /\ Streams /\ Pages /\ ShownTrue /\ DetailsTrue /\ PageIsFresh /\ BoardKnown

\* The action property, as a formula about one step.
KeepsLive ==
    \A c \in Cards : rec["cur"].st = "page" /\ rec'["cur"] # rec["cur"] /\ shown'[c] # shown[c]
        => shown'[c].ver >= shown[c].ver \/ ~board'.visible \/ board'.rt # board.rt

-----------------------------------------------------------------------------
(* The server *)

\* Versions only grow.
LEMMA HadStill ==
    ASSUME NEW d, NEW e, \A c \in Cards : d[c].ver \in Nat /\ e[c].ver \in Nat /\ d[c].ver <= e[c].ver
    PROVE  /\ \A c, ver : Had(c, ver, d) => Had(c, ver, e)
           /\ \A x : Stream(x, d) => Stream(x, e)
           /\ \A P : PageTrue(P, d) => PageTrue(P, e)
<1>1. \A c, ver : Had(c, ver, d) => Had(c, ver, e)
  <2> SUFFICES ASSUME NEW c \in Cards, NEW ver \in Nat, ver <= d[c].ver PROVE ver <= e[c].ver
    BY DEF Had
  <2>1. d[c].ver \in Nat /\ e[c].ver \in Nat /\ d[c].ver <= e[c].ver
    OBVIOUS
  <2> QED
    BY <2>1
<1>2. \A f : FrameTrue(f, d) => FrameTrue(f, e)
  BY <1>1 DEF FrameTrue
<1> QED
  BY <1>1, <1>2 DEF Stream, PageTrue

LEMMA Changed ==
    ASSUME LiveInv, NEW c \in Cards, change(c)
    PROVE  LiveInv' /\ KeepsLive
<1>1. Rows
  BY DEF LiveInv
<1>2. \E x : db' = [db EXCEPT ![c] = x] /\ x.ver = db[c].ver + 1
  <2> DEFINE x == [ver |-> db[c].ver + 1, at |-> hub.now,
                   start |-> IF db[c].ver = 0 THEN hub.now ELSE db[c].start]
  <2>1. db' = [db EXCEPT ![c] = x] /\ x.ver = db[c].ver + 1
    BY DEF change
  <2> QED
    BY <2>1
<1>3. PICK x : db' = [db EXCEPT ![c] = x] /\ x.ver = db[c].ver + 1
  BY <1>2
<1>4. cache' = [cache EXCEPT ![c] = 0]
  BY DEF change
<1>5. /\ db' = [d \in Cards |-> db'[d]] /\ cache' = [d \in Cards |-> cache'[d]]
      /\ db'[c].ver = db[c].ver + 1 /\ cache'[c] = 0
      /\ \A d \in Cards \ {c} : db'[d] = db[d] /\ cache'[d] = cache[d]
  BY <1>1, <1>3, <1>4 DEF Rows
<1>6. \A d \in Cards : db[d].ver \in Nat /\ db'[d].ver \in Nat /\ db[d].ver <= db'[d].ver
  <2>1. db[c].ver \in Nat /\ db'[c].ver \in Nat /\ db[c].ver <= db'[c].ver
    BY <1>1, <1>5 DEF Rows
  <2>2. ASSUME NEW d \in Cards \ {c} PROVE db[d].ver \in Nat /\ db'[d].ver = db[d].ver
    BY <1>1, <1>5 DEF Rows
  <2>3. ASSUME NEW d \in Cards \ {c}
        PROVE  db[d].ver \in Nat /\ db'[d].ver \in Nat /\ db[d].ver <= db'[d].ver
    BY <2>2
  <2> QED
    BY <2>1, <2>3
<1>7. \A d \in Cards : Had(d, cache'[d], db')
  <2>1. Had(c, cache'[c], db')
    BY <1>5, <1>6 DEF Had
  <2>2. \A d \in Cards \ {c} : Had(d, cache[d], db')
    BY <1>1, <1>6, HadStill DEF Rows
  <2> QED
    BY <1>5, <2>1, <2>2
<1>8. Rows'
  BY <1>5, <1>6, <1>7 DEF Rows
<1>9. UNCHANGED <<src, rec, hist, shown, detail, touched, board>>
  BY DEF change, sourceVars, cardVars, fetchVars
<1>10. Streams' /\ Pages' /\ ShownTrue' /\ DetailsTrue'
  BY <1>6, <1>9, HadStill DEF LiveInv, Streams, Pages, ShownTrue, DetailsTrue
<1> QED
  BY <1>8, <1>9, <1>10 DEF LiveInv, PageIsFresh, BoardKnown, KeepsLive

\* Only the streams move, and what has been cached.
LEMMA OnlyStreams ==
    ASSUME LiveInv, Rows', Streams', UNCHANGED <<db, rec, hist, shown, detail, touched>>,
           board'.rt = board.rt, BoardKnown'
    PROVE  LiveInv' /\ KeepsLive
<1>1. Pages' /\ ShownTrue' /\ DetailsTrue' /\ PageIsFresh'
  BY DEF LiveInv, Pages, ShownTrue, DetailsTrue, PageIsFresh
<1> QED
  BY <1>1 DEF LiveInv, KeepsLive

LEMMA StreamMoves ==
    ASSUME LiveInv, NEW s \in Sources, NEW x, src' = [src EXCEPT ![s] = x], Stream(x, db), UNCHANGED db
    PROVE  Streams'
BY DEF LiveInv, Streams

\* A send to a bounded channel drops its oldest event at most.
LEMMA EventSent ==
    ASSUME NEW x, Stream(x, db), NEW ev, ev.card \in Cards
    PROVE  /\ Stream([x EXCEPT !.chan = Append(@, ev)], db)
           /\ ~(Len(x.chan) < Cap) => Stream([x EXCEPT !.chan = Append(Tail(@), ev), !.skipped = @ + 1], db)
<1> DEFINE y == [x EXCEPT !.chan = Append(@, ev)]
           z == [x EXCEPT !.chan = Append(Tail(@), ev), !.skipped = @ + 1]
<1>1. y = [f \in SourceFields |-> y[f]] /\ y.chan = Append(x.chan, ev) /\ y.wire = x.wire
  BY DEF Stream, SourceFields
<1>2. z = [f \in SourceFields |-> z[f]] /\ z.chan = Append(Tail(x.chan), ev) /\ z.wire = x.wire
  BY DEF Stream, SourceFields
<1> HIDE DEF y, z
<1>3. Stream(y, db)
  <2>1. IsQueue(Append(x.chan, ev)) /\ Elements(Append(x.chan, ev)) = Elements(x.chan) \cup {ev}
    BY Queued DEF Stream
  <2> QED
    BY <1>1, <2>1 DEF Stream
<1>4. ASSUME ~(Len(x.chan) < Cap) PROVE Stream(z, db)
  <2>1. x.chan # <<>>
    BY <1>4, LiveboardAssumption
  <2>2. IsQueue(Tail(x.chan)) /\ Elements(Tail(x.chan)) \subseteq Elements(x.chan)
    BY <2>1, Dequeued DEF Stream
  <2>3. /\ IsQueue(Append(Tail(x.chan), ev))
        /\ Elements(Append(Tail(x.chan), ev)) = Elements(Tail(x.chan)) \cup {ev}
    BY <2>2, Queued
  <2> QED
    BY <1>2, <2>2, <2>3 DEF Stream
<1> QED
  BY <1>3, <1>4 DEF y, z

LEMMA Emitted ==
    ASSUME LiveInv, NEW kind, NEW c \in Cards, emit_with(kind, c), UNCHANGED db
    PROVE  Streams'
<1> DEFINE ev == [kind |-> kind, seq |-> hub.seq + 1, card |-> c, at |-> hub.now]
<1>1. CASE UNCHANGED src
  BY <1>1 DEF LiveInv, Streams
<1>2. CASE src' = send(ev)
  <2>1. ev.card \in Cards
    OBVIOUS
  <2> HIDE DEF ev
  <2>2. src' = [s \in Sources |-> src'[s]]
    BY <1>2 DEF send
  <2>3. ASSUME NEW s \in Sources PROVE Stream(src'[s], db)
    <3> DEFINE x == src[s]
    <3>1. Stream(x, db)
      BY DEF LiveInv, Streams
    <3>2. \/ src'[s] = x
          \/ src'[s] = [x EXCEPT !.chan = Append(@, ev)]
          \/ /\ ~(Len(x.chan) < Cap)
             /\ src'[s] = [x EXCEPT !.chan = Append(Tail(@), ev), !.skipped = @ + 1]
      BY <1>2 DEF send
    <3> HIDE DEF x
    <3>3. /\ Stream([x EXCEPT !.chan = Append(@, ev)], db)
          /\ ~(Len(x.chan) < Cap) => Stream([x EXCEPT !.chan = Append(Tail(@), ev), !.skipped = @ + 1], db)
      BY <2>1, <3>1, EventSent
    <3> QED
      BY <3>1, <3>2, <3>3
  <2> QED
    BY <2>2, <2>3 DEF Streams
<1> QED
  BY <1>1, <1>2 DEF emit_with

LEMMA ServerEmits ==
    ASSUME LiveInv, NEW c \in Cards,
           refresh_and_emit_presentation(c) \/ emit_lifecycle(c) \/ evict_presentation(c)
    PROVE  LiveInv' /\ KeepsLive
<1>1. UNCHANGED <<db, rec, hist, shown, detail, touched, board>>
  BY DEF refresh_and_emit_presentation, emit_lifecycle, evict_presentation, cardVars, fetchVars
<1>2. cache' \in {cache, [cache EXCEPT ![c] = db[c].ver], [cache EXCEPT ![c] = 0]}
  BY DEF refresh_and_emit_presentation, emit_lifecycle, evict_presentation
<1>3. Rows'
  <2>1. Rows
    BY DEF LiveInv
  <2>2. /\ cache' = [d \in Cards |-> cache'[d]] /\ cache'[c] \in {cache[c], db[c].ver, 0}
        /\ \A d \in Cards \ {c} : cache'[d] = cache[d]
    BY <1>2, <2>1 DEF Rows
  <2>3. Had(c, db[c].ver, db) /\ Had(c, 0, db)
    BY <2>1 DEF Rows, Had
  <2>4. \A d \in Cards : Had(d, cache'[d], db)
    BY <2>1, <2>2, <2>3 DEF Rows
  <2> QED
    BY <1>1, <2>1, <2>2, <2>4 DEF Rows
<1>4. Streams'
  <2>1. CASE UNCHANGED src
    BY <1>1, <2>1 DEF LiveInv, Streams
  <2>2. CASE \E kind : emit_with(kind, c)
    BY <1>1, <2>2, Emitted
  <2> QED
    BY <2>1, <2>2 DEF refresh_and_emit_presentation, emit_lifecycle, evict_presentation, sourceVars
<1>5. BoardKnown'
  BY <1>1 DEF LiveInv, BoardKnown
<1> QED
  BY <1>1, <1>3, <1>4, <1>5, OnlyStreams

LEMMA Framed ==
    ASSUME LiveInv, NEW s \in Sources, events(s)
    PROVE  Streams'
<1> DEFINE x == src[s]
           ev == Head(x.chan)
           gap == [kind |-> "gap", rt |-> hub.rt, seq |-> x.last + x.skipped,
                   card |-> 0, ver |-> 0, at |-> hub.now]
           frame == [kind |-> ev.kind, rt |-> hub.rt, seq |-> ev.seq, card |-> ev.card,
                     ver |-> IF ev.kind = "updated" THEN cache[ev.card] ELSE 0, at |-> ev.at]
           y == [x EXCEPT !.wire = Append(@, gap), !.skipped = 0, !.last = gap.seq]
           z == [x EXCEPT !.wire = Append(@, frame), !.chan = Tail(@), !.last = ev.seq]
<1>1. /\ src' = [src EXCEPT ![s] = IF x.skipped > 0 THEN y ELSE z] /\ x.chan # <<>> /\ UNCHANGED db
  BY DEF events, serverVars
<1>2. Stream(x, db) /\ Rows
  BY DEF LiveInv, Streams
<1>3. FrameTrue(gap, db)
  BY DEF FrameTrue
<1>4. FrameTrue(frame, db)
  <2>1. ev.card \in Cards
    BY <1>1, <1>2, Dequeued DEF Stream
  <2>2. Had(ev.card, cache[ev.card], db)
    BY <1>2, <2>1 DEF Rows
  <2>3. frame.ver = 0 \/ (frame.ver = cache[frame.card] /\ frame.card = ev.card)
    OBVIOUS
  <2> HIDE DEF frame
  <2> QED
    BY <2>2, <2>3 DEF FrameTrue
<1> HIDE DEF gap, frame, ev, x
<1>5. y = [f \in SourceFields |-> y[f]] /\ y.chan = x.chan /\ y.wire = Append(x.wire, gap)
  BY <1>2 DEF Stream, SourceFields
<1>6. z = [f \in SourceFields |-> z[f]] /\ z.chan = Tail(x.chan) /\ z.wire = Append(x.wire, frame)
  BY <1>2 DEF Stream, SourceFields
<1> HIDE DEF y, z
<1>7. Stream(y, db)
  <2>1. IsQueue(Append(x.wire, gap)) /\ Elements(Append(x.wire, gap)) = Elements(x.wire) \cup {gap}
    BY <1>2, Queued DEF Stream
  <2> QED
    BY <1>2, <1>3, <1>5, <2>1 DEF Stream
<1>8. Stream(z, db)
  <2>1. IsQueue(Append(x.wire, frame)) /\ Elements(Append(x.wire, frame)) = Elements(x.wire) \cup {frame}
    BY <1>2, Queued DEF Stream
  <2>2. IsQueue(z.chan) /\ Elements(z.chan) \subseteq Elements(x.chan)
    BY <1>1, <1>2, <1>6, Dequeued DEF Stream
  <2> QED
    BY <1>2, <1>4, <1>6, <2>1, <2>2 DEF Stream
<1> QED
  BY <1>1, <1>7, <1>8, StreamMoves

\* A connection that begins, breaks or is closed carries nothing.
LEMMA Silent ==
    ASSUME NEW d, NEW x, x = [f \in SourceFields |-> x[f]], x.chan = <<>>, x.wire = <<>>
    PROVE  Stream(x, d)
BY NothingQueued DEF Stream

LEMMA ClosedSilent ==
    ASSUME NEW d, NEW st, NEW opened
    PROVE  /\ Stream(Closed, d) /\ Stream([Closed EXCEPT !.st = st], d)
           /\ Stream([Closed EXCEPT !.st = st, !.opened = opened], d)
BY Silent DEF Closed, SourceFields

LEMMA SameStream ==
    ASSUME NEW d, NEW x, Stream(x, d), NEW st, NEW opened
    PROVE  Stream([x EXCEPT !.st = st], d) /\ Stream([x EXCEPT !.st = st, !.opened = opened], d)
<1> DEFINE y == [x EXCEPT !.st = st]
           z == [x EXCEPT !.st = st, !.opened = opened]
<1>1. y = [f \in SourceFields |-> y[f]] /\ y.chan = x.chan /\ y.wire = x.wire
  BY DEF Stream, SourceFields
<1>2. z = [f \in SourceFields |-> z[f]] /\ z.chan = x.chan /\ z.wire = x.wire
  BY DEF Stream, SourceFields
<1> HIDE DEF y, z
<1>3. Stream(y, d) /\ Stream(z, d)
  BY <1>1, <1>2 DEF Stream
<1> QED
  BY <1>3 DEF y, z

LEMMA StreamSteps ==
    ASSUME LiveInv, NEW s \in Sources,
           \/ events(s) \/ subscribe_live_event_channels(s) \/ disconnect(s) \/ reconnect(s)
           \/ onopen(s) \/ handover_failed \/ tick \/ restart
    PROVE  LiveInv' /\ KeepsLive
<1> USE DEF serverVars, sourceVars, cardVars, fetchVars
<1>1. UNCHANGED <<db, rec, hist, shown, detail, touched>>
  BY DEF events, subscribe_live_event_channels, disconnect, reconnect, onopen, handover_failed, tick, restart
<1>2. Rows'
  <2>1. cache' = cache \/ cache' = [c \in Cards |-> 0]
    BY DEF events, subscribe_live_event_channels, disconnect, reconnect, onopen, handover_failed, tick, restart
  <2>2. Rows /\ \A c \in Cards : Had(c, 0, db)
    BY DEF LiveInv, Rows, Had
  <2> QED
    BY <1>1, <2>1, <2>2 DEF Rows
<1>3. board'.rt = board.rt /\ BoardKnown'
  <2>1. CASE UNCHANGED board
    BY <2>1 DEF LiveInv, BoardKnown
  <2>2. CASE reconnect(s)
    <3>1. PICK down : board' = board \/ board' = [board EXCEPT !.down = down]
      BY <2>2 DEF reconnect
    <3> QED
      BY <3>1 DEF LiveInv, BoardKnown, BoardFields
  <2> QED
    BY <2>1, <2>2
       DEF events, subscribe_live_event_channels, disconnect, reconnect, onopen, handover_failed, tick, restart
<1>4. Streams /\ Stream(src[s], db) /\ src = [t \in Sources |-> src[t]] /\ UNCHANGED db
  BY <1>1 DEF LiveInv, Streams
<1>5. CASE events(s)
  BY <1>1, <1>2, <1>3, <1>5, Framed, OnlyStreams
<1>6. CASE subscribe_live_event_channels(s)
  <2> DEFINE x == [src[s] EXCEPT !.st = "subscribed", !.chan = <<>>, !.skipped = 0, !.last = hub.seq,
                                 !.wire = <<>>]
  <2>1. src' = [src EXCEPT ![s] = x]
    BY <1>6 DEF subscribe_live_event_channels
  <2>2. x = [f \in SourceFields |-> x[f]] /\ x.chan = <<>> /\ x.wire = <<>>
    BY <1>4 DEF Stream, SourceFields
  <2> HIDE DEF x
  <2>3. Stream(x, db)
    BY <2>2, Silent
  <2> QED
    BY <1>1, <1>2, <1>3, <1>4, <2>1, <2>3, StreamMoves, OnlyStreams
<1>7. CASE disconnect(s)
  <2>1. src' = [src EXCEPT ![s] = [Closed EXCEPT !.st = "broken", !.opened = src[s].opened]]
    BY <1>7 DEF disconnect
  <2> QED
    BY <1>1, <1>2, <1>3, <1>4, <2>1, ClosedSilent, StreamMoves, OnlyStreams
<1>8. CASE reconnect(s)
  <2> DEFINE x == [src[s] EXCEPT !.st = "connecting"]
  <2>1. src' = [src EXCEPT ![s] = x]
    BY <1>4, <1>8 DEF reconnect
  <2>2. Stream(x, db)
    BY <1>4, SameStream
  <2> QED
    BY <1>1, <1>2, <1>3, <1>4, <2>1, <2>2, StreamMoves, OnlyStreams
<1>9. CASE onopen(s)
  <2> DEFINE x == [src[s] EXCEPT !.st = "open", !.opened = TRUE]
             to == [src EXCEPT ![s] = x]
  <2>1. src' = to \/ src' = [src EXCEPT ![s] = x, ![active] = Closed]
    BY <1>9 DEF onopen
  <2>2. Stream(x, db) /\ Stream(Closed, db)
    BY <1>4, SameStream, ClosedSilent
  <2> HIDE DEF x
  <2>3. src' = [t \in Sources |-> src'[t]] /\ \A t \in Sources : src'[t] \in {src[t], x, Closed}
    BY <1>4, <2>1
  <2>4. Streams'
    BY <1>4, <2>2, <2>3 DEF Streams
  <2> QED
    BY <1>1, <1>2, <1>3, <2>4, OnlyStreams
<1>10. CASE handover_failed
  <2> DEFINE x == [Closed EXCEPT !.st = "connecting"]
  <2>1. src' = [src EXCEPT ![pending] = x]
    BY <1>10 DEF handover_failed
  <2>2. Stream(x, db)
    BY ClosedSilent
  <2> HIDE DEF x
  <2>3. src' = [t \in Sources |-> src'[t]] /\ \A t \in Sources : src'[t] \in {src[t], x}
    BY <1>4, <2>1
  <2>4. Streams'
    BY <1>4, <2>2, <2>3 DEF Streams
  <2> QED
    BY <1>1, <1>2, <1>3, <2>4, OnlyStreams
<1>11. CASE tick
  <2>1. Streams'
    BY <1>4, <1>11 DEF tick, Streams
  <2> QED
    BY <1>1, <1>2, <1>3, <2>1, OnlyStreams
<1>12. CASE restart
  <2>1. src' = [t \in Sources |-> src'[t]]
        /\ \A t \in Sources : src'[t] \in {src[t], [Closed EXCEPT !.st = "broken", !.opened = src[t].opened]}
    BY <1>12 DEF restart
  <2>2. \A t \in Sources : Stream([Closed EXCEPT !.st = "broken", !.opened = src[t].opened], db)
    BY ClosedSilent
  <2>3. \A t \in Sources : Stream(src'[t], db)
    BY <1>4, <2>1, <2>2 DEF Streams
  <2>4. Streams'
    BY <1>4, <2>1, <2>3 DEF Streams
  <2> QED
    BY <1>1, <1>2, <1>3, <2>4, OnlyStreams
<1> QED
  BY <1>5, <1>6, <1>7, <1>8, <1>9, <1>10, <1>11, <1>12

-----------------------------------------------------------------------------
(* The client *)

\* The board shows a version of c that the observed runtime gave, and c is
\* touched.
LEMMA Upserted ==
    ASSUME LiveInv, NEW c \in Cards, NEW x, Had(c, x.ver, db), x.rt = board.rt,
           shown' = [shown EXCEPT ![c] = x], touched' = touched \cup {c},
           UNCHANGED <<db, rec>>, board'.rt = board.rt
    PROVE  ShownTrue' /\ PageIsFresh'
<1>1. /\ shown' = [d \in Cards |-> shown'[d]] /\ shown'[c] = x
      /\ \A d \in Cards \ {c} : shown'[d] = shown[d]
  BY DEF LiveInv, ShownTrue
<1>2. ShownTrue'
  BY <1>1 DEF LiveInv, ShownTrue
<1>3. \A y \in rec["cur"].page : y[1] \in Cards
  BY DEF LiveInv, Pages, PageTrue, Had
<1>4. PageIsFresh'
  BY <1>1, <1>3 DEF LiveInv, PageIsFresh
<1> QED
  BY <1>2, <1>4

LEMMA DetailDropped ==
    ASSUME LiveInv, NEW c, NEW x, x.st # "answered", detail' = [detail EXCEPT ![c] = x],
           UNCHANGED db, board'.rt = board.rt
    PROVE  DetailsTrue'
<1>1. detail' = [d \in Cards |-> detail'[d]] /\ \A d \in Cards : detail'[d] \in {detail[d], x}
  BY DEF LiveInv, DetailsTrue
<1> QED
  BY <1>1 DEF LiveInv, DetailsTrue

LEMMA FrameHandled ==
    ASSUME LiveInv, NEW s \in Sources, handleLiveEvent(s)
    PROVE  LiveInv' /\ KeepsLive
<1> DEFINE f == Head(src[s].wire)
           x == [src[s] EXCEPT !.wire = Tail(@)]
<1>1. UNCHANGED <<db, cache, rec, hist>> /\ src[s].wire # <<>> /\ src' = [src EXCEPT ![s] = x]
  BY DEF handleLiveEvent, serverVars, LiveInv, Streams
<1>2. Stream(src[s], db)
  BY DEF LiveInv, Streams
<1>3. /\ f \in Elements(src[s].wire) /\ IsQueue(Tail(src[s].wire))
      /\ Elements(Tail(src[s].wire)) \subseteq Elements(src[s].wire)
  BY <1>1, <1>2, Dequeued DEF Stream
<1>4. Streams'
  <2>1. x = [g \in SourceFields |-> x[g]] /\ x.chan = src[s].chan /\ x.wire = Tail(src[s].wire)
    BY <1>2 DEF Stream, SourceFields
  <2> HIDE DEF x
  <2>2. Stream(x, db)
    BY <1>2, <1>3, <2>1 DEF Stream
  <2> QED
    BY <1>1, <2>2, StreamMoves
<1>5. FrameTrue(f, db)
  BY <1>2, <1>3 DEF Stream
<1>6. Rows' /\ Pages'
  BY <1>1 DEF LiveInv, Rows, Pages
<1>7. board'.rt = board.rt /\ board'.visible = board.visible /\ BoardKnown'
  <2>1. \E seen, mark : board' = board \/ board' = [board EXCEPT !.seen = seen]
                        \/ board' = [board EXCEPT !.seen = seen, !.mark = mark]
    BY DEF handleLiveEvent
  <2>2. PICK seen, mark : board' = board \/ board' = [board EXCEPT !.seen = seen]
                          \/ board' = [board EXCEPT !.seen = seen, !.mark = mark]
    BY <2>1
  <2> QED
    BY <2>2 DEF LiveInv, BoardKnown, BoardFields
<1>8. \/ UNCHANGED cardVars
      \/ f.ver > 0 /\ apply_record(f.card, f.ver)
      \/ scheduleDetailRefresh(f.card, f.at)
  BY DEF handleLiveEvent
<1> HIDE DEF f, x
<1>9. ShownTrue' /\ DetailsTrue' /\ PageIsFresh'
  <2>1. CASE UNCHANGED <<shown, touched>>
    <3>1. ShownTrue' /\ PageIsFresh'
      BY <1>1, <1>7, <2>1 DEF LiveInv, ShownTrue, PageIsFresh
    <3>2. UNCHANGED detail \/ \E y : y.st # "answered" /\ detail' = [detail EXCEPT ![f.card] = y]
      BY <1>8 DEF apply_record, scheduleDetailRefresh, NoDetail, cardVars
    <3>3. DetailsTrue'
      BY <1>1, <1>7, <3>2, DetailDropped DEF LiveInv, DetailsTrue
    <3> QED
      BY <3>1, <3>3
  <2>2. CASE f.ver > 0 /\ apply_record(f.card, f.ver) /\ board.visible
    <3> DEFINE y == [ver |-> f.ver, rt |-> board.rt]
    <3>1. Had(f.card, f.ver, db)
      BY <1>5, <2>2 DEF FrameTrue
    <3>2. f.card \in Cards /\ y.ver = f.ver /\ y.rt = board.rt
      BY <3>1 DEF Had
    <3>3. shown' = [shown EXCEPT ![f.card] = y] /\ touched' = touched \cup {f.card}
          /\ detail' = [detail EXCEPT ![f.card] = NoDetail]
      BY <2>2 DEF apply_record, upsert
    <3>4. NoDetail.st # "answered"
      BY DEF NoDetail
    <3> HIDE DEF y
    <3>5. ShownTrue' /\ PageIsFresh'
      BY <1>1, <1>7, <3>1, <3>2, <3>3, Upserted
    <3>6. DetailsTrue'
      BY <1>1, <1>7, <3>3, <3>4, DetailDropped
    <3> QED
      BY <3>5, <3>6
  <2> QED
    BY <1>8, <2>1, <2>2 DEF apply_record, scheduleDetailRefresh, cardVars
<1> QED
  BY <1>1, <1>4, <1>6, <1>7, <1>9 DEF LiveInv, KeepsLive

LEMMA DetailSteps ==
    ASSUME LiveInv, NEW c \in Cards, flushDetailQueue(c) \/ refreshDetail(c) \/ detail_failed(c)
    PROVE  LiveInv' /\ KeepsLive
<1>1. UNCHANGED <<db, cache, src, board, rec, hist>>
  BY DEF flushDetailQueue, refreshDetail, detail_failed, serverVars, sourceVars, fetchVars
<1>2. Rows' /\ Streams' /\ Pages' /\ BoardKnown'
  BY <1>1 DEF LiveInv, Rows, Streams, Pages, BoardKnown
<1>3. ShownTrue' /\ PageIsFresh'
  <2>1. CASE UNCHANGED <<shown, touched>>
    BY <1>1, <2>1 DEF LiveInv, ShownTrue, PageIsFresh
  <2>2. CASE refreshDetail(c) /\ board.visible
    <3> DEFINE x == [ver |-> detail[c].ver, rt |-> detail[c].rt]
    <3>1. shown' = [shown EXCEPT ![c] = x] /\ touched' = touched \cup {c} /\ detail[c].st = "answered"
      BY <2>2 DEF refreshDetail
    <3>2. Had(c, x.ver, db) /\ x.rt = board.rt
      BY <3>1 DEF LiveInv, DetailsTrue
    <3> HIDE DEF x
    <3> QED
      BY <1>1, <3>1, <3>2, Upserted
  <2> QED
    BY <2>1, <2>2 DEF flushDetailQueue, refreshDetail, detail_failed
<1>4. DetailsTrue'
  <2>1. CASE flushDetailQueue(c)
    <3> DEFINE x == [st |-> "answered", ver |-> db[c].ver, rt |-> hub.rt]
    <3>1. detail' = [detail EXCEPT ![c] = x] /\ x.ver = db[c].ver /\ x.rt = board.rt
      BY <2>1 DEF flushDetailQueue
    <3> HIDE DEF x
    <3>2. /\ detail' = [d \in Cards |-> detail'[d]] /\ detail'[c] = x
          /\ \A d \in Cards \ {c} : detail'[d] = detail[d]
      BY <3>1 DEF LiveInv, DetailsTrue
    <3>3. Had(c, x.ver, db)
      BY <3>1 DEF LiveInv, Rows, Had
    <3> QED
      BY <1>1, <3>1, <3>2, <3>3 DEF LiveInv, DetailsTrue
  <2>2. CASE refreshDetail(c) \/ detail_failed(c)
    <3>1. detail' = [detail EXCEPT ![c] = NoDetail] /\ NoDetail.st # "answered"
      BY <2>2 DEF refreshDetail, detail_failed, NoDetail
    <3> QED
      BY <1>1, <3>1, DetailDropped
  <2> QED
    BY <2>1, <2>2
<1> QED
  BY <1>1, <1>2, <1>3, <1>4 DEF LiveInv, KeepsLive

-----------------------------------------------------------------------------
(* Recoveries and the synchronization *)

\* A page holds the rows' current versions.
LEMMA JustRead ==
    ASSUME LiveInv, NEW C \in SUBSET Cards
    PROVE  PageTrue(snapshot(C), db) /\ \A x \in snapshot(C) : x[1] \in C /\ x[2] = db[x[1]].ver
BY DEF snapshot, PageTrue, Had, LiveInv, Rows

LEMMA NoPage ==
    ASSUME NEW d
    PROVE  /\ PageTrue({}, d) /\ Idle = [f \in RecoveryFields |-> Idle[f]] /\ Idle.page = {} /\ Idle.st = "idle"
           /\ \A since, cursor : LET r == [Idle EXCEPT !.st = "fetch", !.since = since, !.cursor = cursor] IN
                 r = [f \in RecoveryFields |-> r[f]] /\ r.page = {} /\ r.st = "fetch"
BY DEF PageTrue, Idle, RecoveryFields

\* Of one controller's recovery; what is shown stays.
LEMMA RecoveryMoves ==
    ASSUME LiveInv, NEW k \in {"cur", "old"}, NEW r, rec' = [rec EXCEPT ![k] = r],
           r = [f \in RecoveryFields |-> r[f]], PageTrue(r.page, db), UNCHANGED <<db, hist>>
    PROVE  Pages' /\ rec'[k] = r /\ \A l \in {"cur", "old"} \ {k} : rec'[l] = rec[l]
BY DEF LiveInv, Pages

LEMMA PageFetched ==
    ASSUME LiveInv, NEW k \in {"cur", "old"}, fetch_page(k)
    PROVE  LiveInv' /\ KeepsLive
<1> DEFINE P == page(rec[k].since, rec[k].cursor)
<1>1. PICK more, cursor : rec' = [rec EXCEPT ![k] = [rec[k] EXCEPT !.st = "page", !.page = snapshot(P),
                                                                   !.more = more, !.cursor = cursor]]
  BY DEF fetch_page
<1> DEFINE r == [rec[k] EXCEPT !.st = "page", !.page = snapshot(P), !.more = more, !.cursor = cursor]
<1>2. rec' = [rec EXCEPT ![k] = r]
  BY <1>1
<1>3. UNCHANGED <<db, cache, src, board, shown, touched, detail, hist>> /\ rec[k].st = "fetch"
  BY DEF fetch_page, serverVars, sourceVars, cardVars
<1>4. P \in SUBSET Cards
  BY DEF page, beyond, recoverable
<1> HIDE DEF P
<1>5. PageTrue(snapshot(P), db) /\ \A x \in snapshot(P) : x[1] \in P /\ x[2] = db[x[1]].ver
  BY <1>4, JustRead
<1>6. r = [f \in RecoveryFields |-> r[f]] /\ r.page = snapshot(P)
  <2>1. rec[k] = [f \in RecoveryFields |-> rec[k][f]]
    BY DEF LiveInv, Pages
  <2> QED
    BY <2>1 DEF RecoveryFields
<1> HIDE DEF r
<1>7. Pages' /\ rec'[k] = r /\ \A l \in {"cur", "old"} \ {k} : rec'[l] = rec[l]
  BY <1>2, <1>3, <1>5, <1>6, RecoveryMoves
<1>8. PageIsFresh'
  <2>1. CASE k = "cur"
    <3>1. ASSUME NEW x \in snapshot(P) PROVE shown[x[1]].ver <= x[2]
      BY <1>4, <1>5 DEF LiveInv, ShownTrue, Had
    <3> QED
      BY <1>3, <1>6, <1>7, <2>1, <3>1 DEF PageIsFresh
  <2>2. CASE k = "old"
    BY <1>3, <1>7, <2>2 DEF LiveInv, PageIsFresh
  <2> QED
    BY <2>1, <2>2
<1>9. Rows' /\ Streams' /\ ShownTrue' /\ DetailsTrue' /\ BoardKnown'
  BY <1>3 DEF LiveInv, Rows, Streams, ShownTrue, DetailsTrue, BoardKnown
<1> QED
  BY <1>3, <1>7, <1>8, <1>9 DEF LiveInv, KeepsLive

\* Merging true records shows them; what is touched since the checkpoint is not
\* among those a recovery changes.
LEMMA Merged ==
    ASSUME LiveInv, NEW P, PageTrue(P, db), NEW checkpointed \in BOOLEAN, merge(P, checkpointed),
           UNCHANGED db, board'.rt = board.rt
    PROVE  /\ ShownTrue' /\ touched \subseteq touched'
           /\ \A c \in Cards : shown'[c] # shown[c] =>
                 /\ c \in touched' /\ (checkpointed => c \notin touched)
                 /\ \E x \in P : x[1] = c /\ shown'[c].ver = x[2]
<1> DEFINE Of(c) == CHOOSE x \in P : x[1] = c
           Changes(c) == (\E x \in P : x[1] = c) /\ ~(checkpointed /\ c \in touched)
<1>1. /\ shown' = [c \in Cards |-> IF Changes(c) THEN [ver |-> Of(c)[2], rt |-> board.rt] ELSE shown[c]]
      /\ touched' = touched \cup {x[1] : x \in P}
  BY DEF merge, mergeRecovery
<1>2. \A c \in Cards : Changes(c) => Of(c) \in P /\ Of(c)[1] = c
  OBVIOUS
<1>3. \A c \in Cards : ~Changes(c) => shown'[c] = shown[c]
  BY <1>1
<1>4. \A c \in Cards : Changes(c) => shown'[c].ver = Of(c)[2] /\ shown'[c].rt = board.rt
  BY <1>1
<1>5. shown' = [c \in Cards |-> shown'[c]]
  BY <1>1
<1>6. \A c \in Cards : Changes(c) => c \in touched' /\ (checkpointed => c \notin touched)
  BY <1>1
<1> HIDE DEF Of, Changes
<1>7. \A c \in Cards : Had(c, shown'[c].ver, db) /\ (shown'[c].ver > 0 => shown'[c].rt = board.rt)
  BY <1>2, <1>3, <1>4 DEF PageTrue, LiveInv, ShownTrue
<1>8. ShownTrue'
  BY <1>5, <1>7 DEF ShownTrue
<1>9. touched \subseteq touched'
  BY <1>1
<1> QED
  BY <1>2, <1>3, <1>4, <1>6, <1>8, <1>9

LEMMA PageMerged ==
    ASSUME LiveInv, NEW k \in {"cur", "old"}, merge_page(k)
    PROVE  LiveInv' /\ KeepsLive
<1> DEFINE r == IF rec[k].more THEN [rec[k] EXCEPT !.st = "fetch", !.page = {}] ELSE Idle
<1>1. /\ UNCHANGED <<db, cache, src, detail, hist>> /\ rec[k].st = "page"
      /\ rec' = [rec EXCEPT ![k] = r]
      /\ IF k = "cur" THEN merge(rec[k].page, TRUE) ELSE UNCHANGED <<shown, touched>>
  BY DEF merge_page, serverVars, sourceVars
<1>2. board'.rt = board.rt /\ BoardKnown'
  <2>1. board' = board \/ board' = [board EXCEPT !.hydrated = TRUE]
    BY DEF merge_page
  <2> QED
    BY <2>1 DEF LiveInv, BoardKnown, BoardFields
<1>3. r = [f \in RecoveryFields |-> r[f]] /\ r.page = {} /\ r.st # "page"
  <2>1. rec[k] = [f \in RecoveryFields |-> rec[k][f]]
    BY DEF LiveInv, Pages
  <2> QED
    BY <2>1, NoPage DEF RecoveryFields
<1>4. PageTrue({}, db) /\ PageTrue(rec[k].page, db)
  BY NoPage DEF LiveInv, Pages
<1> HIDE DEF r
<1>5. Pages' /\ rec'[k] = r /\ \A l \in {"cur", "old"} \ {k} : rec'[l] = rec[l]
  BY <1>1, <1>3, <1>4, RecoveryMoves
<1>6. Rows' /\ Streams' /\ DetailsTrue'
  BY <1>1, <1>2 DEF LiveInv, Rows, Streams, DetailsTrue
<1>7. CASE k = "old"
  <2>1. ShownTrue' /\ PageIsFresh'
    BY <1>1, <1>2, <1>5, <1>7 DEF LiveInv, ShownTrue, PageIsFresh
  <2> QED
    BY <1>1, <1>2, <1>5, <1>6, <1>7, <2>1 DEF LiveInv, KeepsLive
<1>8. CASE k = "cur"
  <2>1. /\ ShownTrue'
        /\ \A c \in Cards : shown'[c] # shown[c] =>
              c \notin touched /\ \E x \in rec["cur"].page : x[1] = c /\ shown'[c].ver = x[2]
    <3> DEFINE P == rec["cur"].page
    <3>1. merge(P, TRUE) /\ PageTrue(P, db) /\ UNCHANGED db /\ board'.rt = board.rt
      BY <1>1, <1>2, <1>4, <1>8
    <3> HIDE DEF P
    <3>2. /\ ShownTrue'
          /\ \A c \in Cards : shown'[c] # shown[c] =>
                c \notin touched /\ \E x \in P : x[1] = c /\ shown'[c].ver = x[2]
      <4>1. PICK b \in BOOLEAN : b = TRUE
        OBVIOUS
      <4>2. merge(P, b)
        BY <3>1, <4>1
      <4>3. /\ ShownTrue'
            /\ \A c \in Cards : shown'[c] # shown[c] =>
                  (b => c \notin touched) /\ \E x \in P : x[1] = c /\ shown'[c].ver = x[2]
        BY <3>1, <4>2, Merged
      <4> QED
        BY <4>1, <4>3
    <3> QED
      BY <3>2 DEF P
  <2>2. PageIsFresh'
    BY <1>3, <1>5, <1>8 DEF PageIsFresh
  <2>3. ASSUME NEW c \in Cards, shown'[c] # shown[c]
        PROVE  shown'[c].ver >= shown[c].ver
    <3>1. PICK x \in rec["cur"].page : x[1] = c /\ shown'[c].ver = x[2]
      BY <2>1, <2>3
    <3>2. shown[c].ver <= x[2]
      BY <1>1, <1>8, <2>1, <2>3, <3>1 DEF LiveInv, PageIsFresh
    <3>3. shown[c].ver \in Nat /\ shown'[c].ver \in Nat
      BY <2>1 DEF LiveInv, ShownTrue, Had
    <3> QED
      BY <3>1, <3>2, <3>3
  <2> QED
    BY <1>2, <1>5, <1>6, <2>1, <2>2, <2>3 DEF LiveInv, KeepsLive
<1> QED
  BY <1>7, <1>8

LEMMA HistorySteps ==
    ASSUME LiveInv, loadEarlier \/ merge_history
    PROVE  LiveInv' /\ KeepsLive
<1>1. UNCHANGED <<db, cache, src, board, detail, rec>>
  BY DEF loadEarlier, merge_history, serverVars, sourceVars, cardVars
<1>2. Rows' /\ Streams' /\ DetailsTrue' /\ BoardKnown'
  BY <1>1 DEF LiveInv, Rows, Streams, DetailsTrue, BoardKnown
<1>3. PageTrue(hist.page, db) /\ PageTrue({}, db)
  BY NoPage DEF LiveInv, Pages
<1>4. Pages'
  <2> DEFINE C == {c \in Cards : db[c].ver > 0 /\ db[c].start < board.attach}
  <2>1. C \in SUBSET Cards
    OBVIOUS
  <2>2. hist'.page = snapshot(C) \/ hist'.page = {}
    <3>1. CASE loadEarlier
      <4>1. hist' = [st |-> "page", page |-> snapshot(C)]
        BY <3>1 DEF loadEarlier
      <4> HIDE DEF C
      <4> QED
        BY <4>1
    <3>2. CASE merge_history
      BY <3>2 DEF merge_history
    <3> QED
      BY <3>1, <3>2
  <2> HIDE DEF C
  <2>3. PageTrue(hist'.page, db)
    BY <1>3, <2>1, <2>2, JustRead
  <2> QED
    BY <1>1, <2>3 DEF LiveInv, Pages
<1>5. ShownTrue' /\ PageIsFresh'
  <2>1. CASE loadEarlier
    <3>1. UNCHANGED <<shown, touched>>
      BY <2>1 DEF loadEarlier, cardVars
    <3> QED
      BY <1>1, <3>1 DEF LiveInv, ShownTrue, PageIsFresh
  <2>2. CASE merge_history
    <3>1. merge(hist.page, FALSE)
      BY <2>2 DEF merge_history
    <3>2. /\ ShownTrue' /\ touched \subseteq touched'
          /\ \A c \in Cards : shown'[c] # shown[c] => c \in touched'
      BY <1>1, <1>3, <3>1, Merged
    <3>3. \A x \in rec["cur"].page : x[1] \in Cards
      BY DEF LiveInv, Pages, PageTrue, Had
    <3>4. PageIsFresh'
      BY <1>1, <3>2, <3>3 DEF LiveInv, PageIsFresh
    <3> QED
      BY <3>2, <3>4
  <2> QED
    BY <2>1, <2>2
<1> QED
  BY <1>1, <1>2, <1>4, <1>5 DEF LiveInv, KeepsLive

\* A recovery begins with a new checkpoint, or one is under way.
LEMMA RecoveryBegun ==
    ASSUME LiveInv, NEW since, recoverAgent(since), UNCHANGED <<db, hist, shown>>
    PROVE  Pages' /\ PageIsFresh' /\ (rec'["cur"] # rec["cur"] => rec["cur"].st # "page")
<1>1. CASE UNCHANGED <<rec, touched>>
  BY <1>1 DEF LiveInv, Pages, PageIsFresh
<1>2. CASE rec["cur"].st = "idle" /\ ~UNCHANGED <<rec, touched>>
  <2> DEFINE r == [Idle EXCEPT !.st = "fetch", !.since = since, !.cursor = <<since - 1, 0>>]
  <2>1. rec' = [rec EXCEPT !["cur"] = r]
    BY <1>2 DEF recoverAgent
  <2>2. r = [f \in RecoveryFields |-> r[f]] /\ r.page = {} /\ r.st = "fetch" /\ PageTrue({}, db)
    BY NoPage
  <2> HIDE DEF r
  <2>3. Pages' /\ rec'["cur"] = r
    BY <2>1, <2>2, RecoveryMoves
  <2> QED
    BY <1>2, <2>2, <2>3 DEF PageIsFresh
<1> QED
  BY <1>1, <1>2 DEF recoverAgent

LEMMA RecoveryFails ==
    ASSUME LiveInv, NEW k \in {"cur", "old"}, recovery_failed(k)
    PROVE  LiveInv' /\ KeepsLive
<1>1. /\ UNCHANGED <<db, cache, src, board, shown, touched, detail, hist>>
      /\ rec' = [rec EXCEPT ![k] = Idle]
  BY DEF recovery_failed, serverVars, sourceVars, cardVars
<1>2. Idle = [f \in RecoveryFields |-> Idle[f]] /\ PageTrue(Idle.page, db) /\ Idle.st = "idle"
  BY NoPage
<1>3. Pages' /\ rec'[k] = Idle /\ \A l \in {"cur", "old"} \ {k} : rec'[l] = rec[l]
  BY <1>1, <1>2, RecoveryMoves
<1>4. PageIsFresh'
  BY <1>1, <1>2, <1>3 DEF LiveInv, PageIsFresh
<1>5. Rows' /\ Streams' /\ ShownTrue' /\ DetailsTrue' /\ BoardKnown'
  BY <1>1 DEF LiveInv, Rows, Streams, ShownTrue, DetailsTrue, BoardKnown
<1> QED
  BY <1>1, <1>3, <1>4, <1>5 DEF LiveInv, KeepsLive

\* Another connection takes over.
LEMMA Replaced ==
    ASSUME LiveInv, requestHandover, UNCHANGED db
    PROVE  Streams'
<1> DEFINE x == [Closed EXCEPT !.st = "connecting"]
<1>1. src' = [src EXCEPT ![3 - active] = x]
  BY DEF requestHandover
<1>2. Stream(x, db)
  BY ClosedSilent
<1> HIDE DEF x
<1>3. src' = [t \in Sources |-> src'[t]] /\ \A t \in Sources : src'[t] \in {src[t], x}
  BY <1>1 DEF LiveInv, Streams
<1> QED
  BY <1>2, <1>3 DEF LiveInv, Streams

LEMMA ColumnHidden ==
    ASSUME LiveInv, hide
    PROVE  LiveInv' /\ KeepsLive
<1>1. /\ UNCHANGED <<db, cache, detail>> /\ requestHandover
      /\ shown' = [c \in Cards |-> NoCard]
      /\ rec' = [rec EXCEPT !["old"] = rec["cur"], !["cur"] = Idle]
      /\ hist'.page = {}
      /\ board' = [board EXCEPT !.visible = FALSE, !.hydrated = FALSE]
  BY DEF hide, serverVars
<1>2. board'.rt = board.rt /\ ~board'.visible /\ BoardKnown'
  BY <1>1 DEF LiveInv, BoardKnown, BoardFields
<1>3. rec' = [k \in {"cur", "old"} |-> rec'[k]] /\ rec'["cur"] = Idle /\ rec'["old"] = rec["cur"]
  BY <1>1 DEF LiveInv, Pages
<1>4. Idle = [f \in RecoveryFields |-> Idle[f]] /\ PageTrue(Idle.page, db) /\ PageTrue({}, db) /\ Idle.st = "idle"
  BY NoPage
<1>5. rec["cur"] = [f \in RecoveryFields |-> rec["cur"][f]] /\ PageTrue(rec["cur"].page, db)
  BY DEF LiveInv, Pages
<1>6. \A k \in {"cur", "old"} : rec'[k] = [f \in RecoveryFields |-> rec'[k][f]] /\ PageTrue(rec'[k].page, db)
  BY <1>3, <1>4, <1>5
<1>7. Pages'
  BY <1>1, <1>3, <1>4, <1>6 DEF Pages
<1>8. PageIsFresh'
  BY <1>3, <1>4 DEF PageIsFresh
<1>9. ShownTrue'
  BY <1>1 DEF ShownTrue, NoCard, Had, LiveInv, Rows
<1>10. Rows' /\ DetailsTrue' /\ Streams'
  BY <1>1, <1>2, Replaced DEF LiveInv, Rows, DetailsTrue
<1> QED
  BY <1>2, <1>7, <1>8, <1>9, <1>10 DEF LiveInv, KeepsLive

LEMMA ColumnShown ==
    ASSUME LiveInv, show
    PROVE  LiveInv' /\ KeepsLive
<1>1. /\ UNCHANGED <<db, cache, shown, detail, hist>> /\ requestHandover
      /\ board' = [board EXCEPT !.visible = TRUE]
      /\ recoverAgent(board.attach) \/ UNCHANGED <<rec, touched>>
  BY DEF show, serverVars
<1>2. board'.rt = board.rt /\ BoardKnown'
  BY <1>1 DEF LiveInv, BoardKnown, BoardFields
<1>3. Pages' /\ PageIsFresh'
  <2>1. CASE recoverAgent(board.attach)
    BY <1>1, <2>1, RecoveryBegun
  <2>2. CASE UNCHANGED <<rec, touched>>
    BY <1>1, <2>2 DEF LiveInv, Pages, PageIsFresh
  <2> QED
    BY <1>1, <2>1, <2>2
<1>4. Rows' /\ ShownTrue' /\ DetailsTrue' /\ Streams'
  BY <1>1, <1>2, Replaced DEF LiveInv, Rows, ShownTrue, DetailsTrue
<1> QED
  BY <1>1, <1>2, <1>3, <1>4 DEF LiveInv, KeepsLive

LEMMA RuntimeReset ==
    ASSUME LiveInv, NEW since, resetRuntime(since), hub.rt # board.rt, UNCHANGED <<db, cache, src>>
    PROVE  LiveInv' /\ KeepsLive
<1>1. /\ shown' = [c \in Cards |-> NoCard] /\ detail' = [c \in Cards |-> NoDetail]
      /\ rec' = [k \in {"cur", "old"} |-> Idle] /\ hist'.page = {}
      /\ board' = [board EXCEPT !.rt = hub.rt, !.hydrated = FALSE, !.init = FALSE,
                      !.attach = since, !.mark = since, !.seen = {}]
  BY DEF resetRuntime
<1>2. board'.rt = hub.rt /\ BoardKnown'
  BY <1>1 DEF LiveInv, BoardKnown, BoardFields
<1>3. Pages' /\ PageIsFresh'
  BY <1>1, NoPage DEF Pages, PageIsFresh
<1>4. ShownTrue' /\ DetailsTrue'
  BY <1>1 DEF ShownTrue, DetailsTrue, NoCard, NoDetail, Had, LiveInv, Rows
<1>5. Rows' /\ Streams'
  BY DEF LiveInv, Rows, Streams
<1> QED
  BY <1>2, <1>3, <1>4, <1>5 DEF LiveInv, KeepsLive

LEMMA SyncSteps ==
    ASSUME LiveInv, sync_status \/ sync_failed \/ recoverVisible \/ sync_done
    PROVE  LiveInv' /\ KeepsLive
<1>1. UNCHANGED <<db, cache, src>>
  BY DEF sync_status, sync_failed, recoverVisible, sync_done, serverVars, sourceVars
<1>2. CASE resetRuntime(boundaryOnReset) /\ hub.rt # board.rt
  BY <1>1, <1>2, RuntimeReset
<1>3. CASE UNCHANGED <<board, shown, touched, detail, rec, hist>>
  BY <1>1, <1>3, OnlyStreams DEF LiveInv, Rows, Streams, BoardKnown
<1>4. CASE recoverVisible
  <2>1. UNCHANGED <<board, shown, detail, hist>> /\ (recoverAgent(boundary) \/ UNCHANGED <<rec, touched>>)
    BY <1>4 DEF recoverVisible
  <2>2. Pages' /\ PageIsFresh'
    <3>1. CASE recoverAgent(boundary)
      BY <1>1, <2>1, <3>1, RecoveryBegun
    <3>2. CASE UNCHANGED <<rec, touched>>
      BY <1>1, <2>1, <3>2 DEF LiveInv, Pages, PageIsFresh
    <3> QED
      BY <2>1, <3>1, <3>2
  <2>3. Rows' /\ Streams' /\ ShownTrue' /\ DetailsTrue' /\ BoardKnown'
    BY <1>1, <2>1 DEF LiveInv, Rows, Streams, ShownTrue, DetailsTrue, BoardKnown
  <2> QED
    BY <2>1, <2>2, <2>3 DEF LiveInv, KeepsLive
<1>5. CASE sync_done
  <2>1. UNCHANGED <<shown, touched, detail, rec, hist>>
    BY <1>5 DEF sync_done, cardVars
  <2>2. \E mark, init, down : board' = board \/ board' = [board EXCEPT !.mark = mark, !.init = init, !.down = down]
    BY <1>5 DEF sync_done
  <2>3. PICK mark, init, down :
           board' = board \/ board' = [board EXCEPT !.mark = mark, !.init = init, !.down = down]
    BY <2>2
  <2>4. board'.rt = board.rt /\ BoardKnown'
    BY <2>3 DEF LiveInv, BoardKnown, BoardFields
  <2> QED
    BY <1>1, <2>1, <2>4, OnlyStreams DEF LiveInv, Rows, Streams
<1>6. CASE sync_status
  BY <1>2, <1>3, <1>6 DEF sync_status, cardVars
<1>7. CASE sync_failed
  BY <1>3, <1>7 DEF sync_failed, cardVars
<1> QED
  BY <1>4, <1>5, <1>6, <1>7

-----------------------------------------------------------------------------
LEMMA LiveInvInit == Init => LiveInv
<1> SUFFICES ASSUME Init PROVE LiveInv
  OBVIOUS
<1>1. Rows
  <2>1. db \in [Cards -> [ver : {0, 1}, at : {0}, start : {0}]] /\ cache = [c \in Cards |-> 0]
    BY DEF Init
  <2>2. db = [c \in Cards |-> db[c]] /\ cache = [c \in Cards |-> cache[c]]
        /\ \A c \in Cards : db[c].ver \in {0, 1} /\ cache[c] = 0
    BY <2>1
  <2> QED
    BY <2>2 DEF Rows, Had
<1>2. Streams
  <2>1. src = [s \in Sources |-> IF s = 1 THEN [Closed EXCEPT !.st = "connecting"] ELSE Closed]
    BY DEF Init
  <2> QED
    BY <2>1, ClosedSilent DEF Streams
<1>3. Pages /\ PageIsFresh
  BY NoPage DEF Init, Pages, PageIsFresh
<1>4. ShownTrue /\ DetailsTrue
  BY <1>1 DEF Init, Rows, ShownTrue, DetailsTrue, NoCard, NoDetail, Had
<1>5. BoardKnown
  BY DEF Init, BoardKnown, BoardFields
<1> QED
  BY <1>1, <1>2, <1>3, <1>4, <1>5 DEF LiveInv

LEMMA LiveStep ==
    ASSUME LiveInv, [Next]_vars
    PROVE  LiveInv' /\ KeepsLive
<1>1. CASE UNCHANGED vars
  <2>1. UNCHANGED <<db, cache, src, rec, hist, shown, detail, touched, board>>
    BY <1>1 DEF vars
  <2>2. Rows' /\ Streams' /\ BoardKnown'
    BY <2>1 DEF LiveInv, Rows, Streams, BoardKnown
  <2> QED
    BY <2>1, <2>2, OnlyStreams
<1>2. ASSUME NEW c \in Cards,
             \/ change(c) \/ refresh_and_emit_presentation(c) \/ emit_lifecycle(c) \/ evict_presentation(c)
             \/ flushDetailQueue(c) \/ refreshDetail(c) \/ detail_failed(c)
      PROVE  LiveInv' /\ KeepsLive
  BY <1>2, Changed, ServerEmits, DetailSteps
<1>3. ASSUME NEW s \in Sources,
             \/ events(s) \/ subscribe_live_event_channels(s) \/ disconnect(s)
             \/ handleLiveEvent(s) \/ reconnect(s) \/ onopen(s)
      PROVE  LiveInv' /\ KeepsLive
  BY <1>3, StreamSteps, FrameHandled
<1>4. ASSUME NEW k \in {"cur", "old"}, fetch_page(k) \/ merge_page(k) \/ recovery_failed(k)
      PROVE  LiveInv' /\ KeepsLive
  BY <1>4, PageFetched, PageMerged, RecoveryFails
<1>5. CASE tick \/ restart \/ handover_failed
  <2>1. 1 \in Sources
    BY DEF Sources
  <2> QED
    BY <1>5, <2>1, StreamSteps
<1>6. CASE \/ loadEarlier \/ merge_history \/ hide \/ show
           \/ sync_status \/ sync_failed \/ recoverVisible \/ sync_done
  BY <1>6, HistorySteps, ColumnHidden, ColumnShown, SyncSteps
<1> QED
  BY <1>1, <1>2, <1>3, <1>4, <1>5, <1>6 DEF Next

\* Neither a page that was read before a live frame arrived nor an answer of a
\* replaced runtime undoes what the board shows (mergeRecovery's checkpoint,
\* resetRuntime, the detail versions).
THEOREM LiveStaysSafe == Spec => LiveStays
<1>1. LiveInv => RuntimeScoped
  BY DEF LiveInv, ShownTrue, RuntimeScoped
<1>2. LiveInv /\ [Next]_vars => LiveInv'
  BY LiveStep
<1>3. LiveInv /\ [Next]_vars
        => [\A c \in Cards : rec["cur"].st = "page" /\ rec'["cur"] # rec["cur"]
                /\ shown'[c] # shown[c] => shown'[c].ver >= shown[c].ver
                                          \/ ~board'.visible \/ board'.rt # board.rt]_vars
  BY LiveStep DEF KeepsLive
<1> QED
  BY <1>1, <1>2, <1>3, LiveInvInit, PTL DEF Spec, LiveStays, RecoveryKeepsLive

-----------------------------------------------------------------------------
(* Sets of chunk sequences.  Every set of stored sequences has a first and *)
(* a last one, as each new one is later than all before it.                *)

Ordered(S) ==
    /\ S \subseteq Nat /\ IsFiniteSet(S)
    /\ \A T \in SUBSET S : T # {} => /\ \E x \in T : \A y \in T : x <= y
                                     /\ \E x \in T : \A y \in T : y <= x

LEMMA OrderedPart ==
    ASSUME NEW S, Ordered(S), NEW T \in SUBSET S
    PROVE  Ordered(T)
BY FS_Subset DEF Ordered

LEMMA OrderedLonger ==
    ASSUME NEW S, Ordered(S), NEW n \in Nat, \A y \in S : y < n
    PROVE  Ordered(S \cup {n})
<1>1. S \cup {n} \subseteq Nat /\ IsFiniteSet(S \cup {n})
  BY FS_AddElement DEF Ordered
<1>2. ASSUME NEW T \in SUBSET (S \cup {n}), T # {}
      PROVE  (\E x \in T : \A y \in T : x <= y) /\ (\E x \in T : \A y \in T : y <= x)
  <2> DEFINE U == T \cap S
  <2>1. U \in SUBSET S /\ (n \notin T => T = U) /\ (n \in T => T = U \cup {n})
    BY <1>2
  <2>2. CASE U = {}
    <3>1. T = {n}
      BY <1>2, <2>1, <2>2
    <3> QED
      BY <3>1
  <2>3. CASE U # {}
    <3>1. PICK a \in U : \A y \in U : a <= y
      BY <2>1, <2>3 DEF Ordered
    <3>2. PICK b \in U : \A y \in U : y <= b
      BY <2>1, <2>3 DEF Ordered
    <3>3. a < n /\ a \in Nat /\ b < n /\ b \in Nat /\ \A y \in U : y \in Nat /\ y < n
      BY <2>1, <3>1, <3>2 DEF Ordered
    <3>4. a \in T /\ \A y \in T : a <= y
      BY <2>1, <3>1, <3>3
    <3>5. CASE n \in T
      <4>1. \A y \in T : y <= n
        BY <2>1, <3>3, <3>5
      <4> QED
        BY <3>4, <3>5, <4>1
    <3>6. CASE n \notin T
      BY <2>1, <3>1, <3>2, <3>6
    <3> QED
      BY <3>5, <3>6
  <2> QED
    BY <2>2, <2>3
<1> QED
  BY <1>1, <1>2 DEF Ordered

LEMMA NothingOrdered == Ordered({})
BY FS_EmptySet DEF Ordered

LEMMA Ends ==
    ASSUME NEW S, Ordered(S), S # {}
    PROVE  /\ Min(S) \in S /\ \A y \in S : Min(S) <= y
           /\ Max(S) \in S /\ \A y \in S : y <= Max(S)
<1>1. \E x \in S : \A y \in S : x <= y
  BY DEF Ordered
<1>2. \E x \in S : \A y \in S : x >= y
  BY DEF Ordered
<1>3. Min(S) \in S /\ \A y \in S : Min(S) <= y
  BY <1>1 DEF Min
<1>4. Max(S) \in S /\ \A y \in S : Max(S) >= y
  BY <1>2 DEF Max
<1>5. S \subseteq Nat
  BY DEF Ordered
<1> QED
  BY <1>3, <1>4, <1>5

\* What is among the last Retain of all is among the last Retain of some.
LEMMA LastStay ==
    ASSUME NEW S, Ordered(S), NEW T \in SUBSET S, NEW n \in T, Cardinality({m \in S : m > n}) < Retain
    PROVE  n \in trim(T)
<1>1. IsFiniteSet(S)
  BY DEF Ordered
<1> DEFINE A == {m \in S : m > n}
           B == {m \in T : m > n}
<1>2. A \in SUBSET S /\ B \in SUBSET A
  OBVIOUS
<1> HIDE DEF A, B
<1>3. IsFiniteSet(A)
  BY <1>1, <1>2, FS_Subset
<1>4. Cardinality(B) <= Cardinality(A) /\ IsFiniteSet(B)
  BY <1>2, <1>3, FS_Subset
<1>5. Cardinality(A) \in Nat /\ Cardinality(B) \in Nat
  BY <1>3, <1>4, FS_CardinalityType
<1>6. Cardinality(A) < Retain
  BY DEF A
<1>7. Cardinality(B) < Retain
  BY <1>4, <1>5, <1>6, OutputAssumption
<1> QED
  BY <1>7 DEF trim, B

\* Trimming drops the oldest.
LEMMA Trimmed ==
    ASSUME NEW S, Ordered(S)
    PROVE  trim(S) \subseteq S /\ \A n \in trim(S), m \in S : n <= m => m \in trim(S)
<1>1. trim(S) \subseteq S
  BY DEF trim
<1>2. ASSUME NEW n \in trim(S), NEW m \in S, n <= m
      PROVE  m \in trim(S)
  <2> DEFINE A == {k \in S : k > n}
             B == {k \in S : k > m}
  <2>1. A \in SUBSET S
    OBVIOUS
  <2>2. B \in SUBSET A
    <3>1. S \subseteq Nat /\ n \in Nat /\ m \in Nat
      BY <1>1 DEF Ordered
    <3>2. ASSUME NEW k \in S, k > m PROVE k > n
      <4>1. k \in Nat
        BY <3>1
      <4> QED
        BY <1>2, <3>1, <3>2, <4>1
    <3> QED
      BY <3>2
  <2>3. Cardinality(A) < Retain
    BY DEF trim
  <2> HIDE DEF A, B
  <2>4. IsFiniteSet(A)
    BY <2>1, FS_Subset DEF Ordered
  <2>5. Cardinality(B) <= Cardinality(A) /\ IsFiniteSet(B)
    BY <2>2, <2>4, FS_Subset
  <2>6. Cardinality(A) \in Nat /\ Cardinality(B) \in Nat
    BY <2>4, <2>5, FS_CardinalityType
  <2>7. Cardinality(B) < Retain
    BY <2>3, <2>5, <2>6, OutputAssumption
  <2> QED
    BY <2>7 DEF trim, B
<1> QED
  BY <1>1, <1>2

\* A chunk within the buffer or next to it leaves no hole that was not there.
LEMMA NoNewHole ==
    ASSUME NEW S, S # {}, NEW k, Ordered(S \cup {k}), Min(S) <= k, k <= Max(S) + 1,
           hasInternalSequenceGap(trim(S \cup {k}))
    PROVE  hasInternalSequenceGap(S)
<1> DEFINE T == trim(S \cup {k})
<1>1. Ordered(S) /\ S \subseteq Nat /\ k \in Nat
  BY OrderedPart DEF Ordered
<1>2. /\ T \subseteq S \cup {k} /\ \A n \in T, m \in S \cup {k} : n <= m => m \in T
  BY Trimmed
<1>3. Ordered(T)
  BY <1>2, OrderedPart
<1>4. PICK n \in T : n # Min(T) /\ n - 1 \notin T
  BY DEF hasInternalSequenceGap
<1> HIDE DEF T
<1>5. Min(T) \in T /\ Min(T) < n
  <2>1. Min(T) \in T /\ Min(T) <= n /\ T \subseteq Nat
    BY <1>3, <1>4, Ends DEF Ordered
  <2>2. Min(T) \in Nat /\ n \in Nat
    BY <1>4, <2>1
  <2> QED
    BY <1>4, <2>1, <2>2
<1>6. n \in Nat /\ Min(T) \in Nat /\ Min(S) \in S /\ Max(S) \in S /\ \A y \in S : Min(S) <= y /\ y <= Max(S)
  BY <1>1, <1>2, <1>4, <1>5, Ends
<1>7. Min(S) <= Min(T) /\ Min(S) < n /\ Min(S) \in Nat /\ Max(S) \in Nat
  <2>1. Min(S) \in Nat /\ Max(S) \in Nat
    BY <1>1, <1>6
  <2>2. Min(S) <= Min(T)
    BY <1>2, <1>5, <1>6
  <2> QED
    BY <1>5, <1>6, <2>1, <2>2
<1>8. n - 1 \notin S \cup {k}
  <2>1. n - 1 \in Nat /\ Min(T) <= n - 1
    BY <1>5, <1>6
  <2> QED
    BY <1>2, <1>4, <1>5, <2>1
<1>9. CASE n \in S
  BY <1>7, <1>8, <1>9 DEF hasInternalSequenceGap
<1>10. CASE n = k /\ k \notin S
  <2> DEFINE L == {m \in S : m > k}
  <2>1. k # Max(S) + 1
    BY <1>6, <1>7, <1>8, <1>10
  <2>2. Max(S) \in L
    BY <1>1, <1>6, <1>7, <1>10, <2>1
  <2>3. PICK l \in L : \A y \in L : l <= y
    BY <1>1, <2>2 DEF Ordered
  <2>4. l \in S /\ l \in Nat /\ k < l
    BY <1>1, <2>3
  <2>5. l - 1 \notin S
    <3>1. SUFFICES ASSUME l - 1 \in S PROVE FALSE
      OBVIOUS
    <3>2. l - 1 >= k /\ l - 1 # k /\ l - 1 \in Nat
      BY <1>1, <1>10, <2>4, <3>1
    <3>3. l - 1 \in L
      BY <1>1, <3>1, <3>2
    <3> QED
      BY <2>3, <2>4, <3>3
  <2>6. l # Min(S)
    BY <1>1, <1>7, <1>10, <2>4
  <2> QED
    BY <2>4, <2>5, <2>6 DEF hasInternalSequenceGap
<1> QED
  BY <1>2, <1>4, <1>9, <1>10

-----------------------------------------------------------------------------
(* The text of an expanded command is never taken for whole when it is     *)
(* not.  A hole in the buffer is the reason of a repair that is asked for; *)
(* a repair that began after the end of output reads the whole tail, and   *)
(* nothing that comes later takes a part of the tail away.                 *)

PaneFields == {"exists", "buf", "needed", "hydrated", "complete", "unavailable", "dropped", "error"}
HydrationFields == {"st", "from", "page"}

Chunks ==
    /\ Ordered(durable) /\ nextSeq \in Nat \ {0} /\ \A n \in durable : 0 < n /\ n < nextSeq
    /\ IsQueue(flight) /\ \A f \in Elements(flight) : f.seq \in durable
    /\ state = [f \in PaneFields |-> state[f]] /\ state.buf \subseteq durable
    /\ hydration = [f \in HydrationFields |-> hydration[f]]
    /\ hydration.st = "merge" => hydration.page = {0} \/ hydration.page \subseteq durable

\* A card that is shown was hydrated, is being hydrated or says that it failed.
Asked ==
    /\ ~state.exists => state = NoState
    /\ hydration.st # "none" \/ mounted => state.exists
    /\ hydration.st # "none" => state.needed \/ ~state.hydrated
    /\ mounted /\ hydration.st = "none" /\ ~state.hydrated => state.error

HolesKnown ==
    "late" \notin missed /\ ~state.unavailable /\ hasInternalSequenceGap(state.buf)
        => state.needed \/ ~state.hydrated

\* From the end of output on.
Over == eofFrame = "delivered" /\ "joined" \notin missed /\ durable # {}
First == Max({Min(durable), (Max(durable) + 1) - Window})
TailHeld ==
    Over => /\ state.hydrated /\ ~state.needed /\ ~state.unavailable => tail \subseteq state.buf
            /\ mounted /\ hydration.st = "none" /\ ~state.error /\ ~state.unavailable
                  => tail \subseteq state.buf
            /\ hydration.st \in {"page", "merge"} => hydration.from = First
            /\ hydration.st = "merge" => \/ hydration.page = {0}
                                         \/ hydration.page = {n \in durable : n >= First /\ n < First + Window}

OutputInv == Chunks /\ Asked /\ HolesKnown /\ TailHeld

-----------------------------------------------------------------------------
LEMMA NoGap == ~hasInternalSequenceGap({})
BY DEF hasInternalSequenceGap

LEMMA Nothing ==
    /\ NoState = [f \in PaneFields |-> NoState[f]] /\ NoState.buf = {} /\ ~NoState.hydrated /\ ~NoState.exists
    /\ NoHydration = [f \in HydrationFields |-> NoHydration[f]] /\ NoHydration.st = "none"
    /\ LET h == [NoHydration EXCEPT !.st = "metadata"] IN
       h = [f \in HydrationFields |-> h[f]] /\ h.st = "metadata"
BY DEF NoState, NoHydration, PaneFields, HydrationFields

\* A request over a buffer that kept the tail, or after which the end of output
\* asks for a repair.
LEMMA RequestKept ==
    ASSUME OutputInv, NEW s, NEW seen, request(s, seen),
           s = [f \in PaneFields |-> s[f]], s.exists, s.buf \subseteq durable,
           state.needed => s.needed, s.hydrated = state.hydrated, s.error = state.error,
           state.unavailable => s.unavailable,
           "late" \notin missed \cup seen /\ ~s.unavailable /\ hasInternalSequenceGap(s.buf)
               => s.needed \/ ~s.hydrated,
           \/ s.needed
           \/ eofFrame' = eofFrame /\ (tail \subseteq state.buf => tail \subseteq s.buf),
           UNCHANGED <<durable, nextSeq, mounted>>,
           IsQueue(flight'), Elements(flight') \subseteq Elements(flight)
    PROVE  OutputInv'
<1> DEFINE x == [s EXCEPT !.error = FALSE]
           h == [NoHydration EXCEPT !.st = "metadata"]
           Start == mounted /\ hydration.st = "none" /\ (~s.hydrated \/ s.needed)
<1>1. /\ state' = IF Start THEN x ELSE s
      /\ hydration' = IF Start THEN h ELSE hydration
      /\ missed' = missed \cup seen \cup (IF hydration.st # "none" /\ s.needed THEN {"joined"} ELSE {})
  BY DEF request
<1>2. /\ x = [f \in PaneFields |-> x[f]] /\ x.buf = s.buf /\ x.exists = s.exists /\ x.needed = s.needed
      /\ x.hydrated = s.hydrated /\ x.unavailable = s.unavailable
  BY DEF PaneFields
<1>3. h = [f \in HydrationFields |-> h[f]] /\ h.st = "metadata"
  BY Nothing
<1> HIDE DEF x, h
<1>4. Chunks'
  <2>1. state' = [f \in PaneFields |-> state'[f]] /\ state'.buf \subseteq durable
    BY <1>1, <1>2
  <2>2. /\ hydration' = [f \in HydrationFields |-> hydration'[f]]
        /\ hydration'.st = "merge" => hydration'.page = {0} \/ hydration'.page \subseteq durable
    BY <1>1, <1>3 DEF OutputInv, Chunks
  <2> QED
    BY <2>1, <2>2 DEF OutputInv, Chunks
<1>5. Asked'
  BY <1>1, <1>2, <1>3 DEF OutputInv, Asked
<1>6. HolesKnown'
  BY <1>1, <1>2 DEF OutputInv, HolesKnown
<1>7. TailHeld'
  <2>1. tail' = tail /\ First' = First
    BY DEF tail, First
  <2>2. SUFFICES ASSUME Over'
                 PROVE  /\ state'.hydrated /\ ~state'.needed /\ ~state'.unavailable => tail \subseteq state'.buf
                        /\ mounted /\ hydration'.st = "none" /\ ~state'.error /\ ~state'.unavailable
                              => tail \subseteq state'.buf
                        /\ hydration'.st \in {"page", "merge"} => hydration'.from = First
                        /\ hydration'.st = "merge" =>
                              \/ hydration'.page = {0}
                              \/ hydration'.page = {n \in durable : n >= First /\ n < First + Window}
    BY <2>1 DEF TailHeld
  <2>3. CASE Start
    BY <1>1, <1>2, <1>3, <2>3
  <2>4. CASE ~Start
    <3>1. state' = s /\ hydration' = hydration
      BY <1>1, <2>4
    <3>2. s.needed => hydration.st = "none"
      BY <1>1, <2>2 DEF Over
    <3>3. ~s.needed => Over
      BY <1>1, <2>2 DEF Over
    <3>4. s.hydrated /\ ~s.needed /\ ~s.unavailable => tail \subseteq s.buf
      BY <3>3 DEF OutputInv, TailHeld
    <3>5. hydration.st # "none" => Over
      BY <3>2, <3>3
    <3> QED
      BY <2>4, <3>1, <3>4, <3>5 DEF OutputInv, TailHeld
  <2> QED
    BY <2>3, <2>4
<1> QED
  BY <1>4, <1>5, <1>6, <1>7 DEF OutputInv

-----------------------------------------------------------------------------
(* The runtime *)

\* Until its end is known the output may grow.
LEMMA OutputGrows ==
    ASSUME OutputInv, observe_chunk \/ omit_chunk \/ complete_output
    PROVE  OutputInv'
<1>1. UNCHANGED <<state, mounted, hydration, missed>> /\ eofFrame' # "delivered"
  BY DEF observe_chunk, omit_chunk, complete_output
<1>2. Asked' /\ HolesKnown' /\ TailHeld'
  BY <1>1 DEF OutputInv, Asked, HolesKnown, TailHeld, Over
<1>3. CASE observe_chunk
  <2>1. durable' = durable \cup {nextSeq} /\ nextSeq' = nextSeq + 1
    BY <1>3 DEF observe_chunk
  <2>2. Ordered(durable) /\ nextSeq \in Nat /\ 0 < nextSeq /\ \A n \in durable : n \in Nat /\ 0 < n /\ n < nextSeq
    BY DEF OutputInv, Chunks, Ordered
  <2>3. Ordered(durable') /\ nextSeq' \in Nat \ {0}
    BY <2>1, <2>2, OrderedLonger
  <2>4. \A n \in durable' : 0 < n /\ n < nextSeq'
    BY <2>1, <2>2
  <2>5. \E f : f.seq = nextSeq /\ flight' \in {flight, Append(flight, f)}
    BY <1>3 DEF observe_chunk
  <2>6. PICK f : f.seq = nextSeq /\ flight' \in {flight, Append(flight, f)}
    BY <2>5
  <2>7. IsQueue(flight) /\ IsQueue(Append(flight, f)) /\ Elements(Append(flight, f)) = Elements(flight) \cup {f}
    BY Queued DEF OutputInv, Chunks
  <2>8. IsQueue(flight') /\ \A g \in Elements(flight') : g.seq \in durable'
    BY <2>1, <2>6, <2>7 DEF OutputInv, Chunks
  <2>9. durable \subseteq durable'
    BY <2>1
  <2>10. Chunks'
    BY <1>1, <2>3, <2>4, <2>8, <2>9 DEF OutputInv, Chunks
  <2> QED
    BY <1>2, <2>10 DEF OutputInv
<1>4. CASE omit_chunk
  <2>1. UNCHANGED <<durable, flight>> /\ nextSeq' = nextSeq + 1
    BY <1>4 DEF omit_chunk
  <2>2. nextSeq \in Nat /\ \A n \in durable : n \in Nat /\ 0 < n /\ n < nextSeq
    BY DEF OutputInv, Chunks, Ordered
  <2>3. nextSeq' \in Nat \ {0} /\ \A n \in durable : 0 < n /\ n < nextSeq'
    BY <2>1, <2>2
  <2>4. Chunks'
    BY <1>1, <2>1, <2>3 DEF OutputInv, Chunks
  <2> QED
    BY <1>2, <2>4 DEF OutputInv
<1>5. CASE complete_output
  <2>1. Chunks'
    BY <1>1, <1>5 DEF complete_output, OutputInv, Chunks
  <2> QED
    BY <1>2, <2>1 DEF OutputInv
<1> QED
  BY <1>3, <1>4, <1>5

-----------------------------------------------------------------------------
(* The buffer *)

LEMMA BatchAppended ==
    ASSUME OutputInv, appendLiveBatch
    PROVE  OutputInv'
<1> DEFINE f == Head(flight)
           T == trim(state.buf \cup {f.seq})
           older == IF state.buf # {} /\ f.seq < Min(state.buf) THEN {"late"} ELSE {}
           needs == state.needed \/ (f.seq \notin state.buf /\ sequenceGap(state.buf, f.seq))
           s == [state EXCEPT !.exists = TRUE, !.unavailable = @ \/ f.broken, !.buf = T,
                    !.dropped = @ \/ Cardinality(state.buf \cup {f.seq}) > Retain,
                    !.needed = needs]
<1>1. /\ flight # <<>> /\ flight' = Tail(flight)
      /\ UNCHANGED <<durable, nextSeq, eofFrame, mounted>>
      /\ UNCHANGED <<state, hydration, missed>> \/ request(s, older)
  BY DEF appendLiveBatch, producer
<1>2. /\ IsQueue(Tail(flight)) /\ Elements(Tail(flight)) \subseteq Elements(flight) /\ f \in Elements(flight)
  BY <1>1, Dequeued DEF OutputInv, Chunks
<1>3. f.seq \in durable /\ Ordered(durable) /\ state.buf \subseteq durable
  BY <1>2 DEF OutputInv, Chunks
<1>4. CASE UNCHANGED <<state, hydration, missed>>
  <2>1. Chunks' /\ Asked' /\ HolesKnown'
    BY <1>1, <1>2, <1>4 DEF OutputInv, Chunks, Asked, HolesKnown
  <2>2. TailHeld'
    BY <1>1, <1>4 DEF OutputInv, TailHeld, Over, tail, First
  <2> QED
    BY <2>1, <2>2 DEF OutputInv
<1>5. CASE request(s, older)
  <2>1. /\ s = [g \in PaneFields |-> s[g]] /\ s.exists /\ s.buf = T /\ s.needed = needs
        /\ s.hydrated = state.hydrated /\ s.error = state.error
        /\ state.unavailable => s.unavailable
    BY DEF OutputInv, Chunks, PaneFields
  <2> DEFINE all == state.buf \cup {f.seq}
  <2>2. all \in SUBSET durable
    BY <1>3
  <2>3. Ordered(all) /\ all \subseteq Nat
    BY <1>3, <2>2, OrderedPart DEF Ordered
  <2>4. T \subseteq all
    BY <2>3, Trimmed
  <2>5. tail \subseteq state.buf => tail \subseteq T
    <3> SUFFICES ASSUME tail \subseteq state.buf, NEW n \in tail PROVE n \in T
      OBVIOUS
    <3>1. n \in all /\ Cardinality({m \in durable : m > n}) < Retain
      BY DEF tail
    <3> HIDE DEF f, older, needs, s
    <3> QED
      BY <1>3, <2>2, <3>1, LastStay
  <2>6. ASSUME "late" \notin missed \cup older, hasInternalSequenceGap(T), ~s.unavailable
        PROVE  needs \/ ~s.hydrated
    <3>1. CASE state.buf = {}
      <4>1. T \subseteq {f.seq}
        BY <2>4, <3>1
      <4>2. ~hasInternalSequenceGap(T)
        <5>1. T = {} \/ T = {f.seq}
          BY <4>1
        <5>2. ~hasInternalSequenceGap({f.seq})
          BY DEF hasInternalSequenceGap, Min
        <5> HIDE DEF T
        <5> QED
          BY <5>1, <5>2, NoGap
      <4> QED
        BY <2>6, <4>2
    <3>2. CASE state.buf # {}
      <4>1. Min(state.buf) <= f.seq
        <5>1. Min(state.buf) \in Nat /\ f.seq \in Nat
          BY <2>3, <3>2, OrderedPart, Ends
        <5> QED
          BY <2>6, <3>2, <5>1
      <4>2. CASE f.seq \notin state.buf /\ f.seq > Max(state.buf) + 1
        BY <3>2, <4>2 DEF sequenceGap
      <4>3. CASE f.seq \in state.buf \/ ~(f.seq > Max(state.buf) + 1)
        <5>1. Ordered(state.buf)
          BY <2>3, OrderedPart
        <5>2. Max(state.buf) \in Nat /\ f.seq \in Nat /\ (f.seq \in state.buf => f.seq <= Max(state.buf))
          BY <2>3, <3>2, <5>1, Ends
        <5>3. f.seq <= Max(state.buf) + 1
          BY <4>3, <5>2
        <5>4. hasInternalSequenceGap(state.buf)
          BY <2>3, <2>6, <3>2, <4>1, <5>3, NoNewHole
        <5>5. "late" \notin missed /\ ~state.unavailable
          BY <2>1, <2>6
        <5> QED
          BY <2>1, <5>4, <5>5 DEF OutputInv, HolesKnown
      <4> QED
        BY <4>2, <4>3
    <3> QED
      BY <3>1, <3>2
  <2>7. T \subseteq durable /\ (state.needed => needs)
    BY <2>2, <2>4
  <2> HIDE DEF T, f, older, needs, s
  <2>8. s.needed \/ (eofFrame' = eofFrame /\ (tail \subseteq state.buf => tail \subseteq s.buf))
    BY <1>1, <2>1, <2>5
  <2>9. "late" \notin missed \cup older /\ ~s.unavailable /\ hasInternalSequenceGap(s.buf)
               => s.needed \/ ~s.hydrated
    BY <2>1, <2>6
  <2>10. s.buf \subseteq durable /\ (state.needed => s.needed)
    BY <2>1, <2>7
  <2>11. IsQueue(flight') /\ Elements(flight') \subseteq Elements(flight)
    BY <1>1, <1>2
  <2> QED
    BY <1>1, <1>5, <2>1, <2>8, <2>9, <2>10, <2>11, RequestKept
<1> QED
  BY <1>1, <1>4, <1>5

\* The end of output asks for a repair of whatever is there.
LEMMA EndAsksForRepair ==
    ASSUME OutputInv, markComplete
    PROVE  OutputInv'
<1>1. UNCHANGED <<durable, nextSeq, live, flight, mounted, ended>> /\ IsQueue(flight)
  BY DEF markComplete, OutputInv, Chunks
<1>2. CASE state.exists
  <2> DEFINE s == [state EXCEPT !.complete = TRUE, !.needed = TRUE, !.unavailable = @ \/ live]
  <2>1. request(s, {})
    BY <1>2 DEF markComplete
  <2>2. /\ s = [f \in PaneFields |-> s[f]] /\ s.exists /\ s.buf = state.buf /\ s.needed
        /\ s.hydrated = state.hydrated /\ s.error = state.error
        /\ state.unavailable => s.unavailable
    BY <1>2 DEF OutputInv, Chunks, PaneFields
  <2>3. state.buf \subseteq durable
    BY DEF OutputInv, Chunks
  <2> HIDE DEF s
  <2> QED
    BY <1>1, <2>1, <2>2, <2>3, RequestKept
<1>3. CASE ~state.exists
  <2>1. UNCHANGED <<state, hydration, missed>>
    BY <1>3 DEF markComplete
  <2>2. state = NoState /\ ~mounted /\ hydration.st = "none"
    BY <1>3 DEF OutputInv, Asked
  <2>3. Chunks' /\ Asked' /\ HolesKnown'
    BY <1>1, <2>1 DEF OutputInv, Chunks, Asked, HolesKnown
  <2>4. TailHeld'
    BY <1>1, <2>1, <2>2, Nothing DEF TailHeld
  <2> QED
    BY <2>3, <2>4 DEF OutputInv
<1> QED
  BY <1>2, <1>3

LEMMA RecoveryAsksForRepair ==
    ASSUME OutputInv, markRecoveryNeeded
    PROVE  OutputInv'
<1> DEFINE s == [state EXCEPT !.needed = TRUE]
<1>1. /\ state.exists /\ request(s, {}) /\ UNCHANGED <<durable, nextSeq, live, eofFrame, flight, mounted, ended>>
      /\ IsQueue(flight)
  BY DEF markRecoveryNeeded, producer, OutputInv, Chunks
<1>2. /\ s = [f \in PaneFields |-> s[f]] /\ s.exists /\ s.buf = state.buf /\ s.needed
      /\ s.hydrated = state.hydrated /\ s.error = state.error /\ s.unavailable = state.unavailable
  BY <1>1 DEF OutputInv, Chunks, PaneFields
<1>3. state.buf \subseteq durable
  BY DEF OutputInv, Chunks
<1> HIDE DEF s
<1> QED
  BY <1>1, <1>2, <1>3, RequestKept

\* A released state holds nothing that could be wrong.
LEMMA Released ==
    ASSUME OutputInv, ~mounted', state' = NoState, hydration' = NoHydration,
           UNCHANGED <<durable, nextSeq, eofFrame, flight, missed>>
    PROVE  OutputInv'
<1>1. Chunks'
  BY Nothing DEF OutputInv, Chunks
<1>2. Asked' /\ HolesKnown' /\ TailHeld'
  BY Nothing, NoGap DEF Asked, HolesKnown, TailHeld
<1> QED
  BY <1>1, <1>2 DEF OutputInv

LEMMA PaneKept ==
    ASSUME OutputInv, mounted' => mounted,
           UNCHANGED <<durable, nextSeq, eofFrame, flight, missed, state, hydration>>
    PROVE  OutputInv'
<1>1. Chunks' /\ Asked' /\ HolesKnown'
  BY DEF OutputInv, Chunks, Asked, HolesKnown
<1>2. TailHeld'
  BY DEF OutputInv, TailHeld, Over, tail, First
<1> QED
  BY <1>1, <1>2 DEF OutputInv

LEMMA CardFinal ==
    ASSUME OutputInv, markFinal
    PROVE  OutputInv'
<1>1. UNCHANGED <<durable, nextSeq, eofFrame, flight, missed, mounted>>
  BY DEF markFinal, producer
<1>2. CASE mounted
  BY <1>1, <1>2, PaneKept DEF markFinal
<1>3. CASE ~mounted
  BY <1>1, <1>3, Released DEF markFinal
<1> QED
  BY <1>2, <1>3

LEMMA CardCollapsed ==
    ASSUME OutputInv, collapse
    PROVE  OutputInv'
<1>1. UNCHANGED <<durable, nextSeq, eofFrame, flight, missed>> /\ mounted' = FALSE /\ mounted
  BY DEF collapse, producer
<1>2. CASE ended
  BY <1>1, <1>2, Released DEF collapse
<1>3. CASE ~ended
  BY <1>1, <1>3, PaneKept DEF collapse
<1> QED
  BY <1>2, <1>3

LEMMA CardExpanded ==
    ASSUME OutputInv, expand
    PROVE  OutputInv'
<1> DEFINE s == [state EXCEPT !.exists = TRUE, !.error = FALSE]
           h == [NoHydration EXCEPT !.st = "metadata"]
<1>1. /\ UNCHANGED <<durable, nextSeq, eofFrame, flight, ended>> /\ mounted' = TRUE /\ state' = s
      /\ hydration' = IF hydration.st # "none" \/ (state.hydrated /\ ~state.needed) THEN hydration ELSE h
      /\ missed' = missed \cup (IF hydration.st # "none" /\ state.needed THEN {"joined"} ELSE {})
  BY DEF expand, producer
<1>2. /\ s = [f \in PaneFields |-> s[f]] /\ s.exists /\ ~s.error /\ s.buf = state.buf /\ s.needed = state.needed
      /\ s.hydrated = state.hydrated /\ s.unavailable = state.unavailable
  BY DEF OutputInv, Chunks, PaneFields
<1>3. h = [f \in HydrationFields |-> h[f]] /\ h.st = "metadata"
  BY Nothing
<1> HIDE DEF s, h
<1>4. Chunks'
  <2>1. /\ hydration' = [f \in HydrationFields |-> hydration'[f]]
        /\ hydration'.st = "merge" => hydration'.page = {0} \/ hydration'.page \subseteq durable
    BY <1>1, <1>3 DEF OutputInv, Chunks
  <2>2. state' = [f \in PaneFields |-> state'[f]] /\ state'.buf \subseteq durable
    BY <1>1, <1>2 DEF OutputInv, Chunks
  <2> QED
    BY <1>1, <2>1, <2>2 DEF OutputInv, Chunks
<1>5. Asked' /\ HolesKnown'
  BY <1>1, <1>2, <1>3 DEF OutputInv, Asked, HolesKnown
<1>6. TailHeld'
  <2>1. tail' = tail /\ First' = First /\ (Over' => Over)
    BY <1>1 DEF tail, First, Over
  <2>2. CASE hydration.st # "none" \/ (state.hydrated /\ ~state.needed)
    <3>1. hydration' = hydration
      BY <1>1, <2>2
    <3> QED
      BY <1>1, <1>2, <2>1, <2>2, <3>1 DEF OutputInv, TailHeld
  <2>3. CASE hydration.st = "none" /\ ~(state.hydrated /\ ~state.needed)
    <3>1. hydration' = h
      BY <1>1, <2>3
    <3> QED
      BY <1>1, <1>2, <1>3, <2>1, <2>3, <3>1 DEF OutputInv, TailHeld
  <2> QED
    BY <2>2, <2>3
<1> QED
  BY <1>4, <1>5, <1>6 DEF OutputInv

-----------------------------------------------------------------------------
(* The hydration *)

LEMMA TailInPage ==
    ASSUME Ordered(durable), durable # {}
    PROVE  tail \subseteq {n \in durable : n >= First /\ n < First + Window}
<1> DEFINE lo == Min(durable)
           hi == Max(durable)
           from == (hi + 1) - Window
<1>1. lo \in Nat /\ hi \in Nat /\ \A n \in durable : n \in Nat /\ lo <= n /\ n <= hi
  BY Ends DEF Ordered
<1>2. First = Max({lo, from})
  BY DEF First
<1> HIDE DEF lo, hi
<1>3. from \in Int /\ Window \in Nat
  BY <1>1, OutputAssumption
<1>4. \E x \in {lo, from} : \A y \in {lo, from} : x >= y
  <2>1. CASE lo >= from
    BY <1>1, <1>3, <2>1
  <2>2. CASE ~(lo >= from)
    <3>1. from >= lo /\ from >= from
      BY <1>1, <1>3, <2>2
    <3> QED
      BY <3>1
  <2> QED
    BY <2>1, <2>2
<1> HIDE DEF from
<1>5. First \in {lo, from} /\ First >= lo /\ First >= from
  BY <1>2, <1>4 DEF Max
<1>6. SUFFICES ASSUME NEW n \in tail PROVE n >= First /\ n < First + Window /\ n \in durable
  OBVIOUS
<1>7. n \in durable /\ n + Window > hi
  BY DEF tail, hi
<1>8. n \in Nat /\ lo <= n /\ n <= hi
  BY <1>1, <1>7
<1>9. First \in Int
  BY <1>1, <1>3, <1>5
<1>10. n >= from /\ from + Window = hi + 1
  BY <1>1, <1>3, <1>7, <1>8 DEF from
<1>11. First + Window >= hi + 1
  BY <1>1, <1>3, <1>5, <1>9, <1>10
<1>12. n < First + Window
  BY <1>1, <1>3, <1>8, <1>9, <1>11
<1>13. n >= First
  BY <1>5, <1>8, <1>10
<1> QED
  BY <1>7, <1>12, <1>13

LEMMA MetadataRead ==
    ASSUME OutputInv, hydrate_metadata
    PROVE  OutputInv'
<1>1. UNCHANGED <<durable, nextSeq, eofFrame, flight, mounted, missed>> /\ hydration.st = "metadata" /\ state.exists
  BY DEF hydrate_metadata, producer, OutputInv, Asked
<1>2. CASE durable = {}
  <2> DEFINE s == [state EXCEPT !.hydrated = TRUE, !.needed = FALSE]
  <2>1. state' = s /\ hydration' = NoHydration
    BY <1>2 DEF hydrate_metadata
  <2>2. s = [f \in PaneFields |-> s[f]] /\ s.buf = state.buf /\ s.exists /\ s.hydrated /\ ~s.needed
    BY <1>1 DEF OutputInv, Chunks, PaneFields
  <2>3. state.buf = {}
    BY <1>2 DEF OutputInv, Chunks
  <2> HIDE DEF s
  <2>4. Chunks'
    BY <1>1, <2>1, <2>2, Nothing DEF OutputInv, Chunks
  <2>5. Asked' /\ HolesKnown'
    BY <1>1, <2>1, <2>2, <2>3, Nothing, NoGap DEF Asked, HolesKnown
  <2>6. TailHeld'
    BY <1>1, <1>2 DEF TailHeld, Over
  <2> QED
    BY <2>4, <2>5, <2>6 DEF OutputInv
<1>3. CASE durable # {}
  <2> DEFINE s == [state EXCEPT !.dropped = @ \/ Max(durable) >= Min(durable) + Window]
             h == [st |-> "page", page |-> {}, from |-> First]
  <2>1. state' = s /\ hydration' = h
    BY <1>3 DEF hydrate_metadata, First
  <2>2. /\ s = [f \in PaneFields |-> s[f]] /\ s.buf = state.buf /\ s.exists = state.exists /\ s.hydrated = state.hydrated
        /\ s.needed = state.needed /\ s.unavailable = state.unavailable /\ s.error = state.error
    BY DEF OutputInv, Chunks, PaneFields
  <2>3. h = [f \in HydrationFields |-> h[f]] /\ h.st = "page" /\ h.from = First
    BY DEF HydrationFields
  <2> HIDE DEF s, h
  <2>4. Chunks'
    BY <1>1, <2>1, <2>2, <2>3 DEF OutputInv, Chunks
  <2>5. Asked' /\ HolesKnown'
    BY <1>1, <2>1, <2>2, <2>3 DEF OutputInv, Asked, HolesKnown
  <2>6. tail' = tail /\ First' = First /\ (Over' <=> Over)
    BY <1>1 DEF tail, First, Over
  <2>7. TailHeld'
    BY <1>1, <2>1, <2>2, <2>3, <2>6 DEF OutputInv, TailHeld
  <2> QED
    BY <2>4, <2>5, <2>7 DEF OutputInv
<1> QED
  BY <1>2, <1>3

LEMMA PageRead ==
    ASSUME OutputInv, hydrate_page
    PROVE  OutputInv'
<1> DEFINE P == IF displayable THEN {n \in durable : n >= hydration.from /\ n < hydration.from + Window} ELSE {0}
           h == [hydration EXCEPT !.st = "merge", !.page = P]
<1>1. /\ UNCHANGED <<durable, nextSeq, eofFrame, flight, mounted, missed, state>> /\ hydration.st = "page"
      /\ hydration' = h
  BY DEF hydrate_page, producer
<1>2. h = [f \in HydrationFields |-> h[f]] /\ h.st = "merge" /\ h.from = hydration.from /\ h.page = P
  BY DEF OutputInv, Chunks, HydrationFields
<1>3. P = {0} \/ (P = {n \in durable : n >= hydration.from /\ n < hydration.from + Window} /\ P \subseteq durable)
  OBVIOUS
<1> HIDE DEF h, P
<1>4. Chunks'
  BY <1>1, <1>2, <1>3 DEF OutputInv, Chunks
<1>5. Asked' /\ HolesKnown'
  BY <1>1, <1>2 DEF OutputInv, Asked, HolesKnown
<1>6. tail' = tail /\ First' = First /\ (Over' <=> Over)
  BY <1>1 DEF tail, First, Over
<1>7. TailHeld'
  BY <1>1, <1>2, <1>3, <1>6 DEF OutputInv, TailHeld
<1> QED
  BY <1>4, <1>5, <1>7 DEF OutputInv

LEMMA TailMerged ==
    ASSUME OutputInv, mergeDurable
    PROVE  OutputInv'
<1> DEFINE all == {n \in state.buf : n >= hydration.from} \cup hydration.page
           merged == trim(all)
           gone == \E n \in state.buf : n < hydration.from
           x == [state EXCEPT !.hydrated = TRUE, !.needed = FALSE, !.unavailable = TRUE]
           s == [state EXCEPT !.hydrated = TRUE, !.buf = merged, !.needed = hasInternalSequenceGap(merged),
                    !.dropped = @ \/ gone]
<1>1. /\ UNCHANGED <<durable, nextSeq, eofFrame, flight, mounted, missed>> /\ hydration.st = "merge"
      /\ hydration' = NoHydration /\ state' = IF hydration.page = {0} THEN x ELSE s
  BY DEF mergeDurable, producer
<1>2. state.exists /\ state.buf \subseteq durable /\ Ordered(durable)
  BY <1>1 DEF OutputInv, Asked, Chunks
<1>3. CASE hydration.page = {0}
  <2>1. state' = x
    BY <1>1, <1>3
  <2>2. x = [f \in PaneFields |-> x[f]] /\ x.buf = state.buf /\ x.exists /\ x.hydrated /\ x.unavailable
    BY <1>2 DEF OutputInv, Chunks, PaneFields
  <2> HIDE DEF x
  <2>3. Chunks'
    BY <1>1, <2>1, <2>2, Nothing DEF OutputInv, Chunks
  <2>4. Asked' /\ HolesKnown' /\ TailHeld'
    BY <1>1, <2>1, <2>2, Nothing DEF Asked, HolesKnown, TailHeld
  <2> QED
    BY <2>3, <2>4 DEF OutputInv
<1>4. CASE hydration.page # {0}
  <2>1. state' = s
    BY <1>1, <1>4
  <2>2. /\ s = [f \in PaneFields |-> s[f]] /\ s.buf = merged /\ s.exists /\ s.hydrated
        /\ s.needed = hasInternalSequenceGap(merged)
    BY <1>2 DEF OutputInv, Chunks, PaneFields
  <2>3. hydration.page \subseteq durable
    BY <1>1, <1>4 DEF OutputInv, Chunks
  <2>4. all \in SUBSET durable
    BY <1>2, <2>3
  <2>5. merged \subseteq durable
    BY <1>2, <2>4, OrderedPart, Trimmed
  <2>6. Over => tail \subseteq merged
    <3>1. SUFFICES ASSUME Over, NEW n \in tail PROVE n \in merged
      OBVIOUS
    <3>2. hydration.page = {m \in durable : m >= First /\ m < First + Window}
      BY <1>1, <1>4, <3>1 DEF OutputInv, TailHeld
    <3>3. tail \subseteq hydration.page
      BY <1>2, <3>1, <3>2, TailInPage DEF Over
    <3>4. n \in all
      BY <3>1, <3>3
    <3>5. Cardinality({m \in durable : m > n}) < Retain
      BY <3>1 DEF tail
    <3> HIDE DEF all
    <3> QED
      BY <1>2, <2>4, <3>4, <3>5, LastStay
  <2> HIDE DEF s, merged
  <2>7. Chunks'
    BY <1>1, <2>1, <2>2, <2>5, Nothing DEF OutputInv, Chunks
  <2>8. Asked'
    BY <1>1, <2>1, <2>2, Nothing DEF Asked
  <2>9. HolesKnown'
    BY <1>1, <2>1, <2>2 DEF HolesKnown
  <2>10. tail' = tail /\ (Over' <=> Over)
    BY <1>1 DEF tail, Over
  <2>11. TailHeld'
    BY <1>1, <2>1, <2>2, <2>6, <2>10, Nothing DEF TailHeld
  <2> QED
    BY <2>7, <2>8, <2>9, <2>11 DEF OutputInv
<1> QED
  BY <1>3, <1>4

LEMMA HydrationFailed ==
    ASSUME OutputInv, hydration_failed
    PROVE  OutputInv'
<1> DEFINE s == [state EXCEPT !.error = TRUE]
<1>1. /\ UNCHANGED <<durable, nextSeq, eofFrame, flight, mounted, missed>> /\ hydration.st # "none"
      /\ hydration' = NoHydration /\ state' = s
  BY DEF hydration_failed, producer
<1>2. /\ s = [f \in PaneFields |-> s[f]] /\ s.buf = state.buf /\ s.exists = state.exists /\ s.needed = state.needed
      /\ s.hydrated = state.hydrated /\ s.unavailable = state.unavailable /\ s.error
  BY DEF OutputInv, Chunks, PaneFields
<1> HIDE DEF s
<1>3. Chunks'
  BY <1>1, <1>2, Nothing DEF OutputInv, Chunks
<1>4. Asked' /\ HolesKnown'
  BY <1>1, <1>2, Nothing DEF OutputInv, Asked, HolesKnown
<1>5. tail' = tail /\ (Over' <=> Over)
  BY <1>1 DEF tail, Over
<1>6. TailHeld'
  BY <1>1, <1>2, <1>5, Nothing DEF OutputInv, TailHeld
<1> QED
  BY <1>3, <1>4, <1>6 DEF OutputInv

-----------------------------------------------------------------------------
LEMMA OutputInvInit == OutputInit => OutputInv
<1> SUFFICES ASSUME OutputInit PROVE OutputInv
  OBVIOUS
<1>1. /\ durable = {} /\ nextSeq = 1 /\ flight = <<>> /\ state = NoState /\ ~mounted /\ hydration = NoHydration
      /\ eofFrame # "delivered"
  BY DEF OutputInit
<1>2. Chunks
  BY <1>1, Nothing, NothingOrdered, NothingQueued DEF Chunks
<1>3. Asked /\ HolesKnown /\ TailHeld
  BY <1>1, Nothing, NoGap DEF Asked, HolesKnown, TailHeld, Over
<1> QED
  BY <1>2, <1>3 DEF OutputInv

LEMMA OutputStep == OutputInv /\ [OutputNext]_outputVars => OutputInv'
<1> SUFFICES ASSUME OutputInv, [OutputNext]_outputVars PROVE OutputInv'
  OBVIOUS
<1>1. CASE UNCHANGED outputVars
  BY <1>1, PaneKept DEF outputVars
<1>2. CASE OutputNext
  BY <1>2, OutputGrows, BatchAppended, EndAsksForRepair, RecoveryAsksForRepair, CardFinal, CardExpanded,
     CardCollapsed, MetadataRead, PageRead, TailMerged, HydrationFailed DEF OutputNext
<1> QED
  BY <1>1, <1>2

\* What the pane shows of a command's output is whole or known not to be: a
\* hole in the buffer has its repair asked for or its failure shown, and after
\* the end of output an expanded card holds the whole recent tail, for every
\* number of chunks, window, retention and loss (CommandOutputState.request,
\* LiveOutputBuffer.mergeDurable and hydrateRecentTail).
THEOREM OutputRepairedSafe == OutputSpec => []OutputRepaired
<1>1. OutputInv => OutputRepaired
  BY DEF OutputInv, Asked, HolesKnown, TailHeld, Over, OutputRepaired, HoleIsKnown, TailShown, Settled
<1> QED
  BY <1>1, OutputInvInit, OutputStep, PTL DEF OutputSpec

-----------------------------------------------------------------------------
(* Whoever saves preferences holds the lock and has loaded what is saved,  *)
(* so nothing is undone; every tab shows what is saved, will read it again *)
(* or says that it may not know it; a board has no column twice, and none  *)
(* of an Agent its user took off.                                          *)

Messages == {"open", "error", "preferences_changed", "gap"}
WorkerRecord == [clients : SUBSET Tabs, source : {"none", "connecting", "open", "down"}, opened : BOOLEAN,
                 inbox : [Tabs -> Seq(Messages)]]
TabFields == {"st", "prefs", "queue", "req", "answer", "error", "missed", "connected", "agents", "visible",
              "hidden", "chose", "drag"}
NoTwice(s) == \A i, j \in DOMAIN s : s[i] = s[j] => i = j

\* A tab: its requests, and its board without double columns and without the
\* Agents the user took off.
Mail(r) ==
    /\ r = [f \in TabFields |-> r[f]] /\ IsQueue(r.queue)
    /\ r.req # "none" => r.queue # <<>>
Board(r) ==
    /\ r.visible \in Seq(Agents) /\ r.drag \in Seq(Agents) /\ NoTwice(r.visible) /\ NoTwice(r.drag)
    /\ r.chose \subseteq r.hidden
    /\ Elements(r.visible) \cap r.chose = {}

\* A message that makes tab t read the preferences is on its way to it.
Notified(t, h) ==
    h.source # "open" \/ \E i \in DOMAIN h.inbox[t] : h.inbox[t][i] \in {"open", "preferences_changed"}

\* Tab t shows p, will read it again, or admits that it may not know p.
Informed(t, r, p, h) ==
    \/ r.error = TRUE \/ r.missed = TRUE \/ Notified(t, h)
    \/ r.req = "answered" /\ (r.answer = p \/ Len(r.queue) > 1)
    \/ r.req # "answered" /\ (r.prefs = p \/ r.queue # <<>>)

BoardTyped ==
    /\ worker \in WorkerRecord /\ outages \in Nat
    /\ tab = [t \in Tabs |-> tab[t]]
    /\ \A t \in Tabs : \/ tab[t].st \in {"closed", "gone"}
                       \/ tab[t].st \in {"booted", "live"} /\ Mail(tab[t]) /\ Board(tab[t])

\* Whoever holds the lock has loaded what is still saved.
LockHolds == (\A w, v \in lock : w = v) /\ (\A w \in lock : w.loaded = saved)

TabsInformed ==
    /\ worker.source = "open" => worker.opened
    /\ \A t \in Tabs : Live(t) => t \in worker.clients /\ Informed(t, tab[t], saved, worker)

BoardInv == BoardTyped /\ NoChangeLost /\ LockHolds /\ TabsInformed

-----------------------------------------------------------------------------
\* The columns of a part, and of two parts one after the other.
LEMMA Part ==
    ASSUME NEW s \in Seq(Agents), NoTwice(s), NEW m \in Nat \ {0}, NEW n \in 0..Len(s)
    PROVE  LET p == SubSeq(s, m, n) IN
           /\ p \in Seq(Agents) /\ NoTwice(p) /\ Elements(p) = {s[i] : i \in m..n}
           /\ m <= n => Len(p) = n - m + 1
           /\ m > n => Len(p) = 0
<1> DEFINE p == SubSeq(s, m, n)
<1>1. Len(s) \in Nat /\ DOMAIN s = 1..Len(s)
  BY LenProperties
<1>2. \A i \in m..n : s[i] \in Agents
  BY <1>1, ElementOfSeq
<1>3. /\ p \in Seq(Agents) /\ Len(p) = IF m <= n THEN n - m + 1 ELSE 0
      /\ \A i \in 1..(n - m + 1) : p[i] = s[m + i - 1]
  BY <1>1, <1>2, SubSeqProperties
<1>4. DOMAIN p = 1..Len(p)
  BY <1>3, LenProperties
<1> HIDE DEF p
<1>5. (m <= n => Len(p) = n - m + 1) /\ (m > n => Len(p) = 0)
  BY <1>1, <1>3
<1>6. \A i \in DOMAIN p : i \in Nat /\ m + i - 1 \in m..n /\ p[i] = s[m + i - 1]
  BY <1>1, <1>3, <1>4, <1>5
<1>7. NoTwice(p)
  <2> SUFFICES ASSUME NEW i \in DOMAIN p, NEW j \in DOMAIN p, p[i] = p[j]
               PROVE  i = j
    BY DEF NoTwice
  <2>1. m + i - 1 \in DOMAIN s /\ m + j - 1 \in DOMAIN s
    BY <1>1, <1>6
  <2>2. s[m + i - 1] = s[m + j - 1]
    BY <1>6
  <2>3. m + i - 1 = m + j - 1
    BY <2>1, <2>2 DEF NoTwice
  <2> QED
    BY <1>6, <2>3
<1>8. Elements(p) \subseteq {s[i] : i \in m..n}
  BY <1>6 DEF Elements
<1>9. ASSUME NEW i \in m..n
      PROVE  s[i] \in Elements(p)
  <2>1. i - m + 1 \in DOMAIN p /\ m + (i - m + 1) - 1 = i
    BY <1>1, <1>4, <1>5
  <2> QED
    BY <1>6, <2>1 DEF Elements
<1> QED
  BY <1>3, <1>5, <1>7, <1>8, <1>9 DEF p

LEMMA Joined ==
    ASSUME NEW s \in Seq(Agents), NEW z \in Seq(Agents), NoTwice(s), NoTwice(z),
           Elements(s) \cap Elements(z) = {}
    PROVE  /\ s \o z \in Seq(Agents) /\ NoTwice(s \o z) /\ Elements(s \o z) = Elements(s) \cup Elements(z)
           /\ Len(s \o z) = Len(s) + Len(z)
<1> DEFINE p == s \o z
<1>1. /\ Len(s) \in Nat /\ DOMAIN s = 1..Len(s) /\ Len(z) \in Nat /\ DOMAIN z = 1..Len(z)
  BY LenProperties
<1>2. /\ p \in Seq(Agents) /\ Len(p) = Len(s) + Len(z)
      /\ \A i \in 1..(Len(s) + Len(z)) : p[i] = IF i <= Len(s) THEN s[i] ELSE z[i - Len(s)]
  BY ConcatProperties
<1>3. DOMAIN p = 1..(Len(s) + Len(z))
  BY <1>2, LenProperties
<1> HIDE DEF p
<1>4. \A i \in DOMAIN p : /\ i \in Nat
                          /\ i <= Len(s) => i \in DOMAIN s /\ p[i] = s[i]
                          /\ i > Len(s) => i - Len(s) \in DOMAIN z /\ p[i] = z[i - Len(s)]
  BY <1>1, <1>2, <1>3
<1>5. NoTwice(p)
  <2> SUFFICES ASSUME NEW i \in DOMAIN p, NEW j \in DOMAIN p, p[i] = p[j]
               PROVE  i = j
    BY DEF NoTwice
  <2>1. CASE i <= Len(s) /\ j <= Len(s)
    BY <1>4, <2>1 DEF NoTwice
  <2>2. CASE i > Len(s) /\ j > Len(s)
    <3>1. i - Len(s) = j - Len(s)
      BY <1>4, <2>2 DEF NoTwice
    <3> QED
      BY <1>1, <1>4, <3>1
  <2>3. CASE i <= Len(s) /\ j > Len(s)
    <3>1. p[i] \in Elements(s) /\ p[j] \in Elements(z)
      BY <1>4, <2>3 DEF Elements
    <3> QED
      BY <3>1
  <2>4. CASE i > Len(s) /\ j <= Len(s)
    <3>1. p[i] \in Elements(z) /\ p[j] \in Elements(s)
      BY <1>4, <2>4 DEF Elements
    <3> QED
      BY <3>1
  <2> QED
    BY <1>1, <1>4, <2>1, <2>2, <2>3, <2>4
<1>6. ASSUME NEW i \in DOMAIN p
      PROVE  p[i] \in Elements(s) \cup Elements(z)
  BY <1>1, <1>4 DEF Elements
<1>7. ASSUME NEW i \in DOMAIN s
      PROVE  s[i] \in Elements(p)
  <2>1. i \in DOMAIN p /\ i <= Len(s)
    BY <1>1, <1>3
  <2> QED
    BY <1>4, <2>1 DEF Elements
<1>8. ASSUME NEW i \in DOMAIN z
      PROVE  z[i] \in Elements(p)
  <2>1. i + Len(s) \in DOMAIN p /\ i + Len(s) > Len(s) /\ i + Len(s) - Len(s) = i
    BY <1>1, <1>3
  <2> QED
    BY <1>4, <2>1 DEF Elements
<1>9. Elements(p) = Elements(s) \cup Elements(z)
  BY <1>6, <1>7, <1>8 DEF Elements
<1> QED
  BY <1>2, <1>5, <1>9 DEF p

LEMMA RemovedAt ==
    ASSUME NEW s \in Seq(Agents), NoTwice(s), NEW i \in DOMAIN s
    PROVE  /\ RemoveAt(s, i) \in Seq(Agents) /\ NoTwice(RemoveAt(s, i))
           /\ Elements(RemoveAt(s, i)) = Elements(s) \ {s[i]} /\ Len(RemoveAt(s, i)) = Len(s) - 1
<1> DEFINE a == SubSeq(s, 1, i - 1)
           b == SubSeq(s, i + 1, Len(s))
<1>1. Len(s) \in Nat /\ DOMAIN s = 1..Len(s) /\ i \in 1..Len(s)
  BY LenProperties
<1>2. a \in Seq(Agents) /\ NoTwice(a) /\ Elements(a) = {s[k] : k \in 1..(i - 1)} /\ Len(a) = i - 1
  <2>1. i - 1 \in 0..Len(s) /\ 1 \in Nat \ {0} /\ (1 > i - 1 => i - 1 = 0)
    BY <1>1
  <2> QED
    BY <1>1, <2>1, Part
<1>3. b \in Seq(Agents) /\ NoTwice(b) /\ Elements(b) = {s[k] : k \in (i + 1)..Len(s)} /\ Len(b) = Len(s) - i
  <2>1. /\ i + 1 \in Nat \ {0} /\ Len(s) \in 0..Len(s)
        /\ i + 1 <= Len(s) => Len(s) - (i + 1) + 1 = Len(s) - i
        /\ i + 1 > Len(s) => Len(s) - i = 0
    BY <1>1
  <2>2. \/ i + 1 <= Len(s)
        \/ i + 1 > Len(s)
    BY <1>1
  <2> QED
    BY <2>1, <2>2, Part
<1>4. RemoveAt(s, i) = a \o b
  BY DEF RemoveAt
<1> HIDE DEF a, b
<1>5. 1..(i - 1) \subseteq DOMAIN s /\ (i + 1)..Len(s) \subseteq DOMAIN s
      /\ \A k \in DOMAIN s : k # i <=> k \in 1..(i - 1) \/ k \in (i + 1)..Len(s)
  BY <1>1
<1>6. \A k \in 1..(i - 1), l \in (i + 1)..Len(s) : k # l
  BY <1>1
<1>7. Elements(a) \cap Elements(b) = {}
  <2> SUFFICES ASSUME NEW k \in 1..(i - 1), NEW l \in (i + 1)..Len(s), s[k] = s[l]
               PROVE  FALSE
    BY <1>2, <1>3
  <2> QED
    BY <1>5, <1>6 DEF NoTwice
<1>8. /\ a \o b \in Seq(Agents) /\ NoTwice(a \o b) /\ Elements(a \o b) = Elements(a) \cup Elements(b)
      /\ Len(a \o b) = Len(a) + Len(b)
  BY <1>2, <1>3, <1>7, Joined
<1>9. Len(a \o b) = Len(s) - 1
  BY <1>1, <1>2, <1>3, <1>8
<1>10. ASSUME NEW k \in DOMAIN s
       PROVE  s[k] \in Elements(a) \cup Elements(b) <=> s[k] # s[i]
  <2>1. CASE k = i
    <3>1. \A l \in 1..(i - 1) : s[l] # s[i]
      BY <1>1, <1>5 DEF NoTwice
    <3>2. \A l \in (i + 1)..Len(s) : s[l] # s[i]
      BY <1>1, <1>5 DEF NoTwice
    <3> QED
      BY <1>2, <1>3, <2>1, <3>1, <3>2
  <2>2. CASE k # i
    BY <1>2, <1>3, <1>5, <2>2 DEF NoTwice
  <2> QED
    BY <2>1, <2>2
<1>11. Elements(a) \subseteq Elements(s) /\ Elements(b) \subseteq Elements(s)
  BY <1>2, <1>3, <1>5 DEF Elements
<1>12. Elements(a) \cup Elements(b) = Elements(s) \ {s[i]}
  <2> SUFFICES ASSUME NEW e \in Elements(s)
               PROVE  e \in Elements(a) \cup Elements(b) <=> e # s[i]
    BY <1>11
  <2>1. PICK k \in DOMAIN s : e = s[k]
    BY DEF Elements
  <2> QED
    BY <1>10, <2>1
<1> QED
  BY <1>4, <1>8, <1>9, <1>12

LEMMA InsertedAt ==
    ASSUME NEW s \in Seq(Agents), NoTwice(s), NEW e \in Agents, e \notin Elements(s), NEW i \in 1..(Len(s) + 1)
    PROVE  /\ InsertAt(s, i, e) \in Seq(Agents) /\ NoTwice(InsertAt(s, i, e))
           /\ Elements(InsertAt(s, i, e)) = Elements(s) \cup {e}
<1> DEFINE a == SubSeq(s, 1, i - 1)
           b == SubSeq(s, i, Len(s))
           c == a \o <<e>>
<1>1. Len(s) \in Nat /\ DOMAIN s = 1..Len(s) /\ i \in Nat \ {0} /\ i - 1 \in 0..Len(s) /\ Len(s) \in 0..Len(s)
  BY LenProperties
<1>2. a \in Seq(Agents) /\ NoTwice(a) /\ Elements(a) = {s[k] : k \in 1..(i - 1)}
  <2>1. 1 \in Nat \ {0}
    OBVIOUS
  <2> QED
    BY <1>1, <2>1, Part
<1>3. b \in Seq(Agents) /\ NoTwice(b) /\ Elements(b) = {s[k] : k \in i..Len(s)}
  BY <1>1, Part
<1>4. <<e>> \in Seq(Agents) /\ NoTwice(<<e>>) /\ Elements(<<e>>) = {e}
  BY DEF NoTwice, Elements
<1>5. InsertAt(s, i, e) = c \o b
  BY DEF InsertAt
<1> HIDE DEF a, b
<1>6. Elements(a) \cup Elements(b) = Elements(s) /\ Elements(a) \cap Elements(b) = {}
  <2>1. 1..(i - 1) \subseteq DOMAIN s /\ i..Len(s) \subseteq DOMAIN s
    BY <1>1
  <2>2. \A k \in DOMAIN s : k \in 1..(i - 1) \/ k \in i..Len(s)
    BY <1>1
  <2>3. \A k \in 1..(i - 1), j \in i..Len(s) : k # j
    BY <1>1
  <2>4. Elements(a) \cup Elements(b) = Elements(s)
    BY <1>2, <1>3, <2>1, <2>2 DEF Elements
  <2>5. ASSUME NEW k \in 1..(i - 1), NEW j \in i..Len(s), s[k] = s[j]
        PROVE  FALSE
    BY <2>1, <2>3, <2>5 DEF NoTwice
  <2> QED
    BY <1>2, <1>3, <2>4, <2>5
<1>7. c \in Seq(Agents) /\ NoTwice(c) /\ Elements(c) = Elements(a) \cup {e}
  <2>1. Elements(a) \cap Elements(<<e>>) = {}
    BY <1>4, <1>6
  <2> QED
    BY <1>2, <1>4, <2>1, Joined
<1> HIDE DEF c
<1>8. Elements(c) \cap Elements(b) = {}
  BY <1>6, <1>7
<1>9. c \o b \in Seq(Agents) /\ NoTwice(c \o b) /\ Elements(c \o b) = Elements(c) \cup Elements(b)
  BY <1>3, <1>7, <1>8, Joined
<1> QED
  BY <1>5, <1>6, <1>7, <1>9

\* A column moves: the columns stay the same.
LEMMA Moved ==
    ASSUME NEW s \in Seq(Agents), NoTwice(s), NEW from \in DOMAIN s, NEW to \in DOMAIN s
    PROVE  /\ moveAgent(s, from, to) \in Seq(Agents) /\ NoTwice(moveAgent(s, from, to))
           /\ Elements(moveAgent(s, from, to)) = Elements(s)
<1>1. Len(s) \in Nat /\ DOMAIN s = 1..Len(s) /\ s[from] \in Agents
  BY LenProperties, ElementOfSeq
<1> DEFINE z == RemoveAt(s, from)
<1>2. z \in Seq(Agents) /\ NoTwice(z) /\ Elements(z) = Elements(s) \ {s[from]} /\ Len(z) = Len(s) - 1
  BY RemovedAt
<1> HIDE DEF z
<1>3. to \in 1..(Len(z) + 1) /\ s[from] \notin Elements(z)
  BY <1>1, <1>2
<1>4. /\ InsertAt(z, to, s[from]) \in Seq(Agents) /\ NoTwice(InsertAt(z, to, s[from]))
      /\ Elements(InsertAt(z, to, s[from])) = Elements(z) \cup {s[from]}
  BY <1>1, <1>2, <1>3, InsertedAt
<1>5. Elements(z) \cup {s[from]} = Elements(s)
  BY <1>2 DEF Elements
<1> QED
  BY <1>4, <1>5 DEF moveAgent, z

LEMMA Taken ==
    ASSUME NEW s \in Seq(Agents), NoTwice(s), NEW a
    PROVE  LET p == removeAgentFromBoard(s, a) IN
           p \in Seq(Agents) /\ NoTwice(p) /\ Elements(p) = Elements(s) \ {a}
<1>1. CASE Has(s, a)
  <2> DEFINE i == CHOOSE k \in DOMAIN s : s[k] = a
  <2>1. i \in DOMAIN s /\ s[i] = a
    BY <1>1 DEF Has
  <2> HIDE DEF i
  <2>2. /\ RemoveAt(s, i) \in Seq(Agents) /\ NoTwice(RemoveAt(s, i))
        /\ Elements(RemoveAt(s, i)) = Elements(s) \ {s[i]}
    BY <2>1, RemovedAt
  <2>3. removeAgentFromBoard(s, a) = RemoveAt(s, i)
    BY <1>1 DEF removeAgentFromBoard, i
  <2> QED
    BY <2>1, <2>2, <2>3
<1>2. CASE ~Has(s, a)
  BY <1>2 DEF Has, removeAgentFromBoard, Elements
<1> QED
  BY <1>1, <1>2

LEMMA Added ==
    ASSUME NEW s \in Seq(Agents), NoTwice(s), NEW a \in Agents, NEW limit
    PROVE  LET p == addAgentToBoard(s, a, limit) IN
           p \in Seq(Agents) /\ NoTwice(p) /\ Elements(p) \subseteq Elements(s) \cup {a}
<1>1. CASE Has(s, a) \/ Len(s) >= limit
  BY <1>1 DEF addAgentToBoard
<1>2. CASE ~(Has(s, a) \/ Len(s) >= limit)
  <2>1. <<a>> \in Seq(Agents) /\ NoTwice(<<a>>) /\ Elements(<<a>>) = {a}
    BY DEF NoTwice, Elements
  <2>2. Elements(s) \cap Elements(<<a>>) = {}
    BY <1>2, <2>1 DEF Has, Elements
  <2>3. s \o <<a>> \in Seq(Agents) /\ NoTwice(s \o <<a>>) /\ Elements(s \o <<a>>) = Elements(s) \cup {a}
    BY <2>1, <2>2, Joined
  <2>4. addAgentToBoard(s, a, limit) = s \o <<a>>
    BY <1>2, AppendIsConcat DEF addAgentToBoard
  <2> QED
    BY <2>3, <2>4
<1> QED
  BY <1>1, <1>2

-----------------------------------------------------------------------------
(* One tab moves *)

\* What a tab has asked for and was told, apart from its board.
SameMail(x, r) ==
    /\ Mail(x) /\ x.st = r.st /\ x.prefs = r.prefs /\ x.queue = r.queue /\ x.req = r.req
    /\ x.answer = r.answer /\ x.error = r.error /\ x.missed = r.missed

LEMMA TabIs ==
    ASSUME BoardInv, NEW t \in Tabs, Live(t)
    PROVE  Mail(tab[t]) /\ Board(tab[t]) /\ Informed(t, tab[t], saved, worker) /\ t \in worker.clients
BY DEF BoardInv, BoardTyped, TabsInformed, Live

LEMMA TabGoes ==
    ASSUME BoardInv, NEW t \in Tabs, Live(t), NEW r, r.st = "live", Mail(r), Board(r),
           Informed(t, r, saved, worker), tab' = [tab EXCEPT ![t] = r],
           UNCHANGED <<saved, worker, accepted>>, LockHolds', outages' \in Nat
    PROVE  BoardInv'
<1>1. tab'[t] = r /\ \A u \in Tabs \ {t} : tab'[u] = tab[u]
  BY DEF BoardInv, BoardTyped
<1>2. tab' = [u \in Tabs |-> tab'[u]]
  BY DEF BoardInv, BoardTyped
<1>3. BoardTyped'
  <2>1. ASSUME NEW u \in Tabs
        PROVE  \/ tab'[u].st \in {"closed", "gone"}
               \/ tab'[u].st \in {"booted", "live"} /\ Mail(tab'[u]) /\ Board(tab'[u])
    BY <1>1 DEF BoardInv, BoardTyped
  <2>2. worker' \in WorkerRecord
    BY DEF BoardInv, BoardTyped
  <2> QED
    BY <1>2, <2>1, <2>2 DEF BoardTyped
<1>4. NoChangeLost'
  BY DEF BoardInv, NoChangeLost
<1>5. TabsInformed'
  <2>1. t \in worker.clients
    BY TabIs
  <2>2. ASSUME NEW u \in Tabs, tab'[u].st = "live"
        PROVE  u \in worker.clients /\ Informed(u, tab'[u], saved, worker)
    BY <1>1, <2>1, <2>2 DEF BoardInv, TabsInformed, Live
  <2> QED
    BY <2>2 DEF BoardInv, TabsInformed, Live
<1> QED
  BY <1>3, <1>4, <1>5 DEF BoardInv

LEMMA StillInformed ==
    ASSUME NEW t, NEW x, NEW r, SameMail(x, r), Informed(t, r, saved, worker)
    PROVE  Informed(t, x, saved, worker)
BY DEF SameMail, Informed

\* A request at the end of the queue will tell the tab what is saved.
LEMMA Asks ==
    ASSUME NEW t, NEW r, Mail(r), NEW p, NEW h, NEW q, q # <<>>, r.queue # <<>> => Len(q) > 1,
           NEW x, x.queue = q, x.req = r.req
    PROVE  Informed(t, x, p, h)
BY DEF Informed, Mail

LEMMA Persisted ==
    ASSUME NEW t, NEW r, Mail(r), Board(r), Informed(t, r, saved, worker), NEW patch
    PROVE  LET x == persistPreferences(t, r, patch) IN
           x.st = r.st /\ Mail(x) /\ Board(x) /\ Informed(t, x, saved, worker)
<1> DEFINE p == IF t \in Focused THEN withoutFocusedLayoutMutations(patch) ELSE patch
           x == [r EXCEPT !.error = FALSE, !.queue = Append(r.queue, p)]
<1>1. persistPreferences(t, r, patch) = IF p = Fetch THEN r ELSE x
  BY DEF persistPreferences
<1>2. IsQueue(Append(r.queue, p)) /\ Append(r.queue, p) # <<>>
      /\ (r.queue # <<>> => Len(Append(r.queue, p)) > 1)
  BY QueueAppended DEF Mail
<1> HIDE DEF p
<1>3. /\ x = [f \in TabFields |-> x[f]] /\ x.st = r.st /\ x.queue = Append(r.queue, p) /\ x.req = r.req
      /\ x.visible = r.visible /\ x.drag = r.drag /\ x.chose = r.chose /\ x.hidden = r.hidden
  BY DEF Mail, TabFields
<1> HIDE DEF x
<1>4. Mail(x) /\ Board(x)
  BY <1>2, <1>3 DEF Mail, Board
<1>5. Informed(t, x, saved, worker)
  BY <1>2, <1>3, Asks
<1> QED
  BY <1>1, <1>3, <1>4, <1>5

\* The user changes the board, and what changed is saved.
LEMMA Edited ==
    ASSUME BoardInv, NEW t \in Tabs, Live(t), NEW r, SameMail(r, tab[t]), Board(r), NEW patch,
           Does(t, persistPreferences(t, r, patch))
    PROVE  BoardInv'
<1> DEFINE x == persistPreferences(t, r, patch)
<1>1. Mail(r) /\ r.st = "live" /\ Informed(t, r, saved, worker)
  BY TabIs, StillInformed DEF SameMail, Live
<1>2. x.st = "live" /\ Mail(x) /\ Board(x) /\ Informed(t, x, saved, worker)
  BY <1>1, Persisted
<1>3. LockHolds' /\ outages' \in Nat
  BY DEF Does, BoardInv, LockHolds, BoardTyped
<1>4. tab' = [tab EXCEPT ![t] = x] /\ UNCHANGED <<saved, worker, accepted>>
  BY DEF Does
<1> HIDE DEF x
<1> QED
  BY <1>2, <1>3, <1>4, TabGoes

LEMMA Redrawn ==
    ASSUME BoardInv, NEW t \in Tabs, Live(t), NEW r, SameMail(r, tab[t]), Board(r),
           tab' = [tab EXCEPT ![t] = r], UNCHANGED <<saved, lock, worker, outages, accepted>>
    PROVE  BoardInv'
<1>1. Mail(r) /\ r.st = "live" /\ Informed(t, r, saved, worker)
  BY TabIs, StillInformed DEF SameMail, Live
<1>2. LockHolds' /\ outages' \in Nat
  BY DEF BoardInv, LockHolds, BoardTyped
<1> QED
  BY <1>1, <1>2, TabGoes

LEMMA Itself == ASSUME NEW r, Mail(r) PROVE SameMail(r, r)
BY DEF SameMail

LEMMA ThemeSet ==
    ASSUME BoardInv, NEW t \in Tabs, set_theme(t) \/ \E a \in Agents : save_alias(t, a)
    PROVE  BoardInv'
<1>1. PICK patch : Live(t) /\ Does(t, persistPreferences(t, tab[t], patch))
  BY DEF set_theme, save_alias
<1>2. SameMail(tab[t], tab[t]) /\ Board(tab[t])
  BY <1>1, TabIs, Itself
<1> QED
  BY <1>1, <1>2, Edited

LEMMA Hidden ==
    ASSUME BoardInv, NEW t \in Tabs, NEW a \in Agents, hideAgent(t, a)
    PROVE  BoardInv'
<1> DEFINE q == tab[t]
           v == removeAgentFromBoard(q.visible, a)
           r == [q EXCEPT !.hidden = q.hidden \cup {a}, !.chose = q.chose \cup {a}, !.visible = v]
<1>1. Live(t) /\ Mail(q) /\ Board(q)
  BY TabIs DEF hideAgent
<1>2. v \in Seq(Agents) /\ NoTwice(v) /\ Elements(v) = Elements(q.visible) \ {a}
  BY <1>1, Taken DEF Board
<1>3. Does(t, persistPreferences(t, r, Shown(a) :> "hidden"))
  BY DEF hideAgent
<1> HIDE DEF q, v
<1>4. SameMail(r, q) /\ r.visible = v /\ r.drag = q.drag
      /\ r.hidden = q.hidden \cup {a} /\ r.chose = q.chose \cup {a}
  BY <1>1 DEF Mail, SameMail, TabFields
<1> HIDE DEF r
<1>5. Board(r)
  BY <1>1, <1>2, <1>4 DEF Board
<1> QED
  BY <1>1, <1>3, <1>4, <1>5, Edited DEF q

LEMMA AddedColumn ==
    ASSUME BoardInv, NEW t \in Tabs, NEW a \in Agents, addAgent(t, a)
    PROVE  BoardInv'
<1> DEFINE q == tab[t]
           v == addAgentToBoard(q.visible, a, q.prefs[Maximum])
           r == [q EXCEPT !.hidden = q.hidden \ {a}, !.chose = q.chose \ {a}, !.visible = v]
<1>1. Live(t) /\ Mail(q) /\ Board(q)
  BY TabIs DEF addAgent
<1>2. v \in Seq(Agents) /\ NoTwice(v) /\ Elements(v) \subseteq Elements(q.visible) \cup {a}
  BY <1>1, Added DEF Board
<1>3. Does(t, persistPreferences(t, r, Shown(a) :> "shown" @@ Order(a) :> Len(v)))
  BY DEF addAgent
<1> HIDE DEF q, v
<1>4. SameMail(r, q) /\ r.visible = v /\ r.drag = q.drag
      /\ r.hidden = q.hidden \ {a} /\ r.chose = q.chose \ {a}
  BY <1>1 DEF Mail, SameMail, TabFields
<1> HIDE DEF r
<1>5. Board(r)
  BY <1>1, <1>2, <1>4 DEF Board
<1> QED
  BY <1>1, <1>3, <1>4, <1>5, Edited DEF q

LEMMA MaximumSet ==
    ASSUME BoardInv, NEW t \in Tabs, NEW limit \in 1..MaxColumns, setMaximum(t, limit)
    PROVE  BoardInv'
<1> DEFINE q == tab[t]
           s == q.visible
           gone == {s[i] : i \in {j \in DOMAIN s : j > limit}}
           n == IF Len(s) < limit THEN Len(s) ELSE limit
           v == SubSeq(s, 1, n)
           r == [q EXCEPT !.hidden = q.hidden \cup gone, !.chose = q.chose \cup gone, !.visible = v]
           patch == Maximum :> limit @@ [k \in {Shown(a) : a \in gone} |-> "hidden"]
<1>1. Live(t) /\ Mail(q) /\ Board(q)
  BY TabIs DEF setMaximum
<1>2. limit \in Nat /\ s \in Seq(Agents) /\ NoTwice(s) /\ Len(s) \in Nat /\ DOMAIN s = 1..Len(s)
  BY <1>1, SharedBoardAssumption, LenProperties DEF Board
<1>3. n \in 0..Len(s) /\ n <= limit
  BY <1>2
<1>4. Does(t, persistPreferences(t, r, patch))
  BY DEF setMaximum
<1> HIDE DEF n
<1>5. v \in Seq(Agents) /\ NoTwice(v) /\ Elements(v) = {s[i] : i \in 1..n}
  BY <1>2, <1>3, Part
<1>6. Elements(v) \cap gone = {} /\ Elements(v) \subseteq Elements(s)
  <2>1. \A i \in 1..n : i \in DOMAIN s /\ ~(i > limit)
    BY <1>2, <1>3
  <2>2. Elements(v) \subseteq Elements(s)
    BY <1>5, <2>1 DEF Elements
  <2>3. ASSUME NEW i \in 1..n, NEW j \in DOMAIN s, j > limit, s[i] = s[j]
        PROVE  FALSE
    BY <1>2, <2>1, <2>3 DEF NoTwice
  <2> QED
    BY <1>5, <2>2, <2>3
<1> HIDE DEF q, v, gone, patch
<1>7. SameMail(r, q) /\ r.visible = v /\ r.drag = q.drag
      /\ r.hidden = q.hidden \cup gone /\ r.chose = q.chose \cup gone
  BY <1>1 DEF Mail, SameMail, TabFields
<1> HIDE DEF r
<1>8. Board(r)
  BY <1>1, <1>5, <1>6, <1>7 DEF Board
<1> QED
  BY <1>1, <1>4, <1>7, <1>8, Edited DEF q

LEMMA DragBegun ==
    ASSUME BoardInv, NEW t \in Tabs, beginReorder(t)
    PROVE  BoardInv'
<1> DEFINE q == tab[t]
           r == [q EXCEPT !.drag = q.visible]
<1>1. Live(t) /\ Mail(q) /\ Board(q)
  BY TabIs DEF beginReorder
<1>2. tab' = [tab EXCEPT ![t] = r] /\ UNCHANGED <<saved, lock, worker, outages, accepted>>
  BY DEF beginReorder
<1> HIDE DEF q
<1>3. SameMail(r, q) /\ r.visible = q.visible /\ r.drag = q.visible /\ r.hidden = q.hidden /\ r.chose = q.chose
  BY <1>1 DEF Mail, SameMail, TabFields
<1> HIDE DEF r
<1>4. Board(r)
  BY <1>1, <1>3 DEF Board
<1> QED
  BY <1>1, <1>2, <1>3, <1>4, Redrawn DEF q

LEMMA Dropped ==
    ASSUME BoardInv, NEW t \in Tabs, NEW from, NEW to, endReorder(t, from, to)
    PROVE  BoardInv'
<1> DEFINE q == tab[t]
           s == q.drag
           v == moveAgent(s, from, to)
           r == [q EXCEPT !.visible = v, !.drag = <<>>, !.chose = q.chose \ {s[i] : i \in DOMAIN s}]
           z == [q EXCEPT !.drag = <<>>]
<1>1. Live(t) /\ Mail(q) /\ Board(q) /\ from \in DOMAIN s /\ to \in DOMAIN s
  BY TabIs DEF endReorder
<1>2. v \in Seq(Agents) /\ NoTwice(v) /\ Elements(v) = Elements(s)
  BY <1>1, Moved DEF Board
<1>3. Does(t, IF from = to THEN z ELSE persistPreferences(t, r, orderPatch(v)))
  BY DEF endReorder
<1>4. <<>> \in Seq(Agents) /\ NoTwice(<<>>)
  BY DEF NoTwice
<1> HIDE DEF q, v
<1>5. SameMail(r, q) /\ r.visible = v /\ r.drag = <<>>
      /\ r.hidden = q.hidden /\ r.chose = q.chose \ {s[i] : i \in DOMAIN s}
  BY <1>1 DEF Mail, SameMail, TabFields
<1>6. SameMail(z, q) /\ z.visible = q.visible /\ z.drag = <<>> /\ z.hidden = q.hidden /\ z.chose = q.chose
  BY <1>1 DEF Mail, SameMail, TabFields
<1> HIDE DEF r, z
<1>7. Board(r) /\ Board(z)
  BY <1>1, <1>2, <1>4, <1>5, <1>6 DEF Board, Elements
<1>8. CASE from = to
  <2>1. tab' = [tab EXCEPT ![t] = z] /\ UNCHANGED <<saved, lock, worker, outages, accepted>>
    BY <1>3, <1>8 DEF Does
  <2> QED
    BY <1>1, <1>6, <1>7, <2>1, Redrawn DEF q
<1>9. CASE from # to
  <2>1. Does(t, persistPreferences(t, r, orderPatch(v)))
    BY <1>3, <1>9
  <2> QED
    BY <1>1, <1>5, <1>7, <2>1, Edited DEF q
<1> QED
  BY <1>8, <1>9

LEMMA AgentHeardOf ==
    ASSUME BoardInv, NEW t \in Tabs, NEW a \in Agents, agents_update(t, a)
    PROVE  BoardInv'
<1> DEFINE q == tab[t]
           v == IF t \in Focused \/ a \in q.hidden THEN q.visible ELSE admitAgent(q.visible, a, q.prefs)
           r == [q EXCEPT !.agents = q.agents \cup {a}, !.visible = v]
<1>1. Live(t) /\ Mail(q) /\ Board(q)
  BY TabIs DEF agents_update
<1>2. tab' = [tab EXCEPT ![t] = r] /\ UNCHANGED <<saved, lock, worker, outages, accepted>>
  BY DEF agents_update
<1>3. v \in Seq(Agents) /\ NoTwice(v)
      /\ \/ Elements(v) \subseteq Elements(q.visible)
         \/ a \notin q.hidden /\ Elements(v) \subseteq Elements(q.visible) \cup {a}
  BY <1>1, Added DEF Board, admitAgent
<1> HIDE DEF q, v
<1>4. SameMail(r, q) /\ r.visible = v /\ r.drag = q.drag /\ r.hidden = q.hidden /\ r.chose = q.chose
  BY <1>1 DEF Mail, SameMail, TabFields
<1> HIDE DEF r
<1>5. Board(r)
  BY <1>1, <1>3, <1>4 DEF Board
<1> QED
  BY <1>1, <1>2, <1>4, <1>5, Redrawn DEF q

-----------------------------------------------------------------------------
(* A tab's requests *)

LEMMA Requested ==
    ASSUME BoardInv, NEW t \in Tabs,
           sends(t) \/ preferences(t) \/ patch_preferences(t) \/ answered(t) \/ request_fails(t)
    PROVE  BoardInv'
<1> DEFINE q == tab[t]
           Goes(r) == tab' = [tab EXCEPT ![t] = r] /\ UNCHANGED <<saved, worker, accepted>>
           Kept(r) == /\ r = [f \in TabFields |-> r[f]] /\ r.st = q.st /\ r.visible = q.visible
                      /\ r.drag = q.drag /\ r.hidden = q.hidden /\ r.chose = q.chose
<1>1. Live(t) /\ Mail(q) /\ Board(q) /\ Informed(t, q, saved, worker)
  BY TabIs DEF sends, preferences, patch_preferences, answered, request_fails
<1>2. LockHolds' /\ outages' \in Nat
  BY DEF sends, preferences, patch_preferences, answered, request_fails, acquire, Fault, BoardInv, LockHolds,
         BoardTyped
<1>3. ASSUME NEW r, Kept(r), Mail(r), Informed(t, r, saved, worker), Goes(r)
      PROVE  BoardInv'
  <2>1. Board(r) /\ r.st = "live"
    BY <1>1, <1>3 DEF Board, Live
  <2> QED
    BY <1>1, <1>2, <1>3, <2>1, TabGoes
<1>4. q.queue # <<>> => IsQueue(Tail(q.queue)) /\ (Len(q.queue) > 1 => Tail(q.queue) # <<>>)
  BY <1>1, QueueShortened DEF Mail
<1>5. CASE sends(t)
  <2> DEFINE r == [q EXCEPT !.req = "sent"]
  <2>1. Goes(r) /\ q.queue # <<>>
    BY <1>5 DEF sends
  <2> HIDE DEF q
  <2>2. Kept(r) /\ Mail(r) /\ r.req = "sent" /\ r.queue = q.queue
    BY <1>1, <2>1 DEF Mail, TabFields
  <2> HIDE DEF r
  <2>3. Informed(t, r, saved, worker)
    BY <2>1, <2>2 DEF Informed
  <2> QED
    BY <1>3, <2>1, <2>2, <2>3
<1>6. CASE preferences(t)
  <2> DEFINE r == [q EXCEPT !.req = "answered", !.answer = saved, !.missed = FALSE]
  <2>1. Goes(r) /\ q.queue # <<>>
    BY <1>1, <1>6 DEF preferences, Mail
  <2> HIDE DEF q
  <2>2. Kept(r) /\ Mail(r) /\ r.req = "answered" /\ r.answer = saved
    BY <1>1, <2>1 DEF Mail, TabFields
  <2> HIDE DEF r
  <2>3. Informed(t, r, saved, worker)
    BY <2>2 DEF Informed
  <2> QED
    BY <1>3, <2>1, <2>2, <2>3
<1>7. CASE patch_preferences(t)
  <2> DEFINE r == [q EXCEPT !.req = "served", !.missed = FALSE]
  <2>1. Goes(r) /\ q.queue # <<>>
    BY <1>1, <1>7 DEF patch_preferences, Mail
  <2> HIDE DEF q
  <2>2. Kept(r) /\ Mail(r) /\ r.req = "served" /\ r.queue = q.queue
    BY <1>1, <2>1 DEF Mail, TabFields
  <2> HIDE DEF r
  <2>3. Informed(t, r, saved, worker)
    BY <2>1, <2>2 DEF Informed
  <2> QED
    BY <1>3, <2>1, <2>2, <2>3
<1>8. CASE answered(t)
  <2> DEFINE r == [q EXCEPT !.req = "none", !.queue = Tail(q.queue), !.prefs = q.answer]
  <2>1. Goes(r) /\ q.queue # <<>> /\ q.req = "answered"
    BY <1>1, <1>8 DEF answered, Mail
  <2> HIDE DEF q
  <2>2. Kept(r) /\ r.req = "none" /\ r.queue = Tail(q.queue) /\ r.prefs = q.answer
        /\ r.error = q.error /\ r.missed = q.missed
    BY <1>1, <2>1 DEF Mail, TabFields
  <2> HIDE DEF r
  <2>3. Mail(r) /\ Informed(t, r, saved, worker)
    BY <1>1, <1>4, <2>1, <2>2 DEF Mail, Informed
  <2> QED
    BY <1>3, <2>1, <2>2, <2>3
<1>9. CASE request_fails(t)
  <2> DEFINE r == [q EXCEPT !.req = "none", !.queue = Tail(q.queue), !.error = TRUE]
  <2>1. Goes(r) /\ q.queue # <<>>
    BY <1>1, <1>9 DEF request_fails, Mail
  <2> HIDE DEF q
  <2>2. Kept(r) /\ r.req = "none" /\ r.queue = Tail(q.queue) /\ r.error = TRUE
    BY <1>1, <2>1 DEF Mail, TabFields
  <2> HIDE DEF r
  <2>3. Mail(r) /\ Informed(t, r, saved, worker)
    BY <1>4, <2>1, <2>2 DEF Mail, Informed
  <2> QED
    BY <1>3, <2>1, <2>2, <2>3
<1> QED
  BY <1>5, <1>6, <1>7, <1>8, <1>9

-----------------------------------------------------------------------------
(* The preferences store *)

LEMMA AliasSet ==
    ASSUME BoardInv, NEW a \in Agents, set_alias(a)
    PROVE  BoardInv'
<1>1. LockHolds'
  BY DEF set_alias, acquire, LockHolds
<1>2. UNCHANGED <<saved, worker, tab, outages, accepted>>
  BY DEF set_alias
<1> QED
  BY <1>1, <1>2 DEF BoardInv, BoardTyped, NoChangeLost, TabsInformed, Live

\* What a message to every subscriber does to the inboxes.
LEMMA Told ==
    ASSUME NEW h \in WorkerRecord, NEW m \in Messages
    PROVE  /\ Tell(h, m) \in [Tabs -> Seq(Messages)]
           /\ \A t \in h.clients \cap Tabs : \E i \in DOMAIN Tell(h, m)[t] : Tell(h, m)[t][i] = m
<1>1. h.inbox \in [Tabs -> Seq(Messages)]
  BY DEF WorkerRecord
<1>2. ASSUME NEW t \in Tabs
      PROVE  Append(h.inbox[t], m) \in Seq(Messages)
             /\ \E i \in DOMAIN Append(h.inbox[t], m) : Append(h.inbox[t], m)[i] = m
  <2> DEFINE q == h.inbox[t]
             z == Append(q, m)
  <2>1. q \in Seq(Messages) /\ Len(q) \in Nat
    BY <1>1, LenProperties
  <2>2. z \in Seq(Messages) /\ Len(z) = Len(q) + 1 /\ z[Len(q) + 1] = m
    BY <2>1, AppendProperties
  <2>3. DOMAIN z = 1..Len(z)
    BY <2>2, LenProperties
  <2> HIDE DEF q, z
  <2>4. Len(q) + 1 \in DOMAIN z
    BY <2>1, <2>2, <2>3
  <2> QED
    BY <2>2, <2>4 DEF q, z
<1> QED
  BY <1>1, <1>2 DEF Tell

LEMMA Announced ==
    ASSUME BoardInv, announce
    PROVE  /\ worker' \in WorkerRecord /\ outages' \in Nat
           /\ worker'.source = worker.source /\ worker'.opened = worker.opened /\ worker'.clients = worker.clients
           /\ \A t \in worker.clients \cap Tabs : outages' > outages \/ Notified(t, worker')
<1>1. worker \in WorkerRecord /\ outages \in Nat
  BY DEF BoardInv, BoardTyped
<1>2. CASE worker.source = "open" /\ worker' = [worker EXCEPT !.inbox = Tell(worker, "preferences_changed")]
           /\ UNCHANGED outages
  <2>1. "preferences_changed" \in Messages
    BY DEF Messages
  <2>2. worker' \in WorkerRecord /\ worker'.inbox = Tell(worker, "preferences_changed")
        /\ worker'.source = worker.source /\ worker'.opened = worker.opened /\ worker'.clients = worker.clients
    BY <1>1, <1>2, <2>1, Told DEF WorkerRecord
  <2>3. \A t \in worker.clients \cap Tabs : Notified(t, worker')
    BY <1>1, <2>1, <2>2, Told DEF Notified
  <2> QED
    BY <1>1, <1>2, <2>2, <2>3
<1>3. CASE worker.source # "open" /\ worker' = worker /\ UNCHANGED outages
  BY <1>1, <1>3 DEF Notified
<1>4. CASE Fault /\ worker' = [worker EXCEPT !.inbox = Tell(worker, "gap")]
  <2>1. "gap" \in Messages
    BY DEF Messages
  <2>2. worker' \in WorkerRecord
        /\ worker'.source = worker.source /\ worker'.opened = worker.opened /\ worker'.clients = worker.clients
    BY <1>1, <1>4, <2>1, Told DEF WorkerRecord
  <2>3. outages' \in Nat /\ outages' > outages
    BY <1>1, <1>4 DEF Fault
  <2> QED
    BY <2>2, <2>3
<1> QED
  BY <1>2, <1>3, <1>4 DEF announce

LEMMA Saved ==
    ASSUME BoardInv, NEW w \in lock, mutate_saves(w)
    PROVE  BoardInv'
<1> DEFINE updated == merge_preferences(w.loaded, w.patch)
           NotAsked(u) == u # w.by \/ tab[u].st # "live" \/ tab[u].req # "served"
           x(u) == IF NotAsked(u) THEN tab[u] ELSE [tab[u] EXCEPT !.req = "answered", !.answer = updated]
<1>1. /\ saved' = updated /\ lock' = lock \ {w} /\ accepted' = w.patch @@ accepted /\ announce
      /\ tab' = [u \in Tabs |-> Missed(x(u))]
  BY DEF mutate_saves
<1>2. lock' = {} /\ w.loaded = saved /\ saved = accepted
  BY <1>1 DEF BoardInv, LockHolds, NoChangeLost
<1>3. NoChangeLost' /\ LockHolds'
  BY <1>1, <1>2 DEF NoChangeLost, LockHolds, merge_preferences
<1> HIDE DEF updated
<1>4. /\ worker' \in WorkerRecord /\ outages' \in Nat
      /\ worker'.source = worker.source /\ worker'.opened = worker.opened /\ worker'.clients = worker.clients
      /\ \A u \in worker.clients \cap Tabs : outages' > outages \/ Notified(u, worker')
  BY <1>1, Announced
<1>5. ASSUME NEW u \in Tabs
      PROVE  /\ tab'[u].st = tab[u].st
             /\ tab[u].st \in {"closed", "gone"} => tab'[u] = tab[u]
             /\ tab[u].st \in {"booted", "live"} => Mail(tab'[u]) /\ Board(tab'[u])
             /\ tab[u].st = "live" /\ outages' > outages => tab'[u].missed = TRUE
  <2>1. tab'[u] = Missed(x(u))
    BY <1>1
  <2>2. CASE tab[u].st \in {"closed", "gone"}
    BY <2>1, <2>2 DEF Missed
  <2>3. CASE tab[u].st \in {"booted", "live"}
    <3> DEFINE q == tab[u]
    <3>1. Mail(q) /\ Board(q)
      BY <2>3 DEF BoardInv, BoardTyped
    <3>2. Mail(x(u)) /\ Board(x(u)) /\ x(u).st = q.st
      <4>1. CASE NotAsked(u)
        BY <3>1, <4>1
      <4>2. CASE ~NotAsked(u)
        <5> DEFINE r == [q EXCEPT !.req = "answered", !.answer = updated]
        <5>1. q.req = "served" /\ x(u) = r
          BY <4>2
        <5> HIDE DEF q, x
        <5>2. /\ r = [f \in TabFields |-> r[f]] /\ r.st = q.st /\ r.queue = q.queue
              /\ r.visible = q.visible /\ r.drag = q.drag /\ r.hidden = q.hidden /\ r.chose = q.chose
          BY <3>1 DEF Mail, TabFields
        <5> HIDE DEF r
        <5>3. Mail(r) /\ Board(r)
          BY <3>1, <5>1, <5>2 DEF Mail, Board
        <5> QED
          BY <5>1, <5>2, <5>3
      <4> QED
        BY <4>1, <4>2
    <3> HIDE DEF x, q
    <3> DEFINE y == x(u)
               z == [y EXCEPT !.missed = TRUE]
    <3>3. Missed(y) = IF q.st = "live" /\ outages' > outages THEN z ELSE y
      BY <3>2 DEF Missed
    <3> HIDE DEF y
    <3>4. Mail(y) /\ Board(y) /\ y.st = q.st
      BY <3>2 DEF y
    <3>5. /\ z = [f \in TabFields |-> z[f]] /\ z.st = y.st /\ z.queue = y.queue /\ z.req = y.req /\ z.missed = TRUE
          /\ z.visible = y.visible /\ z.drag = y.drag /\ z.hidden = y.hidden /\ z.chose = y.chose
      BY <3>4 DEF Mail, TabFields
    <3> HIDE DEF z
    <3>6. Mail(z) /\ Board(z)
      BY <3>4, <3>5 DEF Mail, Board
    <3> QED
      BY <2>1, <2>3, <3>3, <3>4, <3>5, <3>6 DEF q, y
  <2> QED
    BY <2>2, <2>3 DEF BoardInv, BoardTyped
<1>6. BoardTyped'
  <2>1. tab' = [u \in Tabs |-> tab'[u]]
    BY <1>1
  <2>2. \A u \in Tabs : \/ tab'[u].st \in {"closed", "gone"}
                        \/ tab'[u].st \in {"booted", "live"} /\ Mail(tab'[u]) /\ Board(tab'[u])
    BY <1>5 DEF BoardInv, BoardTyped
  <2> QED
    BY <1>4, <2>1, <2>2 DEF BoardTyped
<1>7. TabsInformed'
  <2>1. ASSUME NEW u \in Tabs, tab'[u].st = "live"
        PROVE  u \in worker'.clients /\ Informed(u, tab'[u], saved', worker')
    <3>1. tab[u].st = "live" /\ u \in worker.clients
      BY <1>5, <2>1 DEF BoardInv, TabsInformed, Live
    <3> QED
      BY <1>4, <1>5, <3>1 DEF Informed
  <2> QED
    BY <1>4, <2>1 DEF BoardInv, TabsInformed, Live
<1> QED
  BY <1>3, <1>6, <1>7 DEF BoardInv

-----------------------------------------------------------------------------
(* The shared worker *)

\* Tabs and worker move; the preferences and their lock do not.
LEMMA WorkerGoes ==
    ASSUME BoardInv, UNCHANGED <<saved, lock, accepted>>, worker' \in WorkerRecord, outages' \in Nat,
           worker'.source = "open" => worker'.opened,
           NEW t \in Tabs, NEW r, tab' = [tab EXCEPT ![t] = r],
           r.st \in {"closed", "gone"} \/ (r.st \in {"booted", "live"} /\ Mail(r) /\ Board(r)),
           r.st = "live" => t \in worker'.clients /\ Informed(t, r, saved, worker'),
           \A u \in Tabs \ {t} : /\ u \in worker.clients => u \in worker'.clients
                                 /\ u \in worker.clients /\ Notified(u, worker) => Notified(u, worker')
    PROVE  BoardInv'
<1>1. tab'[t] = r /\ (\A u \in Tabs \ {t} : tab'[u] = tab[u]) /\ tab' = [u \in Tabs |-> tab'[u]]
  BY DEF BoardInv, BoardTyped
<1>2. BoardTyped'
  <2>1. \A u \in Tabs : \/ tab'[u].st \in {"closed", "gone"}
                        \/ tab'[u].st \in {"booted", "live"} /\ Mail(tab'[u]) /\ Board(tab'[u])
    BY <1>1 DEF BoardInv, BoardTyped
  <2> QED
    BY <1>1, <2>1 DEF BoardTyped
<1>3. NoChangeLost' /\ LockHolds'
  BY DEF BoardInv, NoChangeLost, LockHolds
<1>4. ASSUME NEW u \in Tabs, tab'[u].st = "live"
      PROVE  u \in worker'.clients /\ Informed(u, tab'[u], saved, worker')
  <2>1. CASE u = t
    BY <1>1, <1>4, <2>1
  <2>2. CASE u # t
    <3>1. u \in worker.clients /\ Informed(u, tab[u], saved, worker) /\ tab'[u] = tab[u]
      BY <1>1, <1>4, <2>2 DEF BoardInv, TabsInformed, Live
    <3> QED
      BY <2>2, <3>1 DEF Informed
  <2> QED
    BY <2>1, <2>2
<1> QED
  BY <1>2, <1>3, <1>4 DEF BoardInv, TabsInformed, Live

LEMMA SourceMoves ==
    ASSUME BoardInv, source_opens \/ source_breaks
    PROVE  BoardInv'
<1>1. worker \in WorkerRecord /\ outages \in Nat
  BY DEF BoardInv, BoardTyped
<1>2. /\ UNCHANGED <<saved, lock, tab, accepted>> /\ outages' \in Nat
      /\ \/ worker' = [worker EXCEPT !.source = "open", !.opened = TRUE, !.inbox = Tell(worker, "open")]
         \/ worker' = [worker EXCEPT !.source = "down", !.inbox = Tell(worker, "error")]
  BY <1>1 DEF source_opens, source_breaks, Fault
<1>3. /\ worker' \in WorkerRecord /\ worker'.clients = worker.clients
      /\ worker'.source = "open" => worker'.opened
      /\ \A t \in worker.clients \cap Tabs : Notified(t, worker')
  <2>1. "open" \in Messages /\ "error" \in Messages
    BY DEF Messages
  <2>2. CASE worker' = [worker EXCEPT !.source = "open", !.opened = TRUE, !.inbox = Tell(worker, "open")]
    <3>1. /\ worker' \in WorkerRecord /\ worker'.clients = worker.clients /\ worker'.opened = TRUE
          /\ worker'.inbox = Tell(worker, "open")
      BY <1>1, <2>1, <2>2, Told DEF WorkerRecord
    <3> QED
      BY <1>1, <2>1, <3>1, Told DEF Notified
  <2>3. CASE worker' = [worker EXCEPT !.source = "down", !.inbox = Tell(worker, "error")]
    <3>1. worker' \in WorkerRecord /\ worker'.clients = worker.clients /\ worker'.source = "down"
      BY <1>1, <2>1, <2>3, Told DEF WorkerRecord
    <3> QED
      BY <3>1 DEF Notified
  <2> QED
    BY <1>2, <2>2, <2>3
<1>4. BoardTyped'
  BY <1>2, <1>3 DEF BoardInv, BoardTyped
<1>5. NoChangeLost' /\ LockHolds'
  BY <1>2 DEF BoardInv, NoChangeLost, LockHolds
<1>6. TabsInformed'
  BY <1>2, <1>3 DEF BoardInv, TabsInformed, Live, Informed
<1> QED
  BY <1>4, <1>5, <1>6 DEF BoardInv

LEMMA Received ==
    ASSUME BoardInv, NEW t \in Tabs, receives(t)
    PROVE  BoardInv'
<1> DEFINE q == tab[t]
           z == worker.inbox[t]
           m == Head(z)
           a == [q EXCEPT !.connected = TRUE, !.queue = Append(q.queue, Fetch)]
           b == [q EXCEPT !.connected = FALSE]
           c == [q EXCEPT !.queue = Append(q.queue, Fetch)]
           asked == {"open", "preferences_changed"}
<1>1. /\ Live(t) /\ Mail(q) /\ Board(q) /\ Informed(t, q, saved, worker) /\ t \in worker.clients
  BY TabIs DEF receives
<1>2. worker \in WorkerRecord /\ outages \in Nat
  BY DEF BoardInv, BoardTyped
<1>3. worker.inbox \in [Tabs -> Seq(Messages)] /\ z \in Seq(Messages) /\ z # <<>>
  BY <1>2 DEF WorkerRecord, receives
<1>4. /\ m \in Messages /\ Tail(z) \in Seq(Messages) /\ Len(Tail(z)) = Len(z) - 1 /\ Len(z) \in Nat
      /\ DOMAIN z = 1..Len(z) /\ DOMAIN Tail(z) = 1..Len(Tail(z)) /\ m = z[1]
      /\ \A i \in 1..Len(Tail(z)) : Tail(z)[i] = z[i + 1]
  BY <1>3, HeadTailProperties, LenProperties
<1>5. PICK r : /\ tab' = [tab EXCEPT ![t] = r]
               /\ m = "open" => r = a
               /\ m = "error" => r = b
               /\ m = "preferences_changed" => r = c
               /\ m = "gap" => r = q
  <2>1. tab' = [tab EXCEPT ![t] = CASE m = "open" -> a [] m = "error" -> b [] m = "preferences_changed" -> c
                                     [] m = "gap" -> q]
    BY DEF receives, reopened
  <2> HIDE DEF a, b, c, q, m
  <2> DEFINE x == CASE m = "open" -> a [] m = "error" -> b [] m = "preferences_changed" -> c [] m = "gap" -> q
  <2>2. /\ m = "open" => x = a
        /\ m = "error" => x = b
        /\ m = "preferences_changed" => x = c
        /\ m = "gap" => x = q
    OBVIOUS
  <2> QED
    BY <2>1, <2>2
<1>6. worker' = [worker EXCEPT !.inbox = [worker.inbox EXCEPT ![t] = Tail(z)]]
      /\ UNCHANGED <<saved, lock, changes, outages, accepted>>
  BY DEF receives
<1> HIDE DEF q
<1>7. /\ IsQueue(Append(q.queue, Fetch)) /\ Append(q.queue, Fetch) # <<>>
      /\ q.queue # <<>> => Len(Append(q.queue, Fetch)) > 1
  BY <1>1, QueueAppended DEF Mail
<1>8. /\ a = [f \in TabFields |-> a[f]] /\ a.st = q.st /\ a.queue = Append(q.queue, Fetch) /\ a.req = q.req
      /\ a.visible = q.visible /\ a.drag = q.drag /\ a.hidden = q.hidden /\ a.chose = q.chose
  BY <1>1 DEF Mail, TabFields
<1>9. /\ c = [f \in TabFields |-> c[f]] /\ c.st = q.st /\ c.queue = Append(q.queue, Fetch) /\ c.req = q.req
      /\ c.visible = q.visible /\ c.drag = q.drag /\ c.hidden = q.hidden /\ c.chose = q.chose
  BY <1>1 DEF Mail, TabFields
<1>10. /\ SameMail(b, q)
       /\ b.visible = q.visible /\ b.drag = q.drag /\ b.hidden = q.hidden /\ b.chose = q.chose
  BY <1>1 DEF Mail, SameMail, TabFields
<1> HIDE DEF a, b, c
<1>11. Mail(r) /\ Board(r) /\ r.st = "live"
  <2>1. Mail(a) /\ Board(a) /\ Mail(c) /\ Board(c) /\ Mail(b) /\ Board(b)
    BY <1>1, <1>7, <1>8, <1>9, <1>10 DEF Mail, Board, SameMail
  <2>2. a.st = "live" /\ b.st = "live" /\ c.st = "live" /\ q.st = "live"
    BY <1>1, <1>8, <1>9, <1>10 DEF SameMail, Live, q
  <2> QED
    BY <1>1, <1>4, <1>5, <2>1, <2>2 DEF Messages
<1>12. /\ worker' \in WorkerRecord /\ worker'.source = worker.source /\ worker'.opened = worker.opened
       /\ worker'.clients = worker.clients /\ worker'.inbox[t] = Tail(z)
       /\ \A u \in Tabs \ {t} : worker'.inbox[u] = worker.inbox[u]
  BY <1>2, <1>3, <1>4, <1>6 DEF WorkerRecord
<1>13. Informed(t, r, saved, worker')
  <2>1. CASE m \in asked
    <3>1. r.queue = Append(q.queue, Fetch) /\ r.req = q.req
      BY <1>5, <1>8, <1>9, <2>1
    <3> QED
      BY <1>1, <1>7, <3>1, Asks
  <2>2. CASE m \notin asked
    <3>1. Notified(t, worker) => Notified(t, worker')
      <4> SUFFICES ASSUME NEW i \in DOMAIN z, z[i] \in asked
                   PROVE  Notified(t, worker')
        BY <1>12 DEF Notified
      <4>1. i # 1
        BY <1>4, <2>2
      <4>2. i - 1 \in DOMAIN Tail(z) /\ i - 1 + 1 = i
        BY <1>4, <4>1
      <4>3. Tail(z)[i - 1] = z[i]
        BY <1>4, <4>2
      <4> QED
        BY <1>12, <4>2, <4>3 DEF Notified
    <3>2. r = b \/ r = q
      BY <1>4, <1>5, <2>2 DEF Messages
    <3>3. SameMail(r, q)
      BY <1>1, <1>10, <3>2, Itself
    <3> QED
      BY <1>1, <3>1, <3>3 DEF SameMail, Informed
  <2> QED
    BY <2>1, <2>2
<1>14. \A u \in Tabs \ {t} : Notified(u, worker) => Notified(u, worker')
  BY <1>12 DEF Notified
<1>15. worker'.source = "open" => worker'.opened
  BY <1>12 DEF BoardInv, TabsInformed
<1> QED
  BY <1>1, <1>2, <1>5, <1>6, <1>11, <1>12, <1>13, <1>14, <1>15, WorkerGoes

LEMMA Booted ==
    ASSUME BoardInv, NEW t \in Tabs, loadBootstrap(t)
    PROVE  BoardInv'
<1> DEFINE h == {a \in Agents : saved[Shown(a)] = "hidden"}
           r == [st |-> "booted", prefs |-> saved, queue |-> <<>>, req |-> "none", answer |-> saved,
                 error |-> FALSE, missed |-> FALSE, connected |-> FALSE, agents |-> {}, visible |-> <<>>,
                 hidden |-> h, chose |-> {}, drag |-> <<>>]
<1>1. tab' = [tab EXCEPT ![t] = r] /\ UNCHANGED <<saved, lock, worker, changes, outages, accepted>>
  BY DEF loadBootstrap
<1> HIDE DEF h
<1>2. r.st = "booted" /\ r.queue = <<>> /\ r.req = "none" /\ r.visible = <<>> /\ r.drag = <<>> /\ r.chose = {}
      /\ r.hidden = h
  OBVIOUS
<1>3. r = [f \in TabFields |-> r[f]]
  BY DEF TabFields
<1> HIDE DEF r
<1>4. IsQueue(<<>>) /\ <<>> \in Seq(Agents) /\ NoTwice(<<>>) /\ Elements(<<>>) = {}
  BY DEF IsQueue, NoTwice, Elements
<1>5. Mail(r) /\ Board(r)
  BY <1>2, <1>3, <1>4 DEF Mail, Board
<1>6. worker' \in WorkerRecord /\ outages' \in Nat /\ (worker'.source = "open" => worker'.opened)
  BY <1>1 DEF BoardInv, BoardTyped, TabsInformed
<1> QED
  BY <1>1, <1>2, <1>5, <1>6, WorkerGoes

LEMMA Subscribed ==
    ASSUME BoardInv, NEW t \in Tabs, subscribe(t)
    PROVE  BoardInv'
<1> DEFINE q == tab[t]
           r == [q EXCEPT !.st = "live"]
           source == IF worker.source = "none" THEN "connecting" ELSE worker.source
           z == IF worker.source # "none" /\ worker.opened THEN Append(worker.inbox[t], "open") ELSE worker.inbox[t]
<1>1. q.st = "booted" /\ Mail(q) /\ Board(q)
  BY DEF subscribe, BoardInv, BoardTyped
<1>2. worker \in WorkerRecord /\ outages \in Nat /\ (worker.source = "open" => worker.opened)
  BY DEF BoardInv, BoardTyped, TabsInformed
<1>3. /\ tab' = [tab EXCEPT ![t] = r] /\ UNCHANGED <<saved, lock, outages, accepted>>
      /\ worker' = [worker EXCEPT !.clients = worker.clients \cup {t}, !.source = source,
                                  !.inbox = [worker.inbox EXCEPT ![t] = z]]
  BY DEF subscribe
<1>4. /\ worker.inbox \in [Tabs -> Seq(Messages)] /\ worker.inbox[t] \in Seq(Messages)
      /\ "open" \in Messages
  BY <1>2 DEF WorkerRecord, Messages
<1>5. z \in Seq(Messages) /\ (worker.source = "open" => \E i \in DOMAIN z : z[i] = "open")
  <2> DEFINE y == Append(worker.inbox[t], "open")
  <2>1. y \in Seq(Messages) /\ y[Len(worker.inbox[t]) + 1] = "open" /\ Len(y) = Len(worker.inbox[t]) + 1
    BY <1>4, AppendProperties
  <2>2. DOMAIN y = 1..Len(y) /\ Len(worker.inbox[t]) \in Nat
    BY <1>4, <2>1, LenProperties
  <2> HIDE DEF y
  <2>3. Len(worker.inbox[t]) + 1 \in DOMAIN y
    BY <2>1, <2>2
  <2> QED
    BY <1>2, <1>4, <2>1, <2>3 DEF y
<1> HIDE DEF z
<1>6. source \in {"connecting", "open", "down"} /\ (source = "open" <=> worker.source = "open")
  BY <1>2 DEF WorkerRecord
<1> HIDE DEF source
<1>7. /\ worker' \in WorkerRecord /\ worker'.source = source /\ worker'.opened = worker.opened
      /\ worker'.clients = worker.clients \cup {t} /\ worker'.inbox[t] = z
      /\ \A u \in Tabs \ {t} : worker'.inbox[u] = worker.inbox[u]
  BY <1>2, <1>3, <1>4, <1>5, <1>6 DEF WorkerRecord
<1> HIDE DEF q
<1>8. /\ r = [f \in TabFields |-> r[f]] /\ r.st = "live" /\ r.queue = q.queue /\ r.req = q.req
      /\ r.visible = q.visible /\ r.drag = q.drag /\ r.hidden = q.hidden /\ r.chose = q.chose
  BY <1>1 DEF Mail, TabFields
<1> HIDE DEF r
<1>9. Mail(r) /\ Board(r)
  BY <1>1, <1>8 DEF Mail, Board
<1>10. Informed(t, r, saved, worker') /\ (worker'.source = "open" => worker'.opened)
  BY <1>2, <1>5, <1>6, <1>7 DEF Informed, Notified
<1>11. \A u \in Tabs \ {t} : /\ u \in worker.clients => u \in worker'.clients
                             /\ Notified(u, worker) => Notified(u, worker')
  BY <1>6, <1>7 DEF Notified
<1>12. outages' \in Nat /\ UNCHANGED <<saved, lock, accepted>> /\ tab' = [tab EXCEPT ![t] = r]
       /\ t \in worker'.clients
  BY <1>2, <1>3, <1>7
<1> QED
  BY <1>7, <1>8, <1>9, <1>10, <1>11, <1>12, WorkerGoes

LEMMA Detached ==
    ASSUME BoardInv, NEW t \in Tabs, detach(t)
    PROVE  BoardInv'
<1> DEFINE r == [st |-> "gone"]
           left == worker.clients \ {t}
           source == IF left = {} THEN "none" ELSE worker.source
           opened == left # {} /\ worker.opened
<1>1. worker \in WorkerRecord /\ outages \in Nat /\ (worker.source = "open" => worker.opened)
  BY DEF BoardInv, BoardTyped, TabsInformed
<1>2. /\ tab' = [tab EXCEPT ![t] = r] /\ UNCHANGED <<saved, lock, accepted>> /\ outages' = outages + 1
      /\ worker' = [worker EXCEPT !.clients = left, !.inbox = [worker.inbox EXCEPT ![t] = <<>>], !.source = source,
                                  !.opened = opened]
  BY DEF detach, Fault
<1>3. worker.inbox \in [Tabs -> Seq(Messages)] /\ <<>> \in Seq(Messages) /\ left \subseteq Tabs
  BY <1>1 DEF WorkerRecord
<1>4. source \in {"none", "connecting", "open", "down"} /\ opened \in BOOLEAN
      /\ (source = "open" => worker.source = "open" /\ opened)
  BY <1>1 DEF WorkerRecord
<1> HIDE DEF source, opened
<1>5. /\ worker' \in WorkerRecord /\ worker'.source = source /\ worker'.opened = opened /\ worker'.clients = left
      /\ \A u \in Tabs \ {t} : worker'.inbox[u] = worker.inbox[u]
  BY <1>1, <1>2, <1>3, <1>4 DEF WorkerRecord
<1>6. \A u \in Tabs \ {t} : /\ u \in worker.clients => u \in worker'.clients
                            /\ Notified(u, worker) => Notified(u, worker')
  BY <1>4, <1>5 DEF Notified
<1>7. r.st = "gone" /\ outages' \in Nat
  BY <1>1, <1>2
<1> QED
  BY <1>2, <1>4, <1>5, <1>6, <1>7, WorkerGoes

LEMMA BoardInvInit == BoardInit => BoardInv
<1> SUFFICES ASSUME BoardInit PROVE BoardInv
  OBVIOUS
<1>1. worker \in WorkerRecord
  BY DEF BoardInit, WorkerRecord
<1>2. BoardTyped /\ NoChangeLost /\ LockHolds /\ TabsInformed
  BY <1>1 DEF BoardInit, BoardTyped, NoChangeLost, LockHolds, TabsInformed, Live
<1> QED
  BY <1>2 DEF BoardInv

LEMMA BoardInvNext == BoardInv /\ [BoardNext]_boardVars => BoardInv'
<1> SUFFICES ASSUME BoardInv, [BoardNext]_boardVars PROVE BoardInv'
  OBVIOUS
<1>1. CASE UNCHANGED boardVars
  BY <1>1 DEF boardVars, BoardInv, BoardTyped, NoChangeLost, LockHolds, TabsInformed, Live
<1>2. ASSUME NEW t \in Tabs,
             \/ set_theme(t) \/ (\E a \in Agents : save_alias(t, a))
             \/ (\E limit \in 1..MaxColumns : setMaximum(t, limit))
             \/ beginReorder(t) \/ (\E from, to \in 1..MaxColumns : endReorder(t, from, to))
             \/ (\E a \in Agents : hideAgent(t, a) \/ addAgent(t, a) \/ agents_update(t, a))
      PROVE  BoardInv'
  BY <1>2, ThemeSet, MaximumSet, DragBegun, Dropped, Hidden, AddedColumn, AgentHeardOf
<1>3. ASSUME NEW t \in Tabs,
             \/ sends(t) \/ preferences(t) \/ patch_preferences(t) \/ answered(t) \/ request_fails(t)
             \/ receives(t) \/ loadBootstrap(t) \/ subscribe(t) \/ detach(t)
      PROVE  BoardInv'
  BY <1>3, Requested, Received, Booted, Subscribed, Detached
<1>4. ASSUME NEW a \in Agents, set_alias(a)
      PROVE  BoardInv'
  BY <1>4, AliasSet
<1>5. ASSUME NEW w \in lock, mutate_saves(w)
      PROVE  BoardInv'
  BY <1>5, Saved
<1>6. CASE source_opens \/ source_breaks
  BY <1>6, SourceMoves
<1> QED
  BY <1>1, <1>2, <1>3, <1>4, <1>5, <1>6 DEF BoardNext

\* The inductive invariant of the board: who holds the lock loaded what is
\* saved, and every tab knows the preferences, is about to, or says it may not.
THEOREM BoardInvariant == BoardSpec => []BoardInv
BY BoardInvInit, BoardInvNext, PTL DEF BoardSpec

\* Tabs and the alias tool share one preferences file and undo nothing of one
\* another, however many they are and whatever fails.
THEOREM BoardIsSharedSafe == BoardSpec => []BoardIsShared
<1>1. BoardInv => BoardIsShared
  <2> SUFFICES ASSUME BoardInv PROVE BoardIsShared
    OBVIOUS
  <2>1. NoChangeLost
    BY DEF BoardInv
  <2>2. TabsShowSaved
    <3> SUFFICES ASSUME Delivered, NEW t \in Tabs, Live(t)
                 PROVE  tab[t].prefs = saved \/ tab[t].error \/ tab[t].missed
      BY DEF TabsShowSaved
    <3>1. tab[t].queue = <<>> /\ worker.inbox[t] = <<>> /\ worker.source = "open"
      BY DEF Delivered
    <3>2. ~Notified(t, worker)
      BY <3>1 DEF Notified
    <3>3. Mail(tab[t]) /\ Informed(t, tab[t], saved, worker)
      BY TabIs
    <3> QED
      BY <3>1, <3>2, <3>3 DEF Mail, Informed
  <2>3. HiddenStaysHidden
    BY TabIs DEF HiddenStaysHidden, Board, Elements
  <2> QED
    BY <2>1, <2>2, <2>3 DEF BoardIsShared
<1> QED
  BY <1>1, BoardInvariant, PTL
=============================================================================
