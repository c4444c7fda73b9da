----------------------- MODULE HistoryPipelineProofs -----------------------
(***************************************************************************)
(* Theorems about HistoryPipeline for any number of invocations, chunks,   *)
(* store failures and restarts, and any capacity of the queues.            *)
(*                                                                         *)
(* Queues:   what is in flight between a reader and the store, and in      *)
(*           which order (InFlight).                                       *)
(* Rows:     what the store knows of the output against what there was     *)
(*           (Accounting).                                                 *)
(* Ledger:   every step is a step of CaptureLedger.                        *)
(* Counts:   what clients are shown of active processes (CountInv), and    *)
(*           what a shutdown leaves pending (Settled).                     *)
(***************************************************************************)
EXTENDS HistoryPipeline, FiniteSetTheorems, TLAPS

Msg ==
    [kind : {"started"}, inv : Invs] \cup [kind : {"ended"}, inv : Invs, wasActive : BOOLEAN]
        \cup [kind : {"complete"}, inv : Invs, ok : BOOLEAN]
        \cup [kind : {"chunk"}, inv : Invs, seq : Nat]
        \cup [kind : {"eof"}, inv : Invs, exact : BOOLEAN] \cup {Shutdown}
RowRecord ==
    [ev : {"pending", "complete", "incomplete"},
     cap : {"pending", "complete", "incomplete", "not_applicable"},
     proc : {"none", "running", "final"}, chunks : SUBSET Nat,
     files : {"none", "pending", "complete", "unavailable"}]
HealthRecord == [degraded : BOOLEAN, evidence : SUBSET Invs, capture : SUBSET Invs]
WorkerRecord ==
    [pc : {"top", "recv", "late", "work", "maintain", "exit", "stopped"},
     batch : Seq(Msg), outbuf : Seq(Msg), shut : BOOLEAN, idle : BOOLEAN]

QueuesTyped ==
    /\ priority \in Seq(Msg) /\ lane \in Seq(Msg) /\ Len(lane) <= LaneCap
    /\ overflow \in [Invs -> Seq(Nat)] /\ worker \in WorkerRecord
StoreTyped ==
    /\ row \in [Invs -> RowRecord \cup {NoRow}] /\ health \in HealthRecord /\ faults \in Nat
ReadersTyped ==
    /\ out \in [Invs -> Nat] /\ eof \in [Invs -> {"open", "exact", "gap", "sent"}]
    /\ shed \subseteq Invs /\ unmarked \subseteq Invs
CallsTyped ==
    /\ call \in [Invs -> {"new", "untracked", "exec", "patch", "returned", "failed", "patched", "over"}]
    /\ proc \in [Invs -> {"none", "alive", "dead"}]
    /\ active \in [Invs -> {"none", "running", "ending"}]
Typed == QueuesTyped /\ StoreTyped /\ ReadersTyped /\ CallsTyped

LEMMA Bounds == BatchLimit \in Nat /\ LaneCap \in Nat /\ PriorityMax \in Nat /\ IsFiniteSet(Invs)
BY HistoryAssumption

-----------------------------------------------------------------------------
(* Sequences *)

LEMMA SetOfEmpty == ToSet(<<>>) = {}
BY DEF ToSet

LEMMA SetIs == ASSUME NEW S, NEW s \in Seq(S) PROVE ToSet(s) = {s[k] : k \in 1..Len(s)}
BY DEF ToSet

LEMMA SetOfAppend ==
    ASSUME NEW S, NEW s \in Seq(S), NEW m \in S
    PROVE  Append(s, m) \in Seq(S) /\ ToSet(Append(s, m)) = ToSet(s) \cup {m}
<1>1. Append(s, m) \in Seq(S)
  OBVIOUS
<1>2. ASSUME NEW x \in ToSet(Append(s, m)) PROVE x \in ToSet(s) \cup {m}
  BY <1>2 DEF ToSet
<1>3. ASSUME NEW x \in ToSet(s) PROVE x \in ToSet(Append(s, m))
  <2>1. PICK k \in 1..Len(s) : x = s[k]
    BY <1>3 DEF ToSet
  <2>2. k \in 1..Len(Append(s, m)) /\ Append(s, m)[k] = x
    BY <2>1
  <2> QED
    BY <2>2 DEF ToSet
<1>4. m \in ToSet(Append(s, m))
  <2>1. Len(s) + 1 \in 1..Len(Append(s, m)) /\ Append(s, m)[Len(s) + 1] = m
    OBVIOUS
  <2> QED
    BY <2>1 DEF ToSet
<1> QED
  BY <1>1, <1>2, <1>3, <1>4

LEMMA SetOfTail ==
    ASSUME NEW S, NEW s \in Seq(S), s # <<>>
    PROVE  /\ Head(s) \in S /\ Tail(s) \in Seq(S) /\ Len(Tail(s)) + 1 = Len(s)
           /\ ToSet(s) = {Head(s)} \cup ToSet(Tail(s))
<1>1. Head(s) \in S /\ Tail(s) \in Seq(S) /\ Len(Tail(s)) + 1 = Len(s)
  OBVIOUS
<1>2. ASSUME NEW x \in ToSet(s) PROVE x \in {Head(s)} \cup ToSet(Tail(s))
  <2>1. PICK k \in 1..Len(s) : x = s[k]
    BY <1>2, SetIs
  <2>2. CASE k = 1
    BY <2>1, <2>2
  <2>3. CASE k # 1
    <3>1. k - 1 \in 1..Len(Tail(s)) /\ Tail(s)[k - 1] = x
      BY <2>1, <2>3
    <3> QED
      BY <1>1, <3>1, SetIs
  <2> QED
    BY <2>2, <2>3
<1>3. ASSUME NEW x \in ToSet(Tail(s)) PROVE x \in ToSet(s)
  <2>1. PICK k \in 1..Len(Tail(s)) : x = Tail(s)[k]
    BY <1>1, <1>3, SetIs
  <2>2. k + 1 \in 1..Len(s) /\ s[k + 1] = x
    BY <2>1
  <2> QED
    BY <1>1, <2>2, SetIs
<1>4. Head(s) \in ToSet(s)
  <2>1. 1 \in 1..Len(s) /\ s[1] = Head(s)
    OBVIOUS
  <2> QED
    BY <2>1, SetIs
<1> QED
  BY <1>1, <1>2, <1>3, <1>4

LEMMA SetOfConcat ==
    ASSUME NEW S, NEW s \in Seq(S), NEW t \in Seq(S)
    PROVE  /\ s \o t \in Seq(S) /\ ToSet(s \o t) = ToSet(s) \cup ToSet(t)
           /\ Len(s \o t) = Len(s) + Len(t)
<1>1. s \o t \in Seq(S) /\ Len(s \o t) = Len(s) + Len(t)
  OBVIOUS
<1>2. ASSUME NEW x \in ToSet(s \o t) PROVE x \in ToSet(s) \cup ToSet(t)
  <2>0. Len(s \o t) = Len(s) + Len(t)
    OBVIOUS
  <2>1. PICK k \in 1..(Len(s) + Len(t)) : x = (s \o t)[k]
    BY <1>1, <1>2, <2>0, SetIs
  <2>2. CASE k <= Len(s)
    <3>1. k \in 1..Len(s) /\ x = s[k]
      BY <2>1, <2>2
    <3> QED
      BY <3>1, SetIs
  <2>3. CASE k > Len(s)
    <3>1. k - Len(s) \in 1..Len(t) /\ x = t[k - Len(s)]
      BY <2>1, <2>3
    <3> QED
      BY <1>1, <3>1, SetIs
  <2> QED
    BY <2>1, <2>2, <2>3
<1>3. ASSUME NEW x \in ToSet(s) PROVE x \in ToSet(s \o t)
  <2>1. PICK k \in 1..Len(s) : x = s[k]
    BY <1>3, SetIs
  <2>2. k \in 1..Len(s \o t) /\ (s \o t)[k] = x
    BY <2>1
  <2> QED
    BY <1>1, <2>2, SetIs
<1>4. ASSUME NEW x \in ToSet(t) PROVE x \in ToSet(s \o t)
  <2>1. PICK k \in 1..Len(t) : x = t[k]
    BY <1>4, SetIs
  <2>2. k + Len(s) \in 1..Len(s \o t) /\ (s \o t)[k + Len(s)] = x
    BY <2>1
  <2> QED
    BY <1>1, <2>2, SetIs
<1> QED
  BY <1>1, <1>2, <1>3, <1>4

\* The first k elements, and the others.
LEMMA SetOfSplit ==
    ASSUME NEW S, NEW s \in Seq(S), NEW k \in Nat, k <= Len(s)
    PROVE  /\ SubSeq(s, 1, k) \in Seq(S) /\ SubSeq(s, k + 1, Len(s)) \in Seq(S)
           /\ Len(SubSeq(s, 1, k)) = k /\ Len(SubSeq(s, k + 1, Len(s))) = Len(s) - k
           /\ ToSet(SubSeq(s, 1, k)) = {s[n] : n \in 1..k}
           /\ ToSet(s) = ToSet(SubSeq(s, 1, k)) \cup ToSet(SubSeq(s, k + 1, Len(s)))
<1> DEFINE u == SubSeq(s, 1, k)
           v == SubSeq(s, k + 1, Len(s))
<1>1. /\ u \in Seq(S) /\ v \in Seq(S) /\ Len(u) = k /\ Len(v) = Len(s) - k
      /\ \A n \in 1..k : u[n] = s[n]
      /\ \A n \in 1..(Len(s) - k) : v[n] = s[n + k]
  OBVIOUS
<1> HIDE DEF u, v
<1>2. ToSet(u) = {s[n] : n \in 1..k}
  BY <1>1, SetIs
<1>3. ASSUME NEW x \in ToSet(s) PROVE x \in ToSet(u) \cup ToSet(v)
  <2>1. PICK j \in 1..Len(s) : x = s[j]
    BY <1>3, SetIs
  <2>2. CASE j <= k
    <3>1. j \in 1..Len(u) /\ x = u[j]
      BY <1>1, <2>1, <2>2
    <3> QED
      BY <1>1, <3>1, SetIs
  <2>3. CASE j > k
    <3>1. j - k \in 1..Len(v) /\ x = v[j - k]
      BY <1>1, <2>1, <2>3
    <3> QED
      BY <1>1, <3>1, SetIs
  <2> QED
    BY <2>1, <2>2, <2>3
<1>4. ASSUME NEW x \in ToSet(u) PROVE x \in ToSet(s)
  <2>1. PICK j \in 1..k : x = s[j]
    BY <1>2, <1>4
  <2>2. j \in 1..Len(s)
    BY <2>1
  <2> QED
    BY <2>1, <2>2, SetIs
<1>5. ASSUME NEW x \in ToSet(v) PROVE x \in ToSet(s)
  <2>1. PICK j \in 1..Len(v) : x = v[j]
    BY <1>1, <1>5, SetIs
  <2>2. j + k \in 1..Len(s) /\ x = s[j + k]
    BY <1>1, <2>1
  <2> QED
    BY <2>2, SetIs
<1> QED
  BY <1>1, <1>2, <1>3, <1>4, <1>5 DEF u, v

LEMMA SetOfTake ==
    ASSUME NEW S, NEW s \in Seq(S), NEW k \in Nat
    PROVE  /\ Take(s, k) \in Seq(S) /\ Drop(s, k) \in Seq(S)
           /\ ToSet(Take(s, k)) \subseteq ToSet(s) /\ ToSet(Drop(s, k)) \subseteq ToSet(s)
           /\ \A x \in ToSet(s) : x \in ToSet(Take(s, k)) \/ x \in ToSet(Drop(s, k))
<1> DEFINE n == IF Len(s) < k THEN Len(s) ELSE k
<1>1. n \in Nat /\ n <= Len(s)
  OBVIOUS
<1>2. Take(s, k) = SubSeq(s, 1, n) /\ Drop(s, k) = SubSeq(s, n + 1, Len(s))
  BY DEF Take, Drop
<1> HIDE DEF n
<1> QED
  BY <1>1, <1>2, SetOfSplit

-----------------------------------------------------------------------------
(* The order of a queue: no chunk of an invocation behind its end *)

Before(A, B) == \A m \in A, n \in B : m.kind = "eof" /\ n.kind = "chunk" => m.inv # n.inv
Ordered(s) ==
    \A j, k \in 1..Len(s) : j < k => Before({s[j]}, {s[k]})

LEMMA BeforePart ==
    ASSUME NEW A, NEW B, NEW C, NEW D, Before(A, B), C \subseteq A, D \subseteq B
    PROVE  Before(C, D)
BY DEF Before

LEMMA BeforeUnion ==
    ASSUME NEW A, NEW B, NEW C, NEW D
    PROVE  /\ Before(A \cup C, B) <=> Before(A, B) /\ Before(C, B)
           /\ Before(A, B \cup D) <=> Before(A, B) /\ Before(A, D)
BY DEF Before

LEMMA BeforeElements ==
    ASSUME NEW A, NEW B
    PROVE  Before(A, B) <=> \A m \in A, n \in B : Before({m}, {n})
BY DEF Before

LEMMA OrderedConcat ==
    ASSUME NEW S, NEW s \in Seq(S), NEW t \in Seq(S), Ordered(s), Ordered(t),
           Before(ToSet(s), ToSet(t))
    PROVE  Ordered(s \o t)
<1> SUFFICES ASSUME NEW j \in 1..Len(s \o t), NEW k \in 1..Len(s \o t), j < k
             PROVE  Before({(s \o t)[j]}, {(s \o t)[k]})
  BY DEF Ordered
<1>1. Len(s \o t) = Len(s) + Len(t) /\ Len(s) \in Nat /\ j \in Nat /\ k \in Nat
  OBVIOUS
<1>2. CASE k <= Len(s)
  <2>1. j \in 1..Len(s) /\ k \in 1..Len(s) /\ (s \o t)[j] = s[j] /\ (s \o t)[k] = s[k]
    BY <1>1, <1>2
  <2> QED
    BY <2>1 DEF Ordered
<1>3. CASE j > Len(s)
  <2>1. /\ j - Len(s) \in 1..Len(t) /\ k - Len(s) \in 1..Len(t) /\ j - Len(s) < k - Len(s)
        /\ (s \o t)[j] = t[j - Len(s)] /\ (s \o t)[k] = t[k - Len(s)]
    BY <1>1, <1>3
  <2> QED
    BY <2>1 DEF Ordered
<1>4. CASE j <= Len(s) /\ k > Len(s)
  <2>1. /\ j \in 1..Len(s) /\ k - Len(s) \in 1..Len(t)
        /\ (s \o t)[j] = s[j] /\ (s \o t)[k] = t[k - Len(s)]
    BY <1>1, <1>4
  <2>2. s[j] \in ToSet(s) /\ t[k - Len(s)] \in ToSet(t)
    BY <2>1 DEF ToSet
  <2>3. Before({s[j]}, {t[k - Len(s)]})
    BY <2>2, BeforeElements
  <2> QED
    BY <2>1, <2>3
<1>5. k <= Len(s) \/ j > Len(s) \/ (j <= Len(s) /\ k > Len(s))
  BY <1>1
<1> QED
  BY <1>2, <1>3, <1>4, <1>5

LEMMA OrderedAppend ==
    ASSUME NEW S, NEW s \in Seq(S), NEW m \in S, Ordered(s), Before(ToSet(s), {m})
    PROVE  Ordered(Append(s, m))
<1> SUFFICES ASSUME NEW j \in 1..Len(Append(s, m)), NEW k \in 1..Len(Append(s, m)), j < k
             PROVE  Before({Append(s, m)[j]}, {Append(s, m)[k]})
  BY DEF Ordered
<1>1. /\ Len(Append(s, m)) = Len(s) + 1 /\ j \in 1..Len(s) /\ Append(s, m)[j] = s[j]
      /\ k \in Nat /\ Len(s) \in Nat
  OBVIOUS
<1>2. CASE k <= Len(s)
  <2>1. k \in 1..Len(s) /\ Append(s, m)[k] = s[k]
    BY <1>2
  <2> QED
    BY <1>1, <2>1 DEF Ordered
<1>3. CASE k > Len(s)
  <2>1. Append(s, m)[k] = m
    BY <1>1, <1>3
  <2>2. s[j] \in ToSet(s)
    BY <1>1, SetIs
  <2> QED
    BY <1>1, <2>1, <2>2, BeforeElements
<1>4. k <= Len(s) \/ k > Len(s)
  BY <1>1
<1> QED
  BY <1>2, <1>3, <1>4

LEMMA OrderedTail ==
    ASSUME NEW S, NEW s \in Seq(S), s # <<>>, Ordered(s)
    PROVE  Ordered(Tail(s)) /\ Before({Head(s)}, ToSet(Tail(s)))
<1>1. /\ Len(Tail(s)) + 1 = Len(s) /\ Len(Tail(s)) \in Nat /\ Head(s) = s[1]
      /\ \A k \in 1..Len(Tail(s)) : Tail(s)[k] = s[k + 1]
  OBVIOUS
<1>2. ASSUME NEW j \in 1..Len(Tail(s)), NEW k \in 1..Len(Tail(s)), j < k
      PROVE  Before({Tail(s)[j]}, {Tail(s)[k]})
  <2>1. j + 1 \in 1..Len(s) /\ k + 1 \in 1..Len(s) /\ j + 1 < k + 1
    BY <1>1, <1>2
  <2> QED
    BY <1>1, <2>1 DEF Ordered
<1>3. ASSUME NEW n \in ToSet(Tail(s)) PROVE Before({Head(s)}, {n})
  <2>1. PICK k \in 1..Len(Tail(s)) : n = Tail(s)[k]
    BY <1>3 DEF ToSet
  <2>2. 1 \in 1..Len(s) /\ k + 1 \in 1..Len(s) /\ 1 < k + 1 /\ n = s[k + 1]
    BY <1>1, <2>1
  <2> QED
    BY <1>1, <2>2 DEF Ordered
<1>4. Before({Head(s)}, ToSet(Tail(s)))
  BY <1>3, BeforeElements
<1> QED
  BY <1>2, <1>4 DEF Ordered

LEMMA OrderedQuiet ==
    ASSUME NEW S, NEW s \in Seq(S), \A m \in ToSet(s) : m.kind # "eof"
    PROVE  Ordered(s)
<1> SUFFICES ASSUME NEW j \in 1..Len(s), NEW k \in 1..Len(s), j < k
             PROVE  Before({s[j]}, {s[k]})
  BY DEF Ordered
<1>1. s[j] \in ToSet(s)
  BY DEF ToSet
<1> QED
  BY <1>1 DEF Before

-----------------------------------------------------------------------------
(* Queues *)

Flight == ToSet(lane) \cup ToSet(worker.batch) \cup ToSet(worker.outbuf)
Mail == Flight \cup ToSet(priority)

\* Everything a reader sent of an invocation comes before its end.
Order ==
    /\ Ordered(lane) /\ Ordered(worker.batch)
    /\ Before(ToSet(worker.outbuf), ToSet(worker.batch))
    /\ Before(ToSet(worker.outbuf), ToSet(lane))
    /\ Before(ToSet(worker.batch), ToSet(lane))

\* Output travels in the lane only, and no batch is dropped.
Places ==
    /\ \A m \in ToSet(priority) : ~IsOutput(m)
    /\ \A m \in ToSet(worker.outbuf) : IsOutput(m)
    /\ worker.pc \in {"top", "maintain"} => worker.batch = <<>>

\* Output in flight was produced, by a reader that is done when its end is
\* in flight; what is said of that end does not vary.
Known ==
    \A m \in Flight :
        /\ IsOutput(m) => call[m.inv] \in {"exec", "returned", "failed"}
        /\ m.kind = "chunk" => m.seq \in 1..out[m.inv]
        /\ m.kind = "eof" => eof[m.inv] = "sent"
EndsAgree ==
    \A m, n \in Flight : m.kind = "eof" /\ n.kind = "eof" /\ m.inv = n.inv => m.exact = n.exact

\* Nothing is held back once the reader met the end.
Held ==
    \A i \in Invs :
        /\ ToSet(overflow[i]) \subseteq 1..out[i] /\ (eof[i] # "open" => overflow[i] = <<>>)
        /\ eof[i] \in {"exact", "gap"} => call[i] \in {"exec", "returned", "failed"}

\* An error is reported of a call that failed.
Reported ==
    \A m \in Mail : m.kind = "complete" /\ ~m.ok => call[m.inv] \in {"failed", "patched"}

InFlight == Order /\ Places /\ Known /\ EndsAgree /\ Held /\ Reported

LEMMA MsgFields ==
    ASSUME NEW m \in Msg
    PROVE  /\ m.kind \in {"started", "ended", "complete", "chunk", "eof", "shutdown"}
           /\ m.kind # "shutdown" => m.inv \in Invs
           /\ m.kind = "chunk" => m.seq \in Nat
           /\ m.kind = "eof" => m.exact \in BOOLEAN
           /\ m.kind = "complete" => m.ok \in BOOLEAN
           /\ m.kind = "ended" => m.wasActive \in BOOLEAN
BY DEF Msg, Shutdown

LEMMA MsgMade ==
    /\ Shutdown \in Msg /\ Shutdown.kind = "shutdown"
    /\ \A i \in Invs :
         /\ Started(i) \in Msg /\ Started(i).kind = "started" /\ Started(i).inv = i
         /\ \A b \in BOOLEAN :
              /\ Ended(i, b) \in Msg /\ Ended(i, b).kind = "ended" /\ Ended(i, b).inv = i
              /\ Ended(i, b).wasActive = b
              /\ Complete(i, b) \in Msg /\ Complete(i, b).kind = "complete"
              /\ Complete(i, b).inv = i /\ Complete(i, b).ok = b
              /\ Eof(i, b) \in Msg /\ Eof(i, b).kind = "eof" /\ Eof(i, b).inv = i
              /\ Eof(i, b).exact = b
         /\ \A n \in Nat : /\ Chunk(i, n) \in Msg /\ Chunk(i, n).kind = "chunk"
                           /\ Chunk(i, n).inv = i /\ Chunk(i, n).seq = n
BY DEF Msg, Shutdown, Started, Ended, Complete, Eof, Chunk

QueuesHold ==
    /\ worker.batch \in Seq(Msg) /\ worker.outbuf \in Seq(Msg)
    /\ Mail \subseteq Msg /\ Flight \subseteq Mail
    /\ \A i \in Invs : overflow[i] \in Seq(Nat)

LEMMA QueueElements == QueuesTyped => QueuesHold
<1> SUFFICES ASSUME QueuesTyped PROVE QueuesHold
  OBVIOUS
<1>1. worker.batch \in Seq(Msg) /\ worker.outbuf \in Seq(Msg) /\ lane \in Seq(Msg) /\ priority \in Seq(Msg)
  BY DEF QueuesTyped, WorkerRecord
<1>2. ASSUME NEW s \in Seq(Msg) PROVE ToSet(s) \subseteq Msg
  BY DEF ToSet
<1> QED
  BY <1>1, <1>2 DEF QueuesTyped, Mail, Flight, QueuesHold

\* What the writer does to its queues: what it takes it has, unless committed.
Moved ==
    /\ QueuesTyped' /\ Order' /\ Places'
    /\ Mail' \subseteq Mail
    /\ \A m \in Flight' : m \in Flight \/ ~IsOutput(m)
    /\ \A m \in Flight : IsOutput(m) => m \in Flight'

LEMMA Unmoved ==
    ASSUME QueuesTyped, Order, Places, UNCHANGED <<priority, lane, overflow>>,
           worker' \in WorkerRecord,
           worker'.batch = worker.batch, worker'.outbuf = worker.outbuf,
           worker'.pc \in {"top", "maintain"} => worker.batch = <<>>
    PROVE  Moved
BY DEF Moved, QueuesTyped, Order, Places, Mail, Flight

LEMMA DrainedQueue ==
    ASSUME QueuesTyped
    PROVE  /\ Take(priority, BatchLimit) \in Seq(Msg) /\ Drop(priority, BatchLimit) \in Seq(Msg)
           /\ ToSet(priority) = ToSet(Take(priority, BatchLimit)) \cup ToSet(Drop(priority, BatchLimit))
<1>1. priority \in Seq(Msg) /\ BatchLimit \in Nat
  BY Bounds DEF QueuesTyped
<1>2. /\ Take(priority, BatchLimit) \in Seq(Msg) /\ Drop(priority, BatchLimit) \in Seq(Msg)
      /\ ToSet(Take(priority, BatchLimit)) \subseteq ToSet(priority)
      /\ ToSet(Drop(priority, BatchLimit)) \subseteq ToSet(priority)
      /\ \A x \in ToSet(priority) :
            x \in ToSet(Take(priority, BatchLimit)) \/ x \in ToSet(Drop(priority, BatchLimit))
  BY <1>1, SetOfTake
<1> QED
  BY <1>2

LEMMA DrainFirst ==
    ASSUME QueuesTyped, Order, Places, drain_first
    PROVE  Moved
<1> DEFINE taken == Take(priority, BatchLimit)
           left == Drop(priority, BatchLimit)
<1>1. /\ priority' = left /\ worker' = [worker EXCEPT !.pc = "recv", !.batch = taken]
      /\ UNCHANGED <<lane, overflow>> /\ worker.pc = "top"
  BY DEF drain_first, WorkerOnly
<1>2. /\ taken \in Seq(Msg) /\ left \in Seq(Msg)
      /\ ToSet(priority) = ToSet(taken) \cup ToSet(left)
  BY DrainedQueue
<1> HIDE DEF taken, left
<1>3. /\ worker' \in WorkerRecord /\ worker'.pc = "recv" /\ worker'.batch = taken
      /\ worker'.outbuf = worker.outbuf
  BY <1>1, <1>2 DEF QueuesTyped, WorkerRecord
<1>4. ToSet(worker.batch) = {}
  BY <1>1, SetOfEmpty DEF Places
<1>5. \A m \in ToSet(taken) : ~IsOutput(m)
  BY <1>2 DEF Places
<1>6. Ordered(taken)
  BY <1>2, <1>5, OrderedQuiet DEF IsOutput
<1>7. QueuesTyped'
  BY <1>1, <1>2, <1>3 DEF QueuesTyped
<1>8. Order'
  <2>1. Before(ToSet(worker.outbuf), ToSet(taken)) /\ Before(ToSet(taken), ToSet(lane))
    BY <1>5 DEF Before, IsOutput
  <2> QED
    BY <1>1, <1>3, <1>6, <2>1 DEF Order
<1>9. Places'
  BY <1>1, <1>2, <1>3 DEF Places
<1>10. Mail' \subseteq Mail
  BY <1>1, <1>2, <1>3 DEF Mail, Flight
<1>11. \A m \in Flight' : m \in Flight \/ ~IsOutput(m)
  BY <1>1, <1>3, <1>5 DEF Flight
<1>12. \A m \in Flight : IsOutput(m) => m \in Flight'
  BY <1>1, <1>3, <1>4 DEF Flight
<1> QED
  BY <1>7, <1>8, <1>9, <1>10, <1>11, <1>12 DEF Moved

LEMMA Receive ==
    ASSUME QueuesTyped, Order, Places, receive
    PROVE  Moved
<1>0. UNCHANGED <<priority, overflow>> /\ worker.pc = "recv"
  BY DEF receive, WorkerOnly
<1>1. CASE Len(worker.batch) >= BatchLimit \/ lane = <<>>
  <2>1. worker' = [worker EXCEPT !.pc = "late"] /\ UNCHANGED lane
    BY <1>1 DEF receive
  <2>2. /\ worker' \in WorkerRecord /\ worker'.pc = "late" /\ worker'.batch = worker.batch
        /\ worker'.outbuf = worker.outbuf
    BY <2>1 DEF QueuesTyped, WorkerRecord
  <2> QED
    BY <1>0, <2>1, <2>2, Unmoved
<1>2. CASE ~(Len(worker.batch) >= BatchLimit \/ lane = <<>>)
  <2> DEFINE h == Head(lane)
             t == Tail(lane)
  <2>1. lane' = t /\ lane # <<>>
    BY <1>2 DEF receive
  <2>2. /\ h \in Msg /\ t \in Seq(Msg) /\ Len(t) <= LaneCap /\ ToSet(lane) = {h} \cup ToSet(t)
        /\ Ordered(t) /\ Before({h}, ToSet(t))
    <3>1. lane \in Seq(Msg) /\ Ordered(lane) /\ Len(lane) <= LaneCap /\ Len(lane) \in Nat
      BY DEF QueuesTyped, Order
    <3>2. /\ h \in Msg /\ t \in Seq(Msg) /\ Len(t) + 1 = Len(lane) /\ ToSet(lane) = {h} \cup ToSet(t)
      BY <2>1, <3>1, SetOfTail
    <3>3. Ordered(t) /\ Before({h}, ToSet(t))
      BY <2>1, <3>1, OrderedTail
    <3>4. Len(t) <= LaneCap
      <4>1. Len(t) \in Nat /\ LaneCap \in Nat
        BY <3>2, Bounds
      <4> QED
        BY <3>1, <3>2, <4>1
    <3> QED
      BY <3>2, <3>3, <3>4
  <2>3. CASE h.kind = "shutdown"
    <3>1. worker' = [worker EXCEPT !.pc = "late", !.shut = TRUE]
      BY <1>2, <2>3 DEF receive
    <3>2. /\ worker' \in WorkerRecord /\ worker'.pc = "late" /\ worker'.batch = worker.batch
          /\ worker'.outbuf = worker.outbuf
      BY <3>1 DEF QueuesTyped, WorkerRecord
    <3> HIDE DEF h, t
    <3>3. ~IsOutput(h)
      BY <2>3 DEF IsOutput
    <3>4. QueuesTyped'
      BY <1>0, <2>1, <2>2, <3>2 DEF QueuesTyped
    <3>5. Order'
      BY <2>1, <2>2, <3>2, BeforeUnion DEF Order
    <3>6. Places'
      BY <1>0, <3>2 DEF Places
    <3> QED
      BY <1>0, <2>1, <2>2, <3>2, <3>3, <3>4, <3>5, <3>6 DEF Moved, Mail, Flight
  <2>4. CASE h.kind # "shutdown"
    <3> DEFINE b == Append(worker.batch, h)
    <3>1. worker' = [worker EXCEPT !.batch = b]
      BY <1>2, <2>4 DEF receive
    <3> HIDE DEF h, t
    <3>0. worker.batch \in Seq(Msg)
      BY QueueElements DEF QueuesHold
    <3>2. b \in Seq(Msg) /\ ToSet(b) = ToSet(worker.batch) \cup {h}
      BY <2>2, <3>0, SetOfAppend
    <3>3. Before(ToSet(worker.batch), {h}) /\ Before(ToSet(worker.outbuf), {h})
      BY <2>2, BeforeUnion DEF Order
    <3>4. Ordered(b)
      BY <2>2, <3>0, <3>3, OrderedAppend DEF Order
    <3> HIDE DEF b
    <3>5. /\ worker' \in WorkerRecord /\ worker'.pc = "recv" /\ worker'.batch = b
          /\ worker'.outbuf = worker.outbuf
      BY <1>0, <3>1, <3>2 DEF QueuesTyped, WorkerRecord
    <3>6. QueuesTyped'
      BY <1>0, <2>1, <2>2, <3>5 DEF QueuesTyped
    <3>7. Order'
      <4>1. /\ Before(ToSet(worker.outbuf), ToSet(worker.batch) \cup {h})
            /\ Before(ToSet(worker.outbuf), ToSet(t)) /\ Before(ToSet(worker.batch) \cup {h}, ToSet(t))
        BY <2>2, <3>3 DEF Order, Before
      <4> QED
        BY <2>1, <2>2, <3>2, <3>4, <3>5, <4>1 DEF Order
    <3>8. Places'
      BY <1>0, <3>5 DEF Places
    <3> QED
      BY <1>0, <2>1, <2>2, <3>2, <3>5, <3>6, <3>7, <3>8 DEF Moved, Mail, Flight
  <2> QED
    BY <2>3, <2>4
<1> QED
  BY <1>1, <1>2

LEMMA DrainLate ==
    ASSUME QueuesTyped, Order, Places, drain_late
    PROVE  Moved
<1> DEFINE taken == Take(priority, BatchLimit)
           left == Drop(priority, BatchLimit)
           b == taken \o worker.batch
           quiet == priority = <<>> /\ worker.batch = <<>>
<1>1. /\ priority' = left /\ worker' = [worker EXCEPT !.pc = "work", !.idle = quiet, !.batch = b]
      /\ UNCHANGED <<lane, overflow>>
  BY DEF drain_late, WorkerOnly
<1>2. /\ taken \in Seq(Msg) /\ left \in Seq(Msg)
      /\ ToSet(priority) = ToSet(taken) \cup ToSet(left)
  BY DrainedQueue
<1> HIDE DEF taken, left
<1>0. worker.batch \in Seq(Msg)
  BY QueueElements DEF QueuesHold
<1>3. b \in Seq(Msg) /\ ToSet(b) = ToSet(taken) \cup ToSet(worker.batch)
  BY <1>0, <1>2, SetOfConcat
<1>4. \A m \in ToSet(taken) : ~IsOutput(m)
  BY <1>2 DEF Places
<1>5. Ordered(taken)
  BY <1>2, <1>4, OrderedQuiet DEF IsOutput
<1>6. \A A : Before(ToSet(taken), A) /\ Before(A, ToSet(taken))
  BY <1>4 DEF Before, IsOutput
<1>7. Ordered(b)
  BY <1>0, <1>2, <1>5, <1>6, OrderedConcat DEF Order
<1>8. quiet \in BOOLEAN
  OBVIOUS
<1> HIDE DEF b, quiet
<1>9. /\ worker' \in WorkerRecord /\ worker'.pc = "work" /\ worker'.batch = b
      /\ worker'.outbuf = worker.outbuf
  BY <1>1, <1>3, <1>8 DEF QueuesTyped, WorkerRecord
<1>10. QueuesTyped'
  BY <1>1, <1>2, <1>9 DEF QueuesTyped
<1>11. Order'
  <2>1. /\ Before(ToSet(worker.outbuf), ToSet(taken) \cup ToSet(worker.batch))
        /\ Before(ToSet(taken) \cup ToSet(worker.batch), ToSet(lane))
    BY <1>4 DEF Order, Before, IsOutput
  <2> QED
    BY <1>1, <1>3, <1>7, <1>9, <2>1 DEF Order
<1>12. Places'
  BY <1>1, <1>2, <1>9 DEF Places
<1>13. Mail' \subseteq Mail
  BY <1>1, <1>2, <1>3, <1>9 DEF Mail, Flight
<1>14. \A m \in Flight' : m \in Flight \/ ~IsOutput(m)
  BY <1>1, <1>3, <1>4, <1>9 DEF Flight
<1>15. \A m \in Flight : IsOutput(m) => m \in Flight'
  BY <1>1, <1>3, <1>9 DEF Flight
<1> QED
  BY <1>10, <1>11, <1>12, <1>13, <1>14, <1>15 DEF Moved

LEMMA GatherOutput ==
    ASSUME QueuesTyped, Order, Places, gather_output
    PROVE  Moved
<1> DEFINE h == Head(worker.batch)
           t == Tail(worker.batch)
           o == Append(worker.outbuf, h)
<1>1. /\ worker' = [worker EXCEPT !.outbuf = o, !.batch = t] /\ worker.batch # <<>> /\ IsOutput(h)
      /\ worker.pc = "work" /\ UNCHANGED <<priority, lane, overflow>>
  BY DEF gather_output, WorkerOnly
<1>0. worker.batch \in Seq(Msg) /\ worker.outbuf \in Seq(Msg) /\ Ordered(worker.batch)
  BY QueueElements DEF QueuesHold, Order
<1>2. /\ h \in Msg /\ t \in Seq(Msg) /\ ToSet(worker.batch) = {h} \cup ToSet(t)
      /\ Ordered(t) /\ Before({h}, ToSet(t))
  BY <1>0, <1>1, SetOfTail, OrderedTail
<1> HIDE DEF h, t
<1>3. o \in Seq(Msg) /\ ToSet(o) = ToSet(worker.outbuf) \cup {h}
  BY <1>0, <1>2, SetOfAppend
<1> HIDE DEF o
<1>4. /\ worker' \in WorkerRecord /\ worker'.pc = "work" /\ worker'.batch = t /\ worker'.outbuf = o
  BY <1>1, <1>2, <1>3 DEF QueuesTyped, WorkerRecord
<1>5. QueuesTyped'
  BY <1>1, <1>4 DEF QueuesTyped
<1>6. Order'
  <2>1. /\ Before(ToSet(worker.outbuf) \cup {h}, ToSet(t)) /\ Before(ToSet(t), ToSet(lane))
        /\ Before(ToSet(worker.outbuf) \cup {h}, ToSet(lane))
    BY <1>2 DEF Order, Before
  <2> QED
    BY <1>1, <1>2, <1>3, <1>4, <2>1 DEF Order
<1>7. Places'
  BY <1>1, <1>3, <1>4 DEF Places
<1> QED
  BY <1>1, <1>2, <1>3, <1>4, <1>5, <1>6, <1>7 DEF Moved, Mail, Flight

\* A lifecycle message leaves the batch.
LEMMA NextMessage ==
    ASSUME QueuesTyped, Order, Places, next_message, UNCHANGED <<priority, lane, overflow>>,
           ~IsOutput(Head(worker.batch))
    PROVE  Moved /\ Head(worker.batch) \in ToSet(worker.batch)
<1> DEFINE h == Head(worker.batch)
           t == Tail(worker.batch)
<1>1. worker' = [worker EXCEPT !.batch = t] /\ worker.batch # <<>> /\ worker.pc = "work"
  BY DEF next_message
<1>0. worker.batch \in Seq(Msg) /\ Ordered(worker.batch)
  BY QueueElements DEF QueuesHold, Order
<1>2. /\ h \in Msg /\ t \in Seq(Msg) /\ ToSet(worker.batch) = {h} \cup ToSet(t) /\ Ordered(t)
  BY <1>0, <1>1, SetOfTail, OrderedTail
<1> HIDE DEF t
<1>4. /\ worker' \in WorkerRecord /\ worker'.pc = "work" /\ worker'.batch = t
      /\ worker'.outbuf = worker.outbuf
  BY <1>1, <1>2 DEF QueuesTyped, WorkerRecord
<1>5. QueuesTyped'
  BY <1>4 DEF QueuesTyped
<1>6. Order'
  BY <1>2, <1>4, BeforeUnion DEF Order
<1>7. Places'
  BY <1>4 DEF Places
<1> QED
  BY <1>2, <1>4, <1>5, <1>6, <1>7 DEF Moved, Mail, Flight

\* The gathered output leaves the writer.
LEMMA Flushed ==
    ASSUME QueuesTyped, Order, Places, UNCHANGED <<priority, lane, overflow>>,
           worker' = [worker EXCEPT !.outbuf = <<>>]
    PROVE  /\ QueuesTyped' /\ Order' /\ Places'
           /\ Mail' \subseteq Mail /\ Flight' \subseteq Flight
           /\ \A m \in Flight : m \in Flight' \/ m \in ToSet(worker.outbuf)
<1>1. <<>> \in Seq(Msg)
  OBVIOUS
<1>2. /\ worker' \in WorkerRecord /\ worker'.pc = worker.pc /\ worker'.batch = worker.batch
      /\ worker'.outbuf = <<>>
  BY <1>1 DEF QueuesTyped, WorkerRecord
<1>3. ToSet(worker'.outbuf) = {}
  BY <1>2, SetOfEmpty
<1>4. \A A : Before({}, A)
  BY DEF Before
<1>5. QueuesTyped'
  BY <1>2 DEF QueuesTyped
<1>6. Order'
  BY <1>2, <1>3, <1>4 DEF Order
<1>7. Places'
  BY <1>2, <1>3 DEF Places
<1> QED
  BY <1>2, <1>3, <1>5, <1>6, <1>7 DEF Mail, Flight

-----------------------------------------------------------------------------
(* Producers *)

\* A message that is not output joins a queue.
LEMMA Joined ==
    ASSUME QueuesTyped, Order, Places, NEW m \in Msg, ~IsOutput(m), UNCHANGED <<overflow, worker>>,
           \/ lane' = Append(lane, m) /\ Len(lane) < LaneCap /\ UNCHANGED priority
           \/ priority' = Append(priority, m) /\ UNCHANGED lane
           \/ UNCHANGED <<lane, priority>>
    PROVE  /\ QueuesTyped' /\ Order' /\ Places'
           /\ Mail' \subseteq Mail \cup {m}
           /\ \A n \in Flight' : n \in Flight \/ ~IsOutput(n)
           /\ Flight \subseteq Flight'
<1>1. CASE lane' = Append(lane, m) /\ Len(lane) < LaneCap /\ UNCHANGED priority
  <2>0. lane \in Seq(Msg) /\ Len(lane) \in Nat /\ LaneCap \in Nat /\ Ordered(lane)
    BY Bounds DEF QueuesTyped, Order
  <2>1. lane' \in Seq(Msg) /\ ToSet(lane') = ToSet(lane) \cup {m} /\ Len(lane') <= LaneCap
    BY <1>1, <2>0, SetOfAppend
  <2>2. \A A : Before(A, {m})
    BY DEF Before, IsOutput
  <2>3. Ordered(lane')
    BY <1>1, <2>0, <2>2, OrderedAppend
  <2>4. QueuesTyped'
    BY <1>1, <2>1 DEF QueuesTyped
  <2>5. Order'
    BY <2>1, <2>2, <2>3, BeforeUnion DEF Order
  <2>6. Places'
    BY <1>1 DEF Places
  <2> QED
    BY <1>1, <2>1, <2>4, <2>5, <2>6 DEF Mail, Flight
<1>2. CASE priority' = Append(priority, m) /\ UNCHANGED lane
  <2>0. priority \in Seq(Msg)
    BY DEF QueuesTyped
  <2>1. priority' \in Seq(Msg) /\ ToSet(priority') = ToSet(priority) \cup {m}
    BY <1>2, <2>0, SetOfAppend
  <2>4. QueuesTyped'
    BY <1>2, <2>1 DEF QueuesTyped
  <2>5. Order'
    BY <1>2 DEF Order
  <2>6. Places'
    BY <2>1 DEF Places
  <2> QED
    BY <1>2, <2>1, <2>4, <2>5, <2>6 DEF Mail, Flight
<1>3. CASE UNCHANGED <<lane, priority>>
  BY <1>3 DEF QueuesTyped, Order, Places, Mail, Flight
<1> QED
  BY <1>1, <1>2, <1>3

LEMMA Enqueued ==
    ASSUME QueuesTyped, Order, Places, NEW m \in Msg, ~IsOutput(m), UNCHANGED <<overflow, worker>>,
           NEW i \in Invs, enqueue_priority_message(m, i)
    PROVE  /\ QueuesTyped' /\ Order' /\ Places'
           /\ Mail' \subseteq Mail \cup {m}
           /\ \A n \in Flight' : n \in Flight \/ ~IsOutput(n)
           /\ Flight \subseteq Flight'
<1>1. \/ lane' = Append(lane, m) /\ Len(lane) < LaneCap /\ UNCHANGED priority
      \/ priority' = Append(priority, m) /\ UNCHANGED lane
      \/ UNCHANGED <<lane, priority>>
  BY DEF enqueue_priority_message
<1> QED
  BY <1>1, Joined

\* What is said of a call that went on stays true.
CallsGoOn ==
    \A i \in Invs :
        /\ call[i] \in {"exec", "returned", "failed"} => call'[i] \in {"exec", "returned", "failed"}
        /\ call[i] \in {"failed", "patched"} => call'[i] \in {"failed", "patched"}

LEMMA StillInFlight ==
    ASSUME InFlight, QueuesTyped, QueuesTyped', Order', Places', UNCHANGED <<out, eof, overflow>>, CallsGoOn,
           \A m \in Flight' : m \in Flight \/ ~IsOutput(m),
           \A m \in Mail' : \/ m \in Mail
                            \/ m.kind = "complete" /\ ~m.ok => call'[m.inv] \in {"failed", "patched"}
    PROVE  InFlight'
<1>0. QueuesHold /\ QueuesHold'
  BY QueueElements, PTL
<1>1. Mail \subseteq Msg /\ Flight \subseteq Mail /\ Mail' \subseteq Msg /\ Flight' \subseteq Mail'
  BY <1>0 DEF QueuesHold
<1>2. Known'
  <2> SUFFICES ASSUME NEW m \in Flight'
               PROVE  /\ IsOutput(m) => call'[m.inv] \in {"exec", "returned", "failed"}
                      /\ m.kind = "chunk" => m.seq \in 1..out[m.inv]
                      /\ m.kind = "eof" => eof[m.inv] = "sent"
    BY DEF Known, IsOutput
  <2>1. CASE ~IsOutput(m)
    BY <2>1 DEF IsOutput
  <2>2. CASE IsOutput(m)
    <3>1. m \in Flight /\ m \in Msg /\ m.kind # "shutdown"
      BY <1>1, <2>2 DEF IsOutput
    <3>2. m.inv \in Invs
      BY <3>1, MsgFields
    <3> QED
      BY <2>2, <3>1, <3>2 DEF InFlight, Known, CallsGoOn
  <2> QED
    BY <2>1, <2>2
<1>3. EndsAgree'
  <2> SUFFICES ASSUME NEW m \in Flight', NEW n \in Flight', m.kind = "eof", n.kind = "eof", m.inv = n.inv
               PROVE  m.exact = n.exact
    BY DEF EndsAgree
  <2>1. m \in Flight /\ n \in Flight
    BY DEF IsOutput
  <2> QED
    BY <2>1 DEF InFlight, EndsAgree
<1>4. Held'
  BY DEF InFlight, Held, CallsGoOn
<1>5. Reported'
  <2> SUFFICES ASSUME NEW m \in Mail', m.kind = "complete", ~m.ok
               PROVE  call'[m.inv] \in {"failed", "patched"}
    BY DEF Reported
  <2>1. CASE m \in Mail
    <3>1. m.inv \in Invs
      BY <1>1, MsgFields
    <3> QED
      BY <2>1, <3>1 DEF InFlight, Reported, CallsGoOn
  <2> QED
    BY <2>1
<1> QED
  BY <1>2, <1>3, <1>4, <1>5 DEF InFlight

LEMMA MovedInFlight ==
    ASSUME InFlight, QueuesTyped, Moved, UNCHANGED <<out, eof, overflow, call>>
    PROVE  InFlight'
<1>1. CallsGoOn
  BY DEF CallsGoOn
<1> QED
  BY <1>1, StillInFlight DEF Moved

\* What the reader of i sends before the end.
LEMMA ChunksSent ==
    ASSUME InFlight, QueuesTyped, QueuesTyped', ReadersTyped, ReadersTyped',
           UNCHANGED <<priority, worker, call>>,
           NEW i \in Invs, call[i] \in {"exec", "returned", "failed"}, eof[i] = "open",
           \A j \in Invs \ {i} : overflow'[j] = overflow[j] /\ out'[j] = out[j] /\ eof'[j] = eof[j],
           out'[i] >= out[i], eof'[i] # "open" => overflow'[i] = <<>>,
           ToSet(overflow'[i]) \subseteq 1..out'[i],
           Ordered(lane'),
           \A m \in ToSet(lane') : \/ m \in ToSet(lane)
                                   \/ m.kind = "chunk" /\ m.inv = i /\ m.seq \in 1..out'[i]
    PROVE  InFlight'
<1>1. Mail \subseteq Msg /\ Flight \subseteq Mail
  BY QueueElements DEF QueuesHold
<1>2. \A m \in Flight : m.kind = "eof" => m.inv # i
  BY DEF InFlight, Known
<1>3. \A j \in Invs : out'[j] >= out[j] /\ out[j] \in Nat /\ out'[j] \in Nat
  BY DEF ReadersTyped
<1>4. \A m \in Flight' : m \in Flight \/ (m.kind = "chunk" /\ m.inv = i /\ m.seq \in 1..out'[i])
  BY DEF Flight
<1>5. Known'
  <2> SUFFICES ASSUME NEW m \in Flight'
               PROVE  /\ IsOutput(m) => call[m.inv] \in {"exec", "returned", "failed"}
                      /\ m.kind = "chunk" => m.seq \in 1..out'[m.inv]
                      /\ m.kind = "eof" => eof'[m.inv] = "sent"
    BY DEF Known, IsOutput
  <2>1. CASE m \in Flight /\ IsOutput(m)
    <3>1. m.inv \in Invs /\ m.kind # "shutdown" /\ m \in Msg
      BY <1>1, <2>1, MsgFields DEF IsOutput
    <3>2. m.kind = "chunk" => m.seq \in 1..out'[m.inv]
      <4>1. m.kind = "chunk" => m.seq \in 1..out[m.inv]
        BY <2>1 DEF InFlight, Known
      <4> QED
        BY <1>3, <3>1, <4>1
    <3>3. m.kind = "eof" => eof'[m.inv] = "sent"
      BY <1>2, <2>1, <3>1 DEF InFlight, Known
    <3> QED
      BY <2>1, <3>2, <3>3 DEF InFlight, Known
  <2>2. CASE m \in Flight /\ ~IsOutput(m)
    BY <2>2 DEF IsOutput
  <2>3. CASE m.kind = "chunk" /\ m.inv = i /\ m.seq \in 1..out'[i]
    BY <2>3
  <2> QED
    BY <1>4, <2>1, <2>2, <2>3
<1>6. EndsAgree'
  BY <1>4 DEF InFlight, EndsAgree
<1>7. Held'
  <2> SUFFICES ASSUME NEW j \in Invs
               PROVE  /\ ToSet(overflow'[j]) \subseteq 1..out'[j] /\ (eof'[j] # "open" => overflow'[j] = <<>>)
                      /\ eof'[j] \in {"exact", "gap"} => call[j] \in {"exec", "returned", "failed"}
    BY DEF Held
  <2>1. CASE j = i
    BY <2>1
  <2>2. CASE j # i
    BY <1>3, <2>2 DEF InFlight, Held
  <2> QED
    BY <2>1, <2>2
<1>8. Reported'
  <2>1. \A m \in Mail' : m \in Mail \/ m.kind = "chunk"
    BY DEF Mail, Flight
  <2> QED
    BY <2>1 DEF InFlight, Reported
<1>9. Order'
  <2>1. \A m \in ToSet(worker.outbuf) \cup ToSet(worker.batch) : m.kind = "eof" => m.inv # i
    BY <1>2 DEF Flight
  <2>2. Before(ToSet(worker.outbuf), ToSet(lane')) /\ Before(ToSet(worker.batch), ToSet(lane'))
    BY <2>1 DEF InFlight, Order, Before
  <2> QED
    BY <2>2 DEF InFlight, Order
<1>10. Places'
  BY DEF InFlight, Places
<1> QED
  BY <1>5, <1>6, <1>7, <1>8, <1>9, <1>10 DEF InFlight

\* The end the reader of i sends, or cannot send.
LEMMA EndSent ==
    ASSUME InFlight, QueuesTyped, UNCHANGED <<priority, worker, call, out, overflow>>,
           ReadersTyped, NEW i \in Invs, call[i] \in {"exec", "returned", "failed"},
           eof[i] \in {"exact", "gap"}, eof' = [eof EXCEPT ![i] = "sent"],
           NEW b \in BOOLEAN,
           \/ UNCHANGED lane
           \/ lane' = Append(lane, Eof(i, b)) /\ Len(lane) < LaneCap
    PROVE  /\ InFlight' /\ QueuesTyped' /\ Flight \subseteq Flight'
           /\ \A m \in Flight' : m \in Flight \/ m = Eof(i, b)
           /\ \A m \in Flight : m.kind = "eof" => m.inv # i
<1>1. /\ Mail \subseteq Msg /\ Flight \subseteq Mail
  BY QueueElements DEF QueuesHold
<1>2. \A m \in Flight : m.kind = "eof" => m.inv # i
  BY DEF InFlight, Known
<1>3. Eof(i, b) \in Msg /\ Eof(i, b).kind = "eof" /\ Eof(i, b).inv = i
  BY MsgMade
<1>4. Before(ToSet(lane), {Eof(i, b)}) /\ Before(ToSet(worker.batch), {Eof(i, b)})
      /\ Before(ToSet(worker.outbuf), {Eof(i, b)})
  BY <1>3 DEF Before
<1>5. /\ QueuesTyped' /\ Ordered(lane') /\ ToSet(lane) \subseteq ToSet(lane')
      /\ ToSet(lane') \subseteq ToSet(lane) \cup {Eof(i, b)}
  <2>1. lane \in Seq(Msg) /\ Len(lane) \in Nat /\ LaneCap \in Nat /\ Ordered(lane) /\ Len(lane) <= LaneCap
    BY Bounds DEF QueuesTyped, InFlight, Order
  <2>2. CASE UNCHANGED lane
    BY <2>1, <2>2 DEF QueuesTyped
  <2>3. CASE lane' = Append(lane, Eof(i, b)) /\ Len(lane) < LaneCap
    <3>1. lane' \in Seq(Msg) /\ Len(lane') <= LaneCap /\ ToSet(lane') = ToSet(lane) \cup {Eof(i, b)}
      BY <1>3, <2>1, <2>3, SetOfAppend
    <3>2. Ordered(lane')
      BY <1>3, <1>4, <2>1, <2>3, OrderedAppend
    <3> QED
      BY <3>1, <3>2 DEF QueuesTyped
  <2> QED
    BY <2>2, <2>3
<1>6. \A m \in Flight' : m \in Flight \/ m = Eof(i, b)
  BY <1>5 DEF Flight
<1>7. Known'
  <2> SUFFICES ASSUME NEW m \in Flight'
               PROVE  /\ IsOutput(m) => call[m.inv] \in {"exec", "returned", "failed"}
                      /\ m.kind = "chunk" => m.seq \in 1..out[m.inv]
                      /\ m.kind = "eof" => eof'[m.inv] = "sent"
    BY DEF Known, IsOutput
  <2>1. CASE m \in Flight /\ IsOutput(m)
    <3>1. m.inv \in Invs
      BY <1>1, <2>1, MsgFields DEF IsOutput
    <3> QED
      BY <2>1, <3>1 DEF InFlight, Known, ReadersTyped
  <2>2. CASE m \in Flight /\ ~IsOutput(m)
    BY <2>2 DEF IsOutput
  <2>3. CASE m = Eof(i, b)
    BY <1>3, <2>3 DEF ReadersTyped
  <2> QED
    BY <1>6, <2>1, <2>2, <2>3
<1>8. EndsAgree'
  BY <1>2, <1>3, <1>6 DEF InFlight, EndsAgree
<1>9. Held'
  BY DEF InFlight, Held, ReadersTyped
<1>10. Reported'
  <2>1. \A m \in Mail' : m \in Mail \/ m.kind = "eof"
    BY <1>3, <1>5 DEF Mail, Flight
  <2> QED
    BY <2>1 DEF InFlight, Reported
<1>11. Order'
  <2>2. Before(ToSet(worker.outbuf), ToSet(lane')) /\ Before(ToSet(worker.batch), ToSet(lane'))
    BY <1>4, <1>5 DEF InFlight, Order, Before
  <2> QED
    BY <1>5, <2>2 DEF InFlight, Order
<1>12. Places'
  BY DEF InFlight, Places
<1>13. Flight \subseteq Flight'
  BY <1>5 DEF Flight
<1> QED
  BY <1>2, <1>5, <1>6, <1>7, <1>8, <1>9, <1>10, <1>11, <1>12, <1>13 DEF InFlight

\* What of the overflow fits into the lane goes there.
LEMMA FlushedLane ==
    ASSUME QueuesTyped, NEW i \in Invs, Ordered(lane),
           \A m \in ToSet(lane) : m.kind = "eof" => m.inv # i
    PROVE  /\ flushed(i).lane \in Seq(Msg) /\ Len(flushed(i).lane) <= LaneCap
           /\ flushed(i).rest \in Seq(Nat) /\ Ordered(flushed(i).lane)
           /\ ToSet(lane) \subseteq ToSet(flushed(i).lane)
           /\ \A m \in ToSet(flushed(i).lane) :
                 m \in ToSet(lane) \/ \E n \in ToSet(overflow[i]) : m = Chunk(i, n)
           /\ ToSet(flushed(i).rest) \subseteq ToSet(overflow[i])
           /\ \A n \in ToSet(overflow[i]) :
                 n \in ToSet(flushed(i).rest) \/ Chunk(i, n) \in ToSet(flushed(i).lane)
           /\ Len(overflow[i]) - Len(flushed(i).rest) \in Nat
<1> DEFINE o == overflow[i]
           k == IF Len(o) < LaneCap - Len(lane) THEN Len(o) ELSE LaneCap - Len(lane)
           new == [n \in 1..k |-> Chunk(i, o[n])]
           rest == SubSeq(o, k + 1, Len(o))
<1>1. flushed(i).lane = lane \o new /\ flushed(i).rest = rest
  BY DEF flushed
<1>2. o \in Seq(Nat) /\ lane \in Seq(Msg) /\ Len(lane) \in Nat /\ LaneCap \in Nat /\ Len(lane) <= LaneCap
  BY Bounds DEF QueuesTyped
<1>3. k \in Nat /\ k <= Len(o) /\ Len(lane) + k <= LaneCap
  BY <1>2
<1> HIDE DEF k
<1>4. /\ rest \in Seq(Nat) /\ Len(rest) = Len(o) - k
      /\ ToSet(o) = {o[n] : n \in 1..k} \cup ToSet(rest)
  BY <1>2, <1>3, SetOfSplit
<1> HIDE DEF rest
<1>5. \A n \in 1..k : o[n] \in Nat /\ Chunk(i, o[n]) \in Msg /\ Chunk(i, o[n]).kind = "chunk"
  BY <1>2, <1>3, MsgMade
<1>6. new \in Seq(Msg) /\ Len(new) = k /\ \A n \in 1..k : new[n] = Chunk(i, o[n])
  BY <1>3, <1>5
<1> HIDE DEF new
<1>7. ToSet(new) = {Chunk(i, o[n]) : n \in 1..k}
  BY <1>6 DEF ToSet
<1>8. /\ lane \o new \in Seq(Msg) /\ ToSet(lane \o new) = ToSet(lane) \cup ToSet(new)
      /\ Len(lane \o new) <= LaneCap
  <2>1. lane \o new \in Seq(Msg) /\ ToSet(lane \o new) = ToSet(lane) \cup ToSet(new)
    BY <1>2, <1>6, SetOfConcat
  <2>2. Len(lane \o new) = Len(lane) + Len(new)
    BY <1>2, <1>6, SetOfConcat
  <2> QED
    BY <1>3, <1>6, <2>1, <2>2
<1>9. Ordered(lane \o new)
  <2>1. \A m \in ToSet(new) : m.kind # "eof" /\ m.kind = "chunk"
    BY <1>5, <1>7
  <2>2. Ordered(new)
    BY <1>6, <2>1, OrderedQuiet
  <2>3. \A n \in 1..k : Chunk(i, o[n]).inv = i
    BY <1>5, MsgMade
  <2>4. Before(ToSet(lane), ToSet(new))
    BY <1>7, <2>3 DEF Before
  <2> QED
    BY <1>2, <1>6, <2>2, <2>4, OrderedConcat
<1>10. Len(o) - Len(rest) \in Nat
  <2>1. Len(o) \in Nat
    BY <1>2
  <2> QED
    BY <1>3, <1>4, <2>1
<1> QED
  BY <1>1, <1>4, <1>7, <1>8, <1>9, <1>10

-----------------------------------------------------------------------------
(* Rows *)

\* What an operation that settles no output does to the row of i, when the
\* captures in h are known to be damaged: they stay noted, or get flagged.
KeptRow(i, h) ==
    /\ row'[i] = NoRow <=> row[i] = NoRow
    /\ row[i] # NoRow =>
         /\ row'[i].chunks = row[i].chunks
         /\ row'[i].files = "pending" => row[i].files = "pending"
         /\ \/ row'[i].cap = row[i].cap
            \/ row'[i].cap = "incomplete" /\ row[i].cap \in {"pending", "complete"}
            \/ row'[i].cap = "complete" /\ row[i].cap = "pending" /\ call[i] \in {"failed", "patched"}
         /\ i \in h.capture => \/ i \in health'.capture
                               \/ row'[i].cap \in {"incomplete", "not_applicable"}
Kept(h) ==
    /\ StoreTyped' /\ (faults' = 0 => faults = 0)
    /\ health'.capture \subseteq h.capture
    /\ \A i \in Invs : KeptRow(i, h)

LEMMA RowFields ==
    ASSUME NEW r \in RowRecord
    PROVE  /\ r # NoRow /\ r.chunks \subseteq Nat
           /\ r.ev \in {"pending", "complete", "incomplete"}
           /\ r.cap \in {"pending", "complete", "incomplete", "not_applicable"}
           /\ r.proc \in {"none", "running", "final"}
           /\ r.files \in {"none", "pending", "complete", "unavailable"}
BY DEF RowRecord, NoRow

LEMMA RowAt ==
    ASSUME StoreTyped, NEW i \in Invs, row[i] # NoRow
    PROVE  row[i] \in RowRecord
BY DEF StoreTyped

LEMMA HealthFields ==
    ASSUME NEW h \in HealthRecord
    PROVE  h.degraded \in BOOLEAN /\ h.evidence \subseteq Invs /\ h.capture \subseteq Invs
BY DEF HealthRecord

\* A row whose flags change keeps the rest.
LEMMA MarkedRow ==
    ASSUME StoreTyped, NEW E, NEW S, NEW i \in Invs,
           NEW x, x = mark_capture_incomplete(mark_evidence_incomplete(row, E), S)[i]
    PROVE  /\ x \in RowRecord \cup {NoRow} /\ (x = NoRow <=> row[i] = NoRow)
           /\ row[i] # NoRow =>
                /\ x.chunks = row[i].chunks /\ x.files = row[i].files
                /\ \/ x.cap = row[i].cap
                   \/ x.cap = "incomplete" /\ row[i].cap \in {"pending", "complete"}
                /\ i \in S => x.cap \in {"incomplete", "not_applicable"}
<1> DEFINE y == IF i \in E /\ row[i] # NoRow THEN [row[i] EXCEPT !.ev = "incomplete"] ELSE row[i]
<1>1. mark_evidence_incomplete(row, E)[i] = y
  BY DEF mark_evidence_incomplete
<1>2. CASE row[i] = NoRow
  <2>1. y = NoRow
    BY <1>2
  <2> QED
    BY <1>1, <1>2, <2>1 DEF mark_capture_incomplete
<1>3. CASE row[i] # NoRow
  <2>1. row[i] \in RowRecord
    BY <1>3, RowAt
  <2>2. y \in RowRecord /\ y.chunks = row[i].chunks /\ y.files = row[i].files /\ y.cap = row[i].cap
    BY <2>1 DEF RowRecord
  <2> HIDE DEF y
  <2>3. y # NoRow /\ row[i] # NoRow /\ y.cap \in {"pending", "complete", "incomplete", "not_applicable"}
    BY <2>1, <2>2, RowFields
  <2>4. x = IF i \in S /\ y.cap \in {"pending", "complete"} THEN [y EXCEPT !.cap = "incomplete"] ELSE y
    BY <1>1, <2>3 DEF mark_capture_incomplete
  <2>5. CASE i \in S /\ y.cap \in {"pending", "complete"}
    <3>1. x = [y EXCEPT !.cap = "incomplete"]
      BY <2>4, <2>5
    <3>2. x \in RowRecord /\ x.chunks = y.chunks /\ x.files = y.files /\ x.cap = "incomplete"
      BY <2>2, <3>1 DEF RowRecord
    <3>3. x # NoRow
      BY <3>2, RowFields
    <3> QED
      BY <2>2, <2>3, <2>5, <3>2, <3>3
  <2>6. CASE ~(i \in S /\ y.cap \in {"pending", "complete"})
    <3>1. x = y
      BY <2>4, <2>6
    <3> QED
      BY <2>2, <2>3, <2>6, <3>1
  <2> QED
    BY <2>5, <2>6
<1> QED
  BY <1>2, <1>3

LEMMA NothingToMark ==
    ASSUME StoreTyped
    PROVE  mark_evidence_incomplete(row, {}) = row
BY DEF mark_evidence_incomplete, StoreTyped

LEMMA MarkedKept ==
    ASSUME StoreTyped, NEW h \in HealthRecord, NEW E,
           row' = mark_capture_incomplete(mark_evidence_incomplete(row, E), h.capture),
           health' \in HealthRecord, health'.capture = {}, faults' \in Nat, faults' = 0 => faults = 0
    PROVE  Kept(h)
<1>1. \A i \in Invs : row'[i] = mark_capture_incomplete(mark_evidence_incomplete(row, E), h.capture)[i]
  OBVIOUS
<1>2. row' = [i \in Invs |-> row'[i]]
  BY DEF mark_capture_incomplete
<1>3. \A i \in Invs : row'[i] \in RowRecord \cup {NoRow}
  BY <1>1, MarkedRow
<1>4. ASSUME NEW i \in Invs PROVE KeptRow(i, h)
  BY <1>1, MarkedRow DEF KeptRow
<1>5. row' \in [Invs -> RowRecord \cup {NoRow}]
  BY <1>2, <1>3
<1> QED
  BY <1>4, <1>5 DEF Kept, StoreTyped

LEMMA NothingStored ==
    ASSUME StoreTyped, UNCHANGED row, health' \in HealthRecord, NEW h, health'.capture = h.capture,
           faults' \in Nat, faults' = 0 => faults = 0
    PROVE  Kept(h)
BY DEF Kept, KeptRow, StoreTyped

LEMMA PersistHealth ==
    ASSUME StoreTyped, NEW h \in HealthRecord, persist_health(row, h)
    PROVE  Kept(h)
<1>1. CASE /\ row' = mark_capture_incomplete(IF h.degraded THEN mark_evidence_incomplete(row, h.evidence) ELSE row,
                                             h.capture)
           /\ health' = [h EXCEPT !.capture = {}] /\ UNCHANGED faults
  <2>1. health' \in HealthRecord /\ health'.capture = {}
    BY <1>1 DEF HealthRecord
  <2>2. CASE h.degraded
    BY <1>1, <2>1, <2>2, MarkedKept DEF StoreTyped
  <2>3. CASE ~h.degraded
    <3>1. row' = mark_capture_incomplete(mark_evidence_incomplete(row, {}), h.capture)
      BY <1>1, <2>3, NothingToMark
    <3> QED
      BY <1>1, <2>1, <3>1, MarkedKept DEF StoreTyped
  <2> QED
    BY <2>2, <2>3
<1>2. CASE row' = row /\ health' = h /\ faults' = faults + 1
  BY <1>2, NothingStored DEF StoreTyped
<1> QED
  BY <1>1, <1>2 DEF persist_health

LEMMA FailStore ==
    ASSUME StoreTyped, NEW h \in HealthRecord, fail_store(h)
    PROVE  Kept(h)
<1>1. CASE /\ row' = mark_capture_incomplete(mark_evidence_incomplete(row, h.evidence), h.capture)
           /\ health' = [h EXCEPT !.capture = {}, !.degraded = TRUE] /\ faults' = faults + 1
  <2>1. health' \in HealthRecord /\ health'.capture = {}
    BY <1>1 DEF HealthRecord
  <2> QED
    BY <1>1, <2>1, MarkedKept DEF StoreTyped
<1>2. CASE row' = row /\ health' = [h EXCEPT !.degraded = TRUE] /\ faults' = faults + 2
  <2>1. health' \in HealthRecord /\ health'.capture = h.capture
    BY <1>2 DEF HealthRecord
  <2> QED
    BY <1>2, <2>1, NothingStored DEF StoreTyped
<1> QED
  BY <1>1, <1>2 DEF fail_store

\* One row moves on, none of its output.
LEMMA RowMoved ==
    ASSUME StoreTyped, NEW i \in Invs, row[i] # NoRow, NEW x \in RowRecord, row' = [row EXCEPT ![i] = x],
           UNCHANGED <<health, faults>>,
           x.chunks = row[i].chunks, x.files = "pending" => row[i].files = "pending",
           \/ x.cap = row[i].cap
           \/ x.cap = "complete" /\ row[i].cap = "pending" /\ call[i] \in {"failed", "patched"}
    PROVE  Kept(health)
<1>1. x # NoRow
  BY RowFields
<1>2. row'[i] = x /\ \A j \in Invs \ {i} : row'[j] = row[j]
  BY DEF StoreTyped
<1>3. StoreTyped'
  BY DEF StoreTyped
<1>4. ASSUME NEW j \in Invs PROVE KeptRow(j, health)
  <2>1. CASE j = i
    BY <1>1, <1>2, <2>1 DEF KeptRow
  <2>2. CASE j # i
    BY <1>2, <2>2 DEF KeptRow
  <2> QED
    BY <2>1, <2>2
<1> QED
  BY <1>3, <1>4 DEF Kept

LEMMA StoreComplete ==
    ASSUME StoreTyped, NEW i \in Invs, row[i] # NoRow, NEW ok \in BOOLEAN, NEW filesOk \in BOOLEAN,
           ~ok => call[i] \in {"failed", "patched"},
           row' = store_complete(i, ok, filesOk), UNCHANGED <<health, faults>>
    PROVE  Kept(health)
<1>0. row[i] \in RowRecord
  BY RowAt
<1> DEFINE c == IF ~ok /\ row[i].cap = "pending" THEN "complete" ELSE row[i].cap
           f == IF row[i].files # "pending" THEN row[i].files
                ELSE IF filesOk THEN "complete" ELSE "unavailable"
           x == [row[i] EXCEPT !.ev = "complete", !.cap = c, !.files = f]
<1>1. row' = [row EXCEPT ![i] = x]
  <2>1. row \in [Invs -> RowRecord \cup {NoRow}]
    BY DEF StoreTyped
  <2> QED
    BY <1>0, <2>1 DEF store_complete, RowRecord
<1>2. /\ c \in {"pending", "complete", "incomplete", "not_applicable"}
      /\ f \in {"none", "pending", "complete", "unavailable"} /\ (f = "pending" => row[i].files = "pending")
      /\ \/ c = row[i].cap
         \/ c = "complete" /\ row[i].cap = "pending" /\ call[i] \in {"failed", "patched"}
  BY <1>0, RowFields
<1> HIDE DEF c, f
<1>3. x \in RowRecord /\ x.chunks = row[i].chunks /\ x.cap = c /\ x.files = f
  BY <1>0, <1>2 DEF RowRecord
<1> HIDE DEF x
<1> QED
  BY <1>1, <1>2, <1>3, RowMoved

LEMMA ProcessRow ==
    ASSUME StoreTyped, NEW i \in Invs, row[i] # NoRow, NEW p \in {"running", "final"},
           row' = [row EXCEPT ![i].proc = p], UNCHANGED <<health, faults>>
    PROVE  Kept(health)
<1>0. row[i] \in RowRecord
  BY RowAt
<1> DEFINE x == [row[i] EXCEPT !.proc = p]
<1>1. row' = [row EXCEPT ![i] = x]
  OBVIOUS
<1>2. x \in RowRecord /\ x.chunks = row[i].chunks /\ x.cap = row[i].cap /\ x.files = row[i].files
  BY <1>0 DEF RowRecord
<1> HIDE DEF x
<1> QED
  BY <1>1, <1>2, RowMoved

LEMMA NoteCapture ==
    ASSUME StoreTyped, NEW i \in Invs
    PROVE  /\ note_capture_incomplete(i) \in HealthRecord
           /\ note_capture_incomplete(i).capture = health.capture \cup {i}
           /\ \A b \in BOOLEAN : /\ [note_capture_incomplete(i) EXCEPT !.degraded = b] \in HealthRecord
                                 /\ [note_capture_incomplete(i) EXCEPT !.degraded = b].capture
                                       = health.capture \cup {i}
BY DEF StoreTyped, HealthRecord, note_capture_incomplete

LEMMA NoteEvidence ==
    ASSUME StoreTyped, NEW i \in Invs
    PROVE  /\ note_evidence_incomplete(i) \in HealthRecord
           /\ note_evidence_incomplete(i).capture = health.capture
           /\ [health EXCEPT !.evidence = @ \cup {i}] \in HealthRecord
           /\ [health EXCEPT !.evidence = @ \cup {i}].capture = health.capture
BY DEF StoreTyped, HealthRecord, note_evidence_incomplete

-----------------------------------------------------------------------------
(* Accounting: what the store knows of the output against what there was *)

\* The capture of i is flagged, or noted to be flagged.
Doubted(i) == i \in health.capture \cup unmarked \/ row[i].cap = "incomplete"

\* Its end will say that output is missing.
Inexact(i) == eof[i] = "gap" \/ \E m \in Flight : m.kind = "eof" /\ m.inv = i /\ ~m.exact

\* Its output is stored, held back or on its way.
Covered(i) ==
    \A n \in 1..out[i] :
        \/ n \in row[i].chunks \/ n \in ToSet(overflow[i])
        \/ \E m \in Flight : m.kind = "chunk" /\ m.inv = i /\ m.seq = n

Unclaimed(i) == call[i] \in {"new", "untracked", "patch", "patched"}
Writing(i) == call[i] \in {"exec", "returned"} /\ row[i] # NoRow

Accounted ==
    /\ \A i \in Invs : Writing(i) => Doubted(i) \/ Inexact(i) \/ Covered(i)
    /\ \A i \in Invs : i \in shed /\ Writing(i) => Doubted(i)
CertifiedAtEnd ==
    \A i \in Invs : /\ call[i] \in {"exec", "returned", "over"}
                    /\ row[i] # NoRow /\ row[i].cap = "complete"
                    => eof[i] # "open"
StoredProduced == \A i \in Invs : row[i] # NoRow => row[i].chunks \subseteq 1..out[i]
ClaimsApply == \A i \in Invs : row[i] # NoRow /\ ~Unclaimed(i) => row[i].cap # "not_applicable"
NothingClaimed ==
    \A i \in Invs : Unclaimed(i) =>
        /\ out[i] = 0 /\ i \notin health.capture \cup unmarked \cup shed
        /\ call[i] \in {"new", "untracked"} => row[i] = NoRow

Accounting == Accounted /\ CertifiedAtEnd /\ StoredProduced /\ ClaimsApply /\ NothingClaimed

\* What the ledger reads off a state.
StoredOf(i) == IF has_row(i) THEN row[i].chunks ELSE {}

Verdicts ==
    \A i \in Invs :
        /\ Unclaimed(i) => capture_verdict(i) = "none"
        /\ ~Unclaimed(i) /\ row[i] = NoRow => capture_verdict(i) = "gone"
        /\ row[i] # NoRow /\ call[i] = "failed" => capture_verdict(i) = "void"
        /\ row[i] # NoRow /\ call[i] \in {"exec", "returned", "over"} =>
             /\ Doubted(i) => capture_verdict(i) = "gap"
             /\ ~Doubted(i) /\ row[i].cap = "pending" => capture_verdict(i) = "open"
             /\ ~Doubted(i) /\ row[i].cap = "complete" => capture_verdict(i) = "complete"
             /\ Doubted(i) \/ row[i].cap \in {"pending", "complete"}
        /\ Unclaimed(i) \/ call[i] \in {"failed", "exec", "returned", "over"}

LEMMA VerdictsHold == StoreTyped /\ CallsTyped /\ ClaimsApply => Verdicts
<1> SUFFICES ASSUME StoreTyped, CallsTyped, ClaimsApply, NEW i \in Invs
             PROVE  /\ Unclaimed(i) => capture_verdict(i) = "none"
                    /\ ~Unclaimed(i) /\ row[i] = NoRow => capture_verdict(i) = "gone"
                    /\ row[i] # NoRow /\ call[i] = "failed" => capture_verdict(i) = "void"
                    /\ row[i] # NoRow /\ call[i] \in {"exec", "returned", "over"} =>
                         /\ Doubted(i) => capture_verdict(i) = "gap"
                         /\ ~Doubted(i) /\ row[i].cap = "pending" => capture_verdict(i) = "open"
                         /\ ~Doubted(i) /\ row[i].cap = "complete" => capture_verdict(i) = "complete"
                         /\ Doubted(i) \/ row[i].cap \in {"pending", "complete"}
                    /\ Unclaimed(i) \/ call[i] \in {"failed", "exec", "returned", "over"}
  BY DEF Verdicts
<1>1. Unclaimed(i) \/ call[i] \in {"failed", "exec", "returned", "over"}
  BY DEF CallsTyped, Unclaimed
<1>2. ASSUME row[i] # NoRow, ~Unclaimed(i)
      PROVE  row[i].cap \in {"pending", "complete", "incomplete"}
  BY <1>2, RowAt, RowFields DEF ClaimsApply
<1>3. Unclaimed(i) => capture_verdict(i) = "none"
  BY DEF capture_verdict, Unclaimed
<1>4. ~Unclaimed(i) /\ row[i] = NoRow => capture_verdict(i) = "gone"
  BY DEF capture_verdict, Unclaimed, has_row
<1>5. row[i] # NoRow /\ call[i] = "failed" => capture_verdict(i) = "void"
  BY DEF capture_verdict, Unclaimed, has_row
<1>6. ASSUME row[i] # NoRow, call[i] \in {"exec", "returned", "over"}
      PROVE  /\ Doubted(i) => capture_verdict(i) = "gap"
             /\ ~Doubted(i) /\ row[i].cap = "pending" => capture_verdict(i) = "open"
             /\ ~Doubted(i) /\ row[i].cap = "complete" => capture_verdict(i) = "complete"
             /\ Doubted(i) \/ row[i].cap \in {"pending", "complete"}
  <2>1. ~Unclaimed(i)
    BY <1>6 DEF Unclaimed
  <2>2. row[i].cap \in {"pending", "complete", "incomplete"}
    BY <1>2, <1>6, <2>1
  <2>3. capture_verdict(i) = IF i \in health.capture \cup unmarked THEN "gap"
                             ELSE CASE row[i].cap = "pending" -> "open"
                                    [] row[i].cap = "complete" -> "complete"
                                    [] row[i].cap = "incomplete" -> "gap"
    BY <1>6, <2>1 DEF capture_verdict, Unclaimed, has_row
  <2>4. CASE i \in health.capture \cup unmarked
    BY <2>2, <2>3, <2>4 DEF Doubted
  <2>5. CASE i \notin health.capture \cup unmarked
    BY <2>2, <2>3, <2>5 DEF Doubted
  <2> QED
    BY <2>4, <2>5
<1> QED
  BY <1>1, <1>3, <1>4, <1>5, <1>6

-----------------------------------------------------------------------------
(* Steps of the ledger *)

WriteOf(i) ==
    /\ StoredOf(i) \subseteq StoredOf(i)' /\ StoredOf(i)' \subseteq 1..out[i]
    /\ \/ capture_verdict(i)' = capture_verdict(i)
       \/ /\ capture_verdict(i) = "open" /\ capture_verdict(i)' = "complete"
          /\ StoredOf(i)' = 1..out[i]
       \/ capture_verdict(i) \in {"open", "complete"} /\ capture_verdict(i)' = "gap"
       \/ capture_verdict(i) \in {"open", "complete", "gap"} /\ capture_verdict(i)' = "void"

LEMMA LedgerWrite ==
    ASSUME UNCHANGED out, \A i \in Invs : WriteOf(i)
    PROVE  Ledger!Write
BY DEF Ledger!Write, WriteOf, StoredOf

\* What a call does next.
CallsMove ==
    \A i \in Invs : \/ call'[i] = call[i]
                    \/ call[i] = "exec" /\ call'[i] \in {"returned", "failed"}
                    \/ call[i] = "patch" /\ call'[i] = "patched"

LEMMA CallsMoveOn ==
    ASSUME CallsMove
    PROVE  /\ CallsGoOn
           /\ \A i \in Invs : /\ Unclaimed(i)' <=> Unclaimed(i)
                              /\ call'[i] \in {"exec", "returned"} => call[i] \in {"exec", "returned"}
                              /\ call'[i] \in {"new", "untracked"} => call[i] \in {"new", "untracked"}
BY DEF CallsMove, CallsGoOn, Unclaimed

\* A flagged or noted capture stays so, whatever is written about it.
LEMMA DoubtKept ==
    ASSUME NEW i \in Invs, NEW h, KeptRow(i, h), row[i] # NoRow, ~Unclaimed(i), ClaimsApply,
           health.capture \subseteq h.capture, unmarked \subseteq unmarked',
           Doubted(i) \/ i \in h.capture
    PROVE  Doubted(i)'
<1>1. row[i].cap # "not_applicable"
  BY DEF ClaimsApply
<1>2. CASE i \in h.capture
  BY <1>1, <1>2 DEF KeptRow, Doubted
<1>3. CASE i \in unmarked
  BY <1>3 DEF Doubted
<1>4. CASE row[i].cap = "incomplete"
  BY <1>4 DEF KeptRow, Doubted
<1> QED
  BY <1>2, <1>3, <1>4 DEF Doubted

\* An operation that settles no output of a capture but the damaged ones.
LEMMA Quiet ==
    ASSUME Accounting, StoreTyped, CallsTyped, CallsTyped', NEW h, Kept(h),
           health.capture \subseteq h.capture, \A i \in h.capture : ~Unclaimed(i),
           UNCHANGED <<out, eof, overflow, unmarked, shed>>, CallsMove,
           \A m \in Flight : IsOutput(m) => m \in Flight' \/ m.inv \in h.capture
    PROVE  Accounting' /\ Ledger!Write
<1>1. /\ \A i \in Invs : KeptRow(i, h)
      /\ StoreTyped' /\ health'.capture \subseteq h.capture
  BY DEF Kept
<1>2. \A i \in Invs : /\ Unclaimed(i)' <=> Unclaimed(i)
                      /\ call'[i] \in {"exec", "returned"} => call[i] \in {"exec", "returned"}
                      /\ call'[i] \in {"new", "untracked"} => call[i] \in {"new", "untracked"}
  BY CallsMoveOn
<1>3. ASSUME NEW i \in Invs, row[i] # NoRow, ~Unclaimed(i), Doubted(i) \/ i \in h.capture
      PROVE  Doubted(i)'
  BY <1>1, <1>3, DoubtKept DEF Accounting
<1>4. \A i \in Invs : Writing(i)' => Writing(i) /\ ~Unclaimed(i)
  BY <1>1, <1>2 DEF Writing, KeptRow, Unclaimed
<1>5. ASSUME NEW i \in Invs, Writing(i)'
      PROVE  Doubted(i)' \/ Inexact(i)' \/ Covered(i)'
  <2>1. Writing(i) /\ ~Unclaimed(i) /\ row[i] # NoRow
    BY <1>4, <1>5 DEF Writing
  <2>2. CASE Doubted(i) \/ i \in h.capture
    BY <1>3, <2>1, <2>2
  <2>3. CASE Inexact(i) /\ i \notin h.capture
    <3>1. CASE eof[i] = "gap"
      BY <3>1 DEF Inexact
    <3>2. ASSUME NEW m \in Flight, m.kind = "eof", m.inv = i, ~m.exact
          PROVE  Inexact(i)'
      <4>1. m \in Flight'
        BY <2>3, <3>2 DEF IsOutput
      <4> QED
        BY <3>2, <4>1 DEF Inexact
    <3> QED
      BY <2>3, <3>1, <3>2 DEF Inexact
  <2>4. CASE Covered(i) /\ i \notin h.capture
    <3> SUFFICES ASSUME NEW n \in 1..out[i]
                 PROVE  \/ n \in row'[i].chunks \/ n \in ToSet(overflow[i])
                        \/ \E m \in Flight' : m.kind = "chunk" /\ m.inv = i /\ m.seq = n
      BY DEF Covered
    <3>1. ASSUME NEW m \in Flight, m.kind = "chunk", m.inv = i, m.seq = n
          PROVE  \E x \in Flight' : x.kind = "chunk" /\ x.inv = i /\ x.seq = n
      <4>1. m \in Flight'
        BY <2>4, <3>1 DEF IsOutput
      <4> QED
        BY <3>1, <4>1
    <3>2. row'[i].chunks = row[i].chunks
      BY <1>1, <2>1 DEF KeptRow
    <3> QED
      BY <2>4, <3>1, <3>2 DEF Covered
  <2> QED
    BY <2>1, <2>2, <2>3, <2>4 DEF Accounting, Accounted
<1>6. Accounted'
  <2>1. ASSUME NEW i \in Invs, i \in shed', Writing(i)' PROVE Doubted(i)'
    BY <1>3, <1>4, <2>1 DEF Accounting, Accounted, Writing
  <2> QED
    BY <1>5, <2>1 DEF Accounted
<1>7. CertifiedAtEnd'
  <2> SUFFICES ASSUME NEW i \in Invs, call'[i] \in {"exec", "returned", "over"},
                      row'[i] # NoRow, row'[i].cap = "complete"
               PROVE  eof[i] # "open"
    BY DEF CertifiedAtEnd
  <2>1. call[i] \in {"exec", "returned", "over"} /\ row[i] # NoRow
    BY <1>1 DEF CallsMove, KeptRow
  <2>2. row[i].cap = "complete"
    BY <1>1, <2>1 DEF KeptRow
  <2> QED
    BY <2>1, <2>2 DEF Accounting, CertifiedAtEnd
<1>8. StoredProduced'
  BY <1>1 DEF Accounting, StoredProduced, KeptRow
<1>9. ClaimsApply'
  <2> SUFFICES ASSUME NEW i \in Invs, row'[i] # NoRow, ~Unclaimed(i)'
               PROVE  row'[i].cap # "not_applicable"
    BY DEF ClaimsApply
  <2>1. row[i] # NoRow /\ row[i].cap # "not_applicable"
    BY <1>1, <1>2 DEF Accounting, ClaimsApply, KeptRow
  <2> QED
    BY <1>1, <2>1 DEF KeptRow
<1>10. NothingClaimed'
  BY <1>1, <1>2 DEF Accounting, NothingClaimed, KeptRow
<1>11. Accounting'
  BY <1>6, <1>7, <1>8, <1>9, <1>10 DEF Accounting
<1>12. ASSUME NEW i \in Invs PROVE WriteOf(i)
  <2>0. Verdicts /\ Verdicts'
    BY <1>1, <1>9, VerdictsHold, PTL DEF Accounting
  <2>1. StoredOf(i)' = StoredOf(i) /\ StoredOf(i) \subseteq 1..out[i]
    BY <1>1 DEF StoredOf, has_row, KeptRow, Accounting, StoredProduced
  <2>2. CASE Unclaimed(i)
    <3>1. capture_verdict(i) = "none" /\ capture_verdict(i)' = "none"
      BY <1>2, <2>0, <2>2 DEF Verdicts
    <3> QED
      BY <2>1, <3>1 DEF WriteOf
  <2>3. CASE ~Unclaimed(i) /\ row[i] = NoRow
    <3>1. capture_verdict(i) = "gone" /\ capture_verdict(i)' = "gone"
      BY <1>1, <1>2, <2>0, <2>3 DEF Verdicts, KeptRow
    <3> QED
      BY <2>1, <3>1 DEF WriteOf
  <2>4. CASE row[i] # NoRow /\ call'[i] = "failed"
    <3>1. capture_verdict(i)' = "void" /\ ~Unclaimed(i)
      BY <1>1, <1>2, <2>0, <2>4 DEF Verdicts, KeptRow, Unclaimed
    <3>2. capture_verdict(i) \in {"void", "gap", "open", "complete"}
      BY <2>0, <2>4, <3>1 DEF Verdicts
    <3> QED
      BY <2>1, <3>1, <3>2 DEF WriteOf
  <2>5. CASE row[i] # NoRow /\ ~Unclaimed(i) /\ call'[i] # "failed"
    <3>0. Unclaimed(i) \/ call[i] \in {"failed", "exec", "returned", "over"}
      BY <2>0 DEF Verdicts
    <3>1. /\ call[i] \in {"exec", "returned", "over"} /\ call'[i] \in {"exec", "returned", "over"}
          /\ row'[i] # NoRow
      BY <1>1, <2>5, <3>0 DEF CallsMove, Unclaimed, KeptRow
    <3>2. CASE Doubted(i)'
      <4>1. capture_verdict(i)' = "gap" /\ capture_verdict(i) \in {"gap", "open", "complete"}
        BY <2>0, <2>5, <3>1, <3>2 DEF Verdicts
      <4> QED
        BY <2>1, <4>1 DEF WriteOf
    <3>3. CASE ~Doubted(i)'
      <4>1. ~Doubted(i)
        BY <1>3, <2>5, <3>3
      <4>2. row'[i].cap = row[i].cap
        <5>1. row'[i].cap # "incomplete"
          BY <3>3 DEF Doubted
        <5> QED
          BY <1>1, <2>5, <3>1, <5>1 DEF KeptRow
      <4>3. capture_verdict(i)' = capture_verdict(i)
        BY <2>0, <2>5, <3>1, <3>3, <4>1, <4>2 DEF Verdicts
      <4> QED
        BY <2>1, <4>3 DEF WriteOf
    <3> QED
      BY <3>2, <3>3
  <2> QED
    BY <2>2, <2>3, <2>4, <2>5
<1>13. Ledger!Write
  BY <1>12, LedgerWrite
<1> QED
  BY <1>11, <1>13

\* The reader of i moves on, and what it lost is noted.
LEMMA ReaderAccounts ==
    ASSUME Accounting, StoreTyped, NEW i \in Invs, ~Unclaimed(i),
           UNCHANGED <<row, call, unmarked>>,
           health.capture \subseteq health'.capture, health'.capture \subseteq health.capture \cup {i},
           shed' \subseteq shed \cup {i}, i \in shed' => i \in shed \/ i \in health'.capture,
           \A j \in Invs \ {i} : overflow'[j] = overflow[j] /\ out'[j] = out[j] /\ eof'[j] = eof[j],
           Flight \subseteq Flight', out[i] \in Nat, out'[i] \in Nat, out[i] <= out'[i],
           eof[i] # "open" => eof'[i] # "open",
           Writing(i) => Doubted(i)' \/ Inexact(i)' \/ Covered(i)'
    PROVE  Accounting'
<1>1. \A j \in Invs : (Writing(j)' <=> Writing(j)) /\ (Doubted(j) => Doubted(j)') /\ (Unclaimed(j)' <=> Unclaimed(j))
  BY DEF Writing, Doubted, Unclaimed
<1>2. ASSUME NEW j \in Invs, j # i PROVE (Inexact(j) => Inexact(j)') /\ (Covered(j) => Covered(j)')
  BY <1>2 DEF Inexact, Covered
<1>3. Accounted'
  <2>1. ASSUME NEW j \in Invs, Writing(j)' PROVE Doubted(j)' \/ Inexact(j)' \/ Covered(j)'
    <3>1. CASE j = i
      BY <1>1, <2>1, <3>1
    <3>2. CASE j # i
      BY <1>1, <1>2, <2>1, <3>2 DEF Accounting, Accounted
    <3> QED
      BY <3>1, <3>2
  <2>2. ASSUME NEW j \in Invs, j \in shed', Writing(j)' PROVE Doubted(j)'
    <3>1. CASE j \in shed
      BY <1>1, <2>2, <3>1 DEF Accounting, Accounted
    <3>2. CASE j \notin shed
      BY <2>2, <3>2 DEF Doubted
    <3> QED
      BY <3>1, <3>2
  <2> QED
    BY <2>1, <2>2 DEF Accounted
<1>4. CertifiedAtEnd'
  BY DEF Accounting, CertifiedAtEnd
<1>5. StoredProduced'
  <2> SUFFICES ASSUME NEW j \in Invs, row[j] # NoRow PROVE row[j].chunks \subseteq 1..out'[j]
    BY DEF StoredProduced
  <2>1. row[j].chunks \subseteq 1..out[j]
    BY DEF Accounting, StoredProduced
  <2>2. 1..out[j] \subseteq 1..out'[j]
    <3>1. CASE j = i
      BY <3>1
    <3>2. CASE j # i
      BY <3>2
    <3> QED
      BY <3>1, <3>2
  <2> QED
    BY <2>1, <2>2
<1>6. ClaimsApply'
  BY <1>1 DEF Accounting, ClaimsApply
<1>7. NothingClaimed'
  <2> SUFFICES ASSUME NEW j \in Invs, Unclaimed(j)'
               PROVE  /\ out'[j] = 0 /\ j \notin health'.capture \cup unmarked \cup shed'
                      /\ call[j] \in {"new", "untracked"} => row[j] = NoRow
    BY DEF NothingClaimed
  <2>1. Unclaimed(j) /\ j # i
    BY <1>1
  <2> QED
    BY <2>1 DEF Accounting, NothingClaimed
<1> QED
  BY <1>3, <1>4, <1>5, <1>6, <1>7 DEF Accounting

\* The verdict after a step of the reader of i.
LEMMA ReaderVerdict ==
    ASSUME Accounting, Accounting', StoreTyped, StoreTyped', CallsTyped, CallsTyped',
           NEW i \in Invs, ~Unclaimed(i), UNCHANGED <<row, call, unmarked>>,
           health.capture \subseteq health'.capture, health'.capture \subseteq health.capture \cup {i}
    PROVE  /\ \A j \in Invs \ {i} : capture_verdict(j)' = capture_verdict(j)
           /\ \A j \in Invs : StoredOf(j)' = StoredOf(j) /\ StoredOf(j) \subseteq 1..out[j]
           /\ \/ capture_verdict(i)' = capture_verdict(i)
              \/ capture_verdict(i) = "open" /\ capture_verdict(i)' = "gap"
              \/ capture_verdict(i) = "complete" /\ capture_verdict(i)' = "gap"
           /\ capture_verdict(i) \in {"open", "complete", "gap", "void", "gone"}
           /\ capture_verdict(i) = "complete" => eof[i] # "open"
<1>0. Verdicts /\ Verdicts'
  BY VerdictsHold, PTL DEF Accounting
<1>1. ASSUME NEW j \in Invs, j # i PROVE capture_verdict(j)' = capture_verdict(j)
  BY <1>1 DEF capture_verdict, has_row
<1>2. ASSUME NEW j \in Invs PROVE StoredOf(j)' = StoredOf(j) /\ StoredOf(j) \subseteq 1..out[j]
  BY DEF StoredOf, has_row, Accounting, StoredProduced
<1>3. Doubted(i) => Doubted(i)'
  BY DEF Doubted
<1>4. ~Unclaimed(i)'
  BY DEF Unclaimed
<1>5. CASE row[i] = NoRow
  <2>1. capture_verdict(i) = "gone" /\ capture_verdict(i)' = "gone"
    BY <1>0, <1>4, <1>5 DEF Verdicts
  <2> QED
    BY <1>1, <1>2, <2>1
<1>6. CASE row[i] # NoRow /\ call[i] = "failed"
  <2>1. capture_verdict(i) = "void" /\ capture_verdict(i)' = "void"
    BY <1>0, <1>6 DEF Verdicts
  <2> QED
    BY <1>1, <1>2, <2>1
<1>7. CASE row[i] # NoRow /\ call[i] # "failed"
  <2>1. call[i] \in {"exec", "returned", "over"}
    BY <1>0, <1>7 DEF Verdicts
  <2>2. CASE Doubted(i)'
    <3>1. capture_verdict(i)' = "gap" /\ capture_verdict(i) \in {"open", "complete", "gap"}
      BY <1>0, <1>7, <2>1, <2>2 DEF Verdicts
    <3>2. capture_verdict(i) = "complete" => row[i].cap = "complete"
      BY <1>0, <1>7, <2>1 DEF Verdicts
    <3>3. capture_verdict(i) = "complete" => eof[i] # "open"
      BY <1>7, <2>1, <3>2 DEF Accounting, CertifiedAtEnd
    <3> QED
      BY <1>1, <1>2, <3>1, <3>3
  <2>3. CASE ~Doubted(i)'
    <3>1. capture_verdict(i)' = capture_verdict(i) /\ capture_verdict(i) \in {"open", "complete"}
      BY <1>0, <1>3, <1>7, <2>1, <2>3 DEF Verdicts
    <3>2. capture_verdict(i) = "complete" => row[i].cap = "complete"
      BY <1>0, <1>7, <2>1 DEF Verdicts
    <3>3. capture_verdict(i) = "complete" => eof[i] # "open"
      BY <1>7, <2>1, <3>2 DEF Accounting, CertifiedAtEnd
    <3> QED
      BY <1>1, <1>2, <3>1, <3>3
  <2> QED
    BY <2>2, <2>3
<1> QED
  BY <1>5, <1>6, <1>7

LEMMA ReaderWrites ==
    ASSUME Accounting, Accounting', StoreTyped, StoreTyped', CallsTyped, CallsTyped',
           NEW i \in Invs, ~Unclaimed(i), UNCHANGED <<row, call, unmarked, out>>,
           health.capture \subseteq health'.capture, health'.capture \subseteq health.capture \cup {i}
    PROVE  Ledger!Write
<1>1. /\ \A j \in Invs \ {i} : capture_verdict(j)' = capture_verdict(j)
      /\ \A j \in Invs : StoredOf(j)' = StoredOf(j) /\ StoredOf(j) \subseteq 1..out[j]
      /\ \/ capture_verdict(i)' = capture_verdict(i)
         \/ capture_verdict(i) = "open" /\ capture_verdict(i)' = "gap"
         \/ capture_verdict(i) = "complete" /\ capture_verdict(i)' = "gap"
  BY ReaderVerdict
<1>2. ASSUME NEW j \in Invs PROVE WriteOf(j)
  <2>1. CASE j = i
    BY <1>1, <2>1 DEF WriteOf
  <2>2. CASE j # i
    BY <1>1, <2>2 DEF WriteOf
  <2> QED
    BY <2>1, <2>2
<1> QED
  BY <1>2, LedgerWrite

LEMMA ReaderProduces ==
    ASSUME Accounting, Accounting', StoreTyped, StoreTyped', CallsTyped, CallsTyped',
           NEW i \in Invs, ~Unclaimed(i), UNCHANGED <<row, call, unmarked>>,
           health.capture \subseteq health'.capture, health'.capture \subseteq health.capture \cup {i},
           out' = [out EXCEPT ![i] = out[i] + 1], eof[i] = "open"
    PROVE  Ledger!Produce(i)
<1> DEFINE v == [j \in Invs |-> capture_verdict(j)]
           s == [j \in Invs |-> IF has_row(j) THEN row[j].chunks ELSE {}]
<1>1. /\ \A j \in Invs \ {i} : capture_verdict(j)' = capture_verdict(j)
      /\ \A j \in Invs : StoredOf(j)' = StoredOf(j)
      /\ \/ capture_verdict(i)' = capture_verdict(i)
         \/ capture_verdict(i) = "open" /\ capture_verdict(i)' = "gap"
      /\ capture_verdict(i) \in {"open", "gap", "void", "gone"}
  BY ReaderVerdict
<1>2. s' = s
  BY <1>1 DEF StoredOf
<1>3. CASE capture_verdict(i)' = capture_verdict(i)
  <2>1. \A j \in Invs : capture_verdict(j)' = capture_verdict(j)
    BY <1>1, <1>3
  <2>2. v' = v
    BY <2>1
  <2> QED
    BY <1>1, <1>2, <2>2 DEF Ledger!Produce
<1>4. CASE capture_verdict(i) = "open" /\ capture_verdict(i)' = "gap"
  <2>1. \A j \in Invs : capture_verdict(j)' = IF j = i THEN "gap" ELSE capture_verdict(j)
    BY <1>1, <1>4
  <2>2. v' = [v EXCEPT ![i] = IF v[i] = "open" THEN "gap" ELSE v[i]]
    BY <1>4, <2>1
  <2> QED
    BY <1>1, <1>2, <2>2 DEF Ledger!Produce
<1> QED
  BY <1>1, <1>3, <1>4

-----------------------------------------------------------------------------
(* The writer *)

PipelineInv == Typed /\ InFlight /\ Accounting

LEMMA DamagedAreClaimed ==
    ASSUME PipelineInv
    PROVE  \A i \in health.capture : i \in Invs /\ ~Unclaimed(i)
BY HealthFields DEF PipelineInv, Typed, StoreTyped, Accounting, NothingClaimed

LEMMA WriterStep ==
    ASSUME PipelineInv, Moved, WorkerOnly, NEW h, Kept(h), h.capture = health.capture,
           active' \in [Invs -> {"none", "running", "ending"}]
    PROVE  PipelineInv' /\ Ledger!Write
<1>1. UNCHANGED <<out, eof, overflow, unmarked, shed, call, proc>>
  BY DEF WorkerOnly
<1>2. Typed'
  BY <1>1 DEF PipelineInv, Typed, Moved, Kept, ReadersTyped, CallsTyped
<1>3. InFlight'
  BY <1>1, MovedInFlight DEF PipelineInv, Typed
<1>4. CallsMove
  BY <1>1 DEF CallsMove
<1>5. Accounting' /\ Ledger!Write
  <2>1. \A i \in h.capture : ~Unclaimed(i)
    BY DamagedAreClaimed
  <2>2. \A m \in Flight : IsOutput(m) => m \in Flight' \/ m.inv \in h.capture
    BY DEF Moved
  <2> QED
    BY <1>1, <1>2, <1>4, <2>1, <2>2, Quiet DEF PipelineInv, Typed
<1> QED
  BY <1>2, <1>3, <1>5 DEF PipelineInv

LEMMA Undisturbed ==
    ASSUME PipelineInv, UNCHANGED <<row, health, faults>>
    PROVE  Kept(health)
BY NothingStored DEF PipelineInv, Typed, StoreTyped

LEMMA Parts ==
    ASSUME PipelineInv
    PROVE  /\ QueuesTyped /\ StoreTyped /\ ReadersTyped /\ CallsTyped /\ Order /\ Places
           /\ active \in [Invs -> {"none", "running", "ending"}] /\ worker \in WorkerRecord
           /\ health \in HealthRecord
BY DEF PipelineInv, Typed, InFlight, CallsTyped, QueuesTyped, StoreTyped

\* A step of the writer that commits no output and loses none.
WriterKeeps ==
    /\ Moved /\ WorkerOnly /\ active' \in [Invs -> {"none", "running", "ending"}]
    /\ \E h : Kept(h) /\ h.capture = health.capture

LEMMA WriterMoves == ASSUME PipelineInv, WriterKeeps PROVE PipelineInv' /\ Ledger!Write
BY WriterStep DEF WriterKeeps

LEMMA WriterTakes ==
    ASSUME PipelineInv, drain_first \/ receive \/ drain_late \/ gather_output
    PROVE  WriterKeeps /\ UNCHANGED <<active, count>>
<1>1. Moved
  BY Parts, DrainFirst, Receive, DrainLate, GatherOutput
<1>2. WorkerOnly /\ UNCHANGED <<row, health, active, count, faults>>
  BY DEF drain_first, receive, drain_late, gather_output
<1>3. Kept(health)
  BY <1>2, Undisturbed
<1> QED
  BY <1>1, <1>2, <1>3, Parts DEF WriterKeeps

LEMMA WriterRests ==
    ASSUME PipelineInv, finish_batch \/ skip_maintenance \/ worker_exit
    PROVE  WriterKeeps /\ UNCHANGED <<active, count>>
<1>0. /\ worker \in WorkerRecord /\ active \in [Invs -> {"none", "running", "ending"}] /\ QueuesTyped
      /\ Order /\ Places /\ StoreTyped /\ health \in HealthRecord
  BY Parts
<1>1. CASE finish_batch
  <2>1. /\ worker' = [worker EXCEPT !.pc = IF worker.shut THEN "exit" ELSE "maintain"]
        /\ worker.batch = <<>> /\ persist_health(row, health)
        /\ UNCHANGED <<priority, lane, active, count>> /\ WorkerOnly
    BY <1>1 DEF finish_batch
  <2>2. worker' \in WorkerRecord /\ worker'.batch = worker.batch /\ worker'.outbuf = worker.outbuf
    BY <1>0, <2>1 DEF WorkerRecord
  <2>3. Moved
    BY <1>0, <2>1, <2>2, Unmoved DEF WorkerOnly
  <2>4. Kept(health)
    BY <1>0, <2>1, PersistHealth
  <2> QED
    BY <1>0, <2>1, <2>3, <2>4 DEF WriterKeeps
<1>2. CASE skip_maintenance
  <2>1. /\ worker' = [worker EXCEPT !.pc = "top", !.idle = FALSE] /\ worker.pc = "maintain"
        /\ UNCHANGED <<row, priority, lane, health, active, count, faults>> /\ WorkerOnly
    BY <1>2 DEF skip_maintenance
  <2>2. worker' \in WorkerRecord /\ worker'.batch = worker.batch /\ worker'.outbuf = worker.outbuf
    BY <1>0, <2>1 DEF WorkerRecord
  <2>3. Moved
    BY <1>0, <2>1, <2>2, Unmoved DEF WorkerOnly, Places
  <2>4. Kept(health)
    BY <2>1, Undisturbed
  <2> QED
    BY <1>0, <2>1, <2>3, <2>4 DEF WriterKeeps
<1>3. CASE worker_exit
  <2>1. /\ worker' = [worker EXCEPT !.pc = "stopped"]
        /\ UNCHANGED <<priority, lane, active, count>> /\ WorkerOnly
    BY <1>3 DEF worker_exit
  <2>2. /\ worker' \in WorkerRecord /\ worker'.batch = worker.batch /\ worker'.outbuf = worker.outbuf
        /\ worker'.pc = "stopped"
    BY <1>0, <2>1 DEF WorkerRecord
  <2>3. Moved
    BY <1>0, <2>1, <2>2, Unmoved DEF WorkerOnly
  <2>4. Kept(health)
    BY <1>0, <1>3, PersistHealth, Undisturbed DEF worker_exit
  <2> QED
    BY <1>0, <2>1, <2>3, <2>4 DEF WriterKeeps
<1> QED
  BY <1>1, <1>2, <1>3

\* The three lifecycle messages.
LEMMA MessageLost ==
    ASSUME PipelineInv, NEW i \in Invs, message_lost(i) \/ missing_row(i)
    PROVE  /\ \E h \in HealthRecord : Kept(h) /\ h.capture = health.capture
           /\ UNCHANGED <<active, count>>
<1>1. StoreTyped
  BY Parts
<1>2. CASE message_lost(i)
  <2>1. fail_store([health EXCEPT !.evidence = @ \cup {i}]) /\ UNCHANGED <<active, count>>
    BY <1>2 DEF message_lost
  <2>2. /\ [health EXCEPT !.evidence = @ \cup {i}] \in HealthRecord
        /\ [health EXCEPT !.evidence = @ \cup {i}].capture = health.capture
    BY <1>1, NoteEvidence
  <2>3. Kept([health EXCEPT !.evidence = @ \cup {i}])
    BY <1>1, <2>1, <2>2, FailStore
  <2> QED
    BY <2>1, <2>2, <2>3
<1>3. CASE missing_row(i)
  <2>1. persist_health(row, note_evidence_incomplete(i)) /\ UNCHANGED <<active, count>>
    BY <1>3 DEF missing_row
  <2>2. /\ note_evidence_incomplete(i) \in HealthRecord
        /\ note_evidence_incomplete(i).capture = health.capture
    BY <1>1, NoteEvidence
  <2>3. Kept(note_evidence_incomplete(i))
    BY <1>1, <2>1, <2>2, PersistHealth
  <2> QED
    BY <2>1, <2>2, <2>3
<1> QED
  BY <1>2, <1>3

LEMMA HeadOfBatch ==
    ASSUME PipelineInv, next_message, Head(worker.batch).kind \in {"complete", "started", "ended"}
    PROVE  /\ Head(worker.batch) \in Msg /\ Head(worker.batch) \in Flight /\ Head(worker.batch) \in Mail
           /\ Head(worker.batch).inv \in Invs /\ ~IsOutput(Head(worker.batch))
<1>1. worker.batch \in Seq(Msg) /\ worker.batch # <<>>
  BY Parts, QueueElements DEF QueuesHold, next_message
<1>2. Head(worker.batch) \in Msg /\ Head(worker.batch) \in ToSet(worker.batch)
  BY <1>1, SetOfTail
<1> QED
  BY <1>2, MsgFields DEF Flight, Mail, IsOutput

LEMMA WriterCommits ==
    ASSUME PipelineInv, commit_complete \/ commit_started \/ commit_ended
    PROVE  WriterKeeps
<1> DEFINE m == Head(worker.batch)
<1>0. /\ worker \in WorkerRecord /\ active \in [Invs -> {"none", "running", "ending"}] /\ QueuesTyped
      /\ Order /\ Places /\ StoreTyped
  BY Parts
<1>1. /\ next_message /\ m.kind \in {"complete", "started", "ended"} /\ WorkerOnly
      /\ UNCHANGED <<priority, lane>>
  BY DEF commit_complete, commit_started, commit_ended
<1>2. m \in Msg /\ m \in Mail /\ m.inv \in Invs /\ ~IsOutput(m)
  BY <1>1, HeadOfBatch
<1>3. Moved
  BY <1>0, <1>1, <1>2, NextMessage DEF WorkerOnly
<1>4. ASSUME message_lost(m.inv) \/ missing_row(m.inv) PROVE WriterKeeps
  <2>1. PICK h \in HealthRecord : Kept(h) /\ h.capture = health.capture /\ UNCHANGED active
    BY <1>2, <1>4, MessageLost
  <2> QED
    BY <1>0, <1>1, <1>3, <2>1 DEF WriterKeeps
<1>5. ASSUME Kept(health), active' \in [Invs -> {"none", "running", "ending"}]
      PROVE  WriterKeeps
  BY <1>1, <1>3, <1>5 DEF WriterKeeps
<1>6. CASE commit_complete
  <2>1. CASE message_lost(m.inv) \/ missing_row(m.inv)
    BY <1>4, <2>1
  <2>2. CASE /\ has_row(m.inv) /\ m.kind = "complete"
             /\ \E filesOk \in BOOLEAN : row' = store_complete(m.inv, m.ok, filesOk)
             /\ UNCHANGED <<health, active, count, faults>>
    <3>1. PICK filesOk \in BOOLEAN : row' = store_complete(m.inv, m.ok, filesOk)
      BY <2>2
    <3>2. m.ok \in BOOLEAN
      BY <1>2, <2>2, MsgFields
    <3>3. ~m.ok => call[m.inv] \in {"failed", "patched"}
      BY <1>2, <2>2 DEF PipelineInv, InFlight, Reported
    <3>4. Kept(health)
      BY <1>0, <1>2, <2>2, <3>1, <3>2, <3>3, StoreComplete DEF has_row
    <3> QED
      BY <1>0, <1>5, <2>2, <3>4
  <2> QED
    BY <1>6, <2>1, <2>2 DEF commit_complete
<1>7. CASE commit_started
  <2>1. CASE message_lost(m.inv) \/ missing_row(m.inv)
    BY <1>4, <2>1
  <2>2. CASE /\ has_row(m.inv) /\ row' = [row EXCEPT ![m.inv].proc = "running"]
             /\ UNCHANGED <<health, active, count, faults>>
    <3>1. Kept(health)
      BY <1>0, <1>2, <2>2, ProcessRow DEF has_row
    <3> QED
      BY <1>0, <1>5, <2>2, <3>1
  <2> QED
    BY <1>7, <2>1, <2>2 DEF commit_started
<1>8. CASE commit_ended
  <2>1. CASE message_lost(m.inv) \/ missing_row(m.inv)
    BY <1>4, <2>1
  <2>2. CASE /\ has_row(m.inv) /\ row' = [row EXCEPT ![m.inv].proc = "final"]
             /\ release(m) /\ UNCHANGED <<health, faults>>
    <3>1. Kept(health)
      BY <1>0, <1>2, <2>2, ProcessRow DEF has_row
    <3>2. active' \in [Invs -> {"none", "running", "ending"}]
      BY <1>0, <2>2 DEF release
    <3> QED
      BY <1>5, <3>1, <3>2
  <2> QED
    BY <1>8, <2>1, <2>2 DEF commit_ended
<1> QED
  BY <1>6, <1>7, <1>8

\* The rows after a batch of output was committed.
Sent(i, kind) == {m \in ToSet(worker.outbuf) : m.kind = kind /\ m.inv = i}

LEMMA CaptureAfter ==
    ASSUME NEW c \in {"pending", "complete", "incomplete", "not_applicable"}, NEW ends,
           NEW d, d = capture_after(c, ends)
    PROVE  /\ d \in {"pending", "complete", "incomplete", "not_applicable"}
           /\ c \in {"incomplete", "not_applicable"} => d = c
           /\ c \in {"pending", "complete"} /\ (\E m \in ends : ~m.exact) => d = "incomplete"
           /\ c \in {"pending", "complete"} => d \in {"pending", "complete", "incomplete"}
           /\ c = "complete" => d # "pending"
           /\ ends = {} => d = c
           /\ d = "complete" /\ c # "complete" => ends # {}
BY DEF capture_after

LEMMA CommittedRow ==
    ASSUME PipelineInv, NEW i \in Invs, NEW x, x = persist_output_batch(worker.outbuf)[i]
    PROVE  /\ row[i] = NoRow => x = NoRow
           /\ row[i] # NoRow =>
                /\ x \in RowRecord /\ x # NoRow /\ x.files = row[i].files
                /\ x.chunks = row[i].chunks \cup {m.seq : m \in Sent(i, "chunk")}
                /\ x.cap = capture_after(row[i].cap, Sent(i, "eof"))
<1>1. x = IF row[i] = NoRow THEN NoRow
          ELSE [row[i] EXCEPT !.chunks = row[i].chunks \cup {m.seq : m \in Sent(i, "chunk")},
                              !.cap = capture_after(row[i].cap, Sent(i, "eof"))]
  BY DEF persist_output_batch, Sent
<1>2. CASE row[i] = NoRow
  BY <1>1, <1>2
<1>3. CASE row[i] # NoRow
  <2> DEFINE more == {m.seq : m \in Sent(i, "chunk")}
             c == capture_after(row[i].cap, Sent(i, "eof"))
  <2>1. row[i] \in RowRecord /\ row[i].chunks \subseteq Nat
    BY <1>3, Parts, RowAt, RowFields
  <2>2. more \subseteq Nat
    <3>1. \A m \in Sent(i, "chunk") : m \in Msg /\ m.kind = "chunk"
      BY Parts, QueueElements DEF QueuesHold, Sent, Flight
    <3> QED
      BY <3>1, MsgFields
  <2>3. c \in {"pending", "complete", "incomplete", "not_applicable"}
    BY <2>1, RowFields, CaptureAfter
  <2> HIDE DEF more, c
  <2>4. x = [row[i] EXCEPT !.chunks = row[i].chunks \cup more, !.cap = c]
    BY <1>1, <1>3 DEF more, c
  <2>5. x \in RowRecord /\ x.files = row[i].files /\ x.chunks = row[i].chunks \cup more /\ x.cap = c
    BY <2>1, <2>2, <2>3, <2>4 DEF RowRecord
  <2>6. x # NoRow
    BY <2>5, RowFields
  <2> QED
    BY <1>3, <2>5, <2>6 DEF more, c
<1> QED
  BY <1>2, <1>3

\* An exact end that comes to be committed: everything produced is stored with it.
LEMMA ExactEndIsExact ==
    ASSUME PipelineInv, NEW i \in Invs, Writing(i), ~Doubted(i), NEW e \in Sent(i, "eof"),
           \A m \in Sent(i, "eof") : m.exact
    PROVE  row[i].chunks \cup {m.seq : m \in Sent(i, "chunk")} = 1..out[i]
<1>1. e \in Flight /\ e.kind = "eof" /\ e.inv = i /\ e.exact
  BY DEF Sent, Flight
<1>2. eof[i] = "sent"
  BY <1>1 DEF PipelineInv, InFlight, Known
<1>3. ~Inexact(i)
  BY <1>1, <1>2 DEF PipelineInv, InFlight, EndsAgree, Inexact
<1>4. Covered(i)
  BY <1>3 DEF PipelineInv, Accounting, Accounted
<1>5. ToSet(overflow[i]) = {}
  BY <1>2, SetOfEmpty DEF PipelineInv, InFlight, Held
<1>6. ASSUME NEW m \in Flight, m.kind = "chunk", m.inv = i PROVE m \in Sent(i, "chunk")
  <2>1. m \notin ToSet(worker.batch) /\ m \notin ToSet(lane)
    BY <1>1, <1>6 DEF PipelineInv, InFlight, Order, Before, Sent
  <2> QED
    BY <1>6, <2>1 DEF Flight, Sent
<1>7. ASSUME NEW n \in 1..out[i] PROVE n \in row[i].chunks \cup {m.seq : m \in Sent(i, "chunk")}
  BY <1>4, <1>5, <1>6 DEF Covered
<1>8. row[i].chunks \subseteq 1..out[i]
  BY DEF PipelineInv, Accounting, StoredProduced, Writing
<1>9. \A m \in Sent(i, "chunk") : m.seq \in 1..out[i]
  BY DEF PipelineInv, InFlight, Known, Sent, Flight
<1> QED
  BY <1>7, <1>8, <1>9

LEMMA OutputCommitted ==
    ASSUME PipelineInv, worker' = [worker EXCEPT !.outbuf = <<>>], UNCHANGED <<priority, lane, active>>,
           WorkerOnly, row' = persist_output_batch(worker.outbuf), UNCHANGED <<health, faults>>
    PROVE  PipelineInv' /\ Ledger!Write
<1>0. /\ worker \in WorkerRecord /\ active \in [Invs -> {"none", "running", "ending"}] /\ QueuesTyped
      /\ Order /\ Places /\ StoreTyped
  BY Parts
<1>1. UNCHANGED <<out, eof, overflow, unmarked, shed, call, proc>>
  BY DEF WorkerOnly
<1>2. /\ QueuesTyped' /\ Order' /\ Places' /\ Mail' \subseteq Mail /\ Flight' \subseteq Flight
      /\ \A m \in Flight : m \in Flight' \/ m \in ToSet(worker.outbuf)
  BY <1>0, <1>1, Flushed
<1>3. ASSUME NEW i \in Invs
      PROVE  /\ row[i] = NoRow <=> row'[i] = NoRow
             /\ row'[i] \in RowRecord \cup {NoRow}
             /\ row[i] # NoRow =>
                  /\ row'[i].chunks = row[i].chunks \cup {m.seq : m \in Sent(i, "chunk")}
                  /\ row'[i].cap = capture_after(row[i].cap, Sent(i, "eof"))
                  /\ row[i].cap \in {"pending", "complete", "incomplete", "not_applicable"}
  <2>1. row[i] # NoRow => row[i].cap \in {"pending", "complete", "incomplete", "not_applicable"}
    BY <1>0, RowAt, RowFields
  <2> QED
    BY <2>1, CommittedRow
<1>4. Typed'
  <2>1. row' = [i \in Invs |-> row'[i]]
    BY DEF persist_output_batch
  <2>2. row' \in [Invs -> RowRecord \cup {NoRow}]
    BY <1>3, <2>1
  <2> QED
    BY <1>1, <1>2, <2>2 DEF PipelineInv, Typed, StoreTyped, ReadersTyped, CallsTyped
<1>5. InFlight'
  <2>1. CallsGoOn
    BY <1>1 DEF CallsGoOn
  <2> QED
    BY <1>0, <1>1, <1>2, <2>1, StillInFlight DEF PipelineInv
<1>6. ASSUME NEW i \in Invs
      PROVE  /\ Writing(i)' <=> Writing(i)
             /\ Unclaimed(i)' <=> Unclaimed(i)
  BY <1>1, <1>3 DEF Writing, Unclaimed
<1>7. ASSUME NEW i \in Invs, row[i] # NoRow, Doubted(i) PROVE Doubted(i)'
  BY <1>1, <1>3, <1>7, CaptureAfter DEF Doubted
<1>8. ClaimsApply'
  <2> SUFFICES ASSUME NEW i \in Invs, row'[i] # NoRow, ~Unclaimed(i)'
               PROVE  row'[i].cap # "not_applicable"
    BY DEF ClaimsApply
  <2>1. row[i] # NoRow /\ ~Unclaimed(i) /\ row[i].cap # "not_applicable"
    BY <1>3, <1>6 DEF PipelineInv, Accounting, ClaimsApply
  <2> QED
    BY <1>3, <2>1, CaptureAfter
<1>9. Accounted'
  <2>1. ASSUME NEW i \in Invs, Writing(i)', ~Doubted(i)' PROVE Inexact(i)' \/ Covered(i)'
    <3>1. Writing(i) /\ row[i] # NoRow /\ ~Doubted(i) /\ ~Unclaimed(i)
      BY <1>6, <1>7, <2>1 DEF Writing, Unclaimed
    <3>2. row[i].cap \in {"pending", "complete"}
      BY <1>3, <3>1 DEF Doubted, PipelineInv, Accounting, ClaimsApply
    <3>3. \A m \in Sent(i, "eof") : m.exact
      <4>1. row'[i].cap # "incomplete"
        BY <2>1 DEF Doubted
      <4> QED
        BY <1>3, <3>1, <3>2, <4>1, CaptureAfter
    <3>4. CASE Inexact(i)
      <4>1. CASE eof[i] = "gap"
        BY <1>1, <4>1 DEF Inexact
      <4>2. ASSUME NEW m \in Flight, m.kind = "eof", m.inv = i, ~m.exact PROVE Inexact(i)'
        <5>1. m \in Flight'
          BY <1>2, <3>3, <4>2 DEF Sent
        <5> QED
          BY <4>2, <5>1 DEF Inexact
      <4> QED
        BY <3>4, <4>1, <4>2 DEF Inexact
    <3>5. CASE Covered(i)
      <4> SUFFICES ASSUME NEW n \in 1..out[i]
                   PROVE  \/ n \in row'[i].chunks \/ n \in ToSet(overflow[i])
                          \/ \E m \in Flight' : m.kind = "chunk" /\ m.inv = i /\ m.seq = n
        BY <1>1 DEF Covered
      <4>1. ASSUME NEW m \in Flight, m.kind = "chunk", m.inv = i, m.seq = n
            PROVE  n \in row'[i].chunks \/ \E x \in Flight' : x.kind = "chunk" /\ x.inv = i /\ x.seq = n
        <5>1. CASE m \in Flight'
          BY <4>1, <5>1
        <5>2. CASE m \in ToSet(worker.outbuf)
          <6>1. m \in Sent(i, "chunk")
            BY <4>1, <5>2 DEF Sent
          <6> QED
            BY <1>3, <3>1, <4>1, <6>1
        <5> QED
          BY <1>2, <5>1, <5>2
      <4>2. row[i].chunks \subseteq row'[i].chunks
        BY <1>3, <3>1
      <4> QED
        BY <3>5, <4>1, <4>2 DEF Covered
    <3> QED
      BY <3>1, <3>4, <3>5 DEF PipelineInv, Accounting, Accounted
  <2>2. ASSUME NEW i \in Invs, i \in shed', Writing(i)' PROVE Doubted(i)'
    <3>1. Writing(i) /\ row[i] # NoRow /\ Doubted(i)
      BY <1>1, <1>6, <2>2 DEF Writing, PipelineInv, Accounting, Accounted
    <3> QED
      BY <1>7, <3>1
  <2> QED
    BY <2>1, <2>2 DEF Accounted
<1>10. CertifiedAtEnd'
  <2> SUFFICES ASSUME NEW i \in Invs, call[i] \in {"exec", "returned", "over"},
                      row'[i] # NoRow, row'[i].cap = "complete"
               PROVE  eof[i] # "open"
    BY <1>1 DEF CertifiedAtEnd
  <2>1. row[i] # NoRow
    BY <1>3
  <2>2. CASE row[i].cap = "complete"
    BY <2>1, <2>2 DEF PipelineInv, Accounting, CertifiedAtEnd
  <2>3. CASE row[i].cap # "complete"
    <3>1. Sent(i, "eof") # {}
      BY <1>3, <2>1, <2>3, CaptureAfter
    <3>2. PICK m \in Sent(i, "eof") : TRUE
      BY <3>1
    <3>3. m \in Flight /\ m.kind = "eof" /\ m.inv = i
      BY <3>2 DEF Sent, Flight
    <3> QED
      BY <3>3 DEF PipelineInv, InFlight, Known
  <2> QED
    BY <2>2, <2>3
<1>11. ASSUME NEW i \in Invs, row[i] # NoRow
       PROVE  row[i].chunks \subseteq row'[i].chunks /\ row'[i].chunks \subseteq 1..out[i]
  <2>1. \A m \in Sent(i, "chunk") : m.seq \in 1..out[i]
    BY DEF PipelineInv, InFlight, Known, Sent, Flight
  <2>2. row[i].chunks \subseteq 1..out[i]
    BY <1>11 DEF PipelineInv, Accounting, StoredProduced
  <2> QED
    BY <1>3, <1>11, <2>1, <2>2
<1>12. StoredProduced'
  BY <1>1, <1>3, <1>11 DEF StoredProduced
<1>13. NothingClaimed'
  BY <1>1, <1>3, <1>6 DEF PipelineInv, Accounting, NothingClaimed
<1>14. Accounting'
  BY <1>8, <1>9, <1>10, <1>12, <1>13 DEF Accounting
<1>15. ASSUME NEW i \in Invs PROVE WriteOf(i)
  <2>0. Verdicts /\ Verdicts'
    BY <1>4, <1>8, VerdictsHold, PTL DEF PipelineInv, Typed, Accounting
  <2>1. StoredOf(i) \subseteq StoredOf(i)' /\ StoredOf(i)' \subseteq 1..out[i]
    BY <1>3, <1>11 DEF StoredOf, has_row
  <2>2. CASE Unclaimed(i)
    <3>1. capture_verdict(i) = "none" /\ capture_verdict(i)' = "none"
      BY <1>6, <2>0, <2>2 DEF Verdicts
    <3> QED
      BY <2>1, <3>1 DEF WriteOf
  <2>3. CASE ~Unclaimed(i) /\ row[i] = NoRow
    <3>1. capture_verdict(i) = "gone" /\ capture_verdict(i)' = "gone"
      BY <1>3, <1>6, <2>0, <2>3 DEF Verdicts
    <3> QED
      BY <2>1, <3>1 DEF WriteOf
  <2>4. CASE row[i] # NoRow /\ call[i] = "failed"
    <3>1. capture_verdict(i)' = "void" /\ capture_verdict(i) = "void"
      BY <1>1, <1>3, <2>0, <2>4 DEF Verdicts
    <3> QED
      BY <2>1, <3>1 DEF WriteOf
  <2>5. CASE row[i] # NoRow /\ ~Unclaimed(i) /\ call[i] # "failed"
    <3>1. /\ call[i] \in {"exec", "returned", "over"} /\ row'[i] # NoRow
          /\ call'[i] \in {"exec", "returned", "over"}
      BY <1>1, <1>3, <2>0, <2>5 DEF Verdicts
    <3>2. CASE Doubted(i)'
      <4>1. capture_verdict(i)' = "gap" /\ capture_verdict(i) \in {"gap", "open", "complete"}
        BY <2>0, <2>5, <3>1, <3>2 DEF Verdicts
      <4> QED
        BY <2>1, <4>1 DEF WriteOf
    <3>3. CASE ~Doubted(i)' /\ row'[i].cap = row[i].cap
      <4>1. ~Doubted(i)
        BY <1>7, <2>5, <3>3
      <4>2. capture_verdict(i)' = capture_verdict(i)
        BY <2>0, <2>5, <3>1, <3>3, <4>1 DEF Verdicts
      <4> QED
        BY <2>1, <4>2 DEF WriteOf
    <3>4. CASE ~Doubted(i)' /\ row'[i].cap # row[i].cap
      <4>1. ~Doubted(i)
        BY <1>7, <2>5, <3>4
      <4>2. row[i].cap \in {"pending", "complete"}
        BY <1>3, <2>5, <4>1 DEF Doubted, PipelineInv, Accounting, ClaimsApply
      <4>3. row'[i].cap # "incomplete"
        BY <3>4 DEF Doubted
      <4>4. row[i].cap = "pending" /\ row'[i].cap = "complete"
        BY <1>3, <2>5, <3>4, <4>2, <4>3, CaptureAfter
      <4>5. \A m \in Sent(i, "eof") : m.exact
        BY <1>3, <2>5, <4>2, <4>3, CaptureAfter
      <4>6. Sent(i, "eof") # {}
        BY <1>3, <2>5, <4>4, CaptureAfter
      <4>7. PICK e \in Sent(i, "eof") : TRUE
        BY <4>6
      <4>8. call[i] \in {"exec", "returned", "failed"}
        BY <4>7 DEF PipelineInv, InFlight, Known, Sent, Flight, IsOutput
      <4>9. Writing(i)
        BY <2>5, <4>8 DEF Writing
      <4>10. row[i].chunks \cup {m.seq : m \in Sent(i, "chunk")} = 1..out[i]
        BY <4>1, <4>5, <4>9, ExactEndIsExact
      <4>11. StoredOf(i)' = 1..out[i]
        BY <1>3, <2>5, <3>1, <4>10 DEF StoredOf, has_row
      <4>12. capture_verdict(i) = "open" /\ capture_verdict(i)' = "complete"
        BY <2>0, <2>5, <3>1, <3>4, <4>1, <4>4 DEF Verdicts
      <4> QED
        BY <2>1, <4>11, <4>12 DEF WriteOf
    <3> QED
      BY <3>2, <3>3, <3>4
  <2> QED
    BY <2>2, <2>3, <2>4, <2>5
<1> QED
  BY <1>1, <1>4, <1>5, <1>14, <1>15, LedgerWrite DEF PipelineInv

\* A batch that failed damages every capture it was about.
LEMMA OutputLost ==
    ASSUME PipelineInv, worker' = [worker EXCEPT !.outbuf = <<>>], UNCHANGED <<priority, lane, active>>,
           WorkerOnly, NEW h, Kept(h),
           h.capture = health.capture \cup {m.inv : m \in ToSet(worker.outbuf)}
    PROVE  PipelineInv' /\ Ledger!Write
<1>0. /\ worker \in WorkerRecord /\ active \in [Invs -> {"none", "running", "ending"}] /\ QueuesTyped
      /\ Order /\ Places /\ StoreTyped
  BY Parts
<1>1. UNCHANGED <<out, eof, overflow, unmarked, shed, call, proc>>
  BY DEF WorkerOnly
<1>2. /\ QueuesTyped' /\ Order' /\ Places' /\ Mail' \subseteq Mail /\ Flight' \subseteq Flight
      /\ \A m \in Flight : m \in Flight' \/ m \in ToSet(worker.outbuf)
  BY <1>0, <1>1, Flushed
<1>3. Typed'
  BY <1>1, <1>2 DEF PipelineInv, Typed, Kept, ReadersTyped, CallsTyped
<1>4. InFlight'
  <2>1. CallsGoOn
    BY <1>1 DEF CallsGoOn
  <2> QED
    BY <1>0, <1>1, <1>2, <2>1, StillInFlight DEF PipelineInv
<1>5. CallsMove
  BY <1>1 DEF CallsMove
<1>6. \A i \in h.capture : ~Unclaimed(i)
  <2>1. \A m \in ToSet(worker.outbuf) : ~Unclaimed(m.inv)
    BY <1>0 DEF PipelineInv, InFlight, Known, Flight, Places, Unclaimed
  <2> QED
    BY <2>1, DamagedAreClaimed
<1>7. Accounting' /\ Ledger!Write
  BY <1>1, <1>2, <1>3, <1>5, <1>6, Quiet DEF PipelineInv, Typed
<1> QED
  BY <1>3, <1>4, <1>7 DEF PipelineInv

\* The gathered output is committed, or what it belongs to is known to be damaged.
LEMMA OutputFlushed ==
    ASSUME PipelineInv, flush_output_events
    PROVE  /\ worker' = [worker EXCEPT !.outbuf = <<>>] /\ UNCHANGED <<priority, lane, active, count>>
           /\ WorkerOnly
           /\ \/ row' = persist_output_batch(worker.outbuf) /\ UNCHANGED <<health, faults>>
              \/ \E h : /\ Kept(h)
                        /\ h.capture = health.capture \cup {m.inv : m \in ToSet(worker.outbuf)}
<1> DEFINE invs == {m.inv : m \in ToSet(worker.outbuf)}
           lost == [health EXCEPT !.capture = health.capture \cup invs]
           orphan == \E m \in ToSet(worker.outbuf) : m.kind = "chunk" /\ ~has_row(m.inv)
<1>0. health \in HealthRecord /\ StoreTyped /\ Places /\ QueuesTyped
  BY Parts
<1>1. /\ worker' = [worker EXCEPT !.outbuf = <<>>] /\ UNCHANGED <<priority, lane, active, count>>
      /\ WorkerOnly
  BY DEF flush_output_events
<1>2. \/ row' = persist_output_batch(worker.outbuf) /\ UNCHANGED <<health, faults>>
      \/ fail_store(lost)
      \/ persist_health(row, [lost EXCEPT !.degraded = TRUE])
  BY DEF flush_output_events
<1>3. invs \subseteq Invs
  <2>1. \A m \in ToSet(worker.outbuf) : m \in Msg /\ m.kind # "shutdown"
    BY <1>0, QueueElements DEF QueuesHold, Flight, Places, IsOutput
  <2> QED
    BY <2>1, MsgFields
<1> HIDE DEF invs
<1>4. /\ lost \in HealthRecord /\ lost.capture = health.capture \cup invs
      /\ [lost EXCEPT !.degraded = TRUE] \in HealthRecord
      /\ [lost EXCEPT !.degraded = TRUE].capture = health.capture \cup invs
  BY <1>0, <1>3 DEF HealthRecord
<1> HIDE DEF lost
<1>5. CASE row' = persist_output_batch(worker.outbuf) /\ UNCHANGED <<health, faults>>
  BY <1>1, <1>5
<1>6. CASE fail_store(lost)
  <2>1. Kept(lost)
    BY <1>0, <1>4, <1>6, FailStore
  <2> QED
    BY <1>1, <1>4, <2>1 DEF invs
<1>7. CASE persist_health(row, [lost EXCEPT !.degraded = TRUE])
  <2>1. Kept([lost EXCEPT !.degraded = TRUE])
    BY <1>0, <1>4, <1>7, PersistHealth
  <2> QED
    BY <1>1, <1>4, <2>1 DEF invs
<1> QED
  BY <1>2, <1>5, <1>6, <1>7

LEMMA WriterFlushes ==
    ASSUME PipelineInv, flush_output_events
    PROVE  PipelineInv' /\ Ledger!Write
<1>1. /\ worker' = [worker EXCEPT !.outbuf = <<>>] /\ UNCHANGED <<priority, lane, active>> /\ WorkerOnly
  BY OutputFlushed
<1>2. CASE row' = persist_output_batch(worker.outbuf) /\ UNCHANGED <<health, faults>>
  BY <1>1, <1>2, OutputCommitted
<1>3. CASE \E h : /\ Kept(h)
                  /\ h.capture = health.capture \cup {m.inv : m \in ToSet(worker.outbuf)}
  BY <1>1, <1>3, OutputLost
<1> QED
  BY <1>2, <1>3, OutputFlushed

-----------------------------------------------------------------------------
(* Retention, clearing, shutdown *)

LEMMA QueuesAlone ==
    ASSUME PipelineInv, UNCHANGED <<priority, lane, overflow, worker, out, eof>>, CallsGoOn
    PROVE  InFlight' /\ QueuesTyped' /\ Flight' = Flight
<1>1. QueuesTyped' /\ Order' /\ Places'
  BY Parts DEF QueuesTyped, Order, Places
<1>2. Flight' = Flight /\ Mail' = Mail
  BY DEF Flight, Mail
<1> QED
  BY <1>1, <1>2, Parts, StillInFlight DEF PipelineInv

LEMMA RowsRemoved ==
    ASSUME PipelineInv, InFlight', QueuesTyped', Flight' = Flight,
           UNCHANGED <<health, faults, out, eof, overflow, unmarked, shed, call, proc, active>>,
           StoreTyped',
           \A i \in Invs : \/ row'[i] = row[i]
                           \/ row'[i] = NoRow /\ row[i] # NoRow /\ row[i].cap # "pending"
    PROVE  PipelineInv' /\ Ledger!Forget
<1>1. Typed'
  BY DEF PipelineInv, Typed, ReadersTyped, CallsTyped
<1>2. ASSUME NEW i \in Invs, row'[i] # NoRow
      PROVE  /\ row'[i] = row[i] /\ (Doubted(i)' <=> Doubted(i)) /\ (Inexact(i)' <=> Inexact(i))
             /\ (Covered(i)' <=> Covered(i)) /\ (Writing(i)' <=> Writing(i))
             /\ (Unclaimed(i)' <=> Unclaimed(i))
  <2>1. row'[i] = row[i]
    BY <1>2
  <2> QED
    BY <2>1 DEF Doubted, Inexact, Covered, Writing, Unclaimed
<1>3. Accounting'
  <2>1. Accounted'
    <3>1. ASSUME NEW i \in Invs, Writing(i)'
          PROVE  /\ Doubted(i)' \/ Inexact(i)' \/ Covered(i)'
                 /\ i \in shed' => Doubted(i)'
      <4>1. row'[i] # NoRow
        BY <3>1 DEF Writing
      <4> QED
        BY <1>2, <3>1, <4>1 DEF PipelineInv, Accounting, Accounted
    <3> QED
      BY <3>1 DEF Accounted
  <2>2. CertifiedAtEnd'
    BY <1>2 DEF PipelineInv, Accounting, CertifiedAtEnd
  <2>3. StoredProduced'
    BY <1>2 DEF PipelineInv, Accounting, StoredProduced
  <2>4. ClaimsApply'
    BY <1>2 DEF PipelineInv, Accounting, ClaimsApply
  <2>5. NothingClaimed'
    BY <1>2 DEF PipelineInv, Accounting, NothingClaimed, Unclaimed
  <2> QED
    BY <2>1, <2>2, <2>3, <2>4, <2>5 DEF Accounting
<1>4. Verdicts /\ Verdicts'
  BY <1>1, <1>3, VerdictsHold, PTL DEF PipelineInv, Typed, Accounting
<1>5. ASSUME NEW i \in Invs
      PROVE  \/ capture_verdict(i)' = capture_verdict(i) /\ StoredOf(i)' = StoredOf(i)
             \/ /\ capture_verdict(i) \in {"complete", "gap", "void"}
                /\ capture_verdict(i)' = "gone" /\ StoredOf(i)' = {}
  <2>1. CASE row'[i] = row[i]
    BY <2>1 DEF capture_verdict, StoredOf, has_row
  <2>2. CASE row'[i] = NoRow /\ row[i] # NoRow /\ row[i].cap # "pending"
    <3>1. StoredOf(i)' = {} /\ StoredOf(i) = row[i].chunks
      BY <2>2 DEF StoredOf, has_row
    <3>2. CASE Unclaimed(i)
      <4>1. capture_verdict(i) = "none" /\ capture_verdict(i)' = "none"
        BY <1>4, <3>2 DEF Verdicts, Unclaimed
      <4>2. row[i].chunks = {}
        <5>1. row[i].chunks \subseteq 1..out[i] /\ out[i] = 0
          BY <2>2, <3>2 DEF PipelineInv, Accounting, StoredProduced, NothingClaimed
        <5> QED
          BY <5>1
      <4> QED
        BY <3>1, <4>1, <4>2
    <3>3. CASE ~Unclaimed(i)
      <4>1. capture_verdict(i)' = "gone"
        BY <1>4, <2>2, <3>3 DEF Verdicts, Unclaimed
      <4>2. capture_verdict(i) \in {"complete", "gap", "void"}
        BY <1>4, <2>2, <3>3 DEF Verdicts
      <4> QED
        BY <3>1, <4>1, <4>2
    <3> QED
      BY <3>2, <3>3
  <2> QED
    BY <2>1, <2>2
<1>6. Ledger!Forget
  BY <1>5 DEF Ledger!Forget, StoredOf
<1> QED
  BY <1>1, <1>3, <1>6 DEF PipelineInv

LEMMA Retention ==
    ASSUME PipelineInv, run_retention
    PROVE  PipelineInv' /\ Ledger!Forget
<1>0. /\ worker \in WorkerRecord /\ active \in [Invs -> {"none", "running", "ending"}] /\ QueuesTyped
      /\ Order /\ Places /\ StoreTyped
  BY Parts
<1>1. /\ worker.pc = "maintain" /\ worker' = [worker EXCEPT !.pc = "top", !.idle = FALSE] /\ WorkerOnly
      /\ UNCHANGED <<priority, lane, health, active, faults>>
  BY DEF run_retention
<1>2. worker' \in WorkerRecord /\ worker'.batch = worker.batch /\ worker'.outbuf = worker.outbuf
  BY <1>0, <1>1 DEF WorkerRecord
<1>3. Moved /\ Flight' = Flight
  BY <1>0, <1>1, <1>2, Unmoved DEF WorkerOnly, Places, Flight
<1>4. InFlight' /\ QueuesTyped'
  BY <1>0, <1>1, <1>3, MovedInFlight DEF WorkerOnly, PipelineInv, Moved
<1>5. PICK gone \in SUBSET removable : row' = [i \in Invs |-> IF i \in gone THEN NoRow ELSE row[i]]
  BY DEF run_retention
<1>6. \A i \in Invs : \/ row'[i] = row[i]
                      \/ row'[i] = NoRow /\ row[i] # NoRow /\ row[i].cap # "pending"
  BY <1>5 DEF removable, has_row
<1>7. StoreTyped'
  BY <1>0, <1>1, <1>5 DEF StoreTyped
<1> QED
  BY <1>1, <1>3, <1>4, <1>6, <1>7, RowsRemoved DEF WorkerOnly

LEMMA Clearing ==
    ASSUME PipelineInv, clear_agent
    PROVE  PipelineInv' /\ Ledger!Forget
<1>1. /\ row' = [i \in Invs |-> NoRow] /\ \A i \in Invs : row[i] # NoRow => row[i].cap # "pending"
      /\ UNCHANGED <<priority, lane, overflow, shed, health, active, count, worker, call, proc, out, eof,
                     unmarked, faults>>
  BY DEF clear_agent, queueVars, troubleVars, has_row
<1>2. InFlight' /\ QueuesTyped' /\ Flight' = Flight
  BY <1>1, QueuesAlone DEF CallsGoOn
<1>3. StoreTyped'
  BY <1>1, Parts DEF StoreTyped
<1>4. \A i \in Invs : \/ row'[i] = row[i]
                      \/ row'[i] = NoRow /\ row[i] # NoRow /\ row[i].cap # "pending"
  BY <1>1
<1> QED
  BY <1>1, <1>2, <1>3, <1>4, RowsRemoved

LEMMA Aside ==
    ASSUME PipelineInv, UNCHANGED <<priority, lane, overflow, shed, active, worker, call, proc, out, eof, unmarked>>,
           Kept(health)
    PROVE  PipelineInv' /\ Ledger!Write
<1>1. InFlight' /\ QueuesTyped' /\ Flight' = Flight
  BY QueuesAlone DEF CallsGoOn
<1>2. Typed'
  BY <1>1 DEF PipelineInv, Typed, Kept, ReadersTyped, CallsTyped
<1>3. CallsMove
  BY DEF CallsMove
<1>4. Accounting' /\ Ledger!Write
  BY <1>1, <1>2, <1>3, DamagedAreClaimed, Quiet DEF PipelineInv, Typed
<1> QED
  BY <1>1, <1>2, <1>4 DEF PipelineInv

LEMMA Draining ==
    ASSUME PipelineInv, shutdown_drain
    PROVE  PipelineInv' /\ Ledger!Write
<1> DEFINE pending == {i \in Invs : has_row(i) /\ row[i].cap = "pending"}
<1>0. StoreTyped /\ health \in HealthRecord
  BY Parts
<1>1. /\ UNCHANGED <<priority, lane, overflow, shed, health, active, count, worker, call, proc, out, eof, unmarked>>
      /\ \/ row' = mark_capture_incomplete(row, pending) /\ UNCHANGED faults
         \/ faults' = faults + 1 /\ UNCHANGED row
  BY DEF shutdown_drain, queueVars
<1> HIDE DEF pending
<1>2. CASE row' = mark_capture_incomplete(row, pending) /\ UNCHANGED faults
  <2>1. row' = mark_capture_incomplete(mark_evidence_incomplete(row, {}), pending)
    BY <1>0, <1>2, NothingToMark
  <2>2. ASSUME NEW i \in Invs
        PROVE  row'[i] \in RowRecord \cup {NoRow} /\ KeptRow(i, health)
    BY <1>0, <1>1, <2>1, MarkedRow DEF KeptRow
  <2>3. row' \in [Invs -> RowRecord \cup {NoRow}]
    BY <2>1, <2>2 DEF mark_capture_incomplete
  <2>4. Kept(health)
    BY <1>0, <1>1, <1>2, <2>2, <2>3 DEF Kept, StoreTyped
  <2> QED
    BY <1>1, <2>4, Aside
<1>3. CASE faults' = faults + 1 /\ UNCHANGED row
  <2>1. Kept(health)
    BY <1>0, <1>1, <1>3, NothingStored DEF StoreTyped
  <2> QED
    BY <1>1, <2>1, Aside
<1> QED
  BY <1>1, <1>2, <1>3

LEMMA Joining ==
    ASSUME PipelineInv, shutdown_join
    PROVE  PipelineInv' /\ Ledger!Write
<1>0. StoreTyped /\ health \in HealthRecord
  BY Parts
<1>1. /\ UNCHANGED <<priority, lane, overflow, shed, health, active, count, worker, call, proc, out, eof,
                     unmarked, faults>>
      /\ row' = [i \in Invs |-> IF has_row(i) /\ row[i].files = "pending"
                                THEN [row[i] EXCEPT !.files = "unavailable"] ELSE row[i]]
  BY DEF shutdown_join, queueVars, troubleVars
<1>2. ASSUME NEW i \in Invs PROVE row'[i] \in RowRecord \cup {NoRow} /\ KeptRow(i, health)
  <2>1. CASE row[i] = NoRow \/ row[i].files # "pending"
    <3>1. row'[i] = row[i]
      BY <1>1, <2>1 DEF has_row
    <3> QED
      BY <1>0, <1>1, <3>1 DEF KeptRow, StoreTyped
  <2>2. CASE row[i] # NoRow /\ row[i].files = "pending"
    <3>1. row[i] \in RowRecord
      BY <1>0, <2>2, RowAt
    <3>2. row'[i] = [row[i] EXCEPT !.files = "unavailable"]
      BY <1>1, <2>2 DEF has_row
    <3>3. /\ row'[i] \in RowRecord /\ row'[i].cap = row[i].cap /\ row'[i].chunks = row[i].chunks
          /\ row'[i].files = "unavailable"
      BY <3>1, <3>2 DEF RowRecord
    <3> QED
      BY <1>1, <2>2, <3>3, RowFields DEF KeptRow
  <2> QED
    BY <2>1, <2>2
<1>3. row' \in [Invs -> RowRecord \cup {NoRow}]
  BY <1>1, <1>2
<1>4. Kept(health)
  BY <1>0, <1>1, <1>2, <1>3 DEF Kept, StoreTyped
<1> QED
  BY <1>1, <1>4, Aside

LEMMA Reopening ==
    ASSUME PipelineInv, reopen
    PROVE  PipelineInv' /\ Ledger!Write
<1>0. StoreTyped /\ CallsTyped /\ ReadersTyped /\ health \in HealthRecord
  BY Parts
<1>1. /\ row' = [i \in Invs |-> recovered(row[i])]
      /\ priority' = <<>> /\ lane' = <<>> /\ overflow' = [i \in Invs |-> <<>>] /\ shed' = {}
      /\ health' = [degraded |-> FALSE, evidence |-> {}, capture |-> {}]
      /\ active' = [i \in Invs |-> "none"] /\ worker' = FreshWorker
      /\ call' = [i \in Invs |-> IF call[i] = "new" THEN "new" ELSE
                                IF call[i] \in {"failed", "untracked"} THEN call[i] ELSE
                                IF call[i] \in {"patch", "patched"} THEN "patched" ELSE "over"]
      /\ proc' = [i \in Invs |-> IF proc[i] = "alive" THEN "dead" ELSE proc[i]]
      /\ eof' = [i \in Invs |-> IF call[i] = "new" THEN "open" ELSE "sent"]
      /\ unmarked' = unmarked \cup {i \in health.capture : has_row(i) /\ row[i].cap = "complete"}
      /\ UNCHANGED <<out, faults>>
  BY DEF reopen
<1>2. ASSUME NEW i \in Invs
      PROVE  /\ row'[i] = NoRow <=> row[i] = NoRow
             /\ row'[i] \in RowRecord \cup {NoRow}
             /\ row[i] # NoRow => /\ row'[i].chunks = row[i].chunks
                                  /\ row'[i].cap = IF row[i].cap = "pending" THEN "incomplete" ELSE row[i].cap
  <2>1. CASE row[i] = NoRow
    BY <1>1, <2>1 DEF recovered
  <2>2. CASE row[i] # NoRow
    <3> DEFINE e == IF row[i].ev = "pending" THEN "incomplete" ELSE row[i].ev
               c == IF row[i].cap = "pending" THEN "incomplete" ELSE row[i].cap
               p == IF row[i].proc = "running" THEN "final" ELSE row[i].proc
               f == IF row[i].files = "pending" THEN "unavailable" ELSE row[i].files
    <3>1. row[i] \in RowRecord
      BY <1>0, <2>2, RowAt
    <3>2. row'[i] = [row[i] EXCEPT !.ev = e, !.cap = c, !.proc = p, !.files = f]
      BY <1>1, <2>2, <3>1 DEF recovered, RowRecord
    <3>2a. row[i].chunks \in SUBSET Nat
      BY <3>1, RowFields
    <3>3. /\ e \in {"pending", "complete", "incomplete"}
          /\ c \in {"pending", "complete", "incomplete", "not_applicable"}
          /\ p \in {"none", "running", "final"}
          /\ f \in {"none", "pending", "complete", "unavailable"}
      BY <3>1, RowFields
    <3> HIDE DEF e, c, p, f
    <3>4. row'[i] = [ev |-> e, cap |-> c, proc |-> p, chunks |-> row[i].chunks, files |-> f]
      BY <3>1, <3>2 DEF RowRecord
    <3>5. row'[i] \in RowRecord
      BY <3>2a, <3>3, <3>4 DEF RowRecord
    <3>6. row'[i].chunks = row[i].chunks /\ row'[i].cap = c
      BY <3>4
    <3> QED
      BY <2>2, <3>5, <3>6, RowFields DEF c
  <2> QED
    BY <2>1, <2>2
<1>3. /\ worker' \in WorkerRecord /\ worker'.batch = <<>> /\ worker'.outbuf = <<>>
  <2>1. <<>> \in Seq(Msg)
    OBVIOUS
  <2> QED
    BY <1>1, <2>1 DEF FreshWorker, WorkerRecord
<1>4. QueuesTyped'
  <2>1. <<>> \in Seq(Msg) /\ <<>> \in Seq(Nat) /\ Len(<<>>) = 0 /\ 0 <= LaneCap
    BY Bounds
  <2> QED
    BY <1>1, <1>3, <2>1 DEF QueuesTyped
<1>5. Typed'
  <2>1. StoreTyped'
    <3>1. row' \in [Invs -> RowRecord \cup {NoRow}]
      BY <1>1, <1>2
    <3>2. health' \in HealthRecord
      BY <1>1 DEF HealthRecord
    <3> QED
      BY <1>0, <1>1, <3>1, <3>2 DEF StoreTyped
  <2>2. ReadersTyped'
    BY <1>0, <1>1, HealthFields DEF ReadersTyped
  <2>3. CallsTyped'
    BY <1>0, <1>1 DEF CallsTyped
  <2> QED
    BY <1>4, <2>1, <2>2, <2>3 DEF Typed
<1>6. InFlight'
  <2>1. ToSet(priority') = {} /\ ToSet(lane') = {} /\ ToSet(worker'.batch) = {} /\ ToSet(worker'.outbuf) = {}
    BY <1>1, <1>3, SetOfEmpty
  <2>2. Flight' = {} /\ Mail' = {}
    BY <2>1 DEF Flight, Mail
  <2>3. Ordered(<<>>)
    BY DEF Ordered
  <2>4. Order'
    BY <1>1, <1>3, <2>1, <2>3 DEF Order, Before
  <2>5. Places'
    BY <1>1, <1>3, <2>1 DEF Places
  <2>6. Held'
    <3>1. \A i \in Invs : overflow'[i] = <<>> /\ eof'[i] \notin {"exact", "gap"}
      BY <1>1
    <3> QED
      BY <3>1, SetOfEmpty DEF Held
  <2> QED
    BY <2>2, <2>4, <2>5, <2>6 DEF InFlight, Known, EndsAgree, Reported
<1>7. ASSUME NEW i \in Invs
      PROVE  /\ Unclaimed(i)' <=> Unclaimed(i)
             /\ call'[i] \notin {"exec", "returned"}
             /\ call'[i] = "failed" <=> call[i] = "failed"
             /\ call'[i] \in {"new", "untracked"} <=> call[i] \in {"new", "untracked"}
             /\ call'[i] = "over" => eof'[i] = "sent"
  BY <1>0, <1>1 DEF Unclaimed, CallsTyped
<1>8. ClaimsApply'
  BY <1>2, <1>7 DEF PipelineInv, Accounting, ClaimsApply
<1>9. Accounting'
  <2>1. Accounted'
    BY <1>7 DEF Accounted, Writing
  <2>2. CertifiedAtEnd'
    BY <1>7 DEF CertifiedAtEnd
  <2>3. StoredProduced'
    BY <1>1, <1>2 DEF PipelineInv, Accounting, StoredProduced
  <2>4. NothingClaimed'
    BY <1>1, <1>2, <1>7 DEF PipelineInv, Accounting, NothingClaimed
  <2> QED
    BY <1>8, <2>1, <2>2, <2>3, <2>4 DEF Accounting
<1>10. ASSUME NEW i \in Invs PROVE WriteOf(i)
  <2>0. Verdicts /\ Verdicts'
    BY <1>5, <1>8, VerdictsHold, PTL DEF PipelineInv, Typed, Accounting
  <2>1. StoredOf(i)' = StoredOf(i) /\ StoredOf(i) \subseteq 1..out[i]
    BY <1>2 DEF StoredOf, has_row, PipelineInv, Accounting, StoredProduced
  <2>2. CASE Unclaimed(i)
    <3>1. capture_verdict(i) = "none" /\ capture_verdict(i)' = "none"
      BY <1>7, <2>0, <2>2 DEF Verdicts
    <3> QED
      BY <2>1, <3>1 DEF WriteOf
  <2>3. CASE ~Unclaimed(i) /\ row[i] = NoRow
    <3>1. capture_verdict(i) = "gone" /\ capture_verdict(i)' = "gone"
      BY <1>2, <1>7, <2>0, <2>3 DEF Verdicts
    <3> QED
      BY <2>1, <3>1 DEF WriteOf
  <2>4. CASE row[i] # NoRow /\ call[i] = "failed"
    <3>1. capture_verdict(i)' = "void" /\ capture_verdict(i) = "void"
      BY <1>2, <1>7, <2>0, <2>4 DEF Verdicts
    <3> QED
      BY <2>1, <3>1 DEF WriteOf
  <2>5. CASE row[i] # NoRow /\ ~Unclaimed(i) /\ call[i] # "failed"
    <3>0. Unclaimed(i)' \/ call'[i] \in {"failed", "exec", "returned", "over"}
      BY <2>0 DEF Verdicts
    <3>1. /\ call[i] \in {"exec", "returned", "over"} /\ row'[i] # NoRow
          /\ call'[i] \in {"exec", "returned", "over"}
      BY <1>2, <1>7, <2>0, <2>5, <3>0 DEF Verdicts
    <3>2. CASE Doubted(i)'
      <4>1. capture_verdict(i)' = "gap" /\ capture_verdict(i) \in {"gap", "open", "complete"}
        BY <2>0, <2>5, <3>1, <3>2 DEF Verdicts
      <4> QED
        BY <2>1, <4>1 DEF WriteOf
    <3>3. CASE ~Doubted(i)'
      <4>1. row'[i].cap \in {"pending", "complete"}
        BY <2>0, <3>1, <3>3 DEF Verdicts
      <4>2. row[i].cap = "complete" /\ row'[i].cap = "complete"
        BY <1>2, <2>5, <4>1
      <4>3. ~Doubted(i)
        BY <1>1, <2>5, <3>3, <4>2 DEF Doubted, has_row
      <4>4. capture_verdict(i)' = "complete" /\ capture_verdict(i) = "complete"
        BY <2>0, <2>5, <3>1, <3>3, <4>2, <4>3 DEF Verdicts
      <4> QED
        BY <2>1, <4>4 DEF WriteOf
    <3> QED
      BY <3>2, <3>3
  <2> QED
    BY <2>0, <2>2, <2>3, <2>4, <2>5 DEF Verdicts
<1> QED
  BY <1>1, <1>5, <1>6, <1>9, <1>10, LedgerWrite DEF PipelineInv

-----------------------------------------------------------------------------
(* Tool calls and processes *)

LEMMA SameVerdict ==
    ASSUME NEW i \in Invs, call'[i] = call[i], row'[i] = row[i],
           (i \in health'.capture \cup unmarked') <=> (i \in health.capture \cup unmarked)
    PROVE  capture_verdict(i)' = capture_verdict(i)
BY DEF capture_verdict, has_row

LEMMA LifecycleMessage ==
    ASSUME PipelineInv, NEW i \in Invs, NEW m \in Msg, ~IsOutput(m), enqueue_priority_message(m, i),
           UNCHANGED <<row, overflow, shed, worker, out, eof, unmarked, faults>>,
           CallsMove, CallsTyped',
           m.kind = "complete" /\ ~m.ok => call'[m.inv] \in {"failed", "patched"}
    PROVE  PipelineInv' /\ Ledger!Write
<1>0. /\ QueuesTyped /\ StoreTyped /\ ReadersTyped /\ Order /\ Places /\ health \in HealthRecord
      /\ faults \in Nat
  BY Parts DEF StoreTyped
<1>1. /\ QueuesTyped' /\ Order' /\ Places' /\ Mail' \subseteq Mail \cup {m}
      /\ \A n \in Flight' : n \in Flight \/ ~IsOutput(n)
      /\ Flight \subseteq Flight'
  BY <1>0, Enqueued
<1>2. InFlight'
  <2>1. CallsGoOn
    BY CallsMoveOn
  <2>2. \A n \in Mail' : \/ n \in Mail
                         \/ n.kind = "complete" /\ ~n.ok => call'[n.inv] \in {"failed", "patched"}
    BY <1>1
  <2> QED
    BY <1>0, <1>1, <2>1, <2>2, StillInFlight DEF PipelineInv
<1>3. health' \in HealthRecord /\ health'.capture = health.capture
  BY <1>0, NoteEvidence DEF enqueue_priority_message
<1>4. Kept(health)
  BY <1>0, <1>3, NothingStored
<1>5. Typed'
  BY <1>0, <1>1, <1>4 DEF Typed, Kept, ReadersTyped
<1>6. Accounting' /\ Ledger!Write
  BY <1>1, <1>4, DamagedAreClaimed, Quiet DEF PipelineInv, Typed
<1> QED
  BY <1>2, <1>5, <1>6 DEF PipelineInv

LEMMA Completing ==
    ASSUME PipelineInv, NEW i \in Invs, NEW ok \in BOOLEAN, complete(i, ok)
    PROVE  PipelineInv' /\ Ledger!Write
<1>0. CallsTyped
  BY Parts
<1>1. /\ call[i] \in {"exec", "patch"}
      /\ call' = [call EXCEPT ![i] = IF call[i] = "patch" THEN "patched" ELSE IF ok THEN "returned" ELSE "failed"]
      /\ enqueue_priority_message(Complete(i, ok), i)
      /\ UNCHANGED <<row, overflow, shed, worker, out, eof, unmarked, faults, proc, active>>
  BY DEF complete, troubleVars
<1>2. CallsMove
  BY <1>0, <1>1 DEF CallsMove, CallsTyped
<1>3. CallsTyped'
  BY <1>0, <1>1 DEF CallsTyped
<1>4. ~ok => call'[i] \in {"failed", "patched"}
  BY <1>0, <1>1 DEF CallsTyped
<1>5. /\ Complete(i, ok) \in Msg /\ Complete(i, ok).kind = "complete"
      /\ Complete(i, ok).inv = i /\ Complete(i, ok).ok = ok
  BY MsgMade
<1>6. ~IsOutput(Complete(i, ok))
  BY <1>5 DEF IsOutput
<1> QED
  BY <1>1, <1>2, <1>3, <1>4, <1>5, <1>6, LifecycleMessage

LEMMA Starting ==
    ASSUME PipelineInv, NEW i \in Invs, process_started(i)
    PROVE  PipelineInv' /\ Ledger!Write
<1>1. /\ enqueue_priority_message(Started(i), i)
      /\ proc' = [proc EXCEPT ![i] = "alive"] /\ active' = [active EXCEPT ![i] = "running"]
      /\ UNCHANGED <<row, overflow, shed, worker, out, eof, unmarked, faults, call>>
  BY DEF process_started, troubleVars
<1>2. CallsMove /\ CallsTyped'
  BY <1>1, Parts DEF CallsMove, CallsTyped
<1>3. Started(i) \in Msg /\ Started(i).kind = "started"
  BY MsgMade
<1>4. ~IsOutput(Started(i))
  BY <1>3 DEF IsOutput
<1> QED
  BY <1>1, <1>2, <1>3, <1>4, LifecycleMessage

LEMMA Ending ==
    ASSUME PipelineInv, NEW i \in Invs, process_ended(i)
    PROVE  PipelineInv' /\ Ledger!Write
<1> DEFINE b == active[i] = "running"
<1>1. /\ enqueue_priority_message(Ended(i, b), i)
      /\ proc' = [proc EXCEPT ![i] = "dead"] /\ active' = [active EXCEPT ![i] = "ending"]
      /\ UNCHANGED <<row, overflow, shed, worker, out, eof, unmarked, faults, call>>
  BY DEF process_ended, troubleVars
<1>2. CallsMove /\ CallsTyped'
  BY <1>1, Parts DEF CallsMove, CallsTyped
<1>0. b \in BOOLEAN
  OBVIOUS
<1> HIDE DEF b
<1>3. Ended(i, b) \in Msg /\ Ended(i, b).kind = "ended"
  BY <1>0, MsgMade
<1>4. ~IsOutput(Ended(i, b))
  BY <1>3 DEF IsOutput
<1> QED
  BY <1>1, <1>2, <1>3, <1>4, LifecycleMessage

\* The shutdown marker joins the lane, and says nothing of any capture.
LEMMA Sending ==
    ASSUME PipelineInv, shutdown_send
    PROVE  PipelineInv' /\ Ledger!Write
<1>0. /\ QueuesTyped /\ StoreTyped /\ ReadersTyped /\ CallsTyped /\ Order /\ Places
  BY Parts
<1>1. /\ Len(lane) < LaneCap /\ lane' = Append(lane, Shutdown)
      /\ UNCHANGED <<row, priority, overflow, shed, health, active, worker, call, proc, out, eof, unmarked, faults>>
  BY DEF shutdown_send, troubleVars
<1>2. Shutdown \in Msg /\ Shutdown.kind = "shutdown" /\ ~IsOutput(Shutdown)
  BY MsgMade DEF IsOutput
<1>3. /\ QueuesTyped' /\ Order' /\ Places' /\ Mail' \subseteq Mail \cup {Shutdown}
      /\ \A n \in Flight' : n \in Flight \/ ~IsOutput(n)
      /\ Flight \subseteq Flight'
  BY <1>0, <1>1, <1>2, Joined
<1>4. CallsMove /\ CallsGoOn
  BY <1>1 DEF CallsMove, CallsGoOn
<1>5. InFlight'
  BY <1>0, <1>1, <1>2, <1>3, <1>4, StillInFlight DEF PipelineInv
<1>6. Kept(health)
  BY <1>1, Undisturbed
<1>7. Typed'
  BY <1>0, <1>1, <1>3, <1>6 DEF Typed, Kept, ReadersTyped, CallsTyped
<1>8. Accounting' /\ Ledger!Write
  BY <1>1, <1>3, <1>4, <1>6, <1>7, DamagedAreClaimed, Quiet DEF PipelineInv, Typed
<1> QED
  BY <1>5, <1>7, <1>8 DEF PipelineInv

\* A call gets its row, and an exec call its claim, or goes on without.
LEMMA Beginning ==
    ASSUME PipelineInv, NEW i \in Invs, NEW tool, NEW files,
           begin(i, tool, files),
           \/ tool = "exec" /\ files = "none"
           \/ tool = "patch" /\ files = "pending"
    PROVE  PipelineInv' /\ (Ledger!Open(i) \/ Ledger!Write)
<1>0. /\ QueuesTyped /\ StoreTyped /\ ReadersTyped /\ CallsTyped /\ Order /\ Places
      /\ health \in HealthRecord
  BY Parts
<1>1. /\ call[i] = "new"
      /\ UNCHANGED <<priority, lane, overflow, shed, active, worker, proc, out, eof, unmarked>>
      /\ \/ /\ row' = [row EXCEPT ![i] = NewRow(tool, files)]
            /\ call' = [call EXCEPT ![i] = tool]
            /\ UNCHANGED <<health, faults>>
         \/ /\ faults' = faults + 1
            /\ health' = [health EXCEPT !.degraded = TRUE]
            /\ call' = [call EXCEPT ![i] = "untracked"]
            /\ UNCHANGED row
  BY DEF begin, queueVars
<1>2. Unclaimed(i) /\ out[i] = 0 /\ i \notin health.capture \cup unmarked \cup shed /\ row[i] = NoRow
  BY <1>1 DEF PipelineInv, Accounting, NothingClaimed, Unclaimed
<1>3. CallsTyped' /\ \A j \in Invs \ {i} : call'[j] = call[j]
  BY <1>0, <1>1 DEF CallsTyped
<1>4. CallsGoOn
  BY <1>1, <1>3 DEF CallsGoOn
<1>5. InFlight' /\ QueuesTyped' /\ Flight' = Flight
  BY <1>1, <1>4, QueuesAlone
<1>6. CASE /\ row' = [row EXCEPT ![i] = NewRow(tool, files)] /\ call' = [call EXCEPT ![i] = tool]
           /\ UNCHANGED <<health, faults>>
  <2> DEFINE r == NewRow(tool, files)
  <2>1. /\ r \in RowRecord /\ r.chunks = {}
        /\ tool = "exec" => r.cap = "pending"
    BY DEF NewRow, RowRecord
  <2>2. r # NoRow
    BY <2>1, RowFields
  <2> HIDE DEF r
  <2>3. /\ row'[i] = r /\ call'[i] = tool /\ \A j \in Invs \ {i} : row'[j] = row[j]
    BY <1>0, <1>6 DEF StoreTyped, CallsTyped, r
  <2>4. StoreTyped'
    BY <1>0, <1>6, <2>1 DEF StoreTyped, r
  <2>5. Typed'
    BY <1>0, <1>1, <1>3, <1>5, <2>4 DEF Typed, ReadersTyped
  <2>6. ASSUME NEW j \in Invs, j # i
        PROVE  /\ Writing(j)' <=> Writing(j)
               /\ Doubted(j)' <=> Doubted(j)
               /\ Inexact(j)' <=> Inexact(j)
               /\ Covered(j)' <=> Covered(j)
               /\ Unclaimed(j)' <=> Unclaimed(j)
    <3>1. row'[j] = row[j] /\ call'[j] = call[j]
      BY <1>3, <2>3, <2>6
    <3> QED
      BY <1>1, <1>5, <1>6, <3>1 DEF Writing, Doubted, Inexact, Covered, Unclaimed
  <2>7. Covered(i)'
    BY <1>1, <1>2 DEF Covered
  <2>8. Accounted'
    <3> SUFFICES ASSUME NEW j \in Invs, Writing(j)'
                 PROVE  /\ Doubted(j)' \/ Inexact(j)' \/ Covered(j)'
                        /\ j \in shed => Doubted(j)'
      BY <1>1 DEF Accounted
    <3>1. CASE j = i
      BY <1>2, <2>7, <3>1
    <3>2. CASE j # i
      BY <2>6, <3>2 DEF PipelineInv, Accounting, Accounted
    <3> QED
      BY <3>1, <3>2
  <2>9. CertifiedAtEnd'
    <3> SUFFICES ASSUME NEW j \in Invs, call'[j] \in {"exec", "returned", "over"},
                        row'[j] # NoRow, row'[j].cap = "complete"
                 PROVE  eof'[j] # "open"
      BY DEF CertifiedAtEnd
    <3>1. j # i
      BY <2>1, <2>3
    <3> QED
      BY <1>1, <1>3, <2>3, <3>1 DEF PipelineInv, Accounting, CertifiedAtEnd
  <2>10. StoredProduced'
    <3> SUFFICES ASSUME NEW j \in Invs, row'[j] # NoRow PROVE row'[j].chunks \subseteq 1..out[j]
      BY <1>1 DEF StoredProduced
    <3>1. CASE j = i
      BY <2>1, <2>3, <3>1
    <3>2. CASE j # i
      BY <2>3, <3>2 DEF PipelineInv, Accounting, StoredProduced
    <3> QED
      BY <3>1, <3>2
  <2>11. ClaimsApply'
    <3> SUFFICES ASSUME NEW j \in Invs, row'[j] # NoRow, ~Unclaimed(j)' PROVE row'[j].cap # "not_applicable"
      BY DEF ClaimsApply
    <3>1. CASE j = i
      BY <2>1, <2>3, <3>1 DEF Unclaimed
    <3>2. CASE j # i
      BY <2>3, <2>6, <3>2 DEF PipelineInv, Accounting, ClaimsApply
    <3> QED
      BY <3>1, <3>2
  <2>12. NothingClaimed'
    <3> SUFFICES ASSUME NEW j \in Invs, Unclaimed(j)'
                 PROVE  /\ out[j] = 0 /\ j \notin health.capture \cup unmarked \cup shed
                        /\ call'[j] \in {"new", "untracked"} => row'[j] = NoRow
      BY <1>1, <1>6 DEF NothingClaimed
    <3>1. CASE j = i
      BY <1>2, <2>3, <3>1
    <3>2. CASE j # i
      BY <1>3, <2>3, <2>6, <3>2 DEF PipelineInv, Accounting, NothingClaimed
    <3> QED
      BY <3>1, <3>2
  <2>13. Accounting'
    BY <2>8, <2>9, <2>10, <2>11, <2>12 DEF Accounting
  <2>14. Verdicts /\ Verdicts'
    BY <2>5, <2>11, VerdictsHold, PTL DEF PipelineInv, Typed, Accounting
  <2>15. \A j \in Invs : StoredOf(j)' = StoredOf(j) /\ StoredOf(j) \subseteq 1..out[j]
    <3> SUFFICES ASSUME NEW j \in Invs PROVE StoredOf(j)' = StoredOf(j) /\ StoredOf(j) \subseteq 1..out[j]
      OBVIOUS
    <3>1. CASE j = i
      BY <1>2, <2>1, <2>2, <2>3, <3>1 DEF StoredOf, has_row
    <3>2. CASE j # i
      BY <2>3, <3>2 DEF StoredOf, has_row, PipelineInv, Accounting, StoredProduced
    <3> QED
      BY <3>1, <3>2
  <2>16. \A j \in Invs \ {i} : capture_verdict(j)' = capture_verdict(j)
    BY <1>1, <1>3, <1>6, <2>3, SameVerdict
  <2>17. capture_verdict(i) = "none"
    BY <1>2, <2>14 DEF Verdicts
  <2>18. CASE tool = "exec"
    <3>1. ~Doubted(i)'
      BY <1>1, <1>2, <1>6, <2>1, <2>3, <2>18 DEF Doubted
    <3>2. capture_verdict(i)' = "open"
      BY <2>1, <2>2, <2>3, <2>14, <2>18, <3>1 DEF Verdicts
    <3>3. \A j \in Invs : capture_verdict(j)' = IF j = i THEN "open" ELSE capture_verdict(j)
      BY <2>16, <3>2
    <3>4. Ledger!Open(i)
      BY <1>1, <2>15, <2>17, <3>3 DEF Ledger!Open, StoredOf
    <3> QED
      BY <1>5, <2>5, <2>13, <3>4 DEF PipelineInv
  <2>19. CASE tool = "patch"
    <3>1. Unclaimed(i)'
      BY <2>3, <2>19 DEF Unclaimed
    <3>2. capture_verdict(i)' = "none"
      BY <2>14, <3>1 DEF Verdicts
    <3>3. \A j \in Invs : capture_verdict(j)' = capture_verdict(j)
      BY <2>16, <2>17, <3>2
    <3>4. Ledger!Write
      BY <1>1, <2>15, <3>3, LedgerWrite DEF WriteOf
    <3> QED
      BY <1>5, <2>5, <2>13, <3>4 DEF PipelineInv
  <2> QED
    BY <2>18, <2>19
<1>7. CASE /\ faults' = faults + 1 /\ health' = [health EXCEPT !.degraded = TRUE]
           /\ call' = [call EXCEPT ![i] = "untracked"] /\ UNCHANGED row
  <2>1. health' \in HealthRecord /\ health'.capture = health.capture
    BY <1>0, <1>7 DEF HealthRecord
  <2>2. StoreTyped'
    BY <1>0, <1>7, <2>1 DEF StoreTyped
  <2>3. Typed'
    BY <1>0, <1>1, <1>3, <1>5, <2>2 DEF Typed, ReadersTyped
  <2>4. \A j \in Invs : /\ Writing(j)' <=> Writing(j)
                        /\ Doubted(j)' <=> Doubted(j)
                        /\ Inexact(j)' <=> Inexact(j)
                        /\ Covered(j)' <=> Covered(j)
                        /\ Unclaimed(j)' <=> Unclaimed(j)
                        /\ call'[j] \in {"new", "untracked"} <=> call[j] \in {"new", "untracked"}
                        /\ call'[j] \in {"exec", "returned", "over"} <=> call[j] \in {"exec", "returned", "over"}
    <3> SUFFICES ASSUME NEW j \in Invs
                 PROVE  /\ Writing(j)' <=> Writing(j)
                        /\ Doubted(j)' <=> Doubted(j)
                        /\ Inexact(j)' <=> Inexact(j)
                        /\ Covered(j)' <=> Covered(j)
                        /\ Unclaimed(j)' <=> Unclaimed(j)
                        /\ call'[j] \in {"new", "untracked"} <=> call[j] \in {"new", "untracked"}
                        /\ call'[j] \in {"exec", "returned", "over"} <=> call[j] \in {"exec", "returned", "over"}
      OBVIOUS
    <3>1. /\ call'[j] \in {"new", "untracked"} <=> call[j] \in {"new", "untracked"}
          /\ call'[j] \in {"exec", "returned", "over"} <=> call[j] \in {"exec", "returned", "over"}
          /\ call'[j] \in {"exec", "returned"} <=> call[j] \in {"exec", "returned"}
          /\ Unclaimed(j)' <=> Unclaimed(j)
      BY <1>0, <1>1, <1>3, <1>7 DEF CallsTyped, Unclaimed
    <3> QED
      BY <1>1, <1>5, <1>7, <2>1, <3>1 DEF Writing, Doubted, Inexact, Covered
  <2>5. Accounted' /\ CertifiedAtEnd'
    BY <1>1, <1>7, <2>4 DEF PipelineInv, Accounting, Accounted, CertifiedAtEnd
  <2>6. StoredProduced' /\ ClaimsApply' /\ NothingClaimed'
    BY <1>1, <1>7, <2>1, <2>4 DEF PipelineInv, Accounting, StoredProduced, ClaimsApply, NothingClaimed
  <2>7. Accounting'
    BY <2>5, <2>6 DEF Accounting
  <2>8. Verdicts /\ Verdicts'
    BY <2>3, <2>6, VerdictsHold, PTL DEF PipelineInv, Typed, Accounting
  <2>9. ASSUME NEW j \in Invs PROVE WriteOf(j)
    <3>1. StoredOf(j)' = StoredOf(j) /\ StoredOf(j) \subseteq 1..out[j]
      BY <1>7 DEF StoredOf, has_row, PipelineInv, Accounting, StoredProduced
    <3>2. CASE j = i
      <4>1. capture_verdict(j) = "none" /\ capture_verdict(j)' = "none"
        BY <1>2, <2>4, <2>8, <3>2 DEF Verdicts
      <4> QED
        BY <3>1, <4>1 DEF WriteOf
    <3>3. CASE j # i
      <4>1. capture_verdict(j)' = capture_verdict(j)
        BY <1>1, <1>3, <1>7, <2>1, <3>3, SameVerdict
      <4> QED
        BY <3>1, <4>1 DEF WriteOf
    <3> QED
      BY <3>2, <3>3
  <2>10. Ledger!Write
    BY <1>1, <2>9, LedgerWrite
  <2> QED
    BY <1>5, <2>3, <2>7, <2>10 DEF PipelineInv
<1> QED
  BY <1>1, <1>6, <1>7

-----------------------------------------------------------------------------
(* Readers *)

LEMMA ReaderAt ==
    ASSUME PipelineInv, NEW i \in Invs, reading(i)
    PROVE  /\ call[i] \in {"exec", "returned", "failed"} /\ eof[i] = "open" /\ ~Unclaimed(i)
           /\ out[i] \in Nat /\ overflow[i] \in Seq(Nat) /\ ToSet(overflow[i]) \subseteq 1..out[i]
           /\ lane \in Seq(Msg) /\ Ordered(lane) /\ Len(lane) \in Nat /\ Len(lane) <= LaneCap
           /\ \A m \in Flight : m.kind = "eof" => m.inv # i
           /\ \A m \in ToSet(lane) : m.kind = "eof" => m.inv # i
           /\ Writing(i) => Doubted(i) \/ Covered(i)
           /\ Writing(i) /\ i \in shed => Doubted(i)
<1>1. call[i] \in {"exec", "returned", "failed"} /\ eof[i] = "open"
  BY DEF reading
<1>2. \A m \in Flight : m.kind = "eof" => m.inv # i
  BY <1>1 DEF PipelineInv, InFlight, Known
<1>3. ~Inexact(i)
  BY <1>1, <1>2 DEF Inexact
<1>4. /\ Writing(i) => Doubted(i) \/ Covered(i)
      /\ Writing(i) /\ i \in shed => Doubted(i)
  BY <1>3 DEF PipelineInv, Accounting, Accounted
<1>5. /\ out[i] \in Nat /\ overflow[i] \in Seq(Nat) /\ ToSet(overflow[i]) \subseteq 1..out[i]
      /\ lane \in Seq(Msg) /\ Ordered(lane) /\ Len(lane) \in Nat /\ Len(lane) <= LaneCap
  BY DEF PipelineInv, Typed, QueuesTyped, ReadersTyped, InFlight, Order, Held
<1> QED
  BY <1>1, <1>2, <1>4, <1>5 DEF Unclaimed, Flight

\* What was covered, and the next chunk if there is one, stays covered.
LEMMA CoverKept ==
    ASSUME NEW i \in Invs, Covered(i), UNCHANGED <<row, worker>>, out[i] \in Nat, ToSet(overflow[i]) \subseteq Nat,
           ToSet(lane) \subseteq ToSet(lane'),
           \A x \in ToSet(overflow[i]) : x \in ToSet(overflow'[i]) \/ Chunk(i, x) \in ToSet(lane'),
           \/ out'[i] = out[i]
           \/ /\ out'[i] = out[i] + 1
              /\ out'[i] \in ToSet(overflow'[i]) \/ Chunk(i, out'[i]) \in ToSet(lane')
    PROVE  Covered(i)'
<1> SUFFICES ASSUME NEW n \in 1..out'[i]
             PROVE  \/ n \in row[i].chunks \/ n \in ToSet(overflow'[i])
                    \/ \E m \in Flight' : m.kind = "chunk" /\ m.inv = i /\ m.seq = n
  BY DEF Covered
<1>1. Flight \subseteq Flight' /\ ToSet(lane') \subseteq Flight'
  BY DEF Flight
<1>2. n \in Nat
  OBVIOUS
<1>3. Chunk(i, n) \in ToSet(lane') => \E m \in Flight' : m.kind = "chunk" /\ m.inv = i /\ m.seq = n
  BY <1>1, <1>2, MsgMade
<1>4. CASE n \in 1..out[i]
  <2>1. \/ n \in row[i].chunks \/ n \in ToSet(overflow[i])
        \/ \E m \in Flight : m.kind = "chunk" /\ m.inv = i /\ m.seq = n
    BY <1>4 DEF Covered
  <2> QED
    BY <1>1, <1>3, <2>1
<1>5. CASE n \notin 1..out[i]
  <2>1. out'[i] = out[i] + 1 /\ n = out'[i]
    BY <1>2, <1>5
  <2> QED
    BY <1>3, <2>1
<1> QED
  BY <1>4, <1>5

\* The reader of i has s held back, n chunks seen and e for its end; what it
\* put into the lane is chunks of its own, and what it lost is noted.
ReaderSent(i, s, n, e) ==
    /\ UNCHANGED <<row, priority, worker, call, proc, active, unmarked, faults>>
    /\ s \in Seq(Nat) /\ overflow' = [overflow EXCEPT ![i] = s]
    /\ n \in Nat /\ out' = [out EXCEPT ![i] = n] /\ out[i] <= n /\ ToSet(s) \subseteq 1..n
    /\ e \in {"open", "exact", "gap", "sent"} /\ eof' = [eof EXCEPT ![i] = e] /\ (e # "open" => s = <<>>)
    /\ health' \in HealthRecord /\ health.capture \subseteq health'.capture
    /\ health'.capture \subseteq health.capture \cup {i}
    /\ shed' \subseteq shed \cup {i} /\ (i \in shed' => i \in shed \/ i \in health'.capture)
    /\ lane' \in Seq(Msg) /\ Len(lane') <= LaneCap /\ Ordered(lane') /\ ToSet(lane) \subseteq ToSet(lane')
    /\ \A m \in ToSet(lane') : m \in ToSet(lane) \/ \E x \in 1..n : m = Chunk(i, x)
    /\ Writing(i) => Doubted(i)' \/ Inexact(i)' \/ Covered(i)'

LEMMA ReaderSends ==
    ASSUME PipelineInv, NEW i \in Invs, reading(i), NEW s, NEW n, NEW e, ReaderSent(i, s, n, e)
    PROVE  PipelineInv' /\ (n = out[i] => Ledger!Write) /\ (n = out[i] + 1 => Ledger!Produce(i))
<1> USE DEF ReaderSent
<1>0. /\ QueuesTyped /\ StoreTyped /\ ReadersTyped /\ CallsTyped /\ Order /\ Places /\ InFlight /\ Accounting
  BY Parts DEF PipelineInv
<1>1. /\ call[i] \in {"exec", "returned", "failed"} /\ eof[i] = "open" /\ ~Unclaimed(i) /\ out[i] \in Nat
  BY ReaderAt
<1>2. /\ overflow'[i] = s /\ out'[i] = n /\ eof'[i] = e
      /\ \A j \in Invs \ {i} : overflow'[j] = overflow[j] /\ out'[j] = out[j] /\ eof'[j] = eof[j]
  BY <1>0 DEF QueuesTyped, ReadersTyped
<1>3. QueuesTyped'
  BY <1>0 DEF QueuesTyped
<1>4. StoreTyped'
  BY <1>0 DEF StoreTyped
<1>5. ReadersTyped'
  BY <1>0 DEF ReadersTyped
<1>6. CallsTyped'
  BY <1>0 DEF CallsTyped
<1>7. Typed'
  BY <1>3, <1>4, <1>5, <1>6 DEF Typed
<1>8. \A m \in ToSet(lane') : \/ m \in ToSet(lane)
                              \/ m.kind = "chunk" /\ m.inv = i /\ m.seq \in 1..out'[i]
  <2>1. \A x \in 1..n : Chunk(i, x).kind = "chunk" /\ Chunk(i, x).inv = i /\ Chunk(i, x).seq = x
    BY MsgMade
  <2> QED
    BY <1>2, <2>1
<1>9. InFlight'
  <2>1. out'[i] >= out[i] /\ (eof'[i] # "open" => overflow'[i] = <<>>) /\ ToSet(overflow'[i]) \subseteq 1..out'[i]
    BY <1>1, <1>2
  <2> QED
    BY <1>0, <1>1, <1>2, <1>3, <1>5, <1>8, <2>1, ChunksSent
<1>10. Flight \subseteq Flight'
  BY DEF Flight
<1>11. Accounting'
  BY <1>0, <1>1, <1>2, <1>10, ReaderAccounts
<1>12. n = out[i] => Ledger!Write
  <2>1. n = out[i] => UNCHANGED out
    BY <1>0 DEF ReadersTyped
  <2> QED
    BY <1>0, <1>1, <1>4, <1>6, <1>11, <2>1, ReaderWrites
<1>13. n = out[i] + 1 => Ledger!Produce(i)
  BY <1>0, <1>1, <1>4, <1>6, <1>11, ReaderProduces
<1> QED
  BY <1>7, <1>9, <1>11, <1>12, <1>13 DEF PipelineInv

\* A chunk that is not kept.
LEMMA Omitted ==
    ASSUME PipelineInv, NEW i \in Invs, reading(i),
           UNCHANGED <<row, priority, lane, overflow, worker, call, proc, active, eof, unmarked, faults>>,
           out' = [out EXCEPT ![i] = out[i] + 1], shed' = shed \cup {i},
           health' \in HealthRecord, health'.capture = health.capture \cup {i}
    PROVE  PipelineInv' /\ Ledger!Produce(i)
<1>1. /\ eof[i] = "open" /\ out[i] \in Nat /\ overflow[i] \in Seq(Nat) /\ ToSet(overflow[i]) \subseteq 1..out[i]
      /\ lane \in Seq(Msg) /\ Ordered(lane) /\ Len(lane) <= LaneCap
  BY ReaderAt
<1>2. overflow' = [overflow EXCEPT ![i] = overflow[i]] /\ eof' = [eof EXCEPT ![i] = "open"]
  BY <1>1, Parts DEF QueuesTyped, ReadersTyped
<1>3. out[i] + 1 \in Nat /\ out[i] <= out[i] + 1 /\ ToSet(overflow[i]) \subseteq 1..(out[i] + 1)
  BY <1>1
<1>4. Doubted(i)'
  BY DEF Doubted
<1>5. ReaderSent(i, overflow[i], out[i] + 1, "open")
  BY <1>1, <1>2, <1>3, <1>4 DEF ReaderSent
<1> QED
  BY <1>5, ReaderSends

LEMMA Observing ==
    ASSUME PipelineInv, NEW i \in Invs, observe_output(i)
    PROVE  PipelineInv' /\ Ledger!Produce(i)
<1> DEFINE n == out[i] + 1
           f == flushed(i)
<1>1. /\ reading(i) /\ out' = [out EXCEPT ![i] = n]
      /\ UNCHANGED <<row, priority, active, worker, call, proc, eof, unmarked, faults>>
  BY DEF observe_output, troubleVars
<1>2. \/ /\ shed' = shed \cup {i} /\ UNCHANGED <<lane, overflow>>
         /\ \/ health' = note_capture_incomplete(i)
            \/ health' = [note_capture_incomplete(i) EXCEPT !.degraded = TRUE]
      \/ /\ f.rest = <<>> /\ Len(f.lane) < LaneCap
         /\ lane' = Append(f.lane, Chunk(i, n)) /\ overflow' = [overflow EXCEPT ![i] = <<>>]
         /\ UNCHANGED <<shed, health>>
      \/ /\ lane' = f.lane /\ overflow' = [overflow EXCEPT ![i] = Append(f.rest, n)]
         /\ UNCHANGED <<shed, health>>
      \/ /\ lane' = f.lane /\ overflow' = [overflow EXCEPT ![i] = f.rest]
         /\ shed' = shed \cup {i} /\ health' = note_capture_incomplete(i)
  BY DEF observe_output
<1>3. /\ eof[i] = "open" /\ out[i] \in Nat /\ overflow[i] \in Seq(Nat) /\ ToSet(overflow[i]) \subseteq 1..out[i]
      /\ lane \in Seq(Msg) /\ Ordered(lane) /\ Len(lane) <= LaneCap
      /\ \A m \in ToSet(lane) : m.kind = "eof" => m.inv # i
      /\ Writing(i) => Doubted(i) \/ Covered(i)
  BY <1>1, ReaderAt
<1>4. /\ f.lane \in Seq(Msg) /\ Len(f.lane) <= LaneCap /\ f.rest \in Seq(Nat) /\ Ordered(f.lane)
      /\ ToSet(lane) \subseteq ToSet(f.lane)
      /\ \A m \in ToSet(f.lane) : m \in ToSet(lane) \/ \E x \in ToSet(overflow[i]) : m = Chunk(i, x)
      /\ ToSet(f.rest) \subseteq ToSet(overflow[i])
      /\ \A x \in ToSet(overflow[i]) : x \in ToSet(f.rest) \/ Chunk(i, x) \in ToSet(f.lane)
  BY <1>3, Parts, FlushedLane
<1>5. StoreTyped /\ health \in HealthRecord /\ ReadersTyped /\ QueuesTyped /\ LaneCap \in Nat
  BY Parts, Bounds
<1>6. eof' = [eof EXCEPT ![i] = "open"]
  BY <1>1, <1>3, <1>5 DEF ReadersTyped
<1>7. n \in Nat /\ out[i] <= n /\ 1..out[i] \subseteq 1..n /\ n \in 1..n
  BY <1>3
<1>8. /\ note_capture_incomplete(i) \in HealthRecord
      /\ note_capture_incomplete(i).capture = health.capture \cup {i}
      /\ [note_capture_incomplete(i) EXCEPT !.degraded = TRUE] \in HealthRecord
      /\ [note_capture_incomplete(i) EXCEPT !.degraded = TRUE].capture = health.capture \cup {i}
  BY <1>5, NoteCapture
<1>9. \A m \in ToSet(f.lane) : m \in ToSet(lane) \/ \E x \in 1..n : m = Chunk(i, x)
  BY <1>3, <1>4, <1>7
<1> HIDE DEF f
<1>10. CASE /\ shed' = shed \cup {i} /\ UNCHANGED <<lane, overflow>>
            /\ \/ health' = note_capture_incomplete(i)
               \/ health' = [note_capture_incomplete(i) EXCEPT !.degraded = TRUE]
  BY <1>1, <1>8, <1>10, Omitted
<1>11. CASE /\ f.rest = <<>> /\ Len(f.lane) < LaneCap
            /\ lane' = Append(f.lane, Chunk(i, n)) /\ overflow' = [overflow EXCEPT ![i] = <<>>]
            /\ UNCHANGED <<shed, health>>
  <2>0. Chunk(i, n) \in Msg /\ Chunk(i, n).kind = "chunk" /\ Chunk(i, n).inv = i
    BY <1>7, MsgMade
  <2>1. /\ lane' \in Seq(Msg) /\ ToSet(lane') = ToSet(f.lane) \cup {Chunk(i, n)}
    BY <1>4, <1>11, <2>0, SetOfAppend
  <2>2. Len(lane') <= LaneCap
    <3>1. Len(f.lane) \in Nat /\ Len(lane') = Len(f.lane) + 1
      BY <1>4, <1>11, <2>0
    <3> QED
      BY <1>5, <1>11, <3>1
  <2>3. Ordered(lane')
    <3>1. \A m \in ToSet(f.lane) : m.kind = "eof" => m.inv # i
      <4>1. \A x \in 1..n : Chunk(i, x).kind = "chunk"
        BY <1>7, MsgMade
      <4> QED
        BY <1>3, <1>9, <4>1
    <3>2. Before(ToSet(f.lane), {Chunk(i, n)})
      BY <2>0, <3>1 DEF Before
    <3> QED
      BY <1>4, <1>11, <2>0, <3>2, OrderedAppend
  <2>4. \A m \in ToSet(lane') : m \in ToSet(lane) \/ \E x \in 1..n : m = Chunk(i, x)
    BY <1>7, <1>9, <2>1
  <2>5. Writing(i) => Doubted(i)' \/ Covered(i)'
    <3>1. Doubted(i) => Doubted(i)'
      BY <1>1, <1>11 DEF Doubted
    <3>2. ASSUME Covered(i) PROVE Covered(i)'
      <4>1. out'[i] = out[i] + 1 /\ ToSet(overflow[i]) \subseteq Nat
        BY <1>1, <1>3, <1>5 DEF ReadersTyped
      <4>2. ToSet(f.rest) = {}
        BY <1>11, SetOfEmpty
      <4> QED
        BY <1>1, <1>3, <1>4, <2>1, <3>2, <4>1, <4>2, CoverKept
    <3> QED
      BY <1>3, <3>1, <3>2
  <2>6. <<>> \in Seq(Nat) /\ ToSet(<<>>) \subseteq 1..n
    BY SetOfEmpty
  <2>8. ToSet(lane) \subseteq ToSet(lane')
    BY <1>4, <2>1
  <2>9. health' \in HealthRecord /\ health.capture \subseteq health'.capture
        /\ health'.capture \subseteq health.capture \cup {i} /\ shed' \subseteq shed \cup {i}
    BY <1>5, <1>11
  <2>10. ReaderSent(i, <<>>, n, "open")
    BY <1>1, <1>6, <1>7, <1>11, <2>1, <2>2, <2>3, <2>4, <2>5, <2>6, <2>8, <2>9 DEF ReaderSent
  <2> QED
    BY <1>1, <2>10, ReaderSends
<1>12. CASE /\ lane' = f.lane /\ overflow' = [overflow EXCEPT ![i] = Append(f.rest, n)]
            /\ UNCHANGED <<shed, health>>
  <2>1. Append(f.rest, n) \in Seq(Nat) /\ ToSet(Append(f.rest, n)) = ToSet(f.rest) \cup {n}
    BY <1>4, <1>7, SetOfAppend
  <2>2. ToSet(Append(f.rest, n)) \subseteq 1..n
    BY <1>3, <1>4, <1>7, <2>1
  <2>3. overflow'[i] = Append(f.rest, n)
    BY <1>5, <1>12 DEF QueuesTyped
  <2>5. Writing(i) => Doubted(i)' \/ Covered(i)'
    <3>1. Doubted(i) => Doubted(i)'
      BY <1>1, <1>12 DEF Doubted
    <3>2. ASSUME Covered(i) PROVE Covered(i)'
      <4>1. out'[i] = out[i] + 1 /\ ToSet(overflow[i]) \subseteq Nat /\ out'[i] \in ToSet(overflow'[i])
        BY <1>1, <1>3, <1>5, <2>1, <2>3 DEF ReadersTyped
      <4>2. \A x \in ToSet(overflow[i]) : x \in ToSet(overflow'[i]) \/ Chunk(i, x) \in ToSet(lane')
        BY <1>4, <1>12, <2>1, <2>3
      <4>3. ToSet(lane) \subseteq ToSet(lane')
        BY <1>4, <1>12
      <4> QED
        BY <1>1, <1>3, <3>2, <4>1, <4>2, <4>3, CoverKept
    <3> QED
      BY <1>3, <3>1, <3>2
  <2>9. health' \in HealthRecord /\ health.capture \subseteq health'.capture
        /\ health'.capture \subseteq health.capture \cup {i} /\ shed' \subseteq shed \cup {i}
    BY <1>5, <1>12
  <2>10. lane' \in Seq(Msg) /\ Len(lane') <= LaneCap /\ Ordered(lane') /\ ToSet(lane) \subseteq ToSet(lane')
         /\ \A m \in ToSet(lane') : m \in ToSet(lane) \/ \E x \in 1..n : m = Chunk(i, x)
    BY <1>4, <1>9, <1>12
  <2>11. (i \in shed' => i \in shed) /\ n = out[i] + 1
    BY <1>12
  <2> DEFINE s == Append(f.rest, n)
  <2>12. s \in Seq(Nat) /\ ToSet(s) \subseteq 1..n /\ overflow' = [overflow EXCEPT ![i] = s]
    BY <1>12, <2>1, <2>2
  <2> HIDE DEF s
  <2>13. ReaderSent(i, s, n, "open")
    BY <1>1, <1>6, <1>7, <2>5, <2>9, <2>10, <2>11, <2>12 DEF ReaderSent
  <2> QED
    BY <1>1, <2>11, <2>13, ReaderSends
<1>13. CASE /\ lane' = f.lane /\ overflow' = [overflow EXCEPT ![i] = f.rest]
            /\ shed' = shed \cup {i} /\ health' = note_capture_incomplete(i)
  <2>1. ToSet(f.rest) \subseteq 1..n
    BY <1>3, <1>4, <1>7
  <2>2. Doubted(i)'
    BY <1>8, <1>13 DEF Doubted
  <2>3. ReaderSent(i, f.rest, n, "open")
    BY <1>1, <1>4, <1>6, <1>7, <1>8, <1>9, <1>13, <2>1, <2>2 DEF ReaderSent
  <2> QED
    BY <1>1, <2>3, ReaderSends
<1> QED
  BY <1>2, <1>10, <1>11, <1>12, <1>13

\* The reader meets the end: what does not fit is discarded.
LEMMA MeetsTheEnd ==
    ASSUME PipelineInv, NEW i \in Invs, observe_output_complete(i)
    PROVE  PipelineInv' /\ Ledger!Write
<1> DEFINE f == flushed(i)
           e == IF i \notin shed /\ f.rest = <<>> THEN "exact" ELSE "gap"
<1>1. /\ reading(i) /\ overflow' = [overflow EXCEPT ![i] = <<>>]
      /\ UNCHANGED <<row, priority, active, worker, call, proc, out, unmarked, faults>>
  BY DEF observe_output_complete, troubleVars
<1>2. \/ /\ shed' = shed \cup {i} /\ health' = [note_capture_incomplete(i) EXCEPT !.degraded = TRUE]
         /\ eof' = [eof EXCEPT ![i] = "sent"] /\ UNCHANGED lane
      \/ /\ shed' = shed \ {i} /\ lane' = f.lane /\ eof' = [eof EXCEPT ![i] = e] /\ UNCHANGED health
  BY DEF observe_output_complete
<1>3. /\ eof[i] = "open" /\ out[i] \in Nat /\ overflow[i] \in Seq(Nat) /\ ToSet(overflow[i]) \subseteq 1..out[i]
      /\ lane \in Seq(Msg) /\ Ordered(lane) /\ Len(lane) <= LaneCap
      /\ \A m \in ToSet(lane) : m.kind = "eof" => m.inv # i
      /\ Writing(i) => Doubted(i) \/ Covered(i)
  BY <1>1, ReaderAt
<1>4. /\ f.lane \in Seq(Msg) /\ Len(f.lane) <= LaneCap /\ f.rest \in Seq(Nat) /\ Ordered(f.lane)
      /\ ToSet(lane) \subseteq ToSet(f.lane)
      /\ \A m \in ToSet(f.lane) : m \in ToSet(lane) \/ \E x \in ToSet(overflow[i]) : m = Chunk(i, x)
      /\ ToSet(f.rest) \subseteq ToSet(overflow[i])
      /\ \A x \in ToSet(overflow[i]) : x \in ToSet(f.rest) \/ Chunk(i, x) \in ToSet(f.lane)
  BY <1>3, Parts, FlushedLane
<1>5. StoreTyped /\ health \in HealthRecord /\ ReadersTyped /\ QueuesTyped
  BY Parts
<1>6. out' = [out EXCEPT ![i] = out[i]] /\ out'[i] = out[i] /\ overflow'[i] = <<>>
  BY <1>1, <1>5 DEF ReadersTyped, QueuesTyped
<1>7. <<>> \in Seq(Nat) /\ ToSet(<<>>) \subseteq 1..out[i] /\ out[i] <= out[i] /\ out[i] # out[i] + 1
  BY <1>3, SetOfEmpty
<1> HIDE DEF f
<1>8. CASE /\ shed' = shed \cup {i} /\ health' = [note_capture_incomplete(i) EXCEPT !.degraded = TRUE]
           /\ eof' = [eof EXCEPT ![i] = "sent"] /\ UNCHANGED lane
  <2>1. health' \in HealthRecord /\ health'.capture = health.capture \cup {i}
    BY <1>5, <1>8, NoteCapture
  <2>2. Doubted(i)'
    BY <2>1 DEF Doubted
  <2>3. ReaderSent(i, <<>>, out[i], "sent")
    BY <1>1, <1>3, <1>6, <1>7, <1>8, <2>1, <2>2 DEF ReaderSent
  <2> QED
    BY <1>1, <2>3, ReaderSends
<1>9. CASE /\ shed' = shed \ {i} /\ lane' = f.lane /\ eof' = [eof EXCEPT ![i] = e] /\ UNCHANGED health
  <2>1. e \in {"open", "exact", "gap", "sent"}
    OBVIOUS
  <2>2. eof'[i] = e
    BY <1>5, <1>9 DEF ReadersTyped
  <2>3. Writing(i) => Doubted(i)' \/ Inexact(i)' \/ Covered(i)'
    <3>1. Doubted(i) => Doubted(i)'
      BY <1>1, <1>9 DEF Doubted
    <3>2. CASE e = "gap"
      BY <2>2, <3>2 DEF Inexact
    <3>3. CASE e # "gap"
      <4>1. f.rest = <<>>
        BY <3>3
      <4>2. ToSet(f.rest) = {} /\ ToSet(overflow[i]) \subseteq Nat
        BY <1>3, <4>1, SetOfEmpty
      <4>3. Covered(i) => Covered(i)'
        BY <1>1, <1>3, <1>4, <1>6, <1>9, <4>2, CoverKept
      <4> QED
        BY <1>3, <3>1, <4>3
    <3> QED
      BY <3>2, <3>3
  <2>4. \A m \in ToSet(lane') : m \in ToSet(lane) \/ \E x \in 1..out[i] : m = Chunk(i, x)
    BY <1>3, <1>4, <1>9
  <2>5. health' \in HealthRecord /\ health.capture \subseteq health'.capture
        /\ health'.capture \subseteq health.capture \cup {i} /\ shed' \subseteq shed \cup {i}
        /\ (i \in shed' => i \in shed)
    BY <1>5, <1>9
  <2> HIDE DEF e
  <2>6. lane' \in Seq(Msg) /\ Len(lane') <= LaneCap /\ Ordered(lane') /\ ToSet(lane) \subseteq ToSet(lane')
    BY <1>4, <1>9
  <2>7. ReaderSent(i, <<>>, out[i], e)
    BY <1>1, <1>3, <1>6, <1>7, <1>9, <2>1, <2>3, <2>4, <2>5, <2>6 DEF ReaderSent
  <2> QED
    BY <1>1, <2>7, ReaderSends
<1> QED
  BY <1>2, <1>8, <1>9

\* The end is sent, or the loss of it is noted.
LEMMA SendsTheEnd ==
    ASSUME PipelineInv, NEW i \in Invs, send_output_completion(i)
    PROVE  PipelineInv' /\ Ledger!Write
<1> DEFINE b == eof[i] = "exact"
<1>1. /\ eof[i] \in {"exact", "gap"} /\ eof' = [eof EXCEPT ![i] = "sent"]
      /\ UNCHANGED <<row, priority, overflow, active, worker, call, proc, out, unmarked, faults>>
  BY DEF send_output_completion, troubleVars
<1>2. \/ lane' = Append(lane, Eof(i, b)) /\ Len(lane) < LaneCap /\ UNCHANGED <<health, shed>>
      \/ /\ \E d \in BOOLEAN : health' = [note_capture_incomplete(i) EXCEPT !.degraded = d]
         /\ shed' \subseteq shed \cup {i} /\ UNCHANGED lane
  <2>1. note_capture_incomplete(i).degraded \in BOOLEAN
    BY Parts DEF note_capture_incomplete, HealthRecord
  <2> QED
    BY <2>1 DEF send_output_completion
<1> HIDE DEF b
<1>3. b \in BOOLEAN
  BY DEF b
<1>5. /\ QueuesTyped /\ StoreTyped /\ ReadersTyped /\ CallsTyped /\ Order /\ Places /\ InFlight /\ Accounting
      /\ health \in HealthRecord
  BY Parts DEF PipelineInv
<1>6. call[i] \in {"exec", "returned", "failed"} /\ ~Unclaimed(i)
  BY <1>1, <1>5 DEF InFlight, Held, Unclaimed
<1>7. /\ InFlight' /\ QueuesTyped' /\ Flight \subseteq Flight'
      /\ \A m \in Flight : m.kind = "eof" => m.inv # i
  BY <1>1, <1>2, <1>3, <1>5, <1>6, EndSent
<1>8. /\ health' \in HealthRecord /\ health.capture \subseteq health'.capture
      /\ health'.capture \subseteq health.capture \cup {i}
      /\ shed' \subseteq shed \cup {i} /\ (i \in shed' => i \in shed \/ i \in health'.capture)
  <2>1. CASE UNCHANGED <<health, shed>>
    BY <1>5, <2>1
  <2>2. CASE /\ \E d \in BOOLEAN : health' = [note_capture_incomplete(i) EXCEPT !.degraded = d]
             /\ shed' \subseteq shed \cup {i} /\ UNCHANGED lane
    <3>1. health' \in HealthRecord /\ health'.capture = health.capture \cup {i}
      BY <1>5, <2>2, NoteCapture
    <3> QED
      BY <2>2, <3>1
  <2> QED
    BY <1>2, <2>1, <2>2
<1>9. Typed'
  <2>1. StoreTyped'
    BY <1>1, <1>5, <1>8 DEF StoreTyped
  <2>2. ReadersTyped'
    BY <1>1, <1>5, <1>8 DEF ReadersTyped
  <2>3. CallsTyped'
    BY <1>1, <1>5 DEF CallsTyped
  <2> QED
    BY <1>7, <2>1, <2>2, <2>3 DEF Typed
<1>10. /\ eof'[i] = "sent" /\ \A j \in Invs \ {i} : eof'[j] = eof[j]
       /\ out[i] \in Nat
  BY <1>1, <1>5 DEF ReadersTyped
<1>11. Writing(i) => Doubted(i)' \/ Inexact(i)' \/ Covered(i)'
  <2>1. CASE /\ \E d \in BOOLEAN : health' = [note_capture_incomplete(i) EXCEPT !.degraded = d]
             /\ shed' \subseteq shed \cup {i} /\ UNCHANGED lane
    <3>1. health'.capture = health.capture \cup {i}
      BY <1>5, <2>1, NoteCapture
    <3> QED
      BY <3>1 DEF Doubted
  <2>2. CASE lane' = Append(lane, Eof(i, b)) /\ Len(lane) < LaneCap /\ UNCHANGED <<health, shed>>
    <3>1. /\ Eof(i, b) \in Msg /\ Eof(i, b).kind = "eof" /\ Eof(i, b).inv = i /\ Eof(i, b).exact = b
      BY <1>3, MsgMade
    <3>2. Eof(i, b) \in Flight'
      <4>1. lane \in Seq(Msg)
        BY <1>5 DEF QueuesTyped
      <4>2. ToSet(lane') = ToSet(lane) \cup {Eof(i, b)}
        BY <2>2, <3>1, <4>1, SetOfAppend
      <4> QED
        BY <4>2 DEF Flight
    <3>3. CASE ~b
      BY <3>1, <3>2, <3>3 DEF Inexact
    <3>4. CASE b
      <4>1. ~Inexact(i)
        BY <1>7, <3>4 DEF Inexact, b
      <4>2. Doubted(i) => Doubted(i)'
        BY <1>1, <2>2 DEF Doubted
      <4>3. Covered(i) => Covered(i)'
        BY <1>1, <1>7 DEF Covered
      <4> QED
        BY <1>5, <4>1, <4>2, <4>3 DEF Accounting, Accounted
    <3> QED
      BY <3>3, <3>4
  <2> QED
    BY <1>2, <2>1, <2>2
<1>12. Accounting'
  BY <1>1, <1>5, <1>6, <1>7, <1>8, <1>10, <1>11, ReaderAccounts
<1>13. Ledger!Write
  BY <1>1, <1>5, <1>6, <1>8, <1>9, <1>12, ReaderWrites DEF Typed
<1> QED
  BY <1>7, <1>9, <1>12, <1>13 DEF PipelineInv

-----------------------------------------------------------------------------
(* The pipeline implements the ledger *)

LEMMA Starts ==
    ASSUME Init
    PROVE  PipelineInv /\ Ledger!Init
<1>1. worker \in WorkerRecord /\ worker.batch = <<>> /\ worker.outbuf = <<>>
  <2>1. <<>> \in Seq(Msg)
    OBVIOUS
  <2> QED
    BY <2>1 DEF Init, FreshWorker, WorkerRecord
<1>2. QueuesTyped
  <2>1. <<>> \in Seq(Msg) /\ <<>> \in Seq(Nat) /\ Len(<<>>) = 0 /\ 0 <= LaneCap
    BY Bounds
  <2> QED
    BY <1>1, <2>1 DEF Init, QueuesTyped
<1>3. StoreTyped
  BY DEF Init, StoreTyped, HealthRecord
<1>4. ReadersTyped /\ CallsTyped
  BY DEF Init, ReadersTyped, CallsTyped
<1>5. InFlight
  <2>1. ToSet(priority) = {} /\ ToSet(lane) = {} /\ ToSet(worker.batch) = {} /\ ToSet(worker.outbuf) = {}
    BY <1>1, SetOfEmpty DEF Init
  <2>2. Flight = {} /\ Mail = {}
    BY <2>1 DEF Flight, Mail
  <2>3. Ordered(<<>>)
    BY DEF Ordered
  <2>4. Order
    BY <1>1, <2>1, <2>3 DEF Init, Order, Before
  <2>5. Places
    BY <1>1, <2>1 DEF Places
  <2>6. Held
    <3>1. \A i \in Invs : overflow[i] = <<>> /\ eof[i] = "open"
      BY DEF Init
    <3> QED
      BY <3>1, SetOfEmpty DEF Held
  <2> QED
    BY <2>2, <2>4, <2>5, <2>6 DEF InFlight, Known, EndsAgree, Reported
<1>6. Accounting
  <2>1. \A i \in Invs : /\ row[i] = NoRow /\ call[i] = "new" /\ out[i] = 0
                        /\ i \notin health.capture \cup unmarked \cup shed
    BY DEF Init
  <2> QED
    BY <2>1 DEF Accounting, Accounted, Writing, CertifiedAtEnd, StoredProduced, ClaimsApply, NothingClaimed
<1>7. \A i \in Invs : capture_verdict(i) = "none" /\ ~has_row(i)
  BY DEF Init, capture_verdict, has_row
<1>8. Ledger!Init
  BY <1>7 DEF Init, Ledger!Init
<1> QED
  BY <1>2, <1>3, <1>4, <1>5, <1>6, <1>8 DEF PipelineInv, Typed

LEMMA Stutters ==
    ASSUME PipelineInv, UNCHANGED vars
    PROVE  PipelineInv' /\ UNCHANGED Ledger!ledgerVars
<1>1. UNCHANGED <<row, priority, lane, overflow, shed, health, active, worker, call, proc, out, eof, unmarked, faults>>
  BY DEF vars
<1>2. Kept(health)
  BY <1>1, Undisturbed
<1>3. PipelineInv'
  BY <1>1, <1>2, Aside
<1>4. \A i \in Invs : capture_verdict(i)' = capture_verdict(i) /\ has_row(i)' = has_row(i)
  BY <1>1, SameVerdict DEF has_row
<1> QED
  BY <1>1, <1>3, <1>4 DEF Ledger!ledgerVars

LEMMA Steps ==
    ASSUME PipelineInv, Next
    PROVE  PipelineInv' /\ Ledger!Next
<1>1. CASE Producers
  <2> PICK i \in Invs :
        \/ begin(i, "exec", "none") \/ begin(i, "patch", "pending")
        \/ \E ok \in BOOLEAN : complete(i, ok)
        \/ process_started(i) \/ process_ended(i)
        \/ observe_output(i) \/ observe_output_complete(i) \/ send_output_completion(i)
    BY <1>1 DEF Producers
  <2>1. CASE begin(i, "exec", "none") \/ begin(i, "patch", "pending")
    <3>1. PipelineInv' /\ (Ledger!Open(i) \/ Ledger!Write)
      BY <2>1, Beginning
    <3> QED
      BY <3>1 DEF Ledger!Next
  <2>2. CASE \E ok \in BOOLEAN : complete(i, ok)
    BY <2>2, Completing DEF Ledger!Next
  <2>3. CASE process_started(i) \/ process_ended(i)
    BY <2>3, Starting, Ending DEF Ledger!Next
  <2>4. CASE observe_output(i)
    BY <2>4, Observing DEF Ledger!Next
  <2>5. CASE observe_output_complete(i) \/ send_output_completion(i)
    BY <2>5, MeetsTheEnd, SendsTheEnd DEF Ledger!Next
  <2> QED
    BY <2>1, <2>2, <2>3, <2>4, <2>5
<1>2. CASE Writer
  <2>1. CASE WriterKeeps
    BY <2>1, WriterMoves DEF Ledger!Next
  <2>2. CASE flush_output_events
    BY <2>2, WriterFlushes DEF Ledger!Next
  <2>3. CASE run_retention
    BY <2>3, Retention DEF Ledger!Next
  <2> QED
    BY <1>2, <2>1, <2>2, <2>3, WriterTakes, WriterRests, WriterCommits DEF Writer
<1>3. CASE shutdown_drain \/ shutdown_send \/ shutdown_join
  BY <1>3, Draining, Sending, Joining DEF Ledger!Next
<1>4. CASE reopen
  BY <1>4, Reopening DEF Ledger!Next
<1>5. CASE clear_agent
  BY <1>5, Clearing DEF Ledger!Next
<1> QED
  BY <1>1, <1>2, <1>3, <1>4, <1>5 DEF Next

\* Output stays in the order it was read in on its way through overflow, lane
\* and batch (flush_output_overflow_nonblocking, the writer's receive and
\* drains), and what a capture lacks is flagged, noted or announced (Accounting).
THEOREM PipelineInvariant == Spec => []PipelineInv
<1>1. Init => PipelineInv
  BY Starts
<1>2. PipelineInv /\ [Next]_vars => PipelineInv'
  BY Steps, Stutters
<1> QED
  BY <1>1, <1>2, PTL DEF Spec

\* Every step of the pipeline is a step of the ledger: a capture is certified by
\* persist_output_batch with everything produced stored, and a gap stays flagged
\* through overload, failing store operations, shutdown and restarts.
THEOREM LedgerImplemented == Spec => CaptureIsExact
<1>1. Init => Ledger!Init
  BY Starts
<1>2. PipelineInv /\ [Next]_vars => [Ledger!Next]_(Ledger!ledgerVars)
  BY Steps, Stutters
<1> QED
  BY <1>1, <1>2, PipelineInvariant, PTL DEF Spec, CaptureIsExact, Ledger!Spec

-----------------------------------------------------------------------------
(* What clients are shown, and what shutdown leaves *)

\* An end in flight is that of a process that was active, and is dead.
CountInv ==
    /\ CountMatchesActive
    /\ \A i \in Invs : proc[i] = "alive" => active[i] = "running"
    /\ \A m \in Mail : m.kind = "ended" => m.wasActive = TRUE /\ proc[m.inv] = "dead"

Active == {i \in Invs : active[i] # "none"}

LEMMA ActiveCounted ==
    /\ IsFiniteSet(Active) /\ Cardinality(Active) \in Nat
    /\ IsFiniteSet(Active') /\ Cardinality(Active') \in Nat
<1>1. IsFiniteSet(Invs) /\ Active \subseteq Invs /\ Active' \subseteq Invs
  BY Bounds DEF Active
<1> QED
  BY <1>1, FS_Subset, FS_CardinalityType

LEMMA CountStays ==
    ASSUME CountInv, UNCHANGED <<active, count, proc>>, \A m \in Mail' : m.kind = "ended" => m \in Mail
    PROVE  CountInv'
BY DEF CountInv, CountMatchesActive

LEMMA CountsStart ==
    ASSUME PipelineInv, CountInv, NEW i \in Invs, process_started(i)
    PROVE  CountInv'
<1>0. /\ QueuesTyped /\ Order /\ Places /\ active \in [Invs -> {"none", "running", "ending"}]
      /\ CallsTyped
  BY Parts
<1>1. /\ proc[i] = "none" /\ proc' = [proc EXCEPT ![i] = "alive"]
      /\ active' = [active EXCEPT ![i] = "running"] /\ enqueue_priority_message(Started(i), i)
      /\ count' = IF active[i] = "none" THEN count + 1 ELSE count
      /\ UNCHANGED <<overflow, worker>>
  BY DEF process_started
<1>2. Started(i) \in Msg /\ Started(i).kind = "started" /\ ~IsOutput(Started(i))
  BY MsgMade DEF IsOutput
<1>3. Mail' \subseteq Mail \cup {Started(i)}
  BY <1>0, <1>1, <1>2, Enqueued
<1>4. \A j \in Invs : /\ active'[j] = IF j = i THEN "running" ELSE active[j]
                      /\ proc'[j] = IF j = i THEN "alive" ELSE proc[j]
  BY <1>0, <1>1 DEF CallsTyped
<1>5. Active' = Active \cup {i}
  BY <1>4 DEF Active
<1>6. count = Cardinality(Active)
  BY DEF CountInv, CountMatchesActive, Active
<1>7. count' = Cardinality(Active')
  <2>1. CASE active[i] = "none"
    <3>1. i \notin Active
      BY <2>1 DEF Active
    <3>2. Cardinality(Active \cup {i}) = Cardinality(Active) + 1
      BY <3>1, ActiveCounted, FS_AddElement
    <3> QED
      BY <1>1, <1>5, <1>6, <2>1, <3>2
  <2>2. CASE active[i] # "none"
    <3>1. Active' = Active
      BY <1>5, <2>2 DEF Active
    <3> QED
      BY <1>1, <1>6, <2>2, <3>1
  <2> QED
    BY <2>1, <2>2
<1>8. CountMatchesActive'
  BY <1>7 DEF CountMatchesActive, Active
<1>9. ASSUME NEW m \in Mail', m.kind = "ended" PROVE m.wasActive = TRUE /\ proc'[m.inv] = "dead"
  <2>1. m \in Mail /\ m \in Msg
    BY <1>0, <1>2, <1>3, <1>9, QueueElements DEF QueuesHold
  <2>2. m.wasActive = TRUE /\ proc[m.inv] = "dead" /\ m.inv \in Invs
    BY <1>9, <2>1, MsgFields DEF CountInv
  <2>3. m.inv # i
    BY <1>1, <2>2
  <2> QED
    BY <1>4, <2>2, <2>3
<1> QED
  BY <1>4, <1>8, <1>9 DEF CountInv

LEMMA CountsEnd ==
    ASSUME PipelineInv, CountInv, NEW i \in Invs, process_ended(i)
    PROVE  CountInv'
<1>0. /\ QueuesTyped /\ Order /\ Places /\ active \in [Invs -> {"none", "running", "ending"}]
      /\ CallsTyped
  BY Parts
<1>1. /\ proc[i] = "alive" /\ proc' = [proc EXCEPT ![i] = "dead"]
      /\ active' = [active EXCEPT ![i] = "ending"]
      /\ enqueue_priority_message(Ended(i, active[i] = "running"), i)
      /\ UNCHANGED <<overflow, worker, count>>
  BY DEF process_ended
<1>2. active[i] = "running"
  BY <1>1 DEF CountInv
<1>3. enqueue_priority_message(Ended(i, TRUE), i)
  <2>1. (active[i] = "running") = TRUE
    BY <1>2
  <2> QED
    BY <1>1, <2>1
<1>4. /\ Ended(i, TRUE) \in Msg /\ Ended(i, TRUE).kind = "ended" /\ ~IsOutput(Ended(i, TRUE))
      /\ Ended(i, TRUE).inv = i /\ Ended(i, TRUE).wasActive = TRUE
  BY MsgMade DEF IsOutput
<1>5. Mail' \subseteq Mail \cup {Ended(i, TRUE)}
  BY <1>0, <1>1, <1>3, <1>4, Enqueued
<1>6. \A j \in Invs : /\ active'[j] = IF j = i THEN "ending" ELSE active[j]
                      /\ proc'[j] = IF j = i THEN "dead" ELSE proc[j]
  BY <1>0, <1>1 DEF CallsTyped
<1>7. Active' = Active
  BY <1>2, <1>6 DEF Active
<1>8. CountMatchesActive'
  BY <1>1, <1>7 DEF CountInv, CountMatchesActive, Active
<1>9. ASSUME NEW m \in Mail', m.kind = "ended" PROVE m.wasActive = TRUE /\ proc'[m.inv] = "dead"
  <2>1. CASE m = Ended(i, TRUE)
    BY <1>4, <1>6, <2>1
  <2>2. CASE m # Ended(i, TRUE)
    <3>1. m \in Mail /\ m \in Msg
      BY <1>0, <1>5, <2>2, QueueElements DEF QueuesHold
    <3>2. m.inv \in Invs /\ m.wasActive = TRUE /\ proc[m.inv] = "dead"
      BY <1>9, <3>1, MsgFields DEF CountInv
    <3> QED
      BY <1>6, <3>2
  <2> QED
    BY <2>1, <2>2
<1>10. \A j \in Invs : proc'[j] = "alive" => active'[j] = "running"
  BY <1>6 DEF CountInv
<1> QED
  BY <1>8, <1>9, <1>10 DEF CountInv

\* The creator of a committed end is released.
LEMMA CountsRelease ==
    ASSUME PipelineInv, CountInv, commit_ended
    PROVE  CountInv'
<1> DEFINE m == Head(worker.batch)
<1>0. active \in [Invs -> {"none", "running", "ending"}]
  BY Parts
<1>1. /\ next_message /\ m.kind = "ended" /\ UNCHANGED proc
      /\ release(m) \/ UNCHANGED <<active, count>>
  BY DEF commit_ended, message_lost, missing_row, WorkerOnly
<1>2. m \in Mail /\ m.inv \in Invs
  BY <1>1, HeadOfBatch
<1>3. \A x \in Mail' : x \in Mail
  BY WriterCommits DEF WriterKeeps, Moved
<1>4. m.wasActive = TRUE /\ proc[m.inv] = "dead"
  BY <1>1, <1>2 DEF CountInv
<1>5. CASE UNCHANGED <<active, count>>
  BY <1>1, <1>3, <1>5, CountStays
<1>6. CASE release(m)
  <2>1. /\ active' = [active EXCEPT ![m.inv] = "none"]
        /\ count' = IF m.wasActive /\ active[m.inv] # "none" /\ count > 0 THEN count - 1 ELSE count
    BY <1>6 DEF release
  <2>2. \A j \in Invs : active'[j] = IF j = m.inv THEN "none" ELSE active[j]
    BY <1>0, <1>2, <2>1
  <2>3. Active' = Active \ {m.inv}
    BY <2>2 DEF Active
  <2>4. count = Cardinality(Active)
    BY DEF CountInv, CountMatchesActive, Active
  <2>5. count' = Cardinality(Active')
    <3>1. CASE m.inv \in Active
      <4>1. Cardinality(Active \ {m.inv}) = Cardinality(Active) - 1
        BY <3>1, ActiveCounted, FS_RemoveElement
      <4>2. Cardinality(Active) \in Nat /\ Cardinality(Active') \in Nat
        BY ActiveCounted
      <4>3. count > 0 /\ active[m.inv] # "none"
        BY <2>3, <2>4, <3>1, <4>1, <4>2 DEF Active
      <4>4. count' = count - 1
        BY <1>4, <2>1, <4>3
      <4> QED
        BY <2>3, <2>4, <4>1, <4>4
    <3>2. CASE m.inv \notin Active
      <4>1. Active' = Active /\ active[m.inv] = "none"
        BY <1>2, <2>3, <3>2 DEF Active
      <4> QED
        BY <2>1, <2>4, <4>1
    <3> QED
      BY <3>1, <3>2
  <2>6. CountMatchesActive'
    BY <2>5 DEF CountMatchesActive, Active
  <2>7. \A j \in Invs : proc'[j] = "alive" => active'[j] = "running"
    BY <1>1, <1>4, <2>2 DEF CountInv
  <2>8. \A x \in Mail' : x.kind = "ended" => x.wasActive = TRUE /\ proc'[x.inv] = "dead"
    BY <1>1, <1>3 DEF CountInv
  <2> QED
    BY <2>6, <2>7, <2>8 DEF CountInv
<1> QED
  BY <1>1, <1>5, <1>6

\* A reader sends output only.
LEMMA ReaderMail ==
    ASSUME PipelineInv, NEW i \in Invs,
           observe_output(i) \/ observe_output_complete(i) \/ send_output_completion(i)
    PROVE  \A m \in Mail' : m.kind = "ended" => m \in Mail
<1>0. QueuesTyped /\ lane \in Seq(Msg) /\ ReadersTyped
  BY Parts DEF QueuesTyped
<1>1. UNCHANGED <<priority, worker>>
  BY DEF observe_output, observe_output_complete, send_output_completion
<1>2. SUFFICES \A m \in ToSet(lane') : m.kind = "ended" => m \in ToSet(lane)
  BY <1>1 DEF Mail, Flight
<1>3. ASSUME reading(i)
      PROVE  /\ flushed(i).lane \in Seq(Msg)
             /\ \A m \in ToSet(flushed(i).lane) : m.kind = "ended" => m \in ToSet(lane)
  <2>1. /\ Ordered(lane) /\ \A m \in ToSet(lane) : m.kind = "eof" => m.inv # i
        /\ out[i] \in Nat /\ ToSet(overflow[i]) \subseteq 1..out[i]
    BY <1>3, ReaderAt
  <2>2. /\ flushed(i).lane \in Seq(Msg)
        /\ \A m \in ToSet(flushed(i).lane) :
              m \in ToSet(lane) \/ \E n \in ToSet(overflow[i]) : m = Chunk(i, n)
    BY <1>0, <2>1, FlushedLane
  <2>3. \A n \in ToSet(overflow[i]) : Chunk(i, n).kind = "chunk"
    BY <2>1, MsgMade
  <2> QED
    BY <2>2, <2>3
<1>4. CASE observe_output(i)
  <2>1. reading(i) /\ out[i] \in Nat
    BY <1>0, <1>4 DEF observe_output, ReadersTyped
  <2>2. \/ lane' = lane \/ lane' = flushed(i).lane
        \/ lane' = Append(flushed(i).lane, Chunk(i, out[i] + 1))
    BY <1>4 DEF observe_output
  <2>3. Chunk(i, out[i] + 1) \in Msg /\ Chunk(i, out[i] + 1).kind = "chunk"
    BY <2>1, MsgMade
  <2>4. ToSet(Append(flushed(i).lane, Chunk(i, out[i] + 1)))
            = ToSet(flushed(i).lane) \cup {Chunk(i, out[i] + 1)}
    BY <1>3, <2>1, <2>3, SetOfAppend
  <2> QED
    BY <1>3, <2>1, <2>2, <2>3, <2>4
<1>5. CASE observe_output_complete(i)
  BY <1>3, <1>5 DEF observe_output_complete
<1>6. CASE send_output_completion(i)
  <2> DEFINE b == eof[i] = "exact"
  <2>1. lane' = lane \/ lane' = Append(lane, Eof(i, b))
    BY <1>6 DEF send_output_completion
  <2>2. b \in BOOLEAN
    OBVIOUS
  <2> HIDE DEF b
  <2>3. Eof(i, b) \in Msg /\ Eof(i, b).kind = "eof"
    BY <2>2, MsgMade
  <2>4. ToSet(Append(lane, Eof(i, b))) = ToSet(lane) \cup {Eof(i, b)}
    BY <1>0, <2>3, SetOfAppend
  <2> QED
    BY <2>1, <2>3, <2>4
<1> QED
  BY <1>4, <1>5, <1>6

-----------------------------------------------------------------------------
\* From the drain on, unless the store failed, no capture is pending, and no
\* file evidence once the writer is joined.
Settled ==
    /\ stopping \in {"drained", "sent", "done"} /\ faults = 0 =>
          \A i \in Invs : row[i] # NoRow => row[i].cap # "pending"
    /\ stopping = "done" /\ faults = 0 =>
          \A i \in Invs : row[i] # NoRow => row[i].files # "pending"

\* Nothing new is pending.
Calm ==
    /\ faults' = 0 => faults = 0
    /\ \A i \in Invs : row'[i] # NoRow =>
          /\ row[i] # NoRow /\ (row'[i].cap = "pending" => row[i].cap = "pending")
          /\ row'[i].files = "pending" => row[i].files = "pending"

LEMMA SettledStays == ASSUME Settled, Calm, UNCHANGED stopping PROVE Settled'
BY DEF Settled, Calm

LEMMA KeptIsCalm == ASSUME NEW h, Kept(h) PROVE Calm
BY DEF Kept, KeptRow, Calm

LEMMA UntouchedIsCalm == ASSUME UNCHANGED <<row, faults>> PROVE Calm
BY DEF Calm

LEMMA FlushIsCalm ==
    ASSUME PipelineInv, flush_output_events
    PROVE  Calm /\ \A m \in Mail' : m \in Mail
<1>1. /\ worker' = [worker EXCEPT !.outbuf = <<>>] /\ UNCHANGED <<priority, lane, active, count>> /\ WorkerOnly
  BY OutputFlushed
<1>2. \A m \in Mail' : m \in Mail
  BY <1>1, Parts, Flushed DEF WorkerOnly
<1>3. CASE row' = persist_output_batch(worker.outbuf) /\ UNCHANGED <<health, faults>>
  <2>1. ASSUME NEW i \in Invs, row'[i] # NoRow
        PROVE  /\ row[i] # NoRow /\ (row'[i].cap = "pending" => row[i].cap = "pending")
               /\ row'[i].files = "pending" => row[i].files = "pending"
    <3>1. row[i] # NoRow
      BY <1>3, <2>1, CommittedRow
    <3>2. /\ row'[i].files = row[i].files
          /\ row'[i].cap = capture_after(row[i].cap, Sent(i, "eof"))
      BY <1>3, <3>1, CommittedRow
    <3>3. capture_after(row[i].cap, Sent(i, "eof")) = "pending" => row[i].cap = "pending"
      BY DEF capture_after
    <3> QED
      BY <3>1, <3>2, <3>3
  <2> QED
    BY <1>2, <1>3, <2>1 DEF Calm
<1>4. CASE \E h : /\ Kept(h)
                  /\ h.capture = health.capture \cup {m.inv : m \in ToSet(worker.outbuf)}
  BY <1>2, <1>4, KeptIsCalm
<1> QED
  BY <1>3, <1>4, OutputFlushed

LEMMA DrainSettles ==
    ASSUME PipelineInv, Settled, shutdown_drain
    PROVE  Settled'
<1> DEFINE pending == {i \in Invs : has_row(i) /\ row[i].cap = "pending"}
<1>0. StoreTyped /\ faults \in Nat
  BY Parts DEF StoreTyped
<1>1. /\ stopping' = "drained"
      /\ \/ row' = mark_capture_incomplete(row, pending)
         \/ faults' = faults + 1
  BY DEF shutdown_drain
<1>2. CASE row' = mark_capture_incomplete(row, pending)
  <2> SUFFICES ASSUME NEW i \in Invs, row'[i] # NoRow PROVE row'[i].cap # "pending"
    BY <1>1 DEF Settled
  <2>1. row'[i] = IF i \in pending /\ row[i] # NoRow /\ row[i].cap \in {"pending", "complete"}
                  THEN [row[i] EXCEPT !.cap = "incomplete"] ELSE row[i]
    BY <1>2 DEF mark_capture_incomplete
  <2>2. CASE row[i] # NoRow /\ row[i].cap = "pending"
    <3>1. row[i] \in RowRecord
      BY <1>0, <2>2, RowAt
    <3>2. row'[i] = [row[i] EXCEPT !.cap = "incomplete"]
      BY <2>1, <2>2 DEF has_row
    <3> QED
      BY <3>1, <3>2 DEF RowRecord
  <2>3. CASE row[i] = NoRow \/ row[i].cap # "pending"
    <3>1. row'[i] = row[i]
      BY <2>1, <2>3 DEF has_row
    <3> QED
      BY <2>3, <3>1
  <2> QED
    BY <2>2, <2>3
<1>3. CASE faults' = faults + 1
  BY <1>0, <1>3 DEF Settled
<1> QED
  BY <1>1, <1>2, <1>3

LEMMA JoinSettles ==
    ASSUME PipelineInv, Settled, shutdown_join
    PROVE  Settled'
<1>0. StoreTyped
  BY Parts
<1>1. /\ stopping = "sent" /\ stopping' = "done" /\ UNCHANGED faults
      /\ row' = [i \in Invs |-> IF has_row(i) /\ row[i].files = "pending"
                                THEN [row[i] EXCEPT !.files = "unavailable"] ELSE row[i]]
  BY DEF shutdown_join, troubleVars
<1>2. ASSUME NEW i \in Invs, row'[i] # NoRow
      PROVE  row[i] # NoRow /\ row'[i].cap = row[i].cap /\ row'[i].files # "pending"
  <2>1. CASE row[i] # NoRow /\ row[i].files = "pending"
    <3>1. row[i] \in RowRecord
      BY <1>0, <2>1, RowAt
    <3>2. row'[i] = [row[i] EXCEPT !.files = "unavailable"]
      BY <1>1, <2>1 DEF has_row
    <3> QED
      BY <2>1, <3>1, <3>2 DEF RowRecord
  <2>2. CASE row[i] = NoRow \/ row[i].files # "pending"
    <3>1. row'[i] = row[i]
      BY <1>1, <2>2 DEF has_row
    <3> QED
      BY <1>2, <2>2, <3>1
  <2> QED
    BY <2>1, <2>2
<1> QED
  BY <1>1, <1>2 DEF Settled

-----------------------------------------------------------------------------
LEMMA WriterCounts ==
    ASSUME PipelineInv, CountInv, Settled, Writer
    PROVE  CountInv' /\ Settled'
<1>1. UNCHANGED <<proc, stopping>>
  BY DEF Writer, WorkerOnly, drain_first, receive, drain_late, gather_output, flush_output_events,
         commit_complete, commit_started, commit_ended, finish_batch, run_retention, skip_maintenance,
         worker_exit
<1>2. ASSUME WriterKeeps PROVE Settled' /\ \A m \in Mail' : m \in Mail
  BY <1>1, <1>2, KeptIsCalm, SettledStays DEF WriterKeeps, Moved
<1>3. CASE WriterKeeps /\ UNCHANGED <<active, count>>
  BY <1>1, <1>2, <1>3, CountStays
<1>4. CASE commit_complete \/ commit_started
  <2>1. WriterKeeps
    BY <1>4, WriterCommits
  <2>2. UNCHANGED <<active, count>>
    BY <1>4 DEF commit_complete, commit_started, message_lost, missing_row
  <2> QED
    BY <1>3, <2>1, <2>2
<1>5. CASE commit_ended
  <2>1. WriterKeeps
    BY <1>5, WriterCommits
  <2> QED
    BY <1>2, <1>5, <2>1, CountsRelease
<1>6. CASE flush_output_events
  <2>1. Calm /\ \A m \in Mail' : m \in Mail
    BY <1>6, FlushIsCalm
  <2>2. UNCHANGED <<active, count>>
    BY <1>6 DEF flush_output_events
  <2> QED
    BY <1>1, <2>1, <2>2, CountStays, SettledStays
<1>7. CASE run_retention
  <2>1. /\ UNCHANGED <<priority, lane, active, count, faults>>
        /\ worker' = [worker EXCEPT !.pc = "top", !.idle = FALSE]
        /\ \E gone \in SUBSET removable : row' = [i \in Invs |-> IF i \in gone THEN NoRow ELSE row[i]]
    BY <1>7 DEF run_retention
  <2>2. Calm
    BY <2>1 DEF Calm
  <2>3. worker \in WorkerRecord
    BY Parts
  <2>4. worker'.batch = worker.batch /\ worker'.outbuf = worker.outbuf
    BY <2>1, <2>3 DEF WorkerRecord
  <2>5. Mail' = Mail
    BY <2>1, <2>4 DEF Mail, Flight
  <2> QED
    BY <1>1, <2>1, <2>2, <2>5, CountStays, SettledStays
<1> QED
  BY <1>3, <1>4, <1>5, <1>6, <1>7, WriterTakes, WriterRests DEF Writer

LEMMA ProducersCount ==
    ASSUME PipelineInv, CountInv, Settled, Producers
    PROVE  CountInv' /\ Settled'
<1>0. QueuesTyped /\ Order /\ Places
  BY Parts
<1> PICK i \in Invs :
      \/ begin(i, "exec", "none") \/ begin(i, "patch", "pending")
      \/ \E ok \in BOOLEAN : complete(i, ok)
      \/ process_started(i) \/ process_ended(i)
      \/ observe_output(i) \/ observe_output_complete(i) \/ send_output_completion(i)
  BY DEF Producers
<1>1. CASE begin(i, "exec", "none") \/ begin(i, "patch", "pending")
  <2>1. stopping' = "no" /\ UNCHANGED <<priority, lane, active, count, worker, proc>>
    BY <1>1 DEF begin, queueVars
  <2>2. Mail' = Mail
    BY <2>1 DEF Mail, Flight
  <2>3. Settled'
    BY <2>1 DEF Settled
  <2> QED
    BY <2>1, <2>2, <2>3, CountStays
<1>2. CASE \E ok \in BOOLEAN : complete(i, ok)
  <2>1. PICK ok \in BOOLEAN : complete(i, ok)
    BY <1>2
  <2>2. /\ enqueue_priority_message(Complete(i, ok), i)
        /\ UNCHANGED <<row, overflow, active, count, worker, proc, stopping, faults>>
    BY <2>1 DEF complete, troubleVars
  <2>3. Complete(i, ok) \in Msg /\ Complete(i, ok).kind = "complete" /\ ~IsOutput(Complete(i, ok))
    BY MsgMade DEF IsOutput
  <2>4. Mail' \subseteq Mail \cup {Complete(i, ok)}
    BY <1>0, <2>2, <2>3, Enqueued
  <2> QED
    BY <2>2, <2>3, <2>4, CountStays, UntouchedIsCalm, SettledStays
<1>3. CASE process_started(i)
  <2>1. UNCHANGED <<row, faults, stopping>>
    BY <1>3 DEF process_started, troubleVars
  <2> QED
    BY <1>3, <2>1, CountsStart, UntouchedIsCalm, SettledStays
<1>4. CASE process_ended(i)
  <2>1. UNCHANGED <<row, faults, stopping>>
    BY <1>4 DEF process_ended, troubleVars
  <2> QED
    BY <1>4, <2>1, CountsEnd, UntouchedIsCalm, SettledStays
<1>5. CASE observe_output(i) \/ observe_output_complete(i) \/ send_output_completion(i)
  <2>1. UNCHANGED <<row, faults, stopping, active, count, proc>>
    BY <1>5 DEF observe_output, observe_output_complete, send_output_completion, troubleVars
  <2>2. \A m \in Mail' : m.kind = "ended" => m \in Mail
    BY <1>5, ReaderMail
  <2> QED
    BY <2>1, <2>2, CountStays, UntouchedIsCalm, SettledStays
<1> QED
  BY <1>1, <1>2, <1>3, <1>4, <1>5

LEMMA EndsCount ==
    ASSUME PipelineInv, CountInv, Settled,
           shutdown_drain \/ shutdown_send \/ shutdown_join \/ reopen \/ clear_agent
    PROVE  CountInv' /\ Settled'
<1>1. CASE shutdown_drain
  <2>1. UNCHANGED <<priority, lane, worker, active, count, proc>>
    BY <1>1 DEF shutdown_drain, queueVars
  <2>2. Mail' = Mail
    BY <2>1 DEF Mail, Flight
  <2> QED
    BY <1>1, <2>1, <2>2, DrainSettles, CountStays
<1>2. CASE shutdown_send
  <2>1. /\ lane' = Append(lane, Shutdown) /\ stopping = "drained" /\ stopping' = "sent"
        /\ UNCHANGED <<row, faults, priority, worker, active, count, proc>>
    BY <1>2 DEF shutdown_send, troubleVars
  <2>2. lane \in Seq(Msg) /\ Shutdown \in Msg /\ Shutdown.kind = "shutdown"
    BY Parts, MsgMade DEF QueuesTyped
  <2>3. ToSet(lane') = ToSet(lane) \cup {Shutdown}
    BY <2>1, <2>2, SetOfAppend
  <2>4. \A m \in Mail' : m.kind = "ended" => m \in Mail
    BY <2>1, <2>2, <2>3 DEF Mail, Flight
  <2>5. Settled'
    BY <2>1 DEF Settled
  <2> QED
    BY <2>1, <2>4, <2>5, CountStays
<1>3. CASE shutdown_join
  <2>1. UNCHANGED <<priority, lane, worker, active, count, proc>>
    BY <1>3 DEF shutdown_join, queueVars
  <2>2. Mail' = Mail
    BY <2>1 DEF Mail, Flight
  <2> QED
    BY <1>3, <2>1, <2>2, JoinSettles, CountStays
<1>4. CASE reopen
  <2>1. /\ stopping' = "no" /\ count' = 0 /\ active' = [i \in Invs |-> "none"]
        /\ proc' = [i \in Invs |-> IF proc[i] = "alive" THEN "dead" ELSE proc[i]]
        /\ priority' = <<>> /\ lane' = <<>> /\ worker'.batch = <<>> /\ worker'.outbuf = <<>>
    BY <1>4 DEF reopen, FreshWorker
  <2>2. Mail' = {}
    BY <2>1, SetOfEmpty DEF Mail, Flight
  <2>3. Active' = {}
    BY <2>1 DEF Active
  <2>4. CountMatchesActive'
    BY <2>1, <2>3, FS_EmptySet DEF CountMatchesActive, Active
  <2>5. \A i \in Invs : proc'[i] # "alive"
    BY <2>1
  <2> QED
    BY <2>1, <2>2, <2>4, <2>5 DEF CountInv, Settled
<1>5. CASE clear_agent
  <2>1. /\ row' = [i \in Invs |-> NoRow]
        /\ UNCHANGED <<priority, lane, worker, active, count, proc, stopping, faults>>
    BY <1>5 DEF clear_agent, queueVars, troubleVars
  <2>2. Mail' = Mail /\ Calm
    BY <2>1 DEF Mail, Flight, Calm
  <2> QED
    BY <2>1, <2>2, CountStays, SettledStays
<1> QED
  BY <1>1, <1>2, <1>3, <1>4, <1>5

LEMMA CountsHold == Spec => [](CountInv /\ Settled)
<1>1. Init => CountInv /\ Settled
  <2> SUFFICES ASSUME Init PROVE CountInv /\ Settled
    OBVIOUS
  <2>1. /\ \A i \in Invs : active[i] = "none" /\ proc[i] = "none" /\ row[i] = NoRow
        /\ count = 0 /\ priority = <<>> /\ lane = <<>> /\ worker.batch = <<>> /\ worker.outbuf = <<>>
    BY DEF Init, FreshWorker
  <2>2. Mail = {}
    BY <2>1, SetOfEmpty DEF Mail, Flight
  <2>3. Active = {}
    BY <2>1 DEF Active
  <2>4. CountMatchesActive
    BY <2>1, <2>3, FS_EmptySet DEF CountMatchesActive, Active
  <2> QED
    BY <2>1, <2>2, <2>4 DEF CountInv, Settled
<1>2. PipelineInv /\ (CountInv /\ Settled) /\ [Next]_vars => (CountInv /\ Settled)'
  <2> SUFFICES ASSUME PipelineInv, CountInv, Settled, [Next]_vars PROVE CountInv' /\ Settled'
    OBVIOUS
  <2>1. CASE Next
    BY <2>1, ProducersCount, WriterCounts, EndsCount DEF Next
  <2>2. CASE UNCHANGED vars
    <3>1. UNCHANGED <<row, faults, stopping, priority, lane, worker, active, count, proc>>
      BY <2>2 DEF vars
    <3>2. Mail' = Mail
      BY <3>1 DEF Mail, Flight
    <3> QED
      BY <3>1, <3>2, CountStays, UntouchedIsCalm, SettledStays
  <2> QED
    BY <2>1, <2>2
<1> QED
  BY <1>1, <1>2, PipelineInvariant, PTL DEF Spec

\* The number of active processes clients are shown is that of the processes
\* whose end is not committed (process_started, process_ended, release), in
\* whatever order the messages arrive, get lost or fail.
THEOREM CountSafe == Spec => []CountMatchesActive
<1>1. CountInv => CountMatchesActive
  BY DEF CountInv
<1> QED
  BY <1>1, CountsHold, PTL

\* After a shutdown in which the store did not fail nothing is left pending,
\* and retention never takes the row of a process that runs.
THEOREM RowsAreSettled == Spec => []RowsSettled
<1>1. CountInv /\ Settled => RowsSettled
  <2> SUFFICES ASSUME CountInv, Settled PROVE RowsSettled
    OBVIOUS
  <2>1. LiveRowsKept
    BY DEF LiveRowsKept, removable, CountInv
  <2>2. ShutdownSettles
    BY DEF ShutdownSettles, Settled, has_row
  <2> QED
    BY <2>1, <2>2 DEF RowsSettled
<1> QED
  BY <1>1, CountsHold, PTL

=============================================================================
