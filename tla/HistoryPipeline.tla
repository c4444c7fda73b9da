--------------------------- MODULE HistoryPipeline ---------------------------
(***************************************************************************)
(* The Local evidence pipeline: tool calls, PTY readers and reapers hand   *)
(* messages to one writer thread over a bounded priority queue and a       *)
(* bounded output lane; the writer commits them to the rows of the SQLite  *)
(* store.  Rows survive a crash of the runtime, everything else does not.  *)
(***************************************************************************)
EXTENDS Naturals, Sequences, FiniteSets, SequencesExt

CONSTANTS
    Invs,          \* invocations
    MaxChunks,     \* bound: PTY chunks one command produces
    CaptureMax,    \* OUTPUT_CAPTURE_MAX_BYTES_PER_INVOCATION, in chunks
    OverflowMax,   \* OUTPUT_TRANSIENT_OVERFLOW_MAX_BYTES, in chunks
    PriorityMax,   \* COMPLETION_OVERFLOW_MAX_ITEMS
    LaneCap,       \* output_queue_capacity
    BatchLimit,    \* OUTPUT_BATCH_LIMIT
    MaxTrouble     \* bound: failing store operations and restarts, together

ASSUME HistoryAssumption ==
    /\ {MaxChunks, CaptureMax, OverflowMax, MaxTrouble} \subseteq Nat
    /\ {PriorityMax, LaneCap, BatchLimit} \subseteq Nat \ {0}
    /\ IsFiniteSet(Invs)

VARIABLES
    row,       \* invocations table; NoRow when absent
    priority,  \* completion_overflow
    lane,      \* the sync_channel
    overflow,  \* OutputOverflow::by_invocation
    shed,      \* OutputOverflow::incomplete_reasons
    admitted,  \* OutputOverflow::captured_bytes
    health,    \* HistoryHealth: degraded, evidence and capture sets
    active,    \* active_process_invocation_ids
    count,     \* active_process_count
    worker,    \* the writer: pc, batch, outbuf, shutdown flag
    call, proc, out, eof,   \* producers: tool call, process, reader
    stopping,  \* shutdown_blocking: how far it is
    unmarked,  \* captures certified in the store whose noted loss a crash forgot
    faults, restarts

queueVars == <<priority, lane, overflow, shed, admitted>>
troubleVars == <<unmarked, faults, restarts>>
vars == <<row, priority, lane, overflow, shed, admitted, health, active, count,
          worker, call, proc, out, eof, stopping, unmarked, faults, restarts>>

NoRow == [ev |-> "none"]
\* ev: pending, complete or incomplete; cap: also not_applicable; proc: none,
\* running or final (exited or incomplete); files: none, pending, complete or
\* unavailable; chunks: the output stored.
NewRow(tool, files) ==
    [ev |-> "pending", cap |-> IF tool = "exec" THEN "pending" ELSE "not_applicable",
     proc |-> "none", chunks |-> {}, files |-> files]

Started(i) == [kind |-> "started", inv |-> i]
Ended(i, wasActive) == [kind |-> "ended", inv |-> i, wasActive |-> wasActive]
Complete(i, ok) == [kind |-> "complete", inv |-> i, ok |-> ok]
Chunk(i, n) == [kind |-> "chunk", inv |-> i, seq |-> n]
Eof(i, exact) == [kind |-> "eof", inv |-> i, exact |-> exact]
Shutdown == [kind |-> "shutdown"]

IsOutput(m) == m.kind \in {"chunk", "eof"}
has_row(i) == row[i] # NoRow
trouble == faults + restarts
running == worker.pc # "stopped"
overflowBytes == Cardinality(UNION {{i} \X ToSet(overflow[i]) : i \in Invs})

-----------------------------------------------------------------------------
(* Health and enqueueing, shared by the producers.                         *)

note_evidence_incomplete(i) ==
    [health EXCEPT !.evidence = @ \cup {i}, !.degraded = TRUE]
note_capture_incomplete(i) == [health EXCEPT !.capture = @ \cup {i}]

\* A message that finds both queues full, or no writer, is dropped and noted.
enqueue_priority_message(m, i) ==
    IF running /\ Len(priority) < PriorityMax
    THEN /\ priority' = Append(priority, m)
         /\ UNCHANGED <<lane, health>>
    ELSE IF running /\ Len(lane) < LaneCap
    THEN /\ lane' = Append(lane, m)
         /\ UNCHANGED <<priority, health>>
    ELSE /\ health' = note_evidence_incomplete(i)
         /\ UNCHANGED <<priority, lane>>

\* mandatory envelope: an immediate transaction on a foreground connection.
\* When it fails the call runs without a durable id.
begin(i, tool, files) ==
    /\ call[i] = "new" /\ stopping = "no" /\ running
    /\ \/ /\ row' = [row EXCEPT ![i] = NewRow(tool, files)]
          /\ call' = [call EXCEPT ![i] = tool]
          /\ UNCHANGED <<health, faults>>
       \/ /\ trouble < MaxTrouble /\ faults' = faults + 1
          /\ health' = [health EXCEPT !.degraded = TRUE]
          /\ call' = [call EXCEPT ![i] = "untracked"]
          /\ UNCHANGED row
    /\ UNCHANGED <<queueVars, active, count, worker, proc, out, eof, stopping, unmarked, restarts>>

complete(i, ok) ==
    /\ call[i] \in {"exec", "patch"}
    /\ call' = [call EXCEPT ![i] = IF @ = "patch" THEN "patched"
                                   ELSE IF ok THEN "returned" ELSE "failed"]
    /\ enqueue_priority_message(Complete(i, ok), i)
    /\ UNCHANGED <<row, overflow, shed, admitted, active, count, worker, proc,
                   out, eof, stopping, troubleVars>>

process_started(i) ==
    /\ call[i] = "exec" /\ proc[i] = "none"
    /\ proc' = [proc EXCEPT ![i] = "alive"]
    /\ active' = [active EXCEPT ![i] = "running"]
    /\ count' = IF active[i] = "none" THEN count + 1 ELSE count
    /\ enqueue_priority_message(Started(i), i)
    /\ UNCHANGED <<row, overflow, shed, admitted, worker, call, out, eof, stopping, troubleVars>>

\* Mutant: the creator is released when the end is observed, not committed.
EndReleasesAtOnce(i) ==
    /\ proc[i] = "alive"
    /\ proc' = [proc EXCEPT ![i] = "dead"]
    /\ active' = [active EXCEPT ![i] = "none"]
    /\ enqueue_priority_message(Ended(i, TRUE), i)
    /\ UNCHANGED <<row, overflow, shed, admitted, count, worker, call, out, eof, stopping, troubleVars>>

process_ended(i) ==
    /\ proc[i] = "alive"
    /\ proc' = [proc EXCEPT ![i] = "dead"]
    /\ active' = [active EXCEPT ![i] = "ending"]
    /\ enqueue_priority_message(Ended(i, active[i] = "running"), i)
    /\ UNCHANGED <<row, overflow, shed, admitted, count, worker, call, out, eof, stopping, troubleVars>>

-----------------------------------------------------------------------------
(* The PTY reader: nonblocking, load-shedding.                             *)

reading(i) == call[i] \in {"exec", "returned", "failed"} /\ eof[i] = "open"

\* flush_output_overflow_nonblocking: as much of the overflow as fits.
flushed(i) == LET k == IF Len(overflow[i]) < LaneCap - Len(lane)
                       THEN Len(overflow[i]) ELSE LaneCap - Len(lane)
              IN  [lane |-> lane \o [n \in 1..k |-> Chunk(i, overflow[i][n])],
                   rest |-> SubSeq(overflow[i], k + 1, Len(overflow[i]))]

\* An earlier loss, the capture bound, no writer, or a full overflow: the
\* chunk is omitted and the capture noted incomplete.
observe_output(i) ==
    LET n == out[i] + 1
        f == flushed(i)
        omit == /\ shed' = shed \cup {i}
                /\ health' = note_capture_incomplete(i)
    IN  /\ reading(i) /\ out[i] < MaxChunks
        /\ out' = [out EXCEPT ![i] = n]
        /\ IF i \in shed \/ admitted[i] >= CaptureMax
           THEN omit /\ UNCHANGED <<lane, overflow, admitted>>
           ELSE /\ admitted' = [admitted EXCEPT ![i] = @ + 1]
                /\ IF ~running
                   THEN /\ shed' = shed \cup {i}
                        /\ health' = [note_capture_incomplete(i) EXCEPT !.degraded = TRUE]
                        /\ UNCHANGED <<lane, overflow>>
                   ELSE IF f.rest = <<>> /\ Len(f.lane) < LaneCap
                   THEN /\ lane' = Append(f.lane, Chunk(i, n))
                        /\ overflow' = [overflow EXCEPT ![i] = <<>>]
                        /\ UNCHANGED <<shed, health>>
                   ELSE /\ lane' = f.lane
                        /\ IF overflowBytes - (Len(overflow[i]) - Len(f.rest)) + 1
                                <= OverflowMax
                           THEN /\ overflow' = [overflow EXCEPT ![i] = Append(f.rest, n)]
                                /\ UNCHANGED <<shed, health>>
                           ELSE /\ overflow' = [overflow EXCEPT ![i] = f.rest]
                                /\ omit
        /\ UNCHANGED <<row, priority, active, count, worker, call, proc, eof, stopping, troubleVars>>

\* Mutant: the overflow discarded at EOF does not make the capture inexact.
EofForgetsTail(i) ==
    /\ reading(i) /\ running
    /\ eof' = [eof EXCEPT ![i] = IF i \in shed THEN "gap" ELSE "exact"]
    /\ lane' = flushed(i).lane /\ overflow' = [overflow EXCEPT ![i] = <<>>]
    /\ shed' = shed \ {i} /\ admitted' = [admitted EXCEPT ![i] = 0]
    /\ UNCHANGED <<row, priority, health, active, count, worker, call, proc, out, stopping, troubleVars>>

\* EOF: flush what fits, discard the rest, decide what the marker will say.
observe_output_complete(i) ==
    LET f == flushed(i)
        exact == i \notin shed /\ f.rest = <<>>
    IN  /\ reading(i)
        /\ overflow' = [overflow EXCEPT ![i] = <<>>]
        /\ IF ~running
           THEN /\ shed' = shed \cup {i}
                /\ health' = [note_capture_incomplete(i) EXCEPT !.degraded = TRUE]
                /\ eof' = [eof EXCEPT ![i] = "sent"]
                /\ UNCHANGED <<lane, admitted>>
           ELSE /\ shed' = shed \ {i}
                /\ admitted' = [admitted EXCEPT ![i] = 0]
                /\ lane' = f.lane
                /\ eof' = [eof EXCEPT ![i] = IF exact THEN "exact" ELSE "gap"]
                /\ UNCHANGED health
        /\ UNCHANGED <<row, priority, active, count, worker, call, proc, out, stopping, troubleVars>>

\* The writer may have drained the lane, or stopped, in between.
send_output_completion(i) ==
    /\ eof[i] \in {"exact", "gap"}
    /\ eof' = [eof EXCEPT ![i] = "sent"]
    /\ IF running /\ Len(lane) < LaneCap
       THEN /\ lane' = Append(lane, Eof(i, eof[i] = "exact"))
            /\ UNCHANGED <<health, shed>>
       ELSE /\ health' = [note_capture_incomplete(i) EXCEPT !.degraded = @ \/ ~running]
            /\ shed' = IF running THEN shed ELSE shed \cup {i}
            /\ UNCHANGED lane
    /\ UNCHANGED <<row, priority, overflow, admitted, active, count, worker, call, proc,
                   out, stopping, troubleVars>>

-----------------------------------------------------------------------------
(* Store operations on the rows.                                           *)

\* An exact end of output certifies a pending capture, an inexact one flags it.
capture_after(cap, ends) ==
    IF cap \in {"pending", "complete"} /\ \E m \in ends : ~m.exact THEN "incomplete"
    ELSE IF cap = "pending" /\ ends # {} THEN "complete"
    ELSE cap

\* One transaction for the output events of a batch; an update that matches no
\* row changes nothing.
persist_output_batch(events) ==
    LET sent(i, kind) == {m \in ToSet(events) : m.kind = kind /\ m.inv = i}
    IN  [i \in Invs |->
            IF row[i] = NoRow THEN NoRow
            ELSE [row[i] EXCEPT !.chunks = @ \cup {m.seq : m \in sent(i, "chunk")},
                                !.cap = capture_after(@, sent(i, "eof"))]]

store_complete(i, ok, filesOk) ==
    [row EXCEPT ![i].ev = "complete",
                ![i].cap = IF ~ok /\ @ = "pending" THEN "complete" ELSE @,
                ![i].files = IF @ # "pending" THEN @
                             ELSE IF filesOk THEN "complete" ELSE "unavailable"]

mark_capture_incomplete(r, S) ==
    [i \in Invs |-> IF i \in S /\ r[i] # NoRow /\ r[i].cap \in {"pending", "complete"}
                    THEN [r[i] EXCEPT !.cap = "incomplete"] ELSE r[i]]
mark_evidence_incomplete(r, S) ==
    [i \in Invs |-> IF i \in S /\ r[i] # NoRow
                    THEN [r[i] EXCEPT !.ev = "incomplete"] ELSE r[i]]

\* Mutant: only capture failures are persisted.
PersistCaptureOnly(r, h) ==
    /\ row' = mark_capture_incomplete(r, h.capture)
    /\ health' = [h EXCEPT !.capture = {}]
    /\ UNCHANGED faults

\* persist_degraded_state when degraded, persist_capture_failures always; a
\* store that fails keeps the capture set for the next pass.
persist_health(r, h) ==
    LET marked == IF h.degraded THEN mark_evidence_incomplete(r, h.evidence) ELSE r
    IN  \/ /\ row' = mark_capture_incomplete(marked, h.capture)
           /\ health' = [h EXCEPT !.capture = {}]
           /\ UNCHANGED faults
        \/ /\ h.degraded \/ h.capture # {}
           /\ trouble < MaxTrouble /\ faults' = faults + 1
           /\ row' = r /\ health' = h

\* degrade_persisting after a failed store operation.
fail_store(h) ==
    /\ trouble < MaxTrouble
    /\ \/ /\ row' = mark_capture_incomplete(mark_evidence_incomplete(row, h.evidence), h.capture)
          /\ health' = [h EXCEPT !.capture = {}, !.degraded = TRUE]
          /\ faults' = faults + 1
       \/ /\ trouble + 1 < MaxTrouble
          /\ row' = row /\ health' = [h EXCEPT !.degraded = TRUE]
          /\ faults' = faults + 2

-----------------------------------------------------------------------------
(* The writer thread.                                                      *)

Take(s, k) == SubSeq(s, 1, IF Len(s) < k THEN Len(s) ELSE k)
Drop(s, k) == SubSeq(s, (IF Len(s) < k THEN Len(s) ELSE k) + 1, Len(s))
WorkerOnly == UNCHANGED <<overflow, shed, admitted, call, proc, out, eof, stopping, unmarked, restarts>>

drain_first ==
    /\ worker.pc = "top"
    /\ worker' = [worker EXCEPT !.pc = "recv", !.batch = Take(priority, BatchLimit)]
    /\ priority' = Drop(priority, BatchLimit)
    /\ UNCHANGED <<row, lane, health, active, count, faults>> /\ WorkerOnly

\* recv_timeout, then try_recv until the batch is full, the lane is empty or
\* the shutdown marker is met.
receive ==
    /\ worker.pc = "recv"
    /\ IF Len(worker.batch) >= BatchLimit \/ lane = <<>>
       THEN worker' = [worker EXCEPT !.pc = "late"] /\ UNCHANGED lane
       ELSE /\ lane' = Tail(lane)
            /\ worker' = IF Head(lane).kind = "shutdown"
                         THEN [worker EXCEPT !.pc = "late", !.shut = TRUE]
                         ELSE [worker EXCEPT !.batch = Append(@, Head(lane))]
    /\ UNCHANGED <<row, priority, health, active, count, faults>> /\ WorkerOnly

\* What the priority queue holds by now goes in front of the whole batch.
drain_late ==
    /\ worker.pc = "late"
    /\ worker' = [worker EXCEPT !.pc = "work",
                                !.idle = priority = <<>> /\ worker.batch = <<>>,
                                !.batch = Take(priority, BatchLimit) \o @]
    /\ priority' = Drop(priority, BatchLimit)
    /\ UNCHANGED <<row, lane, health, active, count, faults>> /\ WorkerOnly

\* Output events gather until a lifecycle message or the end of the batch.
flush_due == /\ worker.pc = "work" /\ worker.outbuf # <<>>
             /\ \A m \in ToSet(Take(worker.batch, 1)) : ~IsOutput(m)

gather_output ==
    /\ worker.pc = "work" /\ worker.batch # <<>> /\ IsOutput(Head(worker.batch))
    /\ worker' = [worker EXCEPT !.outbuf = Append(@, Head(worker.batch)),
                                !.batch = Tail(@)]
    /\ UNCHANGED <<row, priority, lane, health, active, count, faults>> /\ WorkerOnly

\* One transaction: a chunk whose row is gone fails the foreign key, and with
\* it the whole batch.
flush_output_events ==
    LET lost == [health EXCEPT !.capture = @ \cup {m.inv : m \in ToSet(worker.outbuf)}]
        orphan == \E m \in ToSet(worker.outbuf) : m.kind = "chunk" /\ ~has_row(m.inv)
    IN  /\ flush_due
        /\ worker' = [worker EXCEPT !.outbuf = <<>>]
        /\ \/ /\ ~orphan
              /\ row' = persist_output_batch(worker.outbuf) /\ UNCHANGED <<health, faults>>
           \/ ~orphan /\ fail_store(lost)
           \/ orphan /\ persist_health(row, [lost EXCEPT !.degraded = TRUE])
        /\ UNCHANGED <<priority, lane, active, count>> /\ WorkerOnly

next_message == worker.pc = "work" /\ ~flush_due /\ worker.batch # <<>>
                /\ worker' = [worker EXCEPT !.batch = Tail(@)]
message_lost(i) ==
    /\ fail_store([health EXCEPT !.evidence = @ \cup {i}])
    /\ UNCHANGED <<active, count>>

\* A row that retention or clearing removed makes the update fail.
missing_row(i) ==
    /\ persist_health(row, note_evidence_incomplete(i))
    /\ UNCHANGED <<active, count>>

commit_complete ==
    /\ next_message
    /\ LET m == Head(worker.batch) IN
        /\ m.kind = "complete"
        /\ \/ /\ has_row(m.inv)
              /\ \E filesOk \in BOOLEAN : row' = store_complete(m.inv, m.ok, filesOk)
              /\ UNCHANGED <<health, active, count, faults>>
           \/ has_row(m.inv) /\ message_lost(m.inv)
           \/ ~has_row(m.inv) /\ missing_row(m.inv)
    /\ UNCHANGED <<priority, lane>> /\ WorkerOnly

commit_started ==
    /\ next_message
    /\ LET m == Head(worker.batch) IN
        /\ m.kind = "started"
        /\ \/ /\ has_row(m.inv)
              /\ row' = [row EXCEPT ![m.inv].proc = "running"]
              /\ UNCHANGED <<health, active, count, faults>>
           \/ has_row(m.inv) /\ message_lost(m.inv)
           \/ ~has_row(m.inv) /\ missing_row(m.inv)
    /\ UNCHANGED <<priority, lane>> /\ WorkerOnly

release(m) ==
    /\ active' = [active EXCEPT ![m.inv] = "none"]
    /\ count' = IF m.wasActive /\ active[m.inv] # "none" /\ count > 0
                THEN count - 1 ELSE count

commit_ended ==
    /\ next_message
    /\ LET m == Head(worker.batch) IN
        /\ m.kind = "ended"
        /\ \/ /\ has_row(m.inv)
              /\ row' = [row EXCEPT ![m.inv].proc = "final"]
              /\ release(m) /\ UNCHANGED <<health, faults>>
           \/ has_row(m.inv) /\ message_lost(m.inv)
           \/ ~has_row(m.inv) /\ missing_row(m.inv)
    /\ UNCHANGED <<priority, lane>> /\ WorkerOnly

finish_batch ==
    /\ worker.pc = "work" /\ worker.batch = <<>> /\ worker.outbuf = <<>>
    /\ persist_health(row, health)
    /\ worker' = [worker EXCEPT !.pc = IF worker.shut THEN "exit" ELSE "maintain"]
    /\ UNCHANGED <<priority, lane, active, count>> /\ WorkerOnly

\* Retention, only while the writer is idle: by age or by size, any settled
\* rows whose process is not active.
removable == {i \in Invs : /\ has_row(i) /\ row[i].ev # "pending"
                           /\ row[i].cap # "pending" /\ active[i] = "none"}
run_retention ==
    /\ worker.pc = "maintain" /\ worker.idle
    /\ \E gone \in SUBSET removable :
         /\ gone # {}
         /\ row' = [i \in Invs |-> IF i \in gone THEN NoRow ELSE row[i]]
    /\ worker' = [worker EXCEPT !.pc = "top", !.idle = FALSE]
    /\ UNCHANGED <<priority, lane, health, active, count, faults>> /\ WorkerOnly

skip_maintenance ==
    /\ worker.pc = "maintain"
    /\ worker' = [worker EXCEPT !.pc = "top", !.idle = FALSE]
    /\ UNCHANGED <<row, priority, lane, health, active, count, faults>> /\ WorkerOnly

worker_exit ==
    /\ worker.pc = "exit"
    /\ \/ health.degraded /\ persist_health(row, health)
       \/ ~health.degraded /\ UNCHANGED <<row, health, faults>>
    /\ worker' = [worker EXCEPT !.pc = "stopped"]
    /\ UNCHANGED <<priority, lane, active, count>> /\ WorkerOnly

-----------------------------------------------------------------------------
(* Shutdown, restart and clearing.                                         *)

\* Mutant: the deadline gives up without marking what is still pending.
DrainGivesUp ==
    /\ stopping = "no" /\ running
    /\ stopping' = "drained"
    /\ UNCHANGED <<row, queueVars, health, active, count, worker, call, proc, out, eof, troubleVars>>

\* The runtime shuts history down after the service stopped admitting calls.
\* Polling ends when no capture is pending, or at the deadline, which marks
\* the pending ones incomplete.
shutdown_drain ==
    /\ stopping = "no" /\ running
    /\ stopping' = "drained"
    /\ LET pending == {i \in Invs : has_row(i) /\ row[i].cap = "pending"}
       IN  \/ row' = mark_capture_incomplete(row, pending) /\ UNCHANGED faults
           \/ trouble < MaxTrouble /\ faults' = faults + 1 /\ UNCHANGED row
    /\ UNCHANGED <<queueVars, health, active, count, worker, call, proc, out, eof, unmarked, restarts>>

shutdown_send ==
    /\ stopping = "drained" /\ Len(lane) < LaneCap
    /\ lane' = Append(lane, Shutdown) /\ stopping' = "sent"
    /\ UNCHANGED <<row, priority, overflow, shed, admitted, health, active, count,
                   worker, call, proc, out, eof, troubleVars>>

shutdown_join ==
    /\ stopping = "sent" /\ ~running
    /\ stopping' = "done"
    /\ row' = [i \in Invs |-> IF has_row(i) /\ row[i].files = "pending"
                              THEN [row[i] EXCEPT !.files = "unavailable"] ELSE row[i]]
    /\ UNCHANGED <<queueVars, health, active, count, worker, call, proc, out, eof, troubleVars>>

recovered(r) == IF r = NoRow THEN r ELSE
    [r EXCEPT !.ev = IF @ = "pending" THEN "incomplete" ELSE @,
              !.cap = IF @ = "pending" THEN "incomplete" ELSE @,
              !.proc = IF @ = "running" THEN "final" ELSE @,
              !.files = IF @ = "pending" THEN "unavailable" ELSE @]

FreshWorker == [pc |-> "top", batch |-> <<>>, outbuf |-> <<>>, shut |-> FALSE, idle |-> FALSE]

\* A crash or a stop, then the next runtime opens the store.  The calls,
\* processes and readers of the old runtime are gone, and so is what was noted as
\* lost: recovery flags a capture that is pending, not one that is certified.
reopen ==
    /\ trouble < MaxTrouble /\ restarts' = restarts + 1
    /\ row' = [i \in Invs |-> recovered(row[i])]
    /\ priority' = <<>> /\ lane' = <<>> /\ overflow' = [i \in Invs |-> <<>>]
    /\ shed' = {} /\ admitted' = [i \in Invs |-> 0]
    /\ health' = [degraded |-> FALSE, evidence |-> {}, capture |-> {}]
    /\ active' = [i \in Invs |-> "none"] /\ count' = 0
    /\ worker' = FreshWorker /\ stopping' = "no"
    /\ call' = [i \in Invs |-> IF call[i] = "new" THEN "new" ELSE
                                IF call[i] \in {"failed", "untracked"} THEN call[i] ELSE
                                IF call[i] \in {"patch", "patched"} THEN "patched" ELSE "over"]
    /\ proc' = [i \in Invs |-> IF proc[i] = "alive" THEN "dead" ELSE proc[i]]
    /\ eof' = [i \in Invs |-> IF call[i] = "new" THEN "open" ELSE "sent"]
    /\ unmarked' = unmarked \cup {i \in health.capture : has_row(i) /\ row[i].cap = "complete"}
    /\ UNCHANGED <<out, faults>>

\* The clear command, on a connection of its own: the whole history of an
\* agent, here all rows, and only when none of it is unfinished.
clear_agent ==
    /\ \E i \in Invs : has_row(i)
    /\ \A i \in Invs : has_row(i) =>
          /\ row[i].ev # "pending" /\ row[i].cap # "pending" /\ row[i].proc # "running"
    /\ row' = [i \in Invs |-> NoRow]
    /\ UNCHANGED <<queueVars, health, active, count, worker, call, proc, out, eof,
                   stopping, troubleVars>>

Init ==
    /\ row = [i \in Invs |-> NoRow]
    /\ priority = <<>> /\ lane = <<>> /\ overflow = [i \in Invs |-> <<>>]
    /\ shed = {} /\ admitted = [i \in Invs |-> 0]
    /\ health = [degraded |-> FALSE, evidence |-> {}, capture |-> {}]
    /\ active = [i \in Invs |-> "none"] /\ count = 0
    /\ worker = FreshWorker
    /\ call = [i \in Invs |-> "new"] /\ proc = [i \in Invs |-> "none"]
    /\ out = [i \in Invs |-> 0] /\ eof = [i \in Invs |-> "open"]
    /\ stopping = "no" /\ unmarked = {} /\ faults = 0 /\ restarts = 0

Producers ==
    \E i \in Invs :
        \/ begin(i, "exec", "none")
        \/ begin(i, "patch", "pending")
        \/ \E ok \in BOOLEAN : complete(i, ok)
        \/ process_started(i) \/ process_ended(i)
        \/ observe_output(i) \/ observe_output_complete(i) \/ send_output_completion(i)

Writer ==
    \/ drain_first \/ receive \/ drain_late \/ gather_output \/ flush_output_events
    \/ commit_complete \/ commit_started \/ commit_ended \/ finish_batch
    \/ run_retention \/ skip_maintenance \/ worker_exit

Next == Producers \/ Writer \/ shutdown_drain \/ shutdown_send \/ shutdown_join
        \/ reopen \/ clear_agent

\* The writer thread keeps running; nobody owes history a call or a restart.
Fairness == WF_vars(Writer) /\ WF_vars(shutdown_send) /\ WF_vars(shutdown_join)
Spec == Init /\ [][Next]_vars /\ Fairness
-----------------------------------------------------------------------------
\* The number of active processes shown to clients never drifts from the
\* processes whose end is not committed yet, whatever is lost or fails.
CountMatchesActive == count = Cardinality({i \in Invs : active[i] # "none"})

\* No row that retention may remove is that of a process that still runs.
LiveRowsKept == \A i \in removable : proc[i] # "alive"

\* When shutdown_blocking returned and no store operation failed, no capture
\* and no file evidence is left pending.
ShutdownSettles ==
    stopping = "done" /\ faults = 0 =>
        \A i \in Invs : has_row(i) => row[i].cap # "pending" /\ row[i].files # "pending"

\* No row outlives its certainty and no live process loses its row.
RowsSettled == ShutdownSettles /\ LiveRowsKept

\* A dropped lifecycle message is eventually marked in its row, unless the
\* row is gone, or the writer stopped or restarted first.
LossMarked ==
    \A i \in Invs : i \in health.evidence /\ running
        ~> \/ ~running \/ i \notin health.evidence
           \/ ~has_row(i) \/ row[i].ev = "incomplete"

\* The blocking send of the shutdown marker always gets through, and the
\* writer thread is joined.
ShutdownTerminates == stopping = "drained" ~> stopping \in {"done", "no"}

\* The writer gets to what was lost and to its own end.
WriterProgresses == LossMarked /\ ShutdownTerminates

\* Between two batches, a process whose end was observed and released is not
\* shown as running.
EndIsFinal ==
    \A i \in Invs : /\ worker.pc = "top" /\ has_row(i)
                    /\ proc[i] = "dead" /\ active[i] = "none"
                    => row[i].proc # "running"

-----------------------------------------------------------------------------
(* The ledger this pipeline implements: a noted gap counts as flagged, and *)
(* the capture of a call that failed makes no claim.                       *)
capture_verdict(i) ==
    CASE call[i] \in {"new", "untracked", "patch", "patched"} -> "none"
      [] call[i] \notin {"new", "untracked", "patch", "patched"} /\ ~has_row(i) -> "gone"
      [] has_row(i) /\ call[i] = "failed" -> "void"
      [] has_row(i) /\ call[i] \in {"exec", "returned", "over"} ->
            IF i \in health.capture \cup unmarked THEN "gap"
            ELSE CASE row[i].cap = "pending" -> "open"
                   [] row[i].cap = "complete" -> "complete"
                   [] row[i].cap = "incomplete" -> "gap"

Ledger == INSTANCE CaptureLedger WITH
    Captures <- Invs, produced <- out,
    stored <- [i \in Invs |-> IF has_row(i) THEN row[i].chunks ELSE {}],
    verdict <- [i \in Invs |-> capture_verdict(i)]

\* A capture certified complete is exact, and is never certified again once a
\* gap was flagged, through overload, store failures, shutdown and crashes; but
\* for those in unmarked: a failed batch whose correction failed too is only noted
\* in memory, a later batch certifies the capture, and a crash forgets the note.
CaptureIsExact == Ledger!Spec
=============================================================================
