---------------------------- MODULE OutputBuffer ----------------------------
(***************************************************************************)
(* The output of one session: the reader that decodes what the command     *)
(* writes, tells the observer and appends to the buffer; the buffer, which *)
(* keeps a tail in memory and spills everything to a file when it grows    *)
(* too long; the callers that append notices and take snapshots; and the   *)
(* wait for the reader after the command has exited.                       *)
(*                                                                         *)
(* Bytes are "n" (a newline), "M" (the first byte of a three byte          *)
(* character) and "C" (a continuation byte).  A decoded character carries  *)
(* the stream it came from: "n", "w" (a whole three byte character) or "?" *)
(* (the replacement character, three bytes too).                           *)
(***************************************************************************)
EXTENDS Naturals, Sequences, SequencesExt

CONSTANTS MaxText,      \* max_chars: bytes kept in memory
          MaxSpill,     \* OUTPUT_SPILL_MAX_BYTES
          MaxRead,      \* bound: bytes the command writes in all
          ReadSize,     \* bound: bytes one read returns at most
          MaxNotices,   \* bound: notices appended by calls
          MaxFailures   \* bound: failing file operations

ASSUME OutputAssumption ==
    /\ MaxText \in Nat /\ MaxSpill \in Nat /\ MaxRead \in Nat /\ ReadSize \in Nat
    /\ MaxNotices \in Nat /\ MaxFailures \in Nat

VARIABLES streams,    \* {"pty"} on Unix, {"stdout", "stderr"} elsewhere
          raw,        \* per stream, the bytes read so far
          reader,     \* [pc, chunk, pending, open]
          exited,     \* the command has exited
          observed,   \* what the observer was told
          buffer,     \* OutputState
          full,       \* everything ever appended
          caller,     \* the call that waits for the final output
          notices, failures

outputVars == <<streams, raw, reader, exited, observed, buffer, full, caller,
                notices, failures>>

Unix == {"pty"}
Pipes == {"stdout", "stderr"}

-----------------------------------------------------------------------------
(* Decoding.                                                               *)

\* Byte i continues the character that an M before it began.
continues(bytes, i) ==
    /\ bytes[i] = "C"
    /\ \/ i > 1 /\ bytes[i - 1] = "M"
       \/ i > 2 /\ bytes[i - 1] = "C" /\ bytes[i - 2] = "M"

\* The characters of a complete text, malformed parts replaced.
decode(bytes, from) ==
    LET whole(i) == i + 2 <= Len(bytes) /\ continues(bytes, i + 1) /\ continues(bytes, i + 2)
        char(i) == IF bytes[i] = "n" THEN "n"
                   ELSE IF bytes[i] = "M" /\ whole(i) THEN "w" ELSE "?"
        starts == {i \in DOMAIN bytes : ~continues(bytes, i)}
        at == SetToSortSeq(starts, <)
    IN  [k \in DOMAIN at |-> [c |-> char(at[k]), from |-> from]]

\* The unfinished character at the end, which has to wait for more bytes.
unfinished(bytes) ==
    LET tail(k) == SubSeq(bytes, Len(bytes) - k + 1, Len(bytes))
    IN  IF Len(bytes) >= 1 /\ tail(1) = <<"M">> THEN tail(1)
        ELSE IF Len(bytes) >= 2 /\ tail(2) = <<"M", "C">> THEN tail(2) ELSE <<>>

decoder_push(pending, bytes, from) ==
    LET joined == pending \o bytes
        rest == unfinished(joined)
    IN  [text |-> decode(SubSeq(joined, 1, Len(joined) - Len(rest)), from),
         pending |-> rest]

finish(pending, from) ==
    IF pending = <<>> THEN <<>> ELSE <<[c |-> "?", from |-> from]>>

-----------------------------------------------------------------------------
(* The buffer.                                                             *)

size(text) == LET narrow == Len(SelectSeq(text, LAMBDA x : x.c = "n"))
              IN  narrow + 3 * (Len(text) - narrow)
first(text, k) == SubSeq(text, 1, k)

\* How many characters have to go so that at least idx bytes are gone.
next_char_boundary(text, idx) ==
    CHOOSE k \in 0..Len(text) :
        /\ size(first(text, k)) >= idx
        /\ \A j \in 0..(k - 1) : size(first(text, j)) < idx

\* The spill file takes whole characters up to its limit and is marked
\* truncated by the first one that does not fit.
append_to_spill(spill, text) ==
    LET room == MaxSpill - size(spill.file)
        k == CHOOSE k \in 0..Len(text) :
                /\ size(first(text, k)) <= room
                /\ k < Len(text) => size(first(text, k + 1)) > room
    IN  IF spill.truncated \/ text = <<>> THEN spill
        ELSE [spill EXCEPT !.file = @ \o first(text, k), !.truncated = k < Len(text)]

NoSpill == [state |-> "none", file |-> <<>>, truncated |-> FALSE]
FailedSpill == [NoSpill EXCEPT !.state = "failed"]

start_output_spill(text, chunk) ==
    append_to_spill(append_to_spill([NoSpill EXCEPT !.state = "open"], text), chunk)

lines(b) == IF b.chars = 0 THEN 0 ELSE b.newlines + (IF b.ends THEN 0 ELSE 1)

\* What append leaves, given the spill file it ends up with.
appended(chunk, spill) ==
    LET text == buffer.text \o chunk
        cut == IF size(text) <= MaxText THEN 0
               ELSE next_char_boundary(text, size(text) - MaxText)
    IN  [text |-> SubSeq(text, cut + 1, Len(text)),
         dropped |-> buffer.dropped + size(first(text, cut)),
         chars |-> buffer.chars + Len(chunk),
         newlines |-> buffer.newlines + Len(SelectSeq(chunk, LAMBDA x : x.c = "n")),
         ends |-> IF chunk = <<>> THEN buffer.ends ELSE Last(chunk).c = "n",
         spill |-> spill]

\* One call of append, under the buffer's lock.  A failing file operation
\* removes the file and gives up on it for good.
append(chunk) ==
    LET overflows == size(buffer.text) + size(chunk) > MaxText
        begins == overflows /\ buffer.spill.state = "none"
        uses == begins \/ buffer.spill.state = "open"
        next == IF begins THEN start_output_spill(buffer.text, chunk)
                ELSE IF uses THEN append_to_spill(buffer.spill, chunk) ELSE buffer.spill
    IN  /\ full' = full \o chunk
        /\ \/ buffer' = appended(chunk, next) /\ UNCHANGED failures
           \/ /\ uses /\ failures < MaxFailures
              /\ failures' = failures + 1
              /\ buffer' = appended(chunk, FailedSpill)

\* What a caller gets: the tail, and the file's length and number of lines.
snapshot == [text |-> full, shown |-> buffer.text, spill |-> buffer.spill,
             chars |-> buffer.chars, lines |-> lines(buffer)]

-----------------------------------------------------------------------------
OutputInit ==
    /\ streams \in {Unix, Pipes}
    /\ raw = [s \in streams |-> <<>>]
    /\ reader = [pc |-> "read", chunk |-> <<>>, pending |-> [s \in streams |-> <<>>],
                 open |-> streams]
    /\ exited = FALSE
    /\ observed = <<>>
    /\ buffer = [text |-> <<>>, dropped |-> 0, chars |-> 0, newlines |-> 0,
                 ends |-> FALSE, spill |-> NoSpill]
    /\ full = <<>>
    /\ caller = [pc |-> "idle", notified |-> FALSE, reply |-> <<>>]
    /\ notices = 0 /\ failures = 0

\* The reader tells the observer, then appends what is not empty.
tells(text, next) ==
    /\ observed' = observed \o text
    /\ reader' = [next EXCEPT !.pc = "append", !.chunk = text]

\* A read returns some bytes; characters cut in two wait in the decoder.
read(s, bytes) ==
    LET d == decoder_push(reader.pending[s], bytes, s)
    IN  /\ reader.pc = "read" /\ s \in reader.open
        /\ raw' = [raw EXCEPT ![s] = @ \o bytes]
        /\ tells(d.text, [reader EXCEPT !.pending[s] = d.pending])
        /\ UNCHANGED <<streams, exited, buffer, full, caller, notices, failures>>

\* append, after a read or after the last piece of a stream.
append_chunk ==
    /\ reader.pc = "append"
    /\ append(reader.chunk)
    /\ reader' = [reader EXCEPT !.chunk = <<>>,
                                !.pc = IF reader.open # {} THEN "read"
                                       ELSE IF reader.pending = [s \in streams |-> <<>>]
                                       THEN "complete" ELSE "finish"]
    /\ UNCHANGED <<streams, raw, exited, observed, caller, notices>>

\* End of file or an error on one stream: everything that held it has closed
\* it.  After the last one the decoders are finished.
end_of_file(s) ==
    /\ reader.pc = "read" /\ s \in reader.open
    /\ reader' = [reader EXCEPT !.open = @ \ {s},
                                !.pc = IF reader.open = {s} THEN "finish" ELSE "read"]
    /\ UNCHANGED <<streams, raw, exited, observed, buffer, full, caller, notices, failures>>

\* The rest of one decoder, stdout before stderr.
finish_decoder ==
    LET left == {s \in streams : reader.pending[s] # <<>>}
        s == IF "stdout" \in left THEN "stdout" ELSE CHOOSE x \in left : TRUE
    IN  /\ reader.pc = "finish"
        /\ IF left = {} THEN reader' = [reader EXCEPT !.pc = "complete"] /\ UNCHANGED observed
           ELSE tells(finish(reader.pending[s], s), [reader EXCEPT !.pending[s] = <<>>])
        /\ UNCHANGED <<streams, raw, exited, buffer, full, caller, notices, failures>>

\* observe_output_complete, and the flag that says so ...
mark_reader_done ==
    /\ reader.pc = "complete"
    /\ reader' = [reader EXCEPT !.pc = "notify"]
    /\ UNCHANGED <<streams, raw, exited, observed, buffer, full, caller, notices, failures>>

\* ... and notify_waiters, which wakes whoever is registered by now.
notify_waiters ==
    /\ reader.pc = "notify"
    /\ reader' = [reader EXCEPT !.pc = "done"]
    /\ caller' = [caller EXCEPT !.notified = caller.pc \in {"recheck", "waiting"}]
    /\ UNCHANGED <<streams, raw, exited, observed, buffer, full, notices, failures>>

reader_done == reader.pc \in {"notify", "done"}

\* The command exits; a descendant may keep the terminal open.
exits ==
    /\ ~exited
    /\ exited' = TRUE
    /\ UNCHANGED <<streams, raw, reader, observed, buffer, full, caller, notices, failures>>

\* kill_process and the time limit append a notice from the calling thread.
append_notice ==
    /\ notices < MaxNotices
    /\ notices' = notices + 1
    /\ append(<<[c |-> "n", from |-> "zodexd"]>>)
    /\ UNCHANGED <<streams, raw, reader, exited, observed, caller>>

Waits(pc) ==
    /\ caller' = [caller EXCEPT !.pc = pc]
    /\ UNCHANGED <<streams, raw, reader, exited, observed, buffer, full, notices, failures>>

Replies(how) ==
    /\ caller' = [caller EXCEPT !.pc = "replied", !.reply = [how |-> how] @@ snapshot]
    /\ UNCHANGED <<streams, raw, reader, exited, observed, buffer, full, notices, failures>>

\* wait_for_reader_done: a first look, ...
first_look ==
    /\ caller.pc = "idle" /\ exited
    /\ IF reader_done THEN Replies("drained") ELSE Waits("register")

\* ... the registration (Notified is told of every notify_waiters that comes
\* after it was made), ...
notified == caller.pc = "register" /\ Waits("recheck")

\* Mutant: no second look.
NoSecondLook == caller.pc = "recheck" /\ Waits("waiting")
\* ... a second look, ...
second_look ==
    /\ caller.pc = "recheck"
    /\ IF reader_done THEN Replies("drained") ELSE Waits("waiting")

\* ... and the wait, which is bounded.
woken == caller.pc = "waiting" /\ caller.notified /\ Replies("drained")
times_out == caller.pc = "waiting" /\ ~caller.notified /\ Replies("late")

total_read == FoldFunction(LAMBDA bytes, sum : Len(bytes) + sum, 0, raw)

OutputNext ==
    \/ \E s \in streams : end_of_file(s)
    \/ \E s \in streams : \E bytes \in SeqOf({"n", "M", "C"}, ReadSize) \ {<<>>} :
         /\ Len(bytes) + total_read <= MaxRead
         /\ read(s, bytes)
    \/ append_chunk \/ finish_decoder \/ mark_reader_done \/ notify_waiters
    \/ exits \/ append_notice
    \/ first_look \/ notified \/ second_look \/ woken \/ times_out

-----------------------------------------------------------------------------
(* Properties.                                                             *)

\* Whatever the reads, the notices between them and the failures of the file:
\* the text in memory is the end of the output and the bytes dropped are the
\* rest; the file, when a snapshot names one, is the beginning of the output
\* and all of it unless it is said to be capped; and the counts are those of
\* the whole output (output.rs:134-227).
SnapshotIsTruth ==
    LET b == buffer
    IN  /\ IsSuffix(b.text, full) /\ size(b.text) <= MaxText
        /\ b.dropped = size(full) - size(b.text)
        /\ b.spill.state = "open" =>
             /\ IsPrefix(b.spill.file, full) /\ size(b.spill.file) <= MaxSpill
             /\ b.spill.truncated <=> b.spill.file # full
        /\ b.spill.state = "none" => b.text = full
        /\ b.chars = Len(full)
        /\ lines(b) = Len(SelectSeq(full, LAMBDA x : x.c = "n"))
                      + (IF full # <<>> /\ Last(full).c # "n" THEN 1 ELSE 0)

\* A reply that did not run into the time limit has, stream by stream, all the
\* command wrote, decoded as if it had come in one piece, and so has the
\* observer; and no call waits for its time limit after the reader announced
\* its end (output.rs:229-245, mod.rs:1037-1047).
FinalReplyIsComplete ==
    LET of(s, text) == SelectSeq(text, LAMBDA x : x.from = s)
        reply == caller.reply
    IN  /\ caller.pc = "replied" /\ reply.how = "drained" =>
             \A s \in streams : /\ of(s, reply.text) = decode(raw[s], s)
                                /\ of(s, observed) = decode(raw[s], s)
        /\ caller.pc = "waiting" /\ reader.pc = "done" => caller.notified

\* Nothing of the output is lost, doubled or garbled on its way to the reply.
OutputIsWhole == SnapshotIsTruth /\ FinalReplyIsComplete
=============================================================================
