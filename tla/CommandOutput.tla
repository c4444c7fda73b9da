---------------------------- MODULE CommandOutput ----------------------------
(***************************************************************************)
(* The text of one command in the browser: live chunks arrive on a lossy   *)
(* broadcast channel of their own, the end of output on the control        *)
(* channel, and an expanded card repairs its buffer from the durable tail  *)
(* in two awaited requests, metadata then one display page.                *)
(***************************************************************************)
EXTENDS Naturals, Sequences, FiniteSets, FiniteSetsExt, SequencesExt

CONSTANTS
    MaxChunk,   \* bound: chunk sequences 1..MaxChunk
    Window,     \* RECENT_OUTPUT_CHUNK_LIMIT
    Retain,     \* LiveOutputBuffer.maximumChunks
    MaxMishaps  \* bound: lost frames, omitted chunks and failing requests

ASSUME OutputAssumption == Window \in Nat /\ Retain \in Nat

VARIABLES
    durable,   \* invocation_output_chunks: sequences stored
    nextSeq,   \* the reader's next sequence
    live,      \* broken: LiveDisplayStream::unavailable_reason is set
    flight,    \* output frames in transit
    eofFrame,  \* output_complete: none, sent, delivered
    state,     \* CommandOutputState; buf is LiveOutputBuffer
    mounted,   \* the expanded card: subscriber of the state
    ended,     \* the card's record says the process is not running
    hydration, \* the shared hydration promise
    mishaps,
    missed     \* ghost: "joined" when a repair was asked for while a hydration was
               \* in flight, "late" when a live chunk arrived below the buffer

outputVars == <<durable, nextSeq, live, flight, eofFrame, state, mounted, ended,
                hydration, mishaps, missed>>
producer == <<durable, nextSeq, live, eofFrame>>

NoState == [exists |-> FALSE, buf |-> {}, needed |-> TRUE, hydrated |-> FALSE,
            complete |-> FALSE, unavailable |-> FALSE, dropped |-> FALSE, error |-> FALSE]
NoHydration == [st |-> "none", from |-> 1, page |-> {}]
mishap == mishaps < MaxMishaps /\ mishaps' = mishaps + 1

-----------------------------------------------------------------------------
(* The runtime: a sequence hole makes the display unavailable for good.    *)

observe_chunk ==
    /\ nextSeq <= MaxChunk /\ eofFrame = "none" /\ nextSeq' = nextSeq + 1
    /\ durable' = durable \cup {nextSeq}
    /\ live' = (live \/ (nextSeq > 1 /\ nextSeq - 1 \notin durable))
    /\ \/ flight' = Append(flight, [seq |-> nextSeq, broken |-> live']) /\ UNCHANGED mishaps
       \/ mishap /\ UNCHANGED flight                \* the output channel lags
    /\ UNCHANGED <<eofFrame, state, mounted, ended, hydration, missed>>

\* Load shedding: the sequence number is spent, the chunk is not stored.
omit_chunk ==
    /\ mishap /\ nextSeq <= MaxChunk /\ eofFrame = "none" /\ nextSeq' = nextSeq + 1
    /\ UNCHANGED <<durable, live, flight, eofFrame, state, mounted, ended, hydration, missed>>

complete_output ==
    /\ eofFrame = "none" /\ eofFrame' = "sent"
    /\ UNCHANGED <<durable, nextSeq, live, flight, state, mounted, ended, hydration, mishaps, missed>>

\* display_page: safe only when no sequence is missing before it.
displayable == \A n \in durable : n = 1 \/ n - 1 \in durable

-----------------------------------------------------------------------------
(* The buffer.                                                             *)

\* The buffer keeps at most Retain chunks, dropping the oldest.
trim(buf) == {n \in buf : Cardinality({m \in buf : m > n}) < Retain}
hasInternalSequenceGap(buf) ==
    \E n \in buf : n # Min(buf) /\ n - 1 \notin buf
sequenceGap(buf, n) == buf # {} /\ n > Max(buf) + 1

\* requestRecentTail: a repair in flight is shared, not restarted.
request(s, seen) ==
    LET start == mounted /\ hydration.st = "none" /\ (~s.hydrated \/ s.needed) IN
    /\ state' = IF start THEN [s EXCEPT !.error = FALSE] ELSE s
    /\ hydration' = IF start THEN [NoHydration EXCEPT !.st = "metadata"] ELSE hydration
    /\ missed' = missed \cup seen \cup (IF hydration.st # "none" /\ s.needed THEN {"joined"} ELSE {})

\* A finished command's released buffer is not rebuilt for a late frame.
appendLiveBatch ==
    LET f == Head(flight)
        s == [state EXCEPT !.exists = TRUE, !.unavailable = @ \/ f.broken,
                 !.buf = trim(@ \cup {f.seq}),
                 !.dropped = @ \/ Cardinality(state.buf \cup {f.seq}) > Retain,
                 !.needed = @ \/ (f.seq \notin state.buf /\ sequenceGap(state.buf, f.seq))]
    IN  /\ flight # <<>> /\ flight' = Tail(flight)
        /\ IF ended /\ ~state.exists THEN UNCHANGED <<state, hydration, missed>>
           ELSE request(s, IF state.buf # {} /\ f.seq < Min(state.buf) THEN {"late"} ELSE {})
        /\ UNCHANGED <<producer, mounted, ended, mishaps>>

markComplete ==
    /\ eofFrame = "sent" /\ eofFrame' = "delivered"
    /\ IF state.exists THEN request([state EXCEPT !.complete = TRUE, !.needed = TRUE,
                                                  !.unavailable = @ \/ live], {})
       ELSE UNCHANGED <<state, hydration, missed>>
    /\ UNCHANGED <<durable, nextSeq, live, flight, mounted, ended, mishaps>>

\* Reconnection and control gaps ask every state to repair itself.
markRecoveryNeeded ==
    /\ mishap /\ state.exists
    /\ request([state EXCEPT !.needed = TRUE], {})
    /\ UNCHANGED <<producer, flight, mounted, ended>>

\* The state is released when it is final and nobody shows it.
markFinal ==
    /\ ~ended /\ ended' = TRUE
    /\ IF mounted THEN UNCHANGED <<state, hydration>>
       ELSE state' = NoState /\ hydration' = NoHydration
    /\ UNCHANGED <<producer, flight, mounted, mishaps, missed>>

expand ==
    /\ ~mounted /\ mounted' = TRUE
    /\ state' = [state EXCEPT !.exists = TRUE, !.error = FALSE]
    /\ hydration' = IF hydration.st # "none" \/ (state.hydrated /\ ~state.needed) THEN hydration
                    ELSE [NoHydration EXCEPT !.st = "metadata"]
    /\ missed' = missed \cup (IF hydration.st # "none" /\ state.needed THEN {"joined"} ELSE {})
    /\ UNCHANGED <<producer, flight, ended, mishaps>>

collapse ==
    /\ mounted /\ mounted' = FALSE
    /\ IF ended THEN state' = NoState /\ hydration' = NoHydration
       ELSE UNCHANGED <<state, hydration>>
    /\ UNCHANGED <<producer, flight, ended, mishaps, missed>>

-----------------------------------------------------------------------------
(* hydrateRecentTail.                                                      *)

hydrate_metadata ==
    /\ hydration.st = "metadata"
    /\ IF durable = {}
       THEN /\ state' = [state EXCEPT !.hydrated = TRUE, !.needed = FALSE]
            /\ hydration' = NoHydration
       ELSE /\ hydration' = [st |-> "page", page |-> {},
                             from |-> Max({Min(durable), (Max(durable) + 1) - Window})]
            /\ state' = [state EXCEPT !.dropped = @ \/ Max(durable) >= Min(durable) + Window]
    /\ UNCHANGED <<producer, flight, mounted, ended, mishaps, missed>>

hydrate_page ==
    /\ hydration.st = "page"
    /\ hydration' = [hydration EXCEPT !.st = "merge",
          !.page = IF displayable
                   THEN {n \in durable : n >= hydration.from /\ n < hydration.from + Window}
                   ELSE {0}]
    /\ UNCHANGED <<producer, flight, state, mounted, ended, mishaps, missed>>

\* Mutant: a hole left in the buffer counts as repaired.
MergeForgetsHole ==
    /\ hydration.st = "merge" /\ hydration' = NoHydration
    /\ state' = [state EXCEPT !.hydrated = TRUE, !.needed = FALSE,
                    !.buf = trim({n \in @ : n >= hydration.from} \cup (hydration.page \ {0}))]
    /\ UNCHANGED <<producer, flight, mounted, ended, mishaps, missed>>

\* mergeDurable: what is older than the page goes, what it holds comes in.
mergeDurable ==
    LET merged == trim({n \in state.buf : n >= hydration.from} \cup hydration.page) IN
    /\ hydration.st = "merge" /\ hydration' = NoHydration
    /\ state' = IF hydration.page = {0}
                THEN [state EXCEPT !.hydrated = TRUE, !.needed = FALSE, !.unavailable = TRUE]
                ELSE [state EXCEPT !.hydrated = TRUE, !.buf = merged,
                         !.needed = hasInternalSequenceGap(merged),
                         !.dropped = @ \/ \E n \in state.buf : n < hydration.from]
    /\ UNCHANGED <<producer, flight, mounted, ended, mishaps, missed>>

hydration_failed ==
    /\ mishap /\ hydration.st # "none"
    /\ hydration' = NoHydration
    /\ state' = [state EXCEPT !.error = TRUE]
    /\ UNCHANGED <<producer, flight, mounted, ended, missed>>

-----------------------------------------------------------------------------
OutputInit ==
    /\ durable = {} /\ nextSeq = 1 /\ live = FALSE /\ flight = <<>> /\ eofFrame = "none"
    /\ state = NoState /\ mounted = FALSE /\ ended = FALSE
    /\ hydration = NoHydration /\ mishaps = 0 /\ missed = {}

OutputNext ==
    \/ observe_chunk \/ omit_chunk \/ complete_output \/ appendLiveBatch \/ markComplete
    \/ markRecoveryNeeded \/ markFinal \/ expand \/ collapse
    \/ hydrate_metadata \/ hydrate_page \/ mergeDurable \/ hydration_failed

OutputSpec == OutputInit /\ [][OutputNext]_outputVars

-----------------------------------------------------------------------------
tail == {n \in durable : n + Window > Max(durable) /\ Cardinality({m \in durable : m > n}) < Retain}

Settled == /\ mounted /\ flight = <<>> /\ hydration.st = "none" /\ eofFrame = "delivered"
           /\ ~state.error /\ ~state.unavailable

\* Text with a hole in it is never taken for repaired: while an expanded card
\* shows a buffer with a missing chunk and nothing is being loaded, either
\* the repair is still asked for or the user sees that it failed, unless the
\* hole was opened by a live chunk older than the repaired tail.
HoleIsKnown == mounted /\ "late" \notin missed /\ hydration.st = "none" /\ ~state.unavailable
                  /\ hasInternalSequenceGap(state.buf) => state.needed \/ state.error

\* After the end of output an expanded card shows the whole recent durable
\* tail, whatever the lossy channel dropped, as long as no repair was asked
\* for while an earlier one was still in flight.
TailShown == Settled /\ "joined" \notin missed /\ durable # {} => tail \subseteq state.buf

\* The pane is never silently wrong, neither in the middle nor at the end.
OutputRepaired == HoleIsKnown /\ TailShown
=============================================================================
