---------------------------- MODULE CaptureLedger ----------------------------
(***************************************************************************)
(* What the history pipeline promises about the raw output of one command: *)
(* a capture certified complete is exact, a certificate is only ever       *)
(* withdrawn by flagging a gap, and nothing that is still open is          *)
(* forgotten.  HistoryPipeline implements it.                              *)
(***************************************************************************)
EXTENDS Naturals

CONSTANTS Captures

VARIABLES
    produced,  \* chunks of output there have been
    stored,    \* those in the store
    verdict    \* none, open, complete, gap, void (the call that owns the capture
               \* failed, so no claim is made of it) or gone

ledgerVars == <<produced, stored, verdict>>

Init ==
    /\ produced = [c \in Captures |-> 0]
    /\ stored = [c \in Captures |-> {}]
    /\ verdict = [c \in Captures |-> "none"]

Open(c) ==
    /\ verdict[c] = "none"
    /\ verdict' = [verdict EXCEPT ![c] = "open"]
    /\ UNCHANGED <<produced, stored>>

\* One more chunk was produced; it may at once be known to be missing.
Produce(c) ==
    /\ verdict[c] \in {"open", "gap", "void", "gone"}
    /\ produced' = [produced EXCEPT ![c] = @ + 1]
    /\ verdict' \in {verdict,
                     [verdict EXCEPT ![c] = IF @ = "open" THEN "gap" ELSE @]}
    /\ UNCHANGED stored

\* A write stores produced chunks of several captures and settles some of
\* them: certified only when everything produced is stored.
Write ==
    /\ \A c \in Captures :
         /\ stored[c] \subseteq stored'[c]
         /\ stored'[c] \subseteq 1..produced[c]
         /\ \/ verdict'[c] = verdict[c]
            \/ /\ verdict[c] = "open"
               /\ verdict'[c] = "complete"
               /\ stored'[c] = 1..produced[c]
            \/ verdict[c] \in {"open", "complete"} /\ verdict'[c] = "gap"
            \/ verdict[c] \in {"open", "complete", "gap"} /\ verdict'[c] = "void"
    /\ UNCHANGED produced

\* Retention and clearing drop settled captures only.
Forget ==
    /\ \A c \in Captures :
         \/ verdict'[c] = verdict[c] /\ stored'[c] = stored[c]
         \/ /\ verdict[c] \in {"complete", "gap", "void"}
            /\ verdict'[c] = "gone" /\ stored'[c] = {}
    /\ UNCHANGED produced

Next ==
    \/ \E c \in Captures : Open(c) \/ Produce(c)
    \/ Write
    \/ Forget

Spec == Init /\ [][Next]_ledgerVars
=============================================================================
