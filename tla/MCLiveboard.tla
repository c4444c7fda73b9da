----------------------------- MODULE MCLiveboard -----------------------------
(* The Liveboard's columns, its output pane and its preferences share no   *)
(* variable: a behaviour exercises one of them and the others stay in      *)
(* their initial state.                                                    *)
EXTENDS Liveboard, CommandOutput, SharedBoard

VARIABLE subject

MCInit == /\ subject \in {"columns", "output", "board"} /\ Init /\ OutputInit /\ BoardInit
          /\ subject = "columns" \/ \A c \in Cards : db[c].ver = 1
MCNext ==
    /\ UNCHANGED subject
    /\ \/ subject = "columns" /\ Next /\ UNCHANGED <<outputVars, boardVars>>
       \/ subject = "output" /\ OutputNext /\ UNCHANGED <<vars, boardVars>>
       \/ subject = "board" /\ BoardNext /\ UNCHANGED <<vars, outputVars>>
MCSpec == MCInit /\ [][MCNext]_<<subject, vars, outputVars, boardVars>>

MCHeard == UNION {tab[t].agents : t \in {u \in Tabs : tab[u].st \in {"booted", "live"}}}
\* Card 2 was running before the viewer attached and ends only in the short
\* behaviours without a fault: enough for one card's event to push out the
\* other's.  A handover after a fault is done before the clock ticks.  Two tabs
\* are open together while no Agent is heard of, and with two changes and
\* outages in all.
MCScenario ==
    /\ db[2].ver # 0 /\ (db[2].ver = 2 => faults = 0 /\ hub.now = 1)
    /\ (pending # 0 => faults = 0 \/ hub.now = 1)
    /\ (\A t \in Tabs : tab[t].st # "closed") => MCHeard = {} /\ changes + outages <= 2
=============================================================================
