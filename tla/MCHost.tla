------------------------------- MODULE MCHost -------------------------------
(* The Local host runtime and the terminal viewer, which share no variable: *)
(* a behaviour exercises one of them and the other stays in its initial     *)
(* state.                                                                   *)
EXTENDS HostRuntime, Watch

VARIABLE subject

MCInit == /\ subject \in {"host", "watch"} /\ HostInit /\ WatchInit
          /\ subject = "watch" \/ app.agents = {}
MCNext == /\ UNCHANGED subject
          /\ \/ subject = "host" /\ HostNext /\ UNCHANGED watchVars
             \/ subject = "watch" /\ WatchNext /\ UNCHANGED hostVars
MCSpec == MCInit /\ [][MCNext]_<<subject, hostVars, watchVars>>

\* Agent 1 runs a command, row 1, and polls it, row 2; agent 2 is only seen.
MCRowAgent == [i \in Rows |-> 1]
MCRowParent == [i \in Rows |-> 1]

\* The shutdown is explored with one call made, the notifier's worker with
\* calls that have only begun, everything else with all calls.  The viewer
\* meets one refused request or one broken stream.
MCScenario ==
    /\ phase \in DOMAIN StopSteps => made <= 1
    /\ link.worker # 0 \/ link.copied # 0 => \A c \in Calls : call[c].st \in {"idle", "begun"}
    /\ spent.refused + spent.cut <= 1
=============================================================================
