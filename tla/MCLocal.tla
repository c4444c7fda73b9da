------------------------------ MODULE MCLocal ------------------------------
(* Stale recovery, the Local lifecycle and the history timeline for TLC.    *)
(* They share no variable: a behaviour exercises one of them.               *)
EXTENDS StaleRecovery, LocalLifecycle, Timeline

VARIABLE subject

MCInit == /\ subject \in {"recovery", "lifecycle", "timeline"}
          /\ Init /\ LifecycleInit /\ TimelineInit
          /\ subject = "timeline" \/ script = CHOOSE s \in Scripts : TRUE
MCNext == /\ UNCHANGED subject
          /\ \/ subject = "recovery" /\ Next /\ UNCHANGED <<lifecycleVars, timelineVars>>
             \/ subject = "lifecycle" /\ LifecycleNext /\ UNCHANGED <<vars, timelineVars>>
             \/ subject = "timeline" /\ TimelineNext /\ UNCHANGED <<vars, lifecycleVars>>
MCSpec == MCInit /\ [][MCNext]_<<subject, vars, lifecycleVars, timelineVars>>

\* A command with polls of another agent and then polls of its handle without
\* it, and three cards that began at one time, one of them of no agent.
MCCall(kind, agent, parent, handle, at) ==
    [kind |-> kind, agent |-> agent, parent |-> parent, handle |-> handle, at |-> at, st |-> "new"]
MCScripts ==
    {<<MCCall("exec", 1, 0, 0, 1), MCCall("poll", 2, 1, 9, 1), MCCall("poll", 1, 0, 9, 2), MCCall("poll", 2, 0, 9, 2)>>,
     <<MCCall("exec", 1, 0, 0, 1), MCCall("poll", 2, 0, 0, 1), MCCall("other", 0, 1, 9, 1)>>}

\* Pids and sessions are interchangeable.  The commands are numbers and follow
\* one another: one that begins earlier only waits for the lifecycle lock until
\* the one before it is done.  At most MaxProcesses processes are created.  A
\* client pages while the writer rests, and no row is completed or marked
\* incomplete then.
Symmetry == Permutations(Pids) \cup Permutations(Sessions)
MaxProcesses == 4
Bounded == /\ \A c, d \in Commands : c < d /\ cmd[d].pc # "idle" => cmd[c].pc = "done"
           /\ MapThenSumSet(LAMBDA p : births[p], Pids) <= MaxProcesses
           /\ pager.st # "new" => writer = Idle /\ refresh = {} /\ \A i \in Ids : row[i].st # "incomplete"
           /\ pager.st \notin {"done", "gone"}
=============================================================================
