-------------------------- MODULE MCSessionManager --------------------------
(* Small instances of SessionManager for TLC.  Sessions, members and calls *)
(* are numbers, used in their order: they are interchangeable.             *)
EXTENDS SessionManager

\* What a behaviour of the session run concentrates on.
VARIABLE scenario

Scenarios == {"group", "calls", "shutdown", "admission", "evict"}
Over == {s \in Sessions : leader[s] \notin {"none", "running"}}
Busy == {c \in Clients : pc[c] # "idle"}
\* At most so many sessions, members, concurrent calls and failing writes, and
\* calls of these kinds.
Within(nSessions, nMembers, nCalls, nFaults, kinds) ==
    /\ faults <= nFaults
    /\ \A c \in Clients : pc[c] # "idle" => c <= nCalls /\ kind[c] \in kinds
    /\ \A s \in Sessions :
          /\ leader[s] # "none" => s <= nSessions /\ (s = 1 \/ leader[s - 1] # "none")
          /\ \A p \in born[s] : p <= nMembers /\ (p = 1 \/ p - 1 \in born[s])

\* group: one session with two members, or one and a failing write, killed and
\* then shut down;
\* calls: two calls work on one session;
\* shutdown: two sessions that are being admitted while shutdown_all begins, whose
\* group numbers are not reused (that is in group);
\* admission: two calls compete for the last place;
\* evict: a session with a member left is evicted for a third.
MCScenario ==
    CASE scenario = "group" -> /\ Within(1, 2, 1, 1, {"exec", "kill"}) 
                               /\ Cardinality(born[1]) + faults + (IF sd = "off" THEN 0 ELSE Cardinality(Busy)) <= 2
      [] scenario = "calls" -> Within(1, 1, 2, 0, {"exec", "input", "kill"}) /\ sd = "off"
      [] scenario = "shutdown" -> Within(2, 0, 1, 0, {"exec"}) /\ ~reused[1] /\ ~reused[2]
      [] scenario = "admission" -> Within(3, 0, 2, 0, {"exec"}) /\ sd = "off" /\ Cardinality(Over) <= 1
      [] scenario = "evict" -> /\ Within(3, 1, 1, 0, {"exec"}) /\ sd = "off" /\ Cardinality(Over) <= 1
                               /\ Cardinality({s \in Sessions : born[s] # {}}) <= 1

MCInit == Init /\ scenario \in Scenarios
MCSpec == /\ MCInit
          /\ [][Next /\ UNCHANGED scenario /\ MCScenario']_<<vars, scenario>>
=============================================================================
