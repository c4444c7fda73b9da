---------------------------- MODULE GithubProofs ----------------------------
(***************************************************************************)
(* Proofs about the GitHub side: the mode record is enforced as it was     *)
(* granted and what was reported as pushed stays, for any number of        *)
(* repositories, requests and commands; push grants never lose a cached    *)
(* token to a race, for any number of requests.                            *)
(***************************************************************************)
EXTENDS GithubMode, PushGrants, TLAPS

-----------------------------------------------------------------------------
(* The GitHub mode *)

PushStates == {"new", "sending", "accepted", "received", "cloned", "imported", "branch", "pushed", "ok", "error"}
Commits == {0} \cup Pushes
PushRecord == [st : PushStates, kind : Kinds, repo : Repos \cup {NewPush.repo}, force : BOOLEAN,
               base : SUBSET Commits, value : SUBSET Commits, clone : SUBSET Commits, at : Nat]

PushTyped ==
    /\ clock \in Nat
    /\ push \in [Pushes -> PushRecord] /\ remote \in [Repos -> SUBSET Commits] /\ kept \subseteq Pushes
    /\ \A p \in Pushes : push[p].st # "new" => push[p].repo \in Repos

\* A reported push is over and is still on its ref.
PushInv == PushTyped /\ ReportedStays /\ \A p \in kept : push[p].st = "ok"

-----------------------------------------------------------------------------
LEMMA PushInitially == ModeInit => PushInv
<1> SUFFICES ASSUME ModeInit PROVE PushInv
  OBVIOUS
<1>1. NewPush \in PushRecord
  BY DEF NewPush, PushRecord, PushStates, Kinds
<1>2. push = [p \in Pushes |-> NewPush] /\ NewPush.st = "new" /\ kept = {} /\ clock = 0
      /\ remote = [r \in Repos |-> {0}]
  BY DEF ModeInit, NewPush
<1> QED
  BY <1>1, <1>2 DEF PushInv, PushTyped, ReportedStays, Commits

\* What becomes of the requests when one is replaced, or moves to another state.
LEMMA Replaced ==
    ASSUME PushTyped, NEW p \in Pushes, NEW new \in PushRecord, push' = [push EXCEPT ![p] = new]
    PROVE  push' \in [Pushes -> PushRecord] /\ push'[p] = new /\ \A q \in Pushes \ {p} : push'[q] = push[q]
  BY DEF PushTyped

LEMMA Moved ==
    ASSUME PushTyped, NEW p \in Pushes, NEW st \in PushStates, to(p, st)
    PROVE  /\ push' \in [Pushes -> PushRecord] /\ push'[p].repo = push[p].repo /\ push'[p].st = st
           /\ \A q \in Pushes \ {p} : push'[q] = push[q]
  BY DEF PushTyped, PushRecord, to

\* A step that moves one request to another state and leaves the refs alone.
LEMMA PushMoves ==
    ASSUME PushInv, NEW p \in Pushes, NEW st \in PushStates \ {"new"}, push[p].st \notin {"new", "ok"},
           to(p, st), UNCHANGED <<clock, remote, kept>>
    PROVE  PushInv'
<1> USE DEF PushInv
<1>1. /\ push' \in [Pushes -> PushRecord] /\ push'[p].repo = push[p].repo /\ push'[p].st = st
      /\ \A q \in Pushes \ {p} : push'[q] = push[q]
  BY Moved
<1>2. PushTyped'
  BY <1>1 DEF PushTyped
<1>3. ReportedStays'
  BY <1>1 DEF ReportedStays, PushTyped
<1>4. \A q \in kept' : push'[q].st = "ok"
  BY <1>1 DEF PushTyped
<1> QED
  BY <1>2, <1>3, <1>4

LEMMA PushStep == PushInv /\ [ModeNext]_modeVars => PushInv'
<1> SUFFICES ASSUME PushInv, [ModeNext]_modeVars PROVE PushInv'
  OBVIOUS
<1> USE DEF PushInv
<1>1. ASSUME UNCHANGED <<push, remote, kept>>, clock' \in Nat PROVE PushInv'
  BY <1>1 DEF PushTyped, ReportedStays
<1>2. CASE \E R \in SUBSET Repos, ttl \in Ttls : enable_github_yolo_mode(R, ttl)
  BY <1>1, <1>2 DEF enable_github_yolo_mode, github, PushTyped
<1>3. CASE install_mode \/ install_mode_failed \/ disable_github_yolo_mode
           \/ reconcile_github_agent_git_for_mode \/ repair_agent_git \/ tick
  BY <1>1, <1>3 DEF install_mode, install_mode_failed, disable_github_yolo_mode,
       reconcile_github_agent_git_for_mode, repair_agent_git, tick, github, PushTyped
<1>4. ASSUME NEW p \in Pushes, serve(p) \/ bundle_cut(p) \/ step_failed(p) PROVE PushInv'
  <2>1. CASE handle_connection(p)
    <3>1. /\ push[p].st = "sending" /\ UNCHANGED <<clock, remote, kept>>
          /\ push' = [push EXCEPT ![p] = IF validate(p) THEN [@ EXCEPT !.st = "accepted", !.at = clock]
                                         ELSE [@ EXCEPT !.st = "error"]]
      BY <2>1 DEF handle_connection, github
    <3>2. push[p] \in PushRecord /\ clock \in Nat
      BY DEF PushTyped
    <3>3. PICK new \in PushRecord :
              /\ new.st \in {"accepted", "error"} /\ new.repo = push[p].repo
              /\ push' = [push EXCEPT ![p] = new]
      <4>1. CASE validate(p)
        <5>1. push' = [push EXCEPT ![p] = [push[p] EXCEPT !.st = "accepted", !.at = clock]]
          BY <3>1, <4>1
        <5>2. [push[p] EXCEPT !.st = "accepted", !.at = clock] \in PushRecord
          BY <3>2 DEF PushRecord, PushStates
        <5> QED
          BY <5>1, <5>2, <3>2 DEF PushRecord
      <4>2. CASE ~validate(p)
        <5>1. push' = [push EXCEPT ![p] = [push[p] EXCEPT !.st = "error"]]
          BY <3>1, <4>2
        <5>2. [push[p] EXCEPT !.st = "error"] \in PushRecord
          BY <3>2 DEF PushRecord, PushStates
        <5> QED
          BY <5>1, <5>2, <3>2 DEF PushRecord
      <4> QED
        BY <4>1, <4>2
    <3>4. push' \in [Pushes -> PushRecord] /\ push'[p] = new /\ \A q \in Pushes \ {p} : push'[q] = push[q]
      BY <3>3, Replaced
    <3> QED
      BY <3>1, <3>3, <3>4 DEF PushTyped, ReportedStays
  <2>2. CASE receive_declared_bundle(p)
    BY <2>2, PushMoves DEF receive_declared_bundle, github, PushStates
  <2>3. CASE clone_repo_with_token(p)
    <3>1. /\ push[p].st = "received" /\ UNCHANGED <<clock, remote, kept>>
          /\ push' = [push EXCEPT ![p] = [@ EXCEPT !.st = "cloned", !.clone = remote[push[p].repo]]]
          /\ push[p].repo \in Repos
      BY <2>3 DEF clone_repo_with_token, github, PushTyped
    <3> DEFINE new == [push[p] EXCEPT !.st = "cloned", !.clone = remote[push[p].repo]]
    <3>2. push[p] \in PushRecord /\ remote[push[p].repo] \in SUBSET Commits
      BY <3>1 DEF PushTyped
    <3>3. new \in PushRecord /\ new.st = "cloned" /\ new.repo = push[p].repo
      BY <3>2 DEF PushRecord, PushStates
    <3> HIDE DEF new
    <3>4. push' \in [Pushes -> PushRecord] /\ push'[p] = new /\ \A q \in Pushes \ {p} : push'[q] = push[q]
      BY <3>1, <3>3, Replaced DEF new
    <3> QED
      BY <3>1, <3>3, <3>4 DEF PushTyped, ReportedStays
  <2>4. CASE import(p)
    BY <2>4, PushMoves DEF import, github, PushStates
  <2>5. CASE git_push(p)
    <3> DEFINE x == push[p]
               r == x.repo
    <3>1. x.st = "imported" /\ UNCHANGED clock
      BY <2>5 DEF git_push
    <3>2. CASE refspec(p) \/ remote[r] \subseteq x.value
      <4>1. /\ remote' = [remote EXCEPT ![r] = x.value] /\ to(p, "pushed")
            /\ kept' = IF x.force \/ x.kind = "delete" THEN {q \in kept : push[q].repo # r} ELSE kept
        BY <2>5, <3>2 DEF git_push
      <4>2. r \in Repos /\ x.value \in SUBSET Commits
        BY <3>1 DEF PushTyped, PushRecord
      <4>3. /\ push' \in [Pushes -> PushRecord] /\ push'[p].repo = push[p].repo /\ push'[p].st = "pushed"
            /\ \A q \in Pushes \ {p} : push'[q] = push[q]
        BY <4>1, Moved DEF PushStates
      <4>4. remote' \in [Repos -> SUBSET Commits] /\ kept' \subseteq kept /\ p \notin kept
        BY <3>1, <4>1, <4>2 DEF PushTyped
      <4>5. PushTyped'
        BY <3>1, <4>2, <4>3, <4>4 DEF PushTyped
      <4>6. ASSUME NEW q \in kept' PROVE q \in remote'[push'[q].repo]
        <5>1. q \in kept /\ q # p /\ push'[q] = push[q] /\ q \in remote[push[q].repo] /\ push[q].repo \in Repos
          BY <4>3, <4>4, <4>6 DEF PushTyped, ReportedStays
        <5>2. CASE push[q].repo # r
          BY <5>1, <5>2, <4>1, <4>2 DEF PushTyped
        <5>3. CASE push[q].repo = r
          <6>1. ~refspec(p)
            BY <5>1, <5>3, <4>1, <4>6 DEF refspec
          <6> QED
            BY <6>1, <5>1, <5>3, <4>1, <4>2, <3>2 DEF PushTyped
        <5> QED
          BY <5>2, <5>3
      <4> QED
        BY <4>3, <4>4, <4>5, <4>6 DEF ReportedStays, PushTyped
    <3>3. CASE ~(refspec(p) \/ remote[r] \subseteq x.value)
      BY <2>5, <3>1, <3>3, PushMoves DEF git_push, PushStates
    <3> QED
      BY <3>2, <3>3
  <2>6. CASE push_branch(p)
    BY <2>6, PushMoves DEF push_branch, PushStates
  <2>7. CASE create_pull_request(p)
    BY <2>7, PushMoves DEF create_pull_request, PushStates
  <2>8. CASE respond(p)
    <3>1. /\ push[p].st = "pushed" /\ to(p, "ok") /\ UNCHANGED <<clock, remote>>
          /\ kept' \subseteq kept \cup {p} /\ (p \in kept' => p \in kept \/ p \in remote[push[p].repo])
      BY <2>8 DEF respond
    <3>2. /\ push' \in [Pushes -> PushRecord] /\ push'[p].repo = push[p].repo /\ push'[p].st = "ok"
          /\ \A q \in Pushes \ {p} : push'[q] = push[q]
      BY <3>1, Moved DEF PushStates
    <3> QED
      BY <3>1, <3>2 DEF PushTyped, ReportedStays
  <2>9. CASE bundle_cut(p) \/ step_failed(p)
    BY <2>9, PushMoves DEF bundle_cut, step_failed, github, PushStates
  <2> QED
    BY <1>4, <2>1, <2>2, <2>3, <2>4, <2>5, <2>6, <2>7, <2>8, <2>9 DEF serve
<1>5. ASSUME NEW p \in Pushes, NEW kind \in Kinds, NEW r \in Repos, NEW force \in BOOLEAN,
             create_direct_push_bundle(p, kind, r, force)
      PROVE  PushInv'
  <2> DEFINE new == [NewPush EXCEPT !.st = "sending", !.kind = kind, !.repo = r,
                        !.force = force, !.base = remote[r],
                        !.value = CASE kind = "oid" -> remote[r] [] kind = "delete" -> {}
                                    [] OTHER -> remote[r] \cup {p}]
  <2>1. push[p].st = "new" /\ push' = [push EXCEPT ![p] = new] /\ UNCHANGED <<clock, remote, kept>>
    BY <1>5 DEF create_direct_push_bundle, github
  <2>2. remote[r] \in SUBSET Commits /\ p \in Commits
    BY DEF PushTyped, Commits
  <2>3. new \in PushRecord /\ new.st = "sending" /\ new.repo = r
    BY <2>2 DEF NewPush, PushRecord, PushStates
  <2> HIDE DEF new
  <2>4. /\ push' \in [Pushes -> PushRecord] /\ push'[p].repo \in Repos /\ push'[p].st = "sending"
        /\ \A q \in Pushes \ {p} : push'[q] = push[q]
    BY <2>1, <2>3 DEF PushTyped
  <2> QED
    BY <2>1, <2>4 DEF PushTyped, ReportedStays
<1>6. CASE serve_publisher
  <2>1. /\ UNCHANGED <<clock, remote, kept>>
        /\ push' = [p \in Pushes |-> IF push[p].st \in {"new", "ok", "error"} THEN push[p]
                                     ELSE [push[p] EXCEPT !.st = "error"]]
    BY <1>6 DEF serve_publisher, github
  <2>2. /\ push' \in [Pushes -> PushRecord]
        /\ \A p \in Pushes : /\ push'[p].repo = push[p].repo
                             /\ push[p].st \in {"new", "ok", "error"} => push'[p] = push[p]
                             /\ push[p].st \notin {"new", "ok", "error"} => push'[p].st = "error"
    BY <2>1 DEF PushTyped, PushRecord, PushStates
  <2> QED
    BY <2>1, <2>2 DEF PushTyped, ReportedStays
<1>7. CASE UNCHANGED modeVars
  BY <1>1, <1>7 DEF modeVars, PushTyped
<1> QED
  BY <1>2, <1>3, <1>4, <1>5, <1>6, <1>7 DEF ModeNext

\* A push that was reported stays on its ref until it is forced away or
\* deleted (git_push takes only fast-forwards otherwise).
THEOREM ReportedPushesStay == ModeSpec => []ReportedStays
<1>1. PushInv => ReportedStays
  BY DEF PushInv
<1> QED
  BY <1>1, PushInitially, PushStep, PTL DEF ModeSpec

-----------------------------------------------------------------------------
(* The mode record.                                                        *)

ModeRecord == [all : BOOLEAN, exp : 0..Never, grants : [Repos -> 0..Never], repos : SUBSET Repos]
ModeTyped ==
    /\ clock \in Nat /\ mode \in ModeRecord /\ want \in [Scopes -> 0..Never]
    /\ op \in [st : {"idle", "merge", "repair"}, next : ModeRecord, seen : ModeRecord, yolo : BOOLEAN]

\* What a record grants at a time t.
AllAt(m, t) == m.all /\ m.exp > t
RepoAt(m, r, t) == m.grants[r] > t \/ (~hasGrants(m) /\ ~m.all /\ m.exp > t /\ r \in m.repos)

\* From now on the record in force grants what the operator granted last.
Agreement ==
    \A t \in Nat : t >= clock => /\ AllAt(mode, t) <=> want[All] > t
                                /\ \A r \in Repos : RepoAt(mode, r, t) <=> want[r] > t

\* A record that is about to be merged was built from what the operator
\* asked for, and the record it was read with is still in force.
Built(m) == /\ m.exp # 0 /\ (m.all <=> m.repos = {})
            /\ \A r \in Repos : m.grants[r] = IF r \in m.repos THEN m.exp ELSE 0
MergeReady == op.st = "merge" => op.seen = mode /\ Built(op.next)
RepairReady == op.st = "repair" => (github_mode_has_active_scope(mode) => op.yolo)
WantedIsIssued == \A s \in Scopes : want[s] # 0 => <<s, want[s]>> \in issued

ModeInv == ModeTyped /\ Agreement /\ MergeReady /\ RepairReady /\ WantedIsIssued
           /\ RewriteFollowsMode /\ PushWasGranted

\* The scopes the operator CLI sees active are those that grant something now.
LEMMA ActiveGrants ==
    ASSUME NEW m \in ModeRecord, clock \in Nat, NEW r \in Repos
    PROVE  /\ github_yolo_active_repo_grants(m)[r] \in 0..Never
           /\ (github_yolo_active_repo_grants(m)[r] # 0) <=> RepoAt(m, r, clock)
           /\ \A t \in Nat : t >= clock => ((github_yolo_active_repo_grants(m)[r] > t) <=> RepoAt(m, r, t))
<1>0. Never \in Nat /\ m.grants[r] \in 0..Never /\ m.exp \in 0..Never
  BY ModeAssumption DEF Never, ModeRecord
<1>1. github_yolo_active_repo_grants(m)[r] =
        CASE hasGrants(m) -> IF active(m.grants[r]) THEN m.grants[r] ELSE 0
          [] ~hasGrants(m) /\ ~m.all /\ active(m.exp) /\ r \in m.repos -> m.exp
          [] OTHER -> 0
  BY DEF github_yolo_active_repo_grants
<1>2. CASE hasGrants(m)
  BY <1>0, <1>1, <1>2 DEF RepoAt, active
<1>3. CASE ~hasGrants(m) /\ ~m.all /\ active(m.exp) /\ r \in m.repos
  <2>1. m.grants[r] = 0
    BY <1>3 DEF hasGrants
  <2> QED
    BY <1>0, <1>1, <1>3, <2>1 DEF RepoAt, active
<1>4. CASE ~hasGrants(m) /\ ~(~m.all /\ active(m.exp) /\ r \in m.repos)
  <2>1. m.grants[r] = 0
    BY <1>4 DEF hasGrants
  <2>2. github_yolo_active_repo_grants(m)[r] = 0
    BY <1>1, <1>4
  <2> QED
    BY <1>0, <1>4, <2>1, <2>2 DEF RepoAt, active
<1> QED
  BY <1>2, <1>3, <1>4

LEMMA ActiveScope ==
    ASSUME NEW m \in ModeRecord, clock \in Nat
    PROVE  github_mode_has_active_scope(m) <=> AllAt(m, clock) \/ \E r \in Repos : RepoAt(m, r, clock)
<1>1. \A r \in Repos : (github_yolo_active_repo_grants(m)[r] # 0) <=> RepoAt(m, r, clock)
  BY ActiveGrants
<1> QED
  BY <1>1 DEF github_mode_has_active_scope, github_yolo_all_installed_active, active, AllAt

\* The operator CLI and the publisher read one record the same way.
LEMMA SidesReadAlike ==
    ASSUME NEW m \in ModeRecord, clock \in Nat
    PROVE  github_mode_has_active_scope(m) <=> ~github_mode_expired(m)
<1>1. github_yolo_active_legacy_repos(m) <=> ~hasGrants(m) /\ ~m.all /\ active(m.exp) /\ \E r \in Repos : r \in m.repos
  BY DEF github_yolo_active_legacy_repos, ModeRecord
<1>2. github_mode_expired(m) <=> ~AllAt(m, clock) /\ \A r \in Repos : ~RepoAt(m, r, clock)
  BY <1>1 DEF github_mode_expired, github_yolo_all_installed_active, active, AllAt, RepoAt
<1> QED
  BY <1>2, ActiveScope

\* A record that has just been built grants its own scopes for its own time.
LEMMA BuiltGrants ==
    ASSUME NEW m \in ModeRecord, Built(m), NEW t \in Nat
    PROVE  /\ AllAt(m, t) <=> All \in scopesOf(m) /\ expiryOf(m, All) > t
           /\ \A r \in Repos : RepoAt(m, r, t) <=> r \in scopesOf(m) /\ expiryOf(m, r) > t
           /\ \A s \in scopesOf(m) : s \in Scopes /\ expiryOf(m, s) = m.exp
<1>0. All \notin Repos /\ Never \in Nat /\ m.exp \in 0..Never
  BY ModeAssumption DEF ModeRecord, Never
<1>1. /\ \A r \in Repos : expiryOf(m, r) = m.grants[r] /\ (r \in scopesOf(m) <=> m.grants[r] # 0)
      /\ expiryOf(m, All) = m.exp /\ (All \in scopesOf(m) <=> m.all)
  BY <1>0 DEF expiryOf, scopesOf
<1>2. m.all \/ hasGrants(m)
  BY DEF Built, hasGrants, ModeRecord
<1>3. \A r \in Repos : m.grants[r] \in 0..Never /\ m.grants[r] \in {0, m.exp}
  BY DEF ModeRecord, Built
<1>4. \A r \in Repos : RepoAt(m, r, t) <=> r \in scopesOf(m) /\ expiryOf(m, r) > t
  BY <1>0, <1>1, <1>2, <1>3 DEF RepoAt
<1>5. \A s \in scopesOf(m) : s \in Scopes /\ expiryOf(m, s) = m.exp
  BY <1>1, <1>3 DEF scopesOf, Scopes, expiryOf
<1> QED
  BY <1>1, <1>4, <1>5 DEF AllAt

\* build_github_yolo_mode_record: all scopes or the named ones, never in the past.
LEMMA BuildBuilds ==
    ASSUME clock \in Nat, NEW R \in SUBSET Repos, NEW ttl \in Ttls
    PROVE  build_github_yolo_mode_record(R, ttl) \in ModeRecord /\ Built(build_github_yolo_mode_record(R, ttl))
<1> DEFINE exp == IF ttl = Never \/ clock + ttl > MaxTime THEN Never ELSE clock + ttl
           m == [all |-> R = {}, exp |-> exp, grants |-> [r \in Repos |-> IF r \in R THEN exp ELSE 0], repos |-> R]
<1>1. ttl \in 1..Never /\ Never \in Nat /\ Never = MaxTime + 1 /\ MaxTime \in Nat
  BY ModeAssumption DEF Never
<1>2. exp \in 0..Never /\ exp # 0
  BY <1>1
<1>3. build_github_yolo_mode_record(R, ttl) = m
  BY DEF build_github_yolo_mode_record
<1> HIDE DEF exp
<1>4. [r \in Repos |-> IF r \in R THEN exp ELSE 0] \in [Repos -> 0..Never]
  BY <1>1, <1>2
<1>5. m \in ModeRecord
  BY <1>2, <1>4 DEF ModeRecord
<1>6. Built(m)
  BY <1>2 DEF Built
<1> QED
  BY <1>3, <1>5, <1>6

\* Merging into a record that is active changes exactly the scopes of the
\* new one, whatever the old one was.
LEMMA MergeGrants ==
    ASSUME clock \in Nat, NEW m \in ModeRecord, NEW n \in ModeRecord, Built(n), NEW t \in Nat, t >= clock
    PROVE  LET x == merge_github_yolo_mode_records(m, n) IN
           /\ x \in ModeRecord
           /\ AllAt(x, t) <=> IF All \in scopesOf(n) THEN expiryOf(n, All) > t ELSE AllAt(m, t)
           /\ \A r \in Repos : RepoAt(x, r, t) <=> IF r \in scopesOf(n) THEN expiryOf(n, r) > t ELSE RepoAt(m, r, t)
<1> DEFINE old == github_yolo_active_repo_grants(m)
           grants == [r \in Repos |-> IF n.grants[r] # 0 THEN n.grants[r] ELSE old[r]]
           keepsAll == github_yolo_all_installed_active(m)
           y == [all |-> n.all \/ keepsAll,
                 exp |-> IF n.all THEN n.exp ELSE IF keepsAll THEN m.exp ELSE Never,
                 grants |-> grants, repos |-> {r \in Repos : grants[r] # 0}]
           x == merge_github_yolo_mode_records(m, n)
<1>0. /\ Never \in Nat /\ m.exp \in 0..Never /\ n.exp \in 0..Never /\ m.all \in BOOLEAN /\ n.all \in BOOLEAN
      /\ n.grants \in [Repos -> 0..Never] /\ Never \in 0..Never
  BY ModeAssumption DEF ModeRecord, Never
<1>1. \A r \in Repos : /\ old[r] \in 0..Never
                       /\ (old[r] # 0) <=> RepoAt(m, r, clock)
                       /\ (old[r] > t) <=> RepoAt(m, r, t)
  BY ActiveGrants
<1>2. /\ AllAt(n, t) <=> All \in scopesOf(n) /\ expiryOf(n, All) > t
      /\ \A r \in Repos : RepoAt(n, r, t) <=> r \in scopesOf(n) /\ expiryOf(n, r) > t
  BY BuiltGrants
<1>3. keepsAll <=> AllAt(m, clock)
  BY DEF github_yolo_all_installed_active, active, AllAt
<1>4. AllAt(m, t) => AllAt(m, clock)
  BY <1>0 DEF AllAt
<1>5. \A r \in Repos : RepoAt(m, r, t) => RepoAt(m, r, clock)
  <2>1. \A r \in Repos : m.grants[r] \in 0..Never
    BY DEF ModeRecord
  <2> QED
    BY <1>0, <2>1 DEF RepoAt
<1>6. x = IF ~github_mode_has_active_scope(m) THEN n ELSE y
  BY DEF merge_github_yolo_mode_records
<1>7. CASE ~github_mode_has_active_scope(m)
  <2>1. x = n /\ ~AllAt(m, t) /\ \A r \in Repos : ~RepoAt(m, r, t)
    BY <1>4, <1>5, <1>6, <1>7, ActiveScope
  <2> HIDE DEF x
  <2> QED
    BY <1>2, <2>1 DEF x
<1>8. CASE github_mode_has_active_scope(m)
  <2>1. x = y
    BY <1>6, <1>8
  <2> HIDE DEF x, old
  <2>2. grants \in [Repos -> 0..Never] /\ \A r \in Repos : grants[r] = IF n.grants[r] # 0 THEN n.grants[r] ELSE old[r]
    BY <1>0, <1>1
  <2> HIDE DEF grants
  <2>3. y \in ModeRecord
    <3>1. (n.all \/ keepsAll) \in BOOLEAN
      BY <1>0, <1>3 DEF AllAt
    <3>2. (IF n.all THEN n.exp ELSE IF keepsAll THEN m.exp ELSE Never) \in 0..Never
      BY <1>0
    <3> QED
      BY <2>2, <3>1, <3>2 DEF ModeRecord
  <2>4. /\ x.all = (n.all \/ keepsAll) /\ x.grants = grants /\ x.repos = {r \in Repos : grants[r] # 0}
        /\ x.exp = IF n.all THEN n.exp ELSE IF keepsAll THEN m.exp ELSE Never
    BY <2>1
  <2> HIDE DEF keepsAll, y
  <2>5. (All \in scopesOf(n) <=> n.all) /\ expiryOf(n, All) = n.exp
    BY ModeAssumption DEF scopesOf, expiryOf
  <2>6. AllAt(x, t) <=> IF All \in scopesOf(n) THEN expiryOf(n, All) > t ELSE AllAt(m, t)
    <3>1. CASE n.all
      BY <2>4, <2>5, <3>1 DEF AllAt
    <3>2. CASE ~n.all
      BY <1>3, <1>4, <2>4, <2>5, <3>2 DEF AllAt
    <3> QED
      BY <3>1, <3>2
  <2>7. \A r \in Repos : RepoAt(x, r, t) <=> x.grants[r] > t
    <3>1. hasGrants(x) \/ x.repos = {}
      BY <2>4 DEF hasGrants
    <3> QED
      BY <3>1 DEF RepoAt
  <2>8. \A r \in Repos : (r \in scopesOf(n) <=> n.grants[r] # 0) /\ expiryOf(n, r) = n.grants[r]
    BY ModeAssumption DEF scopesOf, expiryOf
  <2>9. ASSUME NEW r \in Repos
        PROVE  RepoAt(x, r, t) <=> IF r \in scopesOf(n) THEN expiryOf(n, r) > t ELSE RepoAt(m, r, t)
    BY <1>1, <2>2, <2>4, <2>7, <2>8
  <2> QED
    BY <2>1, <2>3, <2>6, <2>9 DEF x
<1> QED
  BY <1>7, <1>8

LEMMA ModeInitially == ModeInit => ModeInv
<1> SUFFICES ASSUME ModeInit PROVE ModeInv
  OBVIOUS
<1>0. Never \in Nat /\ Never > 0 /\ All \notin Repos /\ clock = 0 /\ op = IdleOp
  <2>1. Never \in Nat /\ Never > 0 /\ All \notin Repos
    BY ModeAssumption DEF Never
  <2> QED
    BY <2>1 DEF ModeInit
<1>1. NoMode \in ModeRecord
  BY <1>0 DEF NoMode, ModeRecord
<1>2. op \in [st : {"idle", "merge", "repair"}, next : ModeRecord, seen : ModeRecord, yolo : BOOLEAN] /\ op.st = "idle"
  BY <1>0, <1>1 DEF IdleOp
<1>3. MergeReady /\ RepairReady
  BY <1>2 DEF MergeReady, RepairReady
<1>4. PushWasGranted
  BY DEF PushWasGranted, inFlight, NewPush, ModeInit
<1>5. CASE mode = NoMode /\ rewrite = FALSE /\ issued = {} /\ want = [s \in Scopes |-> 0]
  <2>1. ModeTyped
    BY <1>0, <1>1, <1>2, <1>5 DEF ModeTyped
  <2>2. \A t \in Nat : ~AllAt(mode, t) /\ \A r \in Repos : ~RepoAt(mode, r, t)
    BY <1>5 DEF NoMode, AllAt, RepoAt
  <2>3. Agreement /\ WantedIsIssued
    BY <1>0, <1>5, <2>2 DEF Agreement, WantedIsIssued, Scopes
  <2>4. RewriteFollowsMode
    BY <1>0, <1>1, <1>5, <2>2, ActiveScope DEF RewriteFollowsMode
  <2> QED
    BY <1>3, <1>4, <2>1, <2>3, <2>4 DEF ModeInv
<1>6. ASSUME NEW R \in SUBSET Repos \ {{}}, NEW exp \in {1, Never},
             mode = [NoMode EXCEPT !.exp = exp, !.repos = R], rewrite = TRUE, issued = R \X {exp},
             want = [s \in Scopes |-> IF s \in R THEN exp ELSE 0]
      PROVE  ModeInv
  <2>0. exp \in 0..Never /\ exp # 0 /\ R \subseteq Repos
    BY <1>0
  <2>1. mode \in ModeRecord
    BY <1>1, <1>6, <2>0 DEF ModeRecord
  <2>2. ModeTyped
    BY <1>0, <1>2, <1>6, <2>0, <2>1 DEF ModeTyped
  <2>3. mode.all = FALSE /\ mode.exp = exp /\ mode.repos = R /\ mode.grants = [r \in Repos |-> 0]
    BY <1>6 DEF NoMode
  <2>4. Agreement
    BY <1>0, <1>6, <2>0, <2>3 DEF Agreement, AllAt, RepoAt, hasGrants, Scopes
  <2>5. WantedIsIssued
    BY <1>6, <2>0 DEF WantedIsIssued
  <2> QED
    BY <1>3, <1>4, <1>6, <2>2, <2>4, <2>5 DEF ModeInv, RewriteFollowsMode
<1> QED
  BY <1>5, <1>6 DEF ModeInit

-----------------------------------------------------------------------------
\* The operator's steps leave the requests alone, and the requests' steps the
\* record; a request is let through by the record of that moment.
LEMMA MergeStep == ModeInv /\ install_mode => ModeInv'
<1> SUFFICES ASSUME ModeInv, install_mode PROVE ModeInv'
  OBVIOUS
<1> USE DEF ModeInv
<1> DEFINE n == op.next
<1>0. /\ op.st = "merge" /\ mode' = merge_github_yolo_mode_records(mode, n)
      /\ rewrite' = TRUE /\ op' = IdleOp /\ UNCHANGED <<clock, push>>
      /\ issued' = issued \cup {<<s, expiryOf(n, s)>> : s \in scopesOf(n)}
      /\ want' = [s \in Scopes |-> IF s \in scopesOf(n) THEN expiryOf(n, s) ELSE want[s]]
  BY DEF install_mode, MergeReady
<1>1. n \in ModeRecord /\ Built(n) /\ mode \in ModeRecord /\ clock \in Nat /\ want \in [Scopes -> 0..Never]
  BY <1>0 DEF ModeTyped, MergeReady
<1> HIDE DEF n
<1>2. \A s \in scopesOf(n) : s \in Scopes /\ expiryOf(n, s) \in 0..Never
  BY <1>1, BuiltGrants DEF ModeRecord
<1>3. \A t \in Nat : t >= clock =>
        /\ AllAt(mode', t) <=> IF All \in scopesOf(n) THEN expiryOf(n, All) > t ELSE AllAt(mode, t)
        /\ \A r \in Repos : RepoAt(mode', r, t) <=>
                               IF r \in scopesOf(n) THEN expiryOf(n, r) > t ELSE RepoAt(mode, r, t)
  BY <1>0, <1>1, MergeGrants
<1>4. mode' \in ModeRecord
  BY <1>0, <1>1, MergeGrants
<1>5. ModeTyped'
  <2>1. want' \in [Scopes -> 0..Never]
    BY <1>0, <1>1, <1>2
  <2>2. op' \in [st : {"idle", "merge", "repair"}, next : ModeRecord, seen : ModeRecord, yolo : BOOLEAN]
    BY <1>0, ModeAssumption DEF IdleOp, NoMode, ModeRecord, Never
  <2> QED
    BY <1>0, <1>1, <1>4, <2>1, <2>2 DEF ModeTyped
<1>6. Agreement'
  <2>1. \A s \in Scopes : want'[s] = IF s \in scopesOf(n) THEN expiryOf(n, s) ELSE want[s]
    BY <1>0
  <2> QED
    BY <1>0, <1>3, <2>1 DEF Agreement, Scopes
<1>7. WantedIsIssued'
  BY <1>0 DEF WantedIsIssued
<1>8. PushWasGranted'
  BY <1>0 DEF PushWasGranted, inFlight
<1>9. MergeReady' /\ RepairReady' /\ RewriteFollowsMode'
  BY <1>0 DEF MergeReady, RepairReady, RewriteFollowsMode, IdleOp
<1> QED
  BY <1>5, <1>6, <1>7, <1>8, <1>9

\* Nothing becomes active by waiting.
LEMMA OnlyLapses ==
    ASSUME ModeTyped, clock' \in Nat, clock' >= clock, UNCHANGED mode
    PROVE  github_mode_has_active_scope(mode)' => github_mode_has_active_scope(mode)
<1>0. mode \in ModeRecord /\ clock \in Nat /\ Never \in Nat
  BY ModeAssumption DEF ModeTyped, Never
<1>1. github_mode_has_active_scope(mode) <=> AllAt(mode, clock) \/ \E r \in Repos : RepoAt(mode, r, clock)
  BY <1>0, ActiveScope
<1>2. github_mode_has_active_scope(mode)' <=> AllAt(mode, clock') \/ \E r \in Repos : RepoAt(mode, r, clock')
  <2>1. ASSUME NEW r \in Repos
        PROVE  (github_yolo_active_repo_grants(mode)[r] # 0)' <=> RepoAt(mode, r, clock')
    <3>1. mode.grants[r] \in 0..Never /\ mode.exp \in 0..Never
      BY <1>0 DEF ModeRecord
    <3> QED
      BY <1>0, <3>1 DEF github_yolo_active_repo_grants, RepoAt, active, hasGrants
  <2> QED
    BY <2>1 DEF github_mode_has_active_scope, github_yolo_all_installed_active, active, AllAt
<1>3. \A r \in Repos : RepoAt(mode, r, clock') => RepoAt(mode, r, clock)
  BY <1>0 DEF RepoAt, ModeRecord
<1>4. AllAt(mode, clock') => AllAt(mode, clock)
  BY <1>0 DEF AllAt, ModeRecord
<1> QED
  BY <1>1, <1>2, <1>3, <1>4

LEMMA ModeStep == ModeInv /\ PushTyped /\ [ModeNext]_modeVars => ModeInv'
<1> SUFFICES ASSUME ModeInv, PushTyped, [ModeNext]_modeVars PROVE ModeInv'
  OBVIOUS
<1> USE DEF ModeInv
<1>0. mode \in ModeRecord /\ clock \in Nat /\ Never \in Nat /\ All \notin Repos
  BY ModeAssumption DEF ModeTyped, Never
<1>1. IdleOp \in [st : {"idle", "merge", "repair"}, next : ModeRecord, seen : ModeRecord, yolo : BOOLEAN]
      /\ NoMode \in ModeRecord
  BY <1>0 DEF IdleOp, NoMode, ModeRecord
<1>2. ASSUME UNCHANGED <<clock, mode, rewrite, op, issued, want>>, PushWasGranted' PROVE ModeInv'
  BY <1>2 DEF ModeTyped, Agreement, MergeReady, RepairReady, WantedIsIssued, RewriteFollowsMode,
       github_mode_has_active_scope, github_yolo_all_installed_active, github_yolo_active_repo_grants, active
<1>3. ASSUME UNCHANGED <<push, issued>> PROVE PushWasGranted'
  BY <1>3 DEF PushWasGranted, inFlight
<1>4. CASE \E R \in SUBSET Repos, ttl \in Ttls : enable_github_yolo_mode(R, ttl)
  <2>1. PICK R \in SUBSET Repos, ttl \in Ttls : enable_github_yolo_mode(R, ttl)
    BY <1>4
  <2> DEFINE n == build_github_yolo_mode_record(R, ttl)
  <2>2. /\ op' = [IdleOp EXCEPT !.st = "merge", !.next = n, !.seen = mode]
        /\ UNCHANGED <<clock, mode, rewrite, push, issued, want>>
    BY <2>1 DEF enable_github_yolo_mode
  <2>3. n \in ModeRecord /\ Built(n)
    BY <1>0, BuildBuilds
  <2> HIDE DEF n
  <2>4. /\ op' \in [st : {"idle", "merge", "repair"}, next : ModeRecord, seen : ModeRecord, yolo : BOOLEAN]
        /\ op'.st = "merge" /\ op'.next = n /\ op'.seen = mode
    BY <1>0, <1>1, <2>2, <2>3
  <2>5. ModeTyped'
    BY <2>2, <2>4 DEF ModeTyped
  <2>6. MergeReady' /\ RepairReady' /\ RewriteFollowsMode'
    BY <2>2, <2>3, <2>4 DEF MergeReady, RepairReady, RewriteFollowsMode
  <2> QED
    BY <1>3, <2>2, <2>5, <2>6 DEF Agreement, WantedIsIssued
<1>5. CASE install_mode
  BY <1>5, MergeStep
<1>6. CASE install_mode_failed
  <2>1. op.st = "merge" /\ rewrite' = TRUE /\ op' = IdleOp /\ UNCHANGED <<clock, mode, push, issued, want>>
    BY <1>6 DEF install_mode_failed
  <2>2. op'.st = "idle"
    BY <2>1 DEF IdleOp
  <2> QED
    BY <1>1, <1>3, <2>1, <2>2
       DEF ModeTyped, Agreement, MergeReady, RepairReady, WantedIsIssued, RewriteFollowsMode
<1>7. CASE disable_github_yolo_mode
  <2>1. /\ op.st = "idle" /\ mode' = NoMode /\ want' = [s \in Scopes |-> 0]
        /\ UNCHANGED <<clock, op, push, issued>>
    BY <1>7 DEF disable_github_yolo_mode, command
  <2>2. ModeTyped'
    BY <1>0, <1>1, <2>1 DEF ModeTyped
  <2>3. \A t \in Nat : ~AllAt(NoMode, t) /\ \A r \in Repos : ~RepoAt(NoMode, r, t)
    BY DEF AllAt, RepoAt, NoMode
  <2>4. Agreement' /\ WantedIsIssued'
    BY <1>0, <2>1, <2>3 DEF Agreement, WantedIsIssued, Scopes
  <2>5. ~github_mode_has_active_scope(NoMode)
    BY <1>0, <1>1, <2>3, ActiveScope
  <2>6. ~github_mode_has_active_scope(mode)'
    BY <2>1, <2>5 DEF github_mode_has_active_scope, github_yolo_all_installed_active,
                      github_yolo_active_repo_grants, active
  <2> QED
    BY <1>3, <2>1, <2>2, <2>4, <2>6 DEF MergeReady, RepairReady, RewriteFollowsMode
<1>8. CASE reconcile_github_agent_git_for_mode
  <2>1. /\ op' = [IdleOp EXCEPT !.st = "repair", !.yolo = github_mode_has_active_scope(mode)]
        /\ UNCHANGED <<clock, mode, rewrite, push, issued, want>>
    BY <1>8 DEF reconcile_github_agent_git_for_mode
  <2>2. github_mode_has_active_scope(mode) \in BOOLEAN
    BY DEF github_mode_has_active_scope, github_yolo_all_installed_active
  <2>3. /\ op' \in [st : {"idle", "merge", "repair"}, next : ModeRecord, seen : ModeRecord, yolo : BOOLEAN]
        /\ op'.st = "repair" /\ op'.yolo = github_mode_has_active_scope(mode)
    BY <1>1, <2>1, <2>2
  <2>4. github_mode_has_active_scope(mode)' = github_mode_has_active_scope(mode)
    BY <2>1 DEF github_mode_has_active_scope, github_yolo_all_installed_active,
                github_yolo_active_repo_grants, active
  <2> QED
    BY <1>3, <2>1, <2>3, <2>4
       DEF ModeTyped, Agreement, MergeReady, RepairReady, WantedIsIssued, RewriteFollowsMode
<1>9. CASE repair_agent_git
  <2>1. op.st = "repair" /\ rewrite' = op.yolo /\ op' = IdleOp /\ UNCHANGED <<clock, mode, push, issued, want>>
    BY <1>9 DEF repair_agent_git
  <2>2. github_mode_has_active_scope(mode)' = github_mode_has_active_scope(mode) /\ op'.st = "idle"
    BY <2>1 DEF github_mode_has_active_scope, github_yolo_all_installed_active,
                github_yolo_active_repo_grants, active, IdleOp
  <2> QED
    BY <1>1, <1>3, <2>1, <2>2
       DEF ModeTyped, Agreement, MergeReady, RepairReady, WantedIsIssued, RewriteFollowsMode
<1>10. CASE tick
  <2>1. clock' = clock + 1 /\ UNCHANGED <<mode, rewrite, op, push, issued, want>>
    BY <1>10 DEF tick, operator
  <2>2. clock' \in Nat /\ clock' >= clock
    BY <1>0, <2>1
  <2>3. github_mode_has_active_scope(mode)' => github_mode_has_active_scope(mode)
    BY <2>1, <2>2, OnlyLapses
  <2>4. Agreement'
    BY <1>0, <2>1 DEF Agreement
  <2> QED
    BY <1>3, <2>1, <2>2, <2>3, <2>4
       DEF ModeTyped, MergeReady, RepairReady, WantedIsIssued, RewriteFollowsMode
<1>11. ASSUME NEW p \in Pushes, handle_connection(p) PROVE ModeInv'
  <2>1. /\ push[p].st = "sending" /\ UNCHANGED <<clock, mode, rewrite, op, issued, want>>
        /\ push' = [push EXCEPT ![p] = IF validate(p) THEN [@ EXCEPT !.st = "accepted", !.at = clock]
                                       ELSE [@ EXCEPT !.st = "error"]]
    BY <1>11 DEF handle_connection, operator
  <2>2. \A q \in Pushes \ {p} : push'[q] = push[q]
    BY <2>1 DEF PushTyped
  <2>3. CASE ~validate(p)
    <3>1. push'[p].st = "error"
      BY <2>1, <2>3 DEF PushTyped, PushRecord
    <3> QED
      BY <1>2, <2>1, <2>2, <3>1 DEF PushWasGranted, inFlight
  <2>4. CASE validate(p)
    <3>1. push'[p].at = clock /\ push'[p].repo = push[p].repo /\ push'[p].kind = push[p].kind
      BY <2>1, <2>4 DEF PushTyped, PushRecord
    <3>2. push[p].repo \in Repos
      BY <2>1 DEF PushTyped
    <3>3. ASSUME push[p].kind # "pr"
          PROVE  \E g \in issued : g[1] \in {push[p].repo, All} /\ g[2] > clock
      <4> DEFINE r == push[p].repo
      <4>1. AllAt(mode, clock) \/ RepoAt(mode, r, clock)
        BY <2>4, <3>3 DEF validate, github_mode_allows_repo, github_yolo_all_installed_active,
             github_yolo_active_legacy_repos, active, AllAt, RepoAt
      <4>2. want[All] > clock \/ want[r] > clock
        BY <1>0, <3>2, <4>1 DEF Agreement
      <4>3. PICK s \in {r, All} : want[s] > clock
        BY <4>2
      <4>4. s \in Scopes /\ want[s] # 0
        BY <1>0, <3>2, <4>3 DEF Scopes, ModeTyped
      <4> QED
        BY <4>3, <4>4 DEF WantedIsIssued
    <3>4. ASSUME NEW q \in Pushes
          PROVE  inFlight(q)' /\ push'[q].kind # "pr" =>
                     \E g \in issued' : g[1] \in {push'[q].repo, All} /\ g[2] > push'[q].at
      <4>1. CASE q = p
        BY <2>1, <3>1, <3>3, <4>1
      <4>2. CASE q # p
        BY <1>2, <2>1, <2>2, <4>2 DEF PushWasGranted, inFlight
      <4> QED
        BY <4>1, <4>2
    <3>5. PushWasGranted'
      BY <3>4 DEF PushWasGranted
    <3> QED
      BY <1>2, <2>1, <3>5
  <2> QED
    BY <2>3, <2>4
<1>12. ASSUME NEW p \in Pushes, NEW st \in PushStates \ {"new", "sending"},
              push[p].st \notin {"new", "sending", "error"}, to(p, st),
              UNCHANGED <<clock, mode, rewrite, op, issued, want>>
       PROVE  ModeInv'
  <2>1. /\ push'[p].at = push[p].at /\ push'[p].repo = push[p].repo /\ push'[p].kind = push[p].kind
        /\ \A q \in Pushes \ {p} : push'[q] = push[q]
    BY <1>12 DEF to, PushTyped, PushRecord
  <2> QED
    BY <1>2, <1>12, <2>1 DEF PushWasGranted, inFlight
<1>13. ASSUME NEW p \in Pushes, serve(p) \/ bundle_cut(p) \/ step_failed(p), ~handle_connection(p) PROVE ModeInv'
  <2>1. CASE receive_declared_bundle(p) \/ import(p) \/ push_branch(p) \/ create_pull_request(p) \/ respond(p)
    BY <2>1, <1>12 DEF receive_declared_bundle, import, push_branch, create_pull_request, respond, operator, PushStates
  <2>2. CASE git_push(p)
    BY <2>2, <1>12 DEF git_push, operator, PushStates
  <2>3. CASE bundle_cut(p) \/ step_failed(p)
    BY <2>3, <1>12 DEF bundle_cut, step_failed, operator, PushStates
  <2>4. CASE clone_repo_with_token(p)
    <3>1. /\ push[p].st = "received" /\ UNCHANGED <<clock, mode, rewrite, op, issued, want>>
          /\ push' = [push EXCEPT ![p] = [@ EXCEPT !.st = "cloned", !.clone = remote[push[p].repo]]]
      BY <2>4 DEF clone_repo_with_token, operator
    <3>2. /\ push'[p].at = push[p].at /\ push'[p].repo = push[p].repo /\ push'[p].kind = push[p].kind
          /\ \A q \in Pushes \ {p} : push'[q] = push[q]
      BY <3>1 DEF PushTyped, PushRecord
    <3> QED
      BY <1>2, <3>1, <3>2 DEF PushWasGranted, inFlight
  <2> QED
    BY <1>13, <2>1, <2>2, <2>3, <2>4 DEF serve
<1>14. ASSUME NEW p \in Pushes, NEW kind \in Kinds, NEW r \in Repos, NEW force \in BOOLEAN,
              create_direct_push_bundle(p, kind, r, force)
       PROVE  ModeInv'
  <2>1. UNCHANGED <<clock, mode, rewrite, op, issued, want>>
    BY <1>14 DEF create_direct_push_bundle, operator
  <2>2. push'[p].st = "sending" /\ \A q \in Pushes \ {p} : push'[q] = push[q]
    BY <1>14 DEF create_direct_push_bundle, PushTyped, NewPush
  <2> QED
    BY <1>2, <2>1, <2>2 DEF PushWasGranted, inFlight
<1>15. CASE serve_publisher
  <2>1. /\ UNCHANGED <<clock, mode, rewrite, op, issued, want>>
        /\ \A p \in Pushes : push'[p] = IF push[p].st \in {"new", "ok", "error"} THEN push[p]
                                         ELSE [push[p] EXCEPT !.st = "error"]
    BY <1>15 DEF serve_publisher, operator
  <2>2. \A p \in Pushes : push'[p] = push[p] \/ push'[p].st = "error"
    BY <2>1 DEF PushTyped, PushRecord
  <2> QED
    BY <1>2, <2>1, <2>2 DEF PushWasGranted, inFlight
<1>16. CASE UNCHANGED modeVars
  BY <1>2, <1>3, <1>16 DEF modeVars
<1> QED
  BY <1>4, <1>5, <1>6, <1>7, <1>8, <1>9, <1>10, <1>11, <1>13, <1>14, <1>15, <1>16 DEF ModeNext, serve

\* The publisher lets exactly those pushes through that the operator granted
\* and has not withdrawn, until each grant's own expiry, and the operator
\* CLI, the publisher and the git configuration agree about it
\* (merge_github_yolo_mode_records, github_mode_allows_repo).
THEOREM GrantsEnforced == ModeSpec => []GrantsAreEnforced
<1>1. ModeInv => GrantsAreEnforced
  <2> SUFFICES ASSUME ModeInv PROVE GrantsAreEnforced
    OBVIOUS
  <2>1. mode \in ModeRecord /\ clock \in Nat
    BY DEF ModeInv, ModeTyped
  <2>2. \A r \in Repos : github_mode_allows_repo(mode, r) <=> AllAt(mode, clock) \/ RepoAt(mode, r, clock)
    BY <2>1 DEF github_mode_allows_repo, github_yolo_all_installed_active,
                github_yolo_active_legacy_repos, active, AllAt, RepoAt, ModeRecord
  <2>3. ScopesAsGranted
    BY <2>1, <2>2 DEF ScopesAsGranted, ModeInv, Agreement, active
  <2>4. SidesAgree
    BY <2>1, SidesReadAlike DEF SidesAgree
  <2> QED
    BY <2>3, <2>4 DEF GrantsAreEnforced, ModeInv
<1>2. PushInv => PushTyped
  BY DEF PushInv
<1> QED
  BY <1>1, <1>2, ModeInitially, PushInitially, PushStep, ModeStep, PTL DEF ModeSpec

-----------------------------------------------------------------------------
(* Push grants *)

Request(top) == [st : {"new", "refresh", "resolve", "poll", "save", "write", "done", "failed"},
                 side : Sides, tok : 0..top, keep : BOOLEAN, ttl : Nat]

\* Every token in circulation was issued before.
GrantsTyped ==
    /\ minted \in Nat /\ live \subseteq 1..minted /\ accidents \in Nat /\ thrifty \in BOOLEAN
    /\ cache \in [Sides -> 0..minted] /\ cause \subseteq Requests
    /\ request \in [Requests -> Request(minted)]

\* A token that is about to be saved is known to nobody else.
SavedAreFresh ==
    \A q \in Requests : request[q].st = "save" =>
        /\ request[q].tok \in live
        /\ \A d \in Sides : cache[d] # request[q].tok
        /\ \A p \in Requests \ {q} : request[p].st \in {"save", "refresh"} => request[p].tok # request[q].tok

\* The two sides share no token.
SidesApart ==
    /\ \A c, d \in Sides : cache[c] = cache[d] /\ cache[d] # 0 => c = d
    /\ \A q \in Requests : request[q].st = "refresh" =>
          /\ request[q].tok # 0
          /\ \A d \in Sides : cache[d] = request[q].tok => d = request[q].side

\* A cached token that is used up is about to be replaced.
RenewalOwed ==
    ~thrifty /\ accidents = 0 =>
        \A d \in Sides : \/ cache[d] \in live \cup {0}
                         \/ \E q \in Requests : request[q].st = "save" /\ request[q].side = d

GrantsInv == GrantsTyped /\ SavedAreFresh /\ SidesApart /\ RenewalOwed /\ FailsOnlyForCause

-----------------------------------------------------------------------------
\* A request that got a token is well typed.
LEMMA NewToken ==
    ASSUME NEW top, NEW x \in Request(top), NEW new \in Nat
    PROVE  [x EXCEPT !.st = IF x.keep THEN "save" ELSE "write", !.tok = new] \in Request(new)
<1>1. new \in 0..new
  OBVIOUS
<1>2. \A t \in 0..new : [x EXCEPT !.st = IF x.keep THEN "save" ELSE "write", !.tok = t] \in Request(new)
  BY DEF Request
<1> QED
  BY <1>1, <1>2

LEMMA GrantsInitially == GrantsInit => GrantsInv
<1> SUFFICES ASSUME GrantsInit PROVE GrantsInv
  OBVIOUS
<1>1. GrantsTyped
  <2>1. minted = 1 /\ live = {1} /\ accidents = 0 /\ thrifty = FALSE /\ cause = {}
    BY DEF GrantsInit
  <2>2. cache \in [Sides -> 0..1]
    BY DEF GrantsInit, Sides
  <2>3. Quiet \in Request(1)
    BY DEF Quiet, Sides, Request
  <2>4. request \in [Requests -> Request(1)]
    BY <2>3 DEF GrantsInit
  <2>5. live \subseteq 1..1 /\ minted \in Nat /\ accidents \in Nat /\ cause \subseteq Requests
    BY <2>1
  <2> QED
    BY <2>1, <2>2, <2>4, <2>5 DEF GrantsTyped
<1>2. \A q \in Requests : request[q].st = "new"
  BY DEF GrantsInit, Quiet
<1>3. SavedAreFresh /\ FailsOnlyForCause
  BY <1>2 DEF SavedAreFresh, FailsOnlyForCause
<1>4. SidesApart /\ RenewalOwed
  BY <1>2 DEF GrantsInit, SidesApart, RenewalOwed, Sides
<1> QED
  BY <1>1, <1>3, <1>4 DEF GrantsInv

\* A refresh uses one token up and returns a new one; the cache of that side
\* alone can hold the one that is used up.
LEMMA RefreshStep ==
    ASSUME GrantsInv, NEW q \in Requests, refresh_user_access_token(q)
    PROVE  GrantsInv'
<1> DEFINE x == request[q]
           new == minted + 1
<1> USE DEF GrantsInv
<1>0. /\ x.st = "refresh" /\ x.tok \in live /\ live' = (live \ {x.tok}) \cup {new} /\ minted' = new
      /\ request' = [request EXCEPT ![q] = [x EXCEPT !.st = IF x.keep THEN "save" ELSE "write", !.tok = new]]
      /\ thrifty' = (thrifty \/ ~x.keep) /\ UNCHANGED <<cache, accidents, cause>>
  BY DEF refresh_user_access_token
<1>1. GrantsTyped'
  <2>1. new \in Nat /\ 0..minted \subseteq 0..new /\ 1..minted \subseteq 1..new /\ new \in 1..new
    BY DEF GrantsTyped
  <2>2. minted' \in Nat /\ live' \subseteq 1..minted'
    BY <2>1, <1>0 DEF GrantsTyped
  <2>3. cache' \in [Sides -> 0..minted']
    BY <2>1, <1>0 DEF GrantsTyped
  <2>4. x \in Request(minted)
    BY DEF GrantsTyped
  <2>5. [x EXCEPT !.st = IF x.keep THEN "save" ELSE "write", !.tok = new] \in Request(new)
    <3> HIDE DEF x, new
    <3> QED
      BY <2>1, <2>4, NewToken
  <2>6. \A p \in Requests : request[p] \in Request(new)
    BY <2>1 DEF GrantsTyped, Request
  <2>7. request' \in [Requests -> Request(minted')]
    BY <2>5, <2>6, <1>0 DEF GrantsTyped
  <2> QED
    BY <2>2, <2>3, <2>7, <1>0 DEF GrantsTyped
<1>2. /\ \A p \in Requests \ {q} : request'[p] = request[p]
      /\ request'[q].st = (IF x.keep THEN "save" ELSE "write") /\ request'[q].tok = new
      /\ request'[q].side = x.side /\ x.keep \in BOOLEAN
  BY <1>0 DEF GrantsTyped, Request
<1>3. /\ new \notin live /\ \A d \in Sides : cache[d] # new
      /\ \A p \in Requests : request[p].tok # new
  BY DEF GrantsTyped, Request
<1>4. SavedAreFresh'
  <2> SUFFICES ASSUME NEW p \in Requests, request'[p].st = "save"
               PROVE  /\ request'[p].tok \in live'
                      /\ \A d \in Sides : cache'[d] # request'[p].tok
                      /\ \A r \in Requests \ {p} : request'[r].st \in {"save", "refresh"}
                                                     => request'[r].tok # request'[p].tok
    BY DEF SavedAreFresh
  <2>1. CASE p = q
    BY <2>1, <1>0, <1>2, <1>3
  <2>2. CASE p # q
    BY <2>2, <1>0, <1>2, <1>3 DEF SavedAreFresh
  <2> QED
    BY <2>1, <2>2
<1>5. SidesApart'
  BY <1>0, <1>2, <1>3 DEF SidesApart
<1>6. RenewalOwed'
  <2> SUFFICES ASSUME ~thrifty, x.keep, accidents = 0, NEW d \in Sides, cache[d] \notin live' \cup {0}
               PROVE  \E p \in Requests : request'[p].st = "save" /\ request'[p].side = d
    BY <1>0, <1>2 DEF RenewalOwed
  <2>1. CASE d = x.side
    BY <2>1, <1>2
  <2>2. CASE d # x.side
    <3>1. cache[d] # x.tok
      BY <2>2, <1>0 DEF SidesApart
    <3>2. PICK p \in Requests : request[p].st = "save" /\ request[p].side = d
      BY <3>1, <1>0 DEF RenewalOwed
    <3> QED
      BY <3>2, <1>0, <1>2
  <2> QED
    BY <2>1, <2>2
<1>7. FailsOnlyForCause'
  BY <1>0, <1>2 DEF FailsOnlyForCause
<1> QED
  BY <1>1, <1>4, <1>5, <1>6, <1>7

\* The device flow returns a token nobody has.
LEMMA DeviceFlowStep ==
    ASSUME GrantsInv, NEW q \in Requests, poll_device_flow_access_token(q)
    PROVE  GrantsInv'
<1> DEFINE x == request[q]
           new == minted + 1
<1> USE DEF GrantsInv
<1>0. /\ x.st = "poll" /\ live' = live \cup {new} /\ minted' = new
      /\ request' = [request EXCEPT ![q] = [x EXCEPT !.st = IF x.keep THEN "save" ELSE "write", !.tok = new]]
      /\ UNCHANGED <<cache, accidents, cause, thrifty>>
  BY DEF poll_device_flow_access_token
<1>1. GrantsTyped'
  <2>1. new \in Nat /\ 0..minted \subseteq 0..new /\ 1..minted \subseteq 1..new /\ new \in 1..new
    BY DEF GrantsTyped
  <2>2. minted' \in Nat /\ live' \subseteq 1..minted'
    BY <2>1, <1>0 DEF GrantsTyped
  <2>3. cache' \in [Sides -> 0..minted']
    BY <2>1, <1>0 DEF GrantsTyped
  <2>4. x \in Request(minted)
    BY DEF GrantsTyped
  <2>5. [x EXCEPT !.st = IF x.keep THEN "save" ELSE "write", !.tok = new] \in Request(new)
    <3> HIDE DEF x, new
    <3> QED
      BY <2>1, <2>4, NewToken
  <2>6. \A p \in Requests : request[p] \in Request(new)
    BY <2>1 DEF GrantsTyped, Request
  <2>7. request' \in [Requests -> Request(minted')]
    BY <2>5, <2>6, <1>0 DEF GrantsTyped
  <2> QED
    BY <2>2, <2>3, <2>7, <1>0 DEF GrantsTyped
<1>2. /\ \A p \in Requests \ {q} : request'[p] = request[p]
      /\ request'[q].st = (IF x.keep THEN "save" ELSE "write") /\ request'[q].tok = new
      /\ request'[q].side = x.side
  BY <1>0 DEF GrantsTyped, Request
<1>3. /\ new \notin live /\ \A d \in Sides : cache[d] # new
      /\ \A p \in Requests : request[p].tok # new
  BY DEF GrantsTyped, Request
<1>4. SavedAreFresh'
  <2> SUFFICES ASSUME NEW p \in Requests, request'[p].st = "save"
               PROVE  /\ request'[p].tok \in live'
                      /\ \A d \in Sides : cache'[d] # request'[p].tok
                      /\ \A r \in Requests \ {p} : request'[r].st \in {"save", "refresh"}
                                                     => request'[r].tok # request'[p].tok
    BY DEF SavedAreFresh
  <2>1. CASE p = q
    BY <2>1, <1>0, <1>2, <1>3
  <2>2. CASE p # q
    BY <2>2, <1>0, <1>2, <1>3 DEF SavedAreFresh
  <2> QED
    BY <2>1, <2>2
<1>5. SidesApart'
  BY <1>0, <1>2, <1>3 DEF SidesApart
<1>6. RenewalOwed'
  BY <1>0, <1>2 DEF RenewalOwed
<1>7. FailsOnlyForCause'
  BY <1>0, <1>2 DEF FailsOnlyForCause
<1> QED
  BY <1>1, <1>4, <1>5, <1>6, <1>7

\* What is saved becomes the cached token of its side, and it is live.
LEMMA SaveStep ==
    ASSUME GrantsInv, NEW q \in Requests, save_cached_device_flow_grant(q)
    PROVE  GrantsInv'
<1> DEFINE x == request[q]
<1> USE DEF GrantsInv
<1>0. /\ x.st = "save" /\ request' = [request EXCEPT ![q].st = "write"]
      /\ cache' = [cache EXCEPT ![x.side] = x.tok]
      /\ UNCHANGED <<live, minted, accidents, cause, thrifty>>
  BY DEF save_cached_device_flow_grant, moves, hub
<1>1. GrantsTyped'
  BY <1>0 DEF GrantsTyped, Request
<1>2. /\ \A p \in Requests \ {q} : request'[p] = request[p]
      /\ request'[q].st = "write"
      /\ x.side \in Sides /\ cache'[x.side] = x.tok /\ \A d \in Sides \ {x.side} : cache'[d] = cache[d]
  BY <1>0 DEF GrantsTyped, Request
<1>3. /\ x.tok \in live /\ \A d \in Sides : cache[d] # x.tok
      /\ \A p \in Requests \ {q} : request[p].st \in {"save", "refresh"} => request[p].tok # x.tok
  BY <1>0 DEF SavedAreFresh
<1>4. SavedAreFresh'
  BY <1>0, <1>2, <1>3 DEF SavedAreFresh
<1>5. SidesApart'
  BY <1>2, <1>3 DEF SidesApart
<1>6. RenewalOwed'
  BY <1>0, <1>2, <1>3 DEF RenewalOwed
<1>7. FailsOnlyForCause'
  BY <1>0, <1>2 DEF FailsOnlyForCause
<1> QED
  BY <1>1, <1>4, <1>5, <1>6, <1>7

\* A request that begins takes its side's cached token, if there is one.
LEMMA LoadStep ==
    ASSUME GrantsInv, NEW q \in Requests, NEW side \in Sides, NEW keep \in BOOLEAN, NEW ttl \in Nat,
           load_cached_device_flow_grant(q, side, keep, ttl)
    PROVE  GrantsInv'
<1> USE DEF GrantsInv
<1>0. /\ request[q].st = "new" 
      /\ request' = [request EXCEPT ![q] = [st |-> IF cache[side] = 0 THEN "resolve" ELSE "refresh", side |-> side,
                                            tok |-> cache[side], keep |-> keep, ttl |-> ttl]]
      /\ UNCHANGED <<live, minted, cache, accidents, cause, thrifty>>
  BY DEF load_cached_device_flow_grant, hub
<1>1. GrantsTyped'
  BY <1>0 DEF GrantsTyped, Request
<1>2. /\ \A p \in Requests \ {q} : request'[p] = request[p]
      /\ request'[q].st \in {"resolve", "refresh"} /\ request'[q].tok = cache[side] /\ request'[q].side = side
      /\ request'[q].st = "refresh" => cache[side] # 0
  BY <1>0 DEF GrantsTyped, Request
<1>4. SavedAreFresh'
  BY <1>0, <1>2 DEF SavedAreFresh
<1>5. SidesApart'
  BY <1>0, <1>2 DEF SidesApart
<1>6. RenewalOwed'
  BY <1>0, <1>2 DEF RenewalOwed
<1>7. FailsOnlyForCause'
  BY <1>0, <1>2 DEF FailsOnlyForCause
<1> QED
  BY <1>1, <1>4, <1>5, <1>6, <1>7

\* Every other step of a request leaves the tokens alone, or drops the cached
\* one, and lets no request save or refresh.
LEMMA QuietStep ==
    ASSUME GrantsInv, NEW q \in Requests,
           NEW st \in {"resolve", "poll", "done", "failed"}, moves(q, st),
           request[q].st # "save" \/ accidents' > 0,
           cache' \in [Sides -> 0..minted], \A d \in Sides : cache'[d] \in {0, cache[d]},
           live' = live, minted' = minted, thrifty' = thrifty, accidents' \in Nat, accidents' >= accidents,
           cause' \subseteq Requests, cause \subseteq cause', st = "failed" => q \in cause'
    PROVE  GrantsInv'
<1> USE DEF GrantsInv
<1>1. GrantsTyped'
  BY DEF GrantsTyped, moves, Request
<1>2. /\ \A p \in Requests \ {q} : request'[p] = request[p]
      /\ request'[q].st = st
      /\ \A d \in Sides : cache'[d] \in {0, cache[d]}
  BY DEF GrantsTyped, moves, Request
<1>4. SavedAreFresh'
  <2>1. 0 \notin live
    BY DEF GrantsTyped
  <2> QED
    BY <2>1, <1>2 DEF SavedAreFresh
<1>5. SidesApart'
  BY <1>2 DEF SidesApart
<1>6. RenewalOwed'
  <2> SUFFICES ASSUME ~thrifty', accidents' = 0, NEW d \in Sides, cache'[d] \notin live' \cup {0}
               PROVE  \E p \in Requests : request'[p].st = "save" /\ request'[p].side = d
    BY DEF RenewalOwed
  <2>1. accidents = 0
    BY DEF GrantsTyped
  <2>2. PICK p \in Requests : request[p].st = "save" /\ request[p].side = d
    BY <1>2, <2>1 DEF RenewalOwed
  <2>3. p # q
    BY <2>2
  <2> QED
    BY <1>2, <2>2, <2>3
<1>7. FailsOnlyForCause'
  BY <1>2 DEF FailsOnlyForCause
<1> QED
  BY <1>1, <1>4, <1>5, <1>6, <1>7

\* Revoking may drop a cached token; the helper and the clock touch none.
LEMMA OutsideStep ==
    ASSUME GrantsInv, live' = live, minted' = minted, request' = request, accidents' = accidents,
           cause' = cause, thrifty' = thrifty,
           cache' \in [Sides -> 0..minted], \A d \in Sides : cache'[d] \in {0, cache[d]}
    PROVE  GrantsInv'
<1> USE DEF GrantsInv
<1>1. GrantsTyped'
  BY DEF GrantsTyped
<1>2. 0 \notin live /\ \A d \in Sides : cache'[d] \in {0, cache[d]}
  BY DEF GrantsTyped
<1>3. SavedAreFresh'
  BY <1>2 DEF SavedAreFresh
<1>4. SidesApart' /\ RenewalOwed' /\ FailsOnlyForCause'
  BY <1>2 DEF SidesApart, RenewalOwed, FailsOnlyForCause
<1> QED
  BY <1>1, <1>3, <1>4

\* Nothing dropped: the cache is what it was.
LEMMA KeptCache ==
    ASSUME GrantsInv, cache' = cache
    PROVE  cache' \in [Sides -> 0..minted] /\ \A d \in Sides : cache'[d] \in {0, cache[d]}
  BY DEF GrantsInv, GrantsTyped

LEMMA GrantsStep == GrantsInv /\ [GrantsNext]_grantVars => GrantsInv'
<1> SUFFICES ASSUME GrantsInv, [GrantsNext]_grantVars PROVE GrantsInv'
  OBVIOUS
<1>0. NoTtl \in Nat /\ 1 \in Nat
  BY GrantsAssumption DEF NoTtl
<1>1. ASSUME NEW q \in Requests, mint_device_flow_push_grant(q) PROVE GrantsInv'
  <2>1. CASE refresh_user_access_token(q)
    BY <2>1, RefreshStep
  <2>2. CASE remove_cached_device_flow_grant(q)
    <3>1. cache' \in [Sides -> 0..minted] /\ \A d \in Sides : cache'[d] \in {0, cache[d]}
      BY <2>2 DEF remove_cached_device_flow_grant, GrantsInv, GrantsTyped, Request
    <3>2. request[q].side \in Sides /\ cause \subseteq Requests /\ accidents \in Nat
      BY DEF GrantsInv, GrantsTyped, Request
    <3> QED
      BY <2>2, <3>1, <3>2, QuietStep DEF remove_cached_device_flow_grant, hub
  <2>3. CASE request_device_flow_code(q)
    <3>1. cause \subseteq Requests /\ accidents \in Nat
      BY DEF GrantsInv, GrantsTyped
    <3> QED
      BY <2>3, <3>1, KeptCache, QuietStep DEF request_device_flow_code, hub
  <2>4. CASE poll_device_flow_access_token(q)
    BY <2>4, DeviceFlowStep
  <2>5. CASE device_flow_refused(q)
    <3>1. cause \subseteq Requests /\ accidents \in Nat
      BY DEF GrantsInv, GrantsTyped
    <3> QED
      BY <2>5, <3>1, KeptCache, QuietStep DEF device_flow_refused, hub
  <2>6. CASE save_cached_device_flow_grant(q)
    BY <2>6, SaveStep
  <2> QED
    BY <1>1, <2>1, <2>2, <2>3, <2>4, <2>5, <2>6 DEF mint_device_flow_push_grant
<1>2. ASSUME NEW q \in Requests, write_local_push_grant(q) PROVE GrantsInv'
  <2>1. cause \subseteq Requests /\ accidents \in Nat
    BY DEF GrantsInv, GrantsTyped
  <2> QED
    BY <1>2, <2>1, KeptCache, QuietStep DEF write_local_push_grant, hub
<1>3. ASSUME NEW q \in Requests, request_failed(q) PROVE GrantsInv'
  <2>1. cause \subseteq Requests /\ accidents \in Nat
    BY DEF GrantsInv, GrantsTyped
  <2> QED
    BY <1>3, <2>1, KeptCache, QuietStep DEF request_failed, accident, hub
<1>4. ASSUME NEW q \in Requests, request_push_access(q) \/ grant_push_access(q) PROVE GrantsInv'
  <2>1. CASE \E keep \in BOOLEAN, ttl \in {1, NoTtl} : load_cached_device_flow_grant(q, "sprite", keep, ttl)
    BY <2>1, <1>0, LoadStep DEF Sides
  <2>2. CASE load_cached_device_flow_grant(q, "operator", TRUE, NoTtl)
    BY <2>2, <1>0, LoadStep DEF Sides
  <2>3. CASE mint_device_flow_push_grant(q)
    BY <2>3, <1>1
  <2>4. CASE write_local_push_grant(q)
    BY <2>4, <1>2
  <2> QED
    BY <1>4, <2>1, <2>2, <2>3, <2>4 DEF request_push_access, grant_push_access
<1>5. ASSUME NEW side \in Sides, NEW forget \in BOOLEAN, revoke_push_access(side, forget) PROVE GrantsInv'
  <2>1. cache' \in [Sides -> 0..minted] /\ \A d \in Sides : cache'[d] \in {0, cache[d]}
    BY <1>5 DEF revoke_push_access, forgets, GrantsInv, GrantsTyped
  <2> QED
    BY <1>5, <2>1, OutsideStep DEF revoke_push_access, hub
<1>6. CASE handle_git_credential_helper \/ load_push_grant_from_dir \/ answer \/ passes
  BY <1>6, KeptCache, OutsideStep
     DEF handle_git_credential_helper, load_push_grant_from_dir, answer, passes, hub
<1>7. CASE UNCHANGED grantVars
  BY <1>7, KeptCache, OutsideStep DEF grantVars
<1> QED
  BY <1>3, <1>4, <1>5, <1>6, <1>7 DEF GrantsNext

-----------------------------------------------------------------------------
\* Tokens are kept: a request fails only for a cause of its own, and at rest
\* the cached token is one GitHub accepts (load_cached_device_flow_grant,
\* refresh_user_access_token and save_cached_device_flow_grant, interleaved).
THEOREM TokensKept == GrantsSpec => []TokensAreKept
<1>1. GrantsInv => TokensAreKept
  BY DEF GrantsInv, TokensAreKept, RenewalOwed, CacheIsLive
<1> QED
  BY <1>1, GrantsInitially, GrantsStep, PTL DEF GrantsSpec
=============================================================================
