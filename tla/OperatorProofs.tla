--------------------------- MODULE OperatorProofs ---------------------------
(***************************************************************************)
(* Proofs about the operator's commands that change an installation: the   *)
(* automatic updates keep their budget, spare running calls and bring back *)
(* the Local they stopped; a setup is all or nothing, by what it reports.  *)
(* Both hold for any number of processes, failing steps, kills and reboots.*)
(***************************************************************************)
EXTENDS Upgrade, LocalSetup, FiniteSetTheorems, TLAPS

-----------------------------------------------------------------------------
(* Automatic updates *)

UpdaterStates == {"idle", "check", "begin", "download", "recheck", "stop", "install", "restart", "undo",
                  "defer", "done", "failed"}
UpdaterRecord == [st : UpdaterStates, auto : BOOLEAN, stop : BOOLEAN, mine : Nat, target : Nat,
                  plan : Nat, stopped : BOOLEAN, again : BOOLEAN, cause : BOOLEAN]
LocalRecord == [on : BOOLEAN, since : Nat, exp : Nat, last : Nat, busy : BOOLEAN, late : SUBSET Updaters]
AttemptRecord == [by : Updaters, at : Nat, boot : Nat, due : BOOLEAN]

UpgradeTyped ==
    /\ now \in Nat /\ boot \in Nat /\ installed \in Nat /\ latest \in Nat
    /\ prefs \in [auto : BOOLEAN, last : Nat, boot : Nat, retry : BOOLEAN]
    /\ local \in LocalRecord /\ up \in [Updaters -> UpdaterRecord]
    /\ attempts \subseteq AttemptRecord /\ unfair \in BOOLEAN

\* The preferences remember the last attempt of each kind.
AttemptsKnown ==
    /\ prefs.last <= now + 1 /\ prefs.boot <= boot + 1
    /\ \A a \in attempts :
          /\ a.at <= now /\ a.boot + 1 <= prefs.boot
          /\ a.due => a.at + 1 <= prefs.last

\* An automatic update that is about to stop a busy Local checked before the
\* call began.
LateIsKnown ==
    \A u \in Updaters : up[u].auto /\ up[u].st = "stop" /\ local.busy => u \in local.late

\* A Local that was stopped has a plan until the update has dealt with it.
PlanKept(u) ==
    /\ up[u].st \in {"check", "begin", "download", "recheck", "stop"} => ~up[u].stopped
    /\ up[u].auto /\ up[u].st = "stop" => up[u].plan # 0
    /\ up[u].auto /\ up[u].stopped /\ up[u].st = "install" => up[u].plan # 0
    /\ up[u].auto /\ up[u].stopped /\ up[u].st \in {"defer", "done", "failed"} => up[u].again \/ up[u].cause
PlansKept == \A u \in Updaters : PlanKept(u)

UpgradeInv ==
    UpgradeTyped /\ AttemptsKnown /\ AttemptsBudgeted /\ LateIsKnown /\ CutsOffOnlyLate /\ PlansKept

\* Of the upgrade processes only u goes on, with record x.
UpdaterGoes(u, x) ==
    /\ up' = [up EXCEPT ![u] = x] /\ x \in UpdaterRecord
    /\ x.auto /\ x.st = "stop" => ~local'.busy
    /\ x.st \in {"check", "begin", "download", "recheck", "stop"} => ~x.stopped
    /\ x.auto /\ x.st = "stop" => x.plan # 0
    /\ x.auto /\ x.stopped /\ x.st = "install" => x.plan # 0
    /\ x.auto /\ x.stopped /\ x.st \in {"defer", "done", "failed"} => x.again \/ x.cause

LEMMA UpdaterMoves ==
    ASSUME UpgradeInv, NEW u \in Updaters, NEW x, UpdaterGoes(u, x),
           local' \in LocalRecord, local'.busy => local.busy /\ local'.late = local.late
    PROVE  /\ up' \in [Updaters -> UpdaterRecord] /\ LateIsKnown' /\ PlansKept'
<1>1. up \in [Updaters -> UpdaterRecord] /\ up'[u] = x /\ \A v \in Updaters \ {u} : up'[v] = up[v]
  BY DEF UpgradeInv, UpgradeTyped, UpdaterGoes
<1>2. up' \in [Updaters -> UpdaterRecord]
  BY DEF UpgradeInv, UpgradeTyped, UpdaterGoes
<1>3. LateIsKnown'
  BY <1>1 DEF LateIsKnown, UpgradeInv, UpdaterGoes
<1>4. PlansKept'
  BY <1>1 DEF PlansKept, PlanKept, UpgradeInv, UpdaterGoes
<1> QED
  BY <1>2, <1>3, <1>4

\* Most steps of an updater change nothing else that matters here.
LEMMA OnlyUpdater ==
    ASSUME UpgradeInv, NEW u \in Updaters, NEW x, UpdaterGoes(u, x),
           UNCHANGED <<now, boot, prefs, local, attempts, unfair>>, installed' \in Nat, latest' \in Nat
    PROVE  UpgradeInv'
<1>1. local' \in LocalRecord /\ local' = local
  BY DEF UpgradeInv, UpgradeTyped
<1>2. up' \in [Updaters -> UpdaterRecord] /\ LateIsKnown' /\ PlansKept'
  BY <1>1, UpdaterMoves
<1>3. UpgradeTyped' /\ AttemptsKnown' /\ AttemptsBudgeted' /\ CutsOffOnlyLate'
  BY <1>2 DEF UpgradeInv, UpgradeTyped, AttemptsKnown, AttemptsBudgeted, CutsOffOnlyLate
<1> QED
  BY <1>2, <1>3 DEF UpgradeInv

LEMMA StateSet ==
    ASSUME NEW x \in UpdaterRecord, NEW st \in UpdaterStates
    PROVE  /\ [x EXCEPT !.st = st] \in UpdaterRecord /\ [x EXCEPT !.st = st].st = st
           /\ [x EXCEPT !.st = st].auto = x.auto /\ [x EXCEPT !.st = st].stopped = x.stopped
           /\ [x EXCEPT !.st = st].plan = x.plan /\ [x EXCEPT !.st = st].again = x.again
           /\ [x EXCEPT !.st = st].cause = x.cause
BY DEF UpdaterRecord

LEMMA CauseSet ==
    ASSUME NEW x \in UpdaterRecord
    PROVE  /\ [x EXCEPT !.cause = TRUE] \in UpdaterRecord /\ [x EXCEPT !.cause = TRUE].cause
           /\ [x EXCEPT !.cause = TRUE].st = x.st /\ [x EXCEPT !.cause = TRUE].auto = x.auto
BY DEF UpdaterRecord


\* What a failing updater must have told: nothing is stopped, or why it stays so.
Explained(x) == x.auto /\ x.stopped => x.again \/ x.cause

LEMMA UpdaterFails ==
    ASSUME NEW u \in Updaters, NEW x \in UpdaterRecord, Explained(x), fails(u, x)
    PROVE  \E y : UpdaterGoes(u, y)
<1> DEFINE y == [x EXCEPT !.st = IF x.auto THEN "defer" ELSE "failed"]
<1>1. PICK st \in {"defer", "failed"} : st = IF x.auto THEN "defer" ELSE "failed"
  OBVIOUS
<1>2. y = [x EXCEPT !.st = st] /\ st \in UpdaterStates
  BY <1>1 DEF UpdaterStates
<1>3. up' = [up EXCEPT ![u] = y]
  BY DEF fails, ends
<1> HIDE DEF y
<1>4. y \in UpdaterRecord /\ y.st = st /\ y.auto = x.auto /\ y.stopped = x.stopped /\ y.again = x.again
      /\ y.cause = x.cause
  <2> DEFINE z == [x EXCEPT !.st = st]
  <2>1. z \in UpdaterRecord /\ z.st = st /\ z.auto = x.auto /\ z.stopped = x.stopped /\ z.again = x.again
        /\ z.cause = x.cause
    BY <1>2, StateSet
  <2>2. z = y
    BY <1>2
  <2> HIDE DEF z
  <2> QED
    BY <2>1, <2>2
<1>5. UpdaterGoes(u, y)
  BY <1>3, <1>4 DEF UpdaterGoes, Explained
<1> QED
  BY <1>5

LEMMA Updating ==
    ASSUME UpgradeInv, NEW u \in Updaters,
           \/ run_operator_upgrade(u) \/ continue_operator_upgrade(u) \/ download_upgrade_file(u)
           \/ release_missing(u) \/ step_before_stop_failed(u) \/ recheck(u)
    PROVE  UpgradeInv'
<1>1. /\ up[u] \in UpdaterRecord /\ up \in [Updaters -> UpdaterRecord]
      /\ up[u].st \in {"check", "begin", "download", "recheck"} /\ ~up[u].stopped
      /\ UNCHANGED <<now, boot, prefs, local, installed, latest, attempts, unfair>>
      /\ installed \in Nat /\ latest \in Nat /\ local \in LocalRecord /\ now \in Nat
  BY DEF UpgradeInv, UpgradeTyped, PlansKept, PlanKept, run_operator_upgrade, continue_operator_upgrade,
         download_upgrade_file, release_missing, step_before_stop_failed, recheck, world
<1>2. ASSUME NEW y, UpdaterGoes(u, y)
      PROVE  UpgradeInv'
  BY <1>1, <1>2, OnlyUpdater
<1>3. CASE fails(u, up[u])
  <2>1. Explained(up[u])
    BY <1>1 DEF Explained
  <2> QED
    BY <1>1, <1>2, <1>3, <2>1, UpdaterFails
<1>4. ASSUME NEW st \in {"download", "recheck"}, becomes(u, st)
      PROVE  UpgradeInv'
  <2> DEFINE y == [up[u] EXCEPT !.st = st]
  <2>1. up' = [up EXCEPT ![u] = y]
    BY <1>4 DEF becomes
  <2>2. y \in UpdaterRecord /\ y.st = st /\ y.stopped = FALSE
    <3>1. st \in UpdaterStates
      BY DEF UpdaterStates
    <3>2. up[u].stopped = FALSE
      BY <1>1 DEF UpdaterRecord
    <3>3. y \in UpdaterRecord /\ y.st = st /\ y.stopped = up[u].stopped
      BY <1>1, <3>1, StateSet
    <3> QED
      BY <3>2, <3>3
  <2> HIDE DEF y
  <2>3. UpdaterGoes(u, y)
    BY <2>1, <2>2 DEF UpdaterGoes
  <2> QED
    BY <1>2, <2>3
<1>5. CASE run_operator_upgrade(u)
  <2>1. PICK st \in {"begin", "done"} :
          up' = [up EXCEPT ![u] = [up[u] EXCEPT !.st = st,
                                       !.target = IF up[u].target = 0 THEN latest ELSE up[u].target]]
    BY <1>1, <1>5 DEF run_operator_upgrade, UpdaterRecord
  <2> DEFINE n == IF up[u].target = 0 THEN latest ELSE up[u].target
             y == [[up[u] EXCEPT !.st = st] EXCEPT !.target = n]
  <2>2. up' = [up EXCEPT ![u] = y]
    BY <2>1
  <2>3. n \in Nat /\ st \in UpdaterStates
    BY <1>1 DEF UpdaterRecord, UpdaterStates
  <2> HIDE DEF n
  <2>4. y \in UpdaterRecord /\ y.st = st /\ y.stopped = FALSE
    BY <1>1, <2>3 DEF UpdaterRecord
  <2> HIDE DEF y
  <2>5. UpdaterGoes(u, y)
    BY <2>2, <2>4 DEF UpdaterGoes
  <2> QED
    BY <1>2, <2>5
<1>6. CASE recheck(u)
  <2>1. CASE ~eligible(u)
    BY <1>3, <1>6, <2>1 DEF recheck
  <2>2. CASE eligible(u)
    <3> DEFINE st == IF local.on THEN "stop" ELSE "install"
               plan == IF local.on /\ up[u].auto THEN local.exp ELSE 0
               y == [[up[u] EXCEPT !.st = st] EXCEPT !.plan = plan]
    <3>1. up' = [up EXCEPT ![u] = y]
      BY <1>1, <1>6, <2>2 DEF recheck, UpdaterRecord
    <3>2. /\ plan \in Nat /\ st \in UpdaterStates /\ st \in {"stop", "install"}
          /\ st = "stop" /\ up[u].auto => plan # 0 /\ ~local.busy
      BY <1>1, <2>2 DEF LocalRecord, UpdaterStates, eligible, automatic_update_idle_plan
    <3> HIDE DEF plan, st
    <3>3. y \in UpdaterRecord /\ y.st = st /\ y.stopped = FALSE /\ y.plan = plan /\ y.auto = up[u].auto
      BY <1>1, <3>2 DEF UpdaterRecord
    <3> HIDE DEF y
    <3>4. UpdaterGoes(u, y)
      BY <1>1, <3>1, <3>2, <3>3 DEF UpdaterGoes
    <3> QED
      BY <1>2, <3>4
  <2> QED
    BY <2>1, <2>2
<1> QED
  BY <1>3, <1>4, <1>5, <1>6 DEF continue_operator_upgrade, download_upgrade_file, release_missing,
     step_before_stop_failed

LEMMA Installing ==
    ASSUME UpgradeInv, NEW u \in Updaters,
           \/ install_extracted_operator(u) \/ install_failed(u)
           \/ dies(u) \/ restart_failed(u) \/ defer_automatic_update_until_reboot(u)
    PROVE  UpgradeInv'
<1>1. /\ up[u] \in UpdaterRecord /\ up \in [Updaters -> UpdaterRecord] /\ PlanKept(u)
      /\ UNCHANGED <<now, boot, local, latest, attempts, unfair>>
      /\ installed \in Nat /\ latest \in Nat
  BY DEF UpgradeInv, UpgradeTyped, PlansKept, install_extracted_operator, install_failed, dies,
         restart_failed, defer_automatic_update_until_reboot, world
<1>2. installed' \in Nat
  BY <1>1 DEF install_extracted_operator, install_failed, dies, restart_failed,
         defer_automatic_update_until_reboot, world, UpdaterRecord
<1>3. ASSUME NEW y, UpdaterGoes(u, y), UNCHANGED prefs
      PROVE  UpgradeInv'
  BY <1>1, <1>2, <1>3, OnlyUpdater
<1>4. ASSUME NEW st \in UpdaterStates, up' = [up EXCEPT ![u].st = st],
             st \notin {"check", "begin", "download", "recheck", "stop", "install"},
             st \in {"defer", "done", "failed"} => Explained(up[u])
      PROVE  \E y : UpdaterGoes(u, y)
  <2> DEFINE y == [up[u] EXCEPT !.st = st]
  <2>1. up' = [up EXCEPT ![u] = y]
    BY <1>4
  <2>2. y \in UpdaterRecord /\ y.st = st /\ y.stopped = up[u].stopped /\ y.auto = up[u].auto
        /\ y.again = up[u].again /\ y.cause = up[u].cause
    BY <1>1, StateSet
  <2> HIDE DEF y
  <2> QED
    BY <1>4, <2>1, <2>2 DEF UpdaterGoes, Explained
<1>5. ASSUME NEW failed \in BOOLEAN, after_install(u, failed), up[u].st = "install", UNCHANGED prefs
      PROVE  UpgradeInv'
  <2>1. CASE up[u].plan # 0
    <3>1. PICK st \in {"undo", "restart"} : becomes(u, st)
      BY <1>5, <2>1 DEF after_install
    <3>2. st \in UpdaterStates
      BY DEF UpdaterStates
    <3> QED
      BY <1>3, <1>4, <1>5, <3>1, <3>2 DEF becomes
  <2>2. CASE up[u].plan = 0
    <3>1. Explained(up[u])
      BY <1>1, <1>5, <2>2 DEF PlanKept, Explained
    <3>2. CASE fails(u, up[u])
      BY <1>1, <1>3, <1>5, <3>1, <3>2, UpdaterFails
    <3>3. CASE ends(u, [up[u] EXCEPT !.st = "done"])
      <4>1. "done" \in UpdaterStates
        BY DEF UpdaterStates
      <4> QED
        BY <1>3, <1>4, <1>5, <3>1, <3>3, <4>1 DEF ends
    <3> QED
      BY <1>5, <2>2, <3>2, <3>3 DEF after_install
  <2> QED
    BY <2>1, <2>2
<1>6. CASE install_extracted_operator(u)
  BY <1>5, <1>6 DEF install_extracted_operator
<1>7. CASE install_failed(u)
  BY <1>5, <1>7 DEF install_failed, world
<1> DEFINE z == [up[u] EXCEPT !.cause = TRUE]
<1>8. z \in UpdaterRecord /\ z.cause /\ z.auto = up[u].auto
  BY <1>1, CauseSet
<1>9. CASE restart_failed(u)
  <2>1. fails(u, z) /\ UNCHANGED prefs
    BY <1>9 DEF restart_failed, world
  <2> HIDE DEF z
  <2> QED
    BY <1>3, <1>8, <2>1, UpdaterFails DEF Explained
<1>10. CASE dies(u)
  <2> DEFINE y == [z EXCEPT !.st = "failed"]
  <2>1. up' = [up EXCEPT ![u] = y] /\ UNCHANGED prefs
    BY <1>1, <1>10 DEF dies, ends, world, UpdaterRecord
  <2> HIDE DEF z
  <2>2. "failed" \in UpdaterStates
    BY DEF UpdaterStates
  <2>3. y \in UpdaterRecord /\ y.st = "failed" /\ y.cause = z.cause
    BY <1>8, <2>2, StateSet
  <2> HIDE DEF y
  <2>4. UpdaterGoes(u, y)
    BY <1>8, <2>1, <2>3 DEF UpdaterGoes
  <2> QED
    BY <1>3, <2>1, <2>4
<1>11. CASE defer_automatic_update_until_reboot(u)
  <2>1. up[u].st = "defer" /\ Explained(up[u]) /\ "failed" \in UpdaterStates
    BY <1>1, <1>11 DEF defer_automatic_update_until_reboot, PlanKept, Explained, UpdaterStates
  <2>2. PICK y : UpdaterGoes(u, y)
    BY <1>4, <1>11, <2>1 DEF defer_automatic_update_until_reboot, becomes
  <2>3. /\ prefs' \in [auto : BOOLEAN, last : Nat, boot : Nat, retry : BOOLEAN]
        /\ prefs'.last = prefs.last /\ prefs'.boot = prefs.boot
    BY <1>11 DEF defer_automatic_update_until_reboot, UpgradeInv, UpgradeTyped
  <2>4. local' \in LocalRecord /\ local' = local
    BY <1>1 DEF UpgradeInv, UpgradeTyped
  <2>5. up' \in [Updaters -> UpdaterRecord] /\ LateIsKnown' /\ PlansKept'
    BY <2>2, <2>4, UpdaterMoves
  <2>6. UpgradeTyped' /\ AttemptsKnown' /\ AttemptsBudgeted' /\ CutsOffOnlyLate'
    BY <1>1, <1>2, <2>3, <2>5 DEF UpgradeInv, UpgradeTyped, AttemptsKnown, AttemptsBudgeted, CutsOffOnlyLate
  <2> QED
    BY <2>5, <2>6 DEF UpgradeInv
<1> QED
  BY <1>6, <1>7, <1>9, <1>10, <1>11

\* Stopping Local and starting it again.
LEMMA StopsAndRestarts ==
    ASSUME UpgradeInv, NEW u \in Updaters,
           stop_local_for_operator_upgrade(u) \/ stop_failed(u) \/ restart_automatic_local(u)
    PROVE  UpgradeInv'
<1>1. /\ up[u] \in UpdaterRecord /\ up \in [Updaters -> UpdaterRecord] /\ PlanKept(u)
      /\ UNCHANGED <<now, boot, prefs, installed, latest, attempts>> /\ local \in LocalRecord
      /\ local.on \in BOOLEAN /\ now \in Nat
  BY DEF UpgradeInv, UpgradeTyped, PlansKept, stop_local_for_operator_upgrade, stop_failed,
         restart_automatic_local, world, LocalRecord
<1>2. NoLocal \in LocalRecord /\ ~NoLocal.busy /\ ~NoLocal.on
  BY DEF NoLocal, LocalRecord
<1>3. ASSUME NEW y, UpdaterGoes(u, y), local' \in LocalRecord,
             local'.busy => local.busy /\ local'.late = local.late, unfair' = FALSE
      PROVE  UpgradeInv'
  <2>1. up' \in [Updaters -> UpdaterRecord] /\ LateIsKnown' /\ PlansKept'
    BY <1>3, UpdaterMoves
  <2>2. UpgradeTyped' /\ AttemptsKnown' /\ AttemptsBudgeted' /\ CutsOffOnlyLate'
    BY <1>1, <1>3, <2>1 DEF UpgradeInv, UpgradeTyped, AttemptsKnown, AttemptsBudgeted, CutsOffOnlyLate
  <2> QED
    BY <2>1, <2>2 DEF UpgradeInv
<1>4. CASE stop_local_for_operator_upgrade(u)
  <2>1. up[u].st = "stop" /\ local' = NoLocal /\ unfair' = FALSE
    BY <1>4 DEF stop_local_for_operator_upgrade, UpgradeInv, LateIsKnown, CutsOffOnlyLate
  <2> DEFINE y == [[up[u] EXCEPT !.st = "install"] EXCEPT !.stopped = local.on]
  <2>2. up' = [up EXCEPT ![u] = y]
    BY <1>1, <1>4 DEF stop_local_for_operator_upgrade, UpdaterRecord
  <2>3. "install" \in UpdaterStates
    BY DEF UpdaterStates
  <2>4. y \in UpdaterRecord /\ y.st = "install" /\ y.auto = up[u].auto /\ y.plan = up[u].plan
    BY <1>1, <2>3 DEF UpdaterRecord
  <2> HIDE DEF y
  <2>5. UpdaterGoes(u, y)
    BY <1>1, <2>1, <2>2, <2>4 DEF UpdaterGoes, PlanKept
  <2> QED
    BY <1>2, <1>3, <2>1, <2>5
<1>5. CASE stop_failed(u)
  <2>1. /\ up[u].st = "stop" /\ local' \in {local, NoLocal}
        /\ fails(u, [up[u] EXCEPT !.stopped = local.on /\ ~local'.on, !.cause = TRUE])
    BY <1>5 DEF stop_failed
  <2>2. unfair' = FALSE
    BY <1>5, <2>1 DEF stop_failed, UpgradeInv, LateIsKnown, CutsOffOnlyLate
  <2> DEFINE s == local.on /\ ~local'.on
             y == [[up[u] EXCEPT !.stopped = s] EXCEPT !.cause = TRUE]
  <2>3. s \in BOOLEAN /\ fails(u, y)
    BY <1>1, <2>1 DEF UpdaterRecord
  <2> HIDE DEF s
  <2>4. y \in UpdaterRecord /\ y.cause = TRUE
    BY <1>1, <2>3 DEF UpdaterRecord
  <2> HIDE DEF y
  <2>5. PICK x : UpdaterGoes(u, x)
    BY <2>3, <2>4, UpdaterFails DEF Explained
  <2> QED
    BY <1>1, <1>2, <1>3, <2>1, <2>2, <2>5
<1>6. CASE restart_automatic_local(u)
  <2> DEFINE x == up[u]
             starts == x.plan > now /\ ~local.on
             cause == x.cause \/ x.plan <= now \/ local.on
             y == [[x EXCEPT !.again = starts] EXCEPT !.cause = cause]
  <2>1. /\ x.st \in {"restart", "undo"}
        /\ local' = (IF starts THEN [NoLocal EXCEPT !.on = TRUE, !.since = now, !.exp = x.plan] ELSE local)
        /\ IF starts /\ x.st = "restart" THEN ends(u, [y EXCEPT !.st = "done"]) ELSE fails(u, y)
        /\ unfair' = unfair
    BY <1>1, <1>6 DEF restart_automatic_local, UpdaterRecord
  <2>2. starts \in BOOLEAN /\ cause \in BOOLEAN /\ (starts \/ cause) /\ x \in UpdaterRecord /\ x.plan \in Nat
    BY <1>1 DEF UpdaterRecord
  <2>3. local' \in LocalRecord /\ (local'.busy => local.busy /\ local'.late = local.late)
    <3>1. CASE starts
      <4>1. local' = [on |-> TRUE, since |-> now, exp |-> x.plan, last |-> 0, busy |-> FALSE, late |-> {}]
        BY <2>1, <3>1 DEF NoLocal
      <4> HIDE DEF x
      <4> QED
        BY <1>1, <2>2, <4>1 DEF LocalRecord
    <3>2. CASE ~starts
      BY <1>1, <2>1, <3>2
    <3> QED
      BY <3>1, <3>2
  <2> HIDE DEF starts, cause, x
  <2>4. y \in UpdaterRecord /\ y.again = starts /\ y.cause = cause
    BY <2>2 DEF UpdaterRecord
  <2>5. unfair' = FALSE
    BY <2>1 DEF UpgradeInv, CutsOffOnlyLate
  <2> HIDE DEF y
  <2>6. \E z : UpdaterGoes(u, z)
    <3>1. CASE fails(u, y)
      BY <2>2, <2>4, <3>1, UpdaterFails DEF Explained
    <3>2. CASE ends(u, [y EXCEPT !.st = "done"])
      <4>1. "done" \in UpdaterStates
        BY DEF UpdaterStates
      <4> DEFINE z == [y EXCEPT !.st = "done"]
      <4>2. z \in UpdaterRecord /\ z.st = "done" /\ z.again = y.again /\ z.cause = y.cause
        BY <2>4, <4>1, StateSet
      <4>3. up' = [up EXCEPT ![u] = z]
        BY <3>2 DEF ends
      <4> HIDE DEF z
      <4> QED
        BY <2>2, <2>4, <4>2, <4>3 DEF UpdaterGoes
    <3> QED
      BY <2>1, <3>1, <3>2
  <2> QED
    BY <1>3, <2>3, <2>5, <2>6
<1> QED
  BY <1>4, <1>5, <1>6

\* An upgrade begins with nothing stopped.
LEMMA BegunRecord ==
    ASSUME UpgradeInv, NEW auto \in BOOLEAN, NEW stop \in BOOLEAN, NEW target \in Nat
    PROVE  /\ Begun(auto, stop, target) \in UpdaterRecord /\ Begun(auto, stop, target).st = "check"
           /\ Begun(auto, stop, target).stopped = FALSE
BY DEF Begun, UpdaterRecord, UpdaterStates, UpgradeInv, UpgradeTyped

LEMMA UpgradeBegins ==
    ASSUME UpgradeInv, NEW u \in Updaters, NEW stop \in BOOLEAN, NEW version \in Nat,
           upgrade_operator(u, stop, version)
    PROVE  UpgradeInv'
<1> DEFINE x == Begun(FALSE, stop, version)
<1>1. x \in UpdaterRecord /\ x.st = "check" /\ x.stopped = FALSE
  BY BegunRecord
<1>2. up' = [up EXCEPT ![u] = x]
  BY DEF upgrade_operator
<1> HIDE DEF x
<1>3. UpdaterGoes(u, x)
  BY <1>1, <1>2 DEF UpdaterGoes
<1>4. UNCHANGED <<now, boot, prefs, local, attempts, unfair>> /\ installed' \in Nat /\ latest' \in Nat
  BY DEF upgrade_operator, world, UpgradeInv, UpgradeTyped
<1> QED
  BY <1>3, <1>4, OnlyUpdater

\* A claimed attempt is the interval, or a boot, away from every earlier one.
LEMMA AttemptClaimed ==
    ASSUME UpgradeInv, NEW u \in Updaters, run_local_automatic_update(u)
    PROVE  AttemptsBudgeted' /\ AttemptsKnown' /\ attempts' \subseteq AttemptRecord
           /\ prefs' \in [auto : BOOLEAN, last : Nat, boot : Nat, retry : BOOLEAN]
<1> DEFINE due == prefs.last = 0 \/ now + 1 - prefs.last >= Interval
           a == [by |-> u, at |-> now, boot |-> boot, due |-> due]
<1>1. /\ now \in Nat /\ boot \in Nat /\ prefs.last \in Nat /\ prefs.boot \in Nat
      /\ prefs \in [auto : BOOLEAN, last : Nat, boot : Nat, retry : BOOLEAN]
      /\ prefs.last <= now + 1 /\ prefs.boot <= boot + 1 /\ now' = now /\ boot' = boot
  BY DEF UpgradeInv, UpgradeTyped, AttemptsKnown, run_local_automatic_update
<1>2. due \in BOOLEAN /\ (due \/ (prefs.boot # 0 /\ prefs.boot # boot + 1))
  BY DEF run_local_automatic_update
<1>3. attempts' = attempts \cup {a}
  BY DEF run_local_automatic_update
<1>4. PICK last : last = IF due THEN now + 1 ELSE prefs.last
  OBVIOUS
<1>5. prefs' = [auto |-> prefs.auto, last |-> last, boot |-> boot + 1, retry |-> FALSE]
  BY <1>1, <1>4 DEF run_local_automatic_update, claim_automatic_update_attempt
<1>6. due => last = now + 1 /\ (prefs.last = 0 \/ now + 1 - prefs.last >= Interval)
  BY <1>4
<1>7. ~due => last = prefs.last
  BY <1>4
<1>8. a \in AttemptRecord /\ a.by = u /\ a.at = now /\ a.boot = boot /\ a.due = due
  BY <1>1, <1>2 DEF AttemptRecord
<1> HIDE DEF due, a
<1>9. last \in Nat /\ last <= now + 1 /\ prefs.last <= last
  BY <1>1, <1>2, <1>6, <1>7
<1>10. \A b \in attempts : /\ b \in AttemptRecord /\ b.at \in Nat /\ b.boot \in Nat /\ b.due \in BOOLEAN
                           /\ b.at <= now /\ b.boot + 1 <= prefs.boot /\ (b.due => b.at + 1 <= prefs.last)
  BY DEF UpgradeInv, UpgradeTyped, AttemptsKnown, AttemptRecord
<1>11. attempts' \subseteq AttemptRecord
       /\ prefs' \in [auto : BOOLEAN, last : Nat, boot : Nat, retry : BOOLEAN]
       /\ prefs'.last = last /\ prefs'.boot = boot + 1
  BY <1>1, <1>3, <1>5, <1>8, <1>9, <1>10
<1>12. AttemptsKnown'
  <2>1. prefs'.last <= now' + 1 /\ prefs'.boot <= boot' + 1
    BY <1>1, <1>9, <1>11
  <2>2. ASSUME NEW b \in attempts'
        PROVE  b.at <= now' /\ b.boot + 1 <= prefs'.boot /\ (b.due => b.at + 1 <= prefs'.last)
    <3>1. CASE b = a
      BY <1>1, <1>6, <1>8, <1>11, <3>1
    <3>2. CASE b \in attempts
      BY <1>1, <1>9, <1>10, <1>11, <3>2
    <3> QED
      BY <1>3, <3>1, <3>2
  <2> QED
    BY <2>1, <2>2 DEF AttemptsKnown
<1>13. ASSUME NEW b \in attempts
       PROVE  IF due /\ b.due THEN now - b.at >= Interval ELSE due \/ b.due \/ boot # b.boot
  <2>1. CASE due /\ b.due
    <3>1. prefs.last # 0
      BY <1>1, <1>10, <1>13, <2>1
    <3> QED
      BY <1>1, <1>6, <1>10, <1>13, <2>1, <3>1, UpgradeAssumption
  <2>2. CASE ~(due /\ b.due)
    BY <1>1, <1>2, <1>10, <1>13, <2>2
  <2> QED
    BY <2>1, <2>2
<1>14. AttemptsBudgeted'
  <2> SUFFICES ASSUME NEW b \in attempts', NEW c \in attempts', b.by # c.by
               PROVE  IF b.due /\ c.due THEN b.at - c.at >= Interval \/ c.at - b.at >= Interval
                      ELSE b.due \/ c.due \/ b.boot # c.boot
    BY DEF AttemptsBudgeted
  <2>1. CASE b = a /\ c \in attempts
    BY <1>8, <1>13, <2>1
  <2>2. CASE c = a /\ b \in attempts
    BY <1>8, <1>13, <2>2
  <2>3. CASE b \in attempts /\ c \in attempts
    BY <2>3 DEF UpgradeInv, AttemptsBudgeted
  <2> QED
    BY <1>3, <2>1, <2>2, <2>3
<1> QED
  BY <1>11, <1>12, <1>14

LEMMA AutomaticUpdateBegins ==
    ASSUME UpgradeInv, NEW u \in Updaters, run_local_automatic_update(u)
    PROVE  UpgradeInv'
<1> DEFINE x == Begun(TRUE, TRUE, 0)
<1>1. x \in UpdaterRecord /\ x.st = "check" /\ x.stopped = FALSE
  BY BegunRecord
<1>2. up' = [up EXCEPT ![u] = x]
  BY DEF run_local_automatic_update
<1> HIDE DEF x
<1>3. UpdaterGoes(u, x)
  BY <1>1, <1>2 DEF UpdaterGoes
<1>4. UNCHANGED <<now, boot, local, installed, latest, unfair>>
  BY DEF run_local_automatic_update
<1>5. local' \in LocalRecord /\ (local'.busy => local.busy /\ local'.late = local.late)
  BY <1>4 DEF UpgradeInv, UpgradeTyped
<1>6. up' \in [Updaters -> UpdaterRecord] /\ LateIsKnown' /\ PlansKept'
  BY <1>3, <1>5, UpdaterMoves
<1>7. UpgradeTyped' /\ CutsOffOnlyLate'
  BY <1>4, <1>5, <1>6, AttemptClaimed DEF UpgradeInv, UpgradeTyped, CutsOffOnlyLate
<1> QED
  BY <1>6, <1>7, AttemptClaimed DEF UpgradeInv

\* Local starts, stops and serves calls.
LEMMA LocalServes ==
    ASSUME UpgradeInv, start_local \/ stop_local \/ begin_call \/ end_call
    PROVE  UpgradeInv'
<1>1. UNCHANGED <<now, boot, prefs, up, installed, latest, attempts, unfair>>
      /\ now \in Nat /\ local \in LocalRecord
  BY DEF start_local, stop_local, begin_call, end_call, world, UpgradeInv, UpgradeTyped
<1>2. ASSUME local' \in LocalRecord,
             local'.busy => \/ local.busy /\ local'.late = local.late
                            \/ local'.late = {u \in Updaters : up[u].st = "stop"}
      PROVE  UpgradeInv'
  <2>1. LateIsKnown'
    BY <1>1, <1>2 DEF UpgradeInv, LateIsKnown
  <2> QED
    BY <1>1, <1>2, <2>1 DEF UpgradeInv, UpgradeTyped, AttemptsKnown, AttemptsBudgeted, CutsOffOnlyLate,
       PlansKept, PlanKept
<1>3. NoLocal = [on |-> FALSE, since |-> 0, exp |-> 0, last |-> 0, busy |-> FALSE, late |-> {}]
  BY DEF NoLocal
<1>4. CASE start_local
  <2>1. PICK exp \in {now + 1, Forever} : local' = [NoLocal EXCEPT !.on = TRUE, !.since = now, !.exp = exp]
    BY <1>4 DEF start_local
  <2>2. exp \in Nat
    BY <1>1, UpgradeAssumption DEF Forever
  <2>3. local' = [on |-> TRUE, since |-> now, exp |-> exp, last |-> 0, busy |-> FALSE, late |-> {}]
    BY <1>3, <2>1
  <2> QED
    BY <1>1, <1>2, <2>2, <2>3 DEF LocalRecord
<1>5. CASE stop_local
  <2>1. local' = NoLocal
    BY <1>5 DEF stop_local
  <2> QED
    BY <1>2, <1>3, <2>1 DEF LocalRecord
<1>6. CASE begin_call
  <2> DEFINE late == {u \in Updaters : up[u].st = "stop"}
  <2>1. local' = [local EXCEPT !.busy = TRUE, !.last = now, !.late = late]
    BY <1>6 DEF begin_call
  <2>2. late \subseteq Updaters
    OBVIOUS
  <2>3. local' \in LocalRecord /\ local'.late = late
    <3> HIDE DEF late
    <3> QED
      BY <1>1, <2>1, <2>2 DEF LocalRecord
  <2> QED
    BY <1>2, <2>3
<1>7. CASE end_call
  <2>1. local' \in LocalRecord /\ ~local'.busy
    BY <1>1, <1>7 DEF end_call, LocalRecord
  <2> QED
    BY <1>2, <2>1
<1> QED
  BY <1>4, <1>5, <1>6, <1>7

LEMMA PreferencesChange ==
    ASSUME UpgradeInv, set_automatic_updates \/ publish \/ advance
    PROVE  UpgradeInv'
<1>1. UNCHANGED <<boot, local, up, installed, attempts, unfair>>
  BY DEF set_automatic_updates, publish, advance
<1>2. now' \in Nat /\ now <= now' /\ latest' \in Nat
  BY DEF set_automatic_updates, publish, advance, UpgradeInv, UpgradeTyped
<1>3. /\ prefs' \in [auto : BOOLEAN, last : Nat, boot : Nat, retry : BOOLEAN]
      /\ prefs'.last = prefs.last /\ prefs'.boot = prefs.boot
  BY DEF set_automatic_updates, publish, advance, UpgradeInv, UpgradeTyped
<1>4. UpgradeTyped'
  BY <1>1, <1>2, <1>3 DEF UpgradeInv, UpgradeTyped
<1>5. AttemptsKnown'
  BY <1>1, <1>2, <1>3 DEF UpgradeInv, UpgradeTyped, AttemptsKnown, AttemptRecord
<1> QED
  BY <1>1, <1>4, <1>5 DEF UpgradeInv, AttemptsBudgeted, CutsOffOnlyLate, LateIsKnown, PlansKept, PlanKept

LEMMA Reboots ==
    ASSUME UpgradeInv, reboot
    PROVE  UpgradeInv'
<1>1. /\ UNCHANGED <<now, prefs, installed, latest, attempts, unfair>> /\ boot' = boot + 1 /\ local' = NoLocal
      /\ up' = [u \in Updaters |-> IF up[u].st \in {"idle", "done", "failed"} THEN up[u]
                                   ELSE [up[u] EXCEPT !.st = "failed", !.cause = TRUE]]
  BY DEF reboot
<1>2. NoLocal \in LocalRecord /\ ~NoLocal.busy
  BY DEF NoLocal, LocalRecord
<1>3. ASSUME NEW u \in Updaters
      PROVE  up'[u] \in UpdaterRecord /\ PlanKept(u)'
  <2>1. up[u] \in UpdaterRecord /\ PlanKept(u)
    BY DEF UpgradeInv, UpgradeTyped, PlansKept
  <2>2. CASE up[u].st \in {"idle", "done", "failed"}
    <3>1. up'[u] = up[u]
      BY <1>1, <2>2
    <3> QED
      BY <2>1, <3>1 DEF PlanKept
  <2>3. CASE up[u].st \notin {"idle", "done", "failed"}
    <3> DEFINE z == [up[u] EXCEPT !.cause = TRUE]
               y == [z EXCEPT !.st = "failed"]
    <3>1. z \in UpdaterRecord /\ z.cause
      BY <2>1, CauseSet
    <3>2. up'[u] = y
      BY <1>1, <2>1, <2>3 DEF UpdaterRecord
    <3> HIDE DEF z
    <3>3. "failed" \in UpdaterStates
      BY DEF UpdaterStates
    <3>4. y \in UpdaterRecord /\ y.st = "failed" /\ y.cause
      BY <3>1, <3>3, StateSet
    <3> HIDE DEF y
    <3> QED
      BY <3>2, <3>4 DEF PlanKept
  <2> QED
    BY <2>2, <2>3
<1>4. up' = [u \in Updaters |-> up'[u]]
  BY <1>1
<1>5. up' \in [Updaters -> UpdaterRecord] /\ PlansKept'
  BY <1>3, <1>4 DEF PlansKept
<1>6. boot \in Nat /\ boot' \in Nat
  <2>1. boot \in Nat
    BY DEF UpgradeInv, UpgradeTyped
  <2>2. boot' = boot + 1
    BY DEF reboot
  <2> QED
    BY <2>1, <2>2
<1>7. UpgradeTyped' /\ AttemptsKnown'
  <2>1. UpgradeTyped /\ AttemptsKnown
    BY DEF UpgradeInv
  <2>2. local' \in LocalRecord
    BY <1>1, <1>2
  <2> HIDE DEF UpgradeInv
  <2>3. UNCHANGED <<now, prefs, installed, latest, attempts, unfair>> /\ boot' = boot + 1
    BY <1>1
  <2>4. UpgradeTyped'
    BY <1>5, <1>6, <2>1, <2>2, <2>3 DEF UpgradeTyped
  <2>5. prefs'.boot <= boot' + 1
    BY <1>6, <2>1, <2>3 DEF UpgradeTyped, AttemptsKnown
  <2> QED
    BY <2>1, <2>3, <2>4, <2>5 DEF AttemptsKnown
<1> QED
  BY <1>1, <1>2, <1>5, <1>6, <1>7 DEF UpgradeInv, AttemptsBudgeted, CutsOffOnlyLate, LateIsKnown

LEMMA UpgradeInvInit == UpgradeInit => UpgradeInv
<1> SUFFICES ASSUME UpgradeInit
             PROVE  UpgradeInv
  OBVIOUS
<1>1. NoLocal \in LocalRecord /\ ~NoLocal.busy
  BY DEF NoLocal, LocalRecord
<1>2. Fresh \in UpdaterRecord /\ Fresh.st = "idle"
  BY DEF Fresh, UpdaterRecord, UpdaterStates
<1>3. up \in [Updaters -> UpdaterRecord] /\ \A u \in Updaters : up[u].st = "idle"
  BY <1>2 DEF UpgradeInit
<1>4. UpgradeTyped
  BY <1>1, <1>3 DEF UpgradeInit, UpgradeTyped
<1>5. AttemptsKnown
  BY DEF UpgradeInit, AttemptsKnown
<1> QED
  BY <1>1, <1>3, <1>4, <1>5 DEF UpgradeInit, UpgradeInv, AttemptsBudgeted, CutsOffOnlyLate, LateIsKnown,
     PlansKept, PlanKept

LEMMA UpgradeInvNext == UpgradeInv /\ [UpgradeNext]_upgradeVars => UpgradeInv'
<1> SUFFICES ASSUME UpgradeInv, [UpgradeNext]_upgradeVars
             PROVE  UpgradeInv'
  OBVIOUS
<1>1. ASSUME NEW u \in Updaters, goes_on(u)
      PROVE  UpgradeInv'
  BY <1>1, Updating, Installing, StopsAndRestarts DEF goes_on
<1>2. ASSUME NEW u \in Updaters, NEW stop \in BOOLEAN, NEW version \in 0..MaxVersion,
             upgrade_operator(u, stop, version)
      PROVE  UpgradeInv'
  <2>1. version \in Nat
    BY <1>2, UpgradeAssumption
  <2> QED
    BY <1>2, <2>1, UpgradeBegins
<1>3. ASSUME NEW u \in Updaters,
             run_local_automatic_update(u) \/ step_before_stop_failed(u)
             \/ stop_failed(u) \/ install_failed(u) \/ restart_failed(u) \/ dies(u)
      PROVE  UpgradeInv'
  BY <1>3, AutomaticUpdateBegins, Updating, StopsAndRestarts, Installing
<1>4. CASE start_local \/ stop_local \/ begin_call \/ end_call
  BY <1>4, LocalServes
<1>5. CASE set_automatic_updates \/ publish \/ advance
  BY <1>5, PreferencesChange
<1>6. CASE reboot
  BY <1>6, Reboots
<1>7. CASE UNCHANGED upgradeVars
  BY <1>7 DEF UpgradeInv, UpgradeTyped, AttemptsKnown, AttemptsBudgeted, CutsOffOnlyLate, LateIsKnown,
     PlansKept, PlanKept, upgradeVars, bounds
<1> QED
  BY <1>1, <1>2, <1>3, <1>4, <1>5, <1>6, <1>7 DEF UpgradeNext

\* The inductive invariant of upgrades: what preferences, plans and the record
\* of late calls know of every attempt.
THEOREM UpgradeInvariant == UpgradeSpec => []UpgradeInv
BY UpgradeInvInit, UpgradeInvNext, PTL DEF UpgradeSpec

\* Automatic updates keep their budget, leave running calls alone and bring
\* back the Local they stopped, however many processes, failures and reboots.
THEOREM UpdatesAreConsiderateSafe == UpgradeSpec => []UpdatesAreConsiderate
<1>1. UpgradeInv => UpdatesAreConsiderate
  BY DEF UpgradeInv, UpdatesAreConsiderate, RestartsWhatItStopped, PlansKept, PlanKept
<1> QED
  BY <1>1, UpgradeInvariant, PTL

-----------------------------------------------------------------------------
(* Local setup *)

SetupSteps == {"idle", "run", "resolve", "prepare", "snapshot", "secret", "bundle", "config", "bearer",
               "rollback"}
Reports == {"none", "refused", "complete", "restored", "repair", "killed"}
ConfigRecord == [id : Nat, release : Nat, setting : {0, 1}]
FilesRecord == [config : ConfigRecord, binary : Nat, cloudflared : Nat, manifest : Nat,
                bearer : Nat, secret : Nat]
SetupRecord == [pc : SetupSteps, n : Nat, rotate : BOOLEAN, old : ConfigRecord, release : Nat,
                staged : {<<>>} \cup [1..3 -> Nat], snapshot : FilesRecord, at : Nat, repair : BOOLEAN,
                result : Reports, before : FilesRecord, alone : BOOLEAN]

SpentRecord == [setups : Nat, mishaps : Nat, changes : Nat]

SetupTyped ==
    /\ stored \in FilesRecord /\ official \in Manifests /\ setup \in [Setups -> SetupRecord]
    /\ editor \in [pc : {"idle", "loaded"}, config : ConfigRecord, live : BOOLEAN]
    /\ spent \in SpentRecord

\* All three files of the bundle are of that release.
BundleIs(d, release) == d.manifest = release /\ d.cloudflared = release /\ d.binary = release

\* What rollback has put back before its step at.
PutBack(d, old, at) ==
    /\ at > 1 => d.config = old.config
    /\ at > 2 => d.binary = old.binary
    /\ at > 3 => d.cloudflared = old.cloudflared
    /\ at > 4 => d.manifest = old.manifest
    /\ at > 5 => d.bearer = old.bearer
    /\ at > 6 => d.secret = old.secret

\* What a setup knows of itself, whoever else writes.
OnItsWay(r) ==
    /\ r.pc # "idle" => r.result = "none" /\ r.n > 0
    /\ r.pc \in {"snapshot", "secret", "bundle"} /\ r.staged # <<>> => r.staged = [i \in 1..3 |-> r.release]
    /\ r.pc = "bundle" => r.staged # <<>> /\ r.at \in 1..3
    /\ r.pc = "rollback" => r.at \in 1..6

\* What the files are to a setup during which nobody else wrote: as it found
\* them until it stores the key, then new up to its step, or put back up to it.
KnowsFiles(r, d) ==
    /\ r.pc \in {"run", "resolve", "prepare", "snapshot", "secret"} => d = r.before
    /\ r.pc \in {"secret", "bundle", "config", "bearer", "rollback"} => r.snapshot = r.before
    /\ r.pc \in {"snapshot", "secret"} /\ r.staged = <<>> => BundleIs(d, r.release)
    /\ r.pc \in {"bundle", "config", "bearer"} => d.secret = r.n
    /\ r.pc = "bundle" => /\ r.at > 1 => d.manifest = r.release
                          /\ r.at > 2 => d.cloudflared = r.release
    /\ r.pc \in {"config", "bearer"} => BundleIs(d, r.release)
    /\ r.pc = "bearer" => d.config.id = r.n /\ d.config.release = r.release
    /\ r.pc = "rollback" /\ ~r.repair => PutBack(d, r.before, r.at)
    /\ r.result = "complete" => /\ BundleIs(d, d.config.release) /\ d.config.id = r.n /\ d.secret = r.n
                                /\ d.bearer \notin {Absent, ShortBearer}
    /\ r.result \in {"refused", "restored"} => d = r.before

SetupInv ==
    /\ SetupTyped
    /\ \A s \in Setups : OnItsWay(setup[s]) /\ (setup[s].alone => KnowsFiles(setup[s], stored))

-----------------------------------------------------------------------------
LEMMA GoesOn ==
    ASSUME SetupInv, NEW s \in Setups, NEW r, Goes(s, r), r \in SetupRecord, OnItsWay(r),
           r.alone => KnowsFiles(r, stored), spent' \in SpentRecord
    PROVE  SetupInv'
<1>1. stored' = stored /\ official' = official /\ editor' = editor /\ setup' = [setup EXCEPT ![s] = r]
  BY DEF Goes
<1>2. setup' \in [Setups -> SetupRecord] /\ setup'[s] = r /\ \A t \in Setups \ {s} : setup'[t] = setup[t]
  BY <1>1 DEF SetupInv, SetupTyped
<1>3. SetupTyped'
  BY <1>1, <1>2 DEF SetupInv, SetupTyped
<1>4. ASSUME NEW t \in Setups
      PROVE  OnItsWay(setup'[t]) /\ (setup'[t].alone => KnowsFiles(setup'[t], stored'))
  BY <1>1, <1>2 DEF SetupInv
<1> QED
  BY <1>3, <1>4 DEF SetupInv

\* One that is not alone any more knows nothing of the files.
LEMMA NotAlone ==
    ASSUME NEW x \in SetupRecord, OnItsWay(x)
    PROVE  LET y == [x EXCEPT !.alone = FALSE] IN y \in SetupRecord /\ OnItsWay(y) /\ ~y.alone
<1> DEFINE y == [x EXCEPT !.alone = FALSE]
<1>1. y \in SetupRecord /\ y.alone = FALSE
  BY DEF SetupRecord
<1>2. /\ y.pc = x.pc /\ y.result = x.result /\ y.n = x.n /\ y.staged = x.staged /\ y.release = x.release
      /\ y.at = x.at
  BY DEF SetupRecord
<1> HIDE DEF y
<1>3. OnItsWay(y)
  BY <1>2 DEF OnItsWay
<1> QED
  BY <1>1, <1>3 DEF y

LEMMA WritesAlone ==
    ASSUME SetupInv, NEW s \in Setups, NEW r, NEW d, Writes(s, r, d), r \in SetupRecord, OnItsWay(r),
           d \in FilesRecord, r.alone => KnowsFiles(r, d), spent' \in SpentRecord
    PROVE  SetupInv'
<1>1. stored' = d /\ official' = official /\ editor' = editor
  BY DEF Writes
<1>2. setup' = [t \in Setups |-> IF t = s THEN r ELSE [setup[t] EXCEPT !.alone = FALSE]]
  BY DEF Writes
<1>3. ASSUME NEW t \in Setups
      PROVE  /\ setup'[t] \in SetupRecord /\ OnItsWay(setup'[t])
             /\ (setup'[t].alone => KnowsFiles(setup'[t], stored'))
  <2>1. CASE t = s
    BY <1>1, <1>2, <2>1
  <2>2. CASE t # s
    <3>1. setup[t] \in SetupRecord /\ OnItsWay(setup[t])
      BY DEF SetupInv, SetupTyped
    <3>2. setup'[t] = [setup[t] EXCEPT !.alone = FALSE]
      BY <1>2, <2>2
    <3> QED
      BY <3>1, <3>2, NotAlone
  <2> QED
    BY <2>1, <2>2
<1>4. setup' \in [Setups -> SetupRecord]
  <2>1. setup' = [t \in Setups |-> setup'[t]]
    BY <1>2
  <2> QED
    BY <1>3, <2>1
<1>5. SetupTyped'
  BY <1>1, <1>4 DEF SetupInv, SetupTyped
<1> QED
  BY <1>3, <1>5 DEF SetupInv

\* Ends and Rolls change the step, the report and the place only.
LEMMA EndFields ==
    ASSUME NEW r \in SetupRecord, NEW how \in Reports
    PROVE  /\ Ends(r, how) \in SetupRecord /\ Ends(r, how).pc = "idle" /\ Ends(r, how).result = how
           /\ Ends(r, how).n = r.n /\ Ends(r, how).alone = r.alone /\ Ends(r, how).before = r.before
<1> DEFINE x == [[r EXCEPT !.pc = "idle"] EXCEPT !.result = how]
<1>1. x = Ends(r, how)
  BY DEF Ends, SetupRecord
<1>2. "idle" \in SetupSteps
  BY DEF SetupSteps
<1>3. /\ x \in SetupRecord /\ x.pc = "idle" /\ x.result = how
      /\ x.n = r.n /\ x.alone = r.alone /\ x.before = r.before
  BY <1>2 DEF SetupRecord
<1> QED
  BY <1>1, <1>3

LEMMA RollFields ==
    ASSUME NEW r \in SetupRecord
    PROVE  /\ Rolls(r) \in SetupRecord /\ Rolls(r).pc = "rollback" /\ Rolls(r).at = 1
           /\ Rolls(r).n = r.n /\ Rolls(r).alone = r.alone /\ Rolls(r).before = r.before
           /\ Rolls(r).result = r.result /\ Rolls(r).snapshot = r.snapshot
<1> DEFINE x == [[r EXCEPT !.pc = "rollback"] EXCEPT !.at = 1]
<1>1. x = Rolls(r)
  BY DEF Rolls, SetupRecord
<1>2. "rollback" \in SetupSteps
  BY DEF SetupSteps
<1>3. /\ x \in SetupRecord /\ x.pc = "rollback" /\ x.at = 1
      /\ x.n = r.n /\ x.alone = r.alone /\ x.before = r.before
      /\ x.result = r.result /\ x.snapshot = r.snapshot
  BY <1>2 DEF SetupRecord
<1> QED
  BY <1>1, <1>3

\* A setup that ends refused or killed, without a write.
LEMMA EndsAt ==
    ASSUME SetupInv, NEW s \in Setups, NEW r \in SetupRecord, NEW how \in {"refused", "killed"},
           Goes(s, Ends(r, how)), how = "refused" /\ r.alone => stored = r.before, spent' \in SpentRecord
    PROVE  SetupInv'
<1>1. how \in Reports
  BY DEF Reports
<1> DEFINE x == Ends(r, how)
<1>2. x \in SetupRecord /\ x.pc = "idle" /\ x.result = how /\ x.alone = r.alone /\ x.before = r.before
  BY <1>1, EndFields
<1>3. Goes(s, x)
  OBVIOUS
<1> HIDE DEF x
<1>4. OnItsWay(x) /\ (x.alone => KnowsFiles(x, stored))
  BY <1>2 DEF OnItsWay, KnowsFiles
<1> QED
  BY <1>2, <1>3, <1>4, GoesOn

\* The step of a setup, and what is known then.
LEMMA AtWork ==
    ASSUME SetupInv, NEW s \in Setups
    PROVE  /\ setup[s] \in SetupRecord /\ OnItsWay(setup[s]) /\ stored \in FilesRecord
           /\ (setup[s].alone => KnowsFiles(setup[s], stored)) /\ spent \in SpentRecord
BY DEF SetupInv, SetupTyped

LEMMA StillCounted ==
    ASSUME SetupInv, NoMishap \/ Mishap \/ Change
    PROVE  spent' \in SpentRecord
BY DEF SetupInv, SetupTyped, SpentRecord, NoMishap, Mishap, Change

-----------------------------------------------------------------------------
(* Preparation *)

LEMMA SetupBegins ==
    ASSUME SetupInv, NEW s \in Setups, resolve_local_setup_inputs(s)
    PROVE  SetupInv'
<1>1. stored \in FilesRecord /\ spent \in SpentRecord
  BY AtWork
<1>2. spent' \in SpentRecord
  BY <1>1 DEF resolve_local_setup_inputs, SetupInv, SetupTyped, SpentRecord
<1> DEFINE n == spent.setups + 1
<1>3. PICK rotate \in BOOLEAN :
        LET r == [Idle EXCEPT !.n = n, !.rotate = rotate, !.before = stored]
        IN  Goes(s, IF ensure_offline_mutation THEN [r EXCEPT !.pc = "run"] ELSE Ends(r, "refused"))
  BY DEF resolve_local_setup_inputs
<1> DEFINE r == [[[Idle EXCEPT !.n = n] EXCEPT !.rotate = rotate] EXCEPT !.before = stored]
           x == [r EXCEPT !.pc = "run"]
<1>4. Goes(s, x) \/ Goes(s, Ends(r, "refused"))
  BY <1>3
<1>5. n \in Nat /\ n > 0
  BY <1>1 DEF SpentRecord
<1> HIDE DEF n
<1>6. Idle \in SetupRecord /\ Idle.pc = "idle" /\ Idle.result = "none"
  BY DEF Idle, SetupRecord, NoBundle, FilesRecord, ConfigRecord, Absent, SetupSteps, Reports
<1>7. r \in SetupRecord /\ r.n = n /\ r.before = stored /\ r.result = "none" /\ r.pc = "idle"
  <2> HIDE DEF Idle
  <2> QED
    BY <1>1, <1>5, <1>6 DEF SetupRecord
<1> HIDE DEF r
<1>8. CASE Goes(s, Ends(r, "refused"))
  BY <1>2, <1>7, <1>8, EndsAt
<1>9. CASE Goes(s, x)
  <2>1. "run" \in SetupSteps
    BY DEF SetupSteps
  <2>2. x \in SetupRecord /\ x.pc = "run" /\ x.n = n /\ x.before = stored /\ x.result = "none"
    BY <1>7, <2>1 DEF SetupRecord
  <2> HIDE DEF x
  <2>3. OnItsWay(x) /\ KnowsFiles(x, stored)
    BY <1>5, <2>2 DEF OnItsWay, KnowsFiles
  <2> QED
    BY <1>2, <1>9, <2>2, <2>3, GoesOn
<1> QED
  BY <1>4, <1>8, <1>9

LEMMA SetupRuns ==
    ASSUME SetupInv, NEW s \in Setups, run(s)
    PROVE  SetupInv'
<1> DEFINE r == setup[s]
           x == [[r EXCEPT !.pc = "resolve"] EXCEPT !.old = stored.config]
<1>1. /\ r \in SetupRecord /\ OnItsWay(r) /\ stored \in FilesRecord
      /\ (r.alone => KnowsFiles(r, stored)) /\ spent \in SpentRecord
  BY AtWork
<1>2. /\ r.pc = "run"
      /\ spent' \in SpentRecord
      /\ (Goes(s, x) \/ Goes(s, Ends(r, "refused")))
  BY <1>1, StillCounted DEF run, SetupRecord
<1> HIDE DEF r
<1>3. r.alone => stored = r.before
  BY <1>1, <1>2 DEF KnowsFiles
<1>4. CASE Goes(s, Ends(r, "refused"))
  BY <1>1, <1>2, <1>3, <1>4, EndsAt
<1>5. CASE Goes(s, x)
  <2>1. "resolve" \in SetupSteps /\ stored.config \in ConfigRecord
    BY <1>1 DEF SetupSteps, FilesRecord
  <2>2. /\ x \in SetupRecord /\ x.pc = "resolve" /\ x.n = r.n /\ x.before = r.before
        /\ x.result = r.result /\ x.alone = r.alone
    BY <1>1, <2>1 DEF SetupRecord
  <2> HIDE DEF x
  <2>3. OnItsWay(x) /\ (x.alone => KnowsFiles(x, stored))
    BY <1>1, <1>2, <1>3, <2>2 DEF OnItsWay, KnowsFiles
  <2> QED
    BY <1>2, <1>5, <2>2, <2>3, GoesOn
<1> QED
  BY <1>2, <1>4, <1>5

\* What the manifest names is a release, or nothing.
LEMMA ReleaseIsNumber ==
    ASSUME NEW m \in Manifests
    PROVE  release_for_architecture(m) \in Nat
<1> DEFINE rows == {i \in DOMAIN m : m[i].ours}
<1>1. CASE Cardinality(rows) = 1 /\ \A i \in rows : m[i].valid
  <2>1. rows # {}
    BY <1>1, FS_EmptySet
  <2>2. (CHOOSE i \in rows : TRUE) \in rows
    BY <2>1
  <2>3. m[CHOOSE i \in rows : TRUE].release \in Nat
    BY <2>2, SetupAssumption
  <2> QED
    BY <1>1, <2>3 DEF release_for_architecture
<1>2. CASE ~(Cardinality(rows) = 1 /\ \A i \in rows : m[i].valid)
  <2>1. release_for_architecture(m) = Absent
    BY <1>2 DEF release_for_architecture
  <2> QED
    BY <2>1 DEF Absent
<1> QED
  BY <1>1, <1>2

LEMMA ReleaseResolved ==
    ASSUME SetupInv, NEW s \in Setups, resolve_latest(s)
    PROVE  SetupInv'
<1> DEFINE r == setup[s]
           release == release_for_architecture(official)
           x == [[r EXCEPT !.pc = "prepare"] EXCEPT !.release = release]
<1>1. /\ r \in SetupRecord /\ OnItsWay(r) /\ stored \in FilesRecord
      /\ (r.alone => KnowsFiles(r, stored)) /\ spent \in SpentRecord
  BY AtWork
<1>2. /\ r.pc = "resolve"
      /\ spent' \in SpentRecord
      /\ (Goes(s, x) \/ Goes(s, Ends(r, "refused")))
  BY <1>1, StillCounted DEF resolve_latest, SetupRecord
<1>3. release \in Nat
  BY ReleaseIsNumber DEF SetupInv, SetupTyped
<1> HIDE DEF r, release
<1>4. r.alone => stored = r.before
  BY <1>1, <1>2 DEF KnowsFiles
<1>5. CASE Goes(s, Ends(r, "refused"))
  BY <1>1, <1>2, <1>4, <1>5, EndsAt
<1>6. CASE Goes(s, x)
  <2>1. "prepare" \in SetupSteps
    BY DEF SetupSteps
  <2>2. /\ x \in SetupRecord /\ x.pc = "prepare" /\ x.n = r.n /\ x.before = r.before
        /\ x.result = r.result /\ x.alone = r.alone
    BY <1>1, <1>3, <2>1 DEF SetupRecord
  <2> HIDE DEF x
  <2>3. OnItsWay(x) /\ (x.alone => KnowsFiles(x, stored))
    BY <1>1, <1>2, <1>4, <2>2 DEF OnItsWay, KnowsFiles
  <2> QED
    BY <1>2, <1>6, <2>2, <2>3, GoesOn
<1> QED
  BY <1>2, <1>5, <1>6

LEMMA BundleFileNames ==
    /\ DOMAIN BundleFiles = 1..3 /\ Len(BundleFiles) = 3
    /\ BundleFiles[1] = "manifest" /\ BundleFiles[2] = "cloudflared" /\ BundleFiles[3] = "binary"
BY DEF BundleFiles

LEMMA TunnelPrepared ==
    ASSUME SetupInv, NEW s \in Setups, prepare_tunnel_client(s)
    PROVE  SetupInv'
<1> DEFINE r == setup[s]
<1>1. /\ r \in SetupRecord /\ OnItsWay(r) /\ stored \in FilesRecord
      /\ (r.alone => KnowsFiles(r, stored)) /\ spent \in SpentRecord
  BY AtWork
<1>2. /\ r.pc = "prepare"
      /\ spent' \in SpentRecord
  BY <1>1, StillCounted DEF prepare_tunnel_client, download_verified_archive
<1>3. ASSUME NEW staged \in {<<>>} \cup [1..3 -> Nat],
             Goes(s, [r EXCEPT !.pc = "snapshot", !.staged = staged]),
             staged = <<>> => BundleIs(stored, r.release),
             staged # <<>> => staged = [i \in 1..3 |-> r.release]
      PROVE  SetupInv'
  <2> DEFINE x == [[r EXCEPT !.pc = "snapshot"] EXCEPT !.staged = staged]
  <2>1. Goes(s, x)
    BY <1>1, <1>3 DEF SetupRecord
  <2> HIDE DEF r
  <2>2. "snapshot" \in SetupSteps
    BY DEF SetupSteps
  <2>3. /\ x \in SetupRecord /\ x.pc = "snapshot" /\ x.n = r.n /\ x.before = r.before /\ x.staged = staged
        /\ x.result = r.result /\ x.alone = r.alone /\ x.release = r.release
    BY <1>1, <1>3, <2>2 DEF SetupRecord
  <2> HIDE DEF x
  <2>4. OnItsWay(x) /\ (x.alone => KnowsFiles(x, stored))
    BY <1>1, <1>2, <1>3, <2>3 DEF OnItsWay, KnowsFiles
  <2> QED
    BY <1>2, <2>1, <2>3, <2>4, GoesOn
<1>4. CASE reusable_managed_binary(r.old, r.release)
  <2>1. Goes(s, [r EXCEPT !.pc = "snapshot", !.staged = <<>>])
    BY <1>4 DEF prepare_tunnel_client
  <2>2. BundleIs(stored, r.release)
    BY <1>4, BundleFileNames DEF reusable_managed_binary, BundleIs
  <2>3. <<>> \in {<<>>} \cup [1..3 -> Nat]
    OBVIOUS
  <2> HIDE DEF r
  <2> QED
    BY <1>3, <2>1, <2>2, <2>3
<1>5. CASE ~reusable_managed_binary(r.old, r.release)
  <2>1. download_verified_archive(s)
    BY <1>5 DEF prepare_tunnel_client
  <2>2. CASE Goes(s, Ends(r, "refused"))
    <3>1. r.alone => stored = r.before
      BY <1>1, <1>2 DEF KnowsFiles
    <3> HIDE DEF r
    <3> QED
      BY <1>1, <1>2, <2>2, <3>1, EndsAt
  <2>3. CASE Goes(s, [r EXCEPT !.pc = "snapshot", !.staged = extract_tunnel_bundle(r.release)])
    <3> DEFINE staged == [i \in 1..3 |-> r.release]
    <3>1. extract_tunnel_bundle(r.release) = staged
      BY BundleFileNames DEF extract_tunnel_bundle
    <3>2. staged \in [1..3 -> Nat] /\ DOMAIN staged = 1..3
      BY <1>1 DEF SetupRecord
    <3>3. staged # <<>>
      BY <3>2
    <3>4. Goes(s, [r EXCEPT !.pc = "snapshot", !.staged = staged])
      BY <2>3, <3>1
    <3>5. staged = [i \in 1..3 |-> r.release]
      OBVIOUS
    <3> HIDE DEF r, staged
    <3> QED
      BY <1>3, <3>2, <3>3, <3>4, <3>5
  <2> QED
    BY <2>1, <2>2, <2>3 DEF download_verified_archive
<1> QED
  BY <1>4, <1>5

LEMMA SnapshotTaken ==
    ASSUME SetupInv, NEW s \in Setups, capture(s)
    PROVE  SetupInv'
<1> DEFINE r == setup[s]
           x == [[r EXCEPT !.pc = "secret"] EXCEPT !.snapshot = stored]
<1>1. /\ r \in SetupRecord /\ OnItsWay(r) /\ stored \in FilesRecord
      /\ (r.alone => KnowsFiles(r, stored)) /\ spent \in SpentRecord
  BY AtWork
<1>2. /\ r.pc = "snapshot"
      /\ spent' \in SpentRecord
      /\ (Goes(s, x) \/ Goes(s, Ends(r, "refused")))
  BY <1>1, StillCounted DEF capture, SetupRecord
<1> HIDE DEF r
<1>3. r.alone => stored = r.before
  BY <1>1, <1>2 DEF KnowsFiles
<1>4. CASE Goes(s, Ends(r, "refused"))
  BY <1>1, <1>2, <1>3, <1>4, EndsAt
<1>5. CASE Goes(s, x)
  <2>1. "secret" \in SetupSteps
    BY DEF SetupSteps
  <2>2. /\ x \in SetupRecord /\ x.pc = "secret" /\ x.n = r.n /\ x.before = r.before /\ x.snapshot = stored
        /\ x.staged = r.staged /\ x.release = r.release /\ x.result = r.result /\ x.alone = r.alone
    BY <1>1, <2>1 DEF SetupRecord
  <2> HIDE DEF x
  <2>3. OnItsWay(x) /\ (x.alone => KnowsFiles(x, stored))
    BY <1>1, <1>2, <1>3, <2>2 DEF OnItsWay, KnowsFiles
  <2> QED
    BY <1>2, <1>5, <2>2, <2>3, GoesOn
<1> QED
  BY <1>2, <1>4, <1>5

-----------------------------------------------------------------------------
(* The commit *)

\* A file or the key is replaced.
LEMMA FileSet ==
    ASSUME NEW d \in FilesRecord, NEW v \in Nat
    PROVE  /\ LET e == [d EXCEPT !.secret = v]
              IN  e \in FilesRecord /\ e.secret = v /\ \A w \in Nat : BundleIs(d, w) => BundleIs(e, w)
           /\ LET e == [d EXCEPT !.bearer = v]
              IN  /\ e \in FilesRecord /\ e.bearer = v /\ e.secret = d.secret /\ e.config = d.config
                  /\ \A w \in Nat : BundleIs(d, w) => BundleIs(e, w)
<1>1. LET e == [d EXCEPT !.secret = v]
      IN  e \in FilesRecord /\ e.secret = v /\ e.manifest = d.manifest /\ e.cloudflared = d.cloudflared
          /\ e.binary = d.binary
  BY DEF FilesRecord
<1>2. LET e == [d EXCEPT !.bearer = v]
      IN  e \in FilesRecord /\ e.bearer = v /\ e.secret = d.secret /\ e.config = d.config
          /\ e.manifest = d.manifest /\ e.cloudflared = d.cloudflared /\ e.binary = d.binary
  BY DEF FilesRecord
<1> QED
  BY <1>1, <1>2 DEF BundleIs

\* A setup that rolls back has written and restored nothing yet.
LEMMA BeginsRollback ==
    ASSUME NEW r \in SetupRecord, OnItsWay(r), r.pc \in {"bundle", "config", "bearer"},
           r.alone => r.snapshot = r.before, NEW d
    PROVE  Rolls(r) \in SetupRecord /\ OnItsWay(Rolls(r)) /\ (Rolls(r).alone => KnowsFiles(Rolls(r), d))
<1> DEFINE x == Rolls(r)
<1>1. /\ x \in SetupRecord /\ x.pc = "rollback" /\ x.at = 1 /\ x.n = r.n /\ x.alone = r.alone
      /\ x.before = r.before /\ x.result = r.result /\ x.snapshot = r.snapshot
  BY RollFields
<1> HIDE DEF x
<1>2. OnItsWay(x) /\ (x.alone => KnowsFiles(x, d))
  BY <1>1 DEF OnItsWay, KnowsFiles, PutBack
<1> QED
  BY <1>1, <1>2 DEF x

\* A setup that has written and ends, for better or worse.
LEMMA EndsAfterWrite ==
    ASSUME SetupInv, NEW s \in Setups, NEW r \in SetupRecord, NEW d \in FilesRecord,
           NEW how \in {"complete", "restored", "repair"}, Writes(s, Ends(r, how), d),
           how = "restored" /\ r.alone => d = r.before,
           how = "complete" /\ r.alone => /\ BundleIs(d, d.config.release) /\ d.config.id = r.n
                                          /\ d.secret = r.n /\ d.bearer \notin {Absent, ShortBearer},
           spent' \in SpentRecord
    PROVE  SetupInv'
<1>1. how \in Reports
  BY DEF Reports
<1> DEFINE x == Ends(r, how)
<1>2. /\ x \in SetupRecord /\ x.pc = "idle" /\ x.result = how /\ x.alone = r.alone /\ x.before = r.before
      /\ x.n = r.n
  BY <1>1, EndFields
<1>3. Writes(s, x, d)
  OBVIOUS
<1> HIDE DEF x
<1>4. OnItsWay(x) /\ (x.alone => KnowsFiles(x, d))
  BY <1>2 DEF OnItsWay, KnowsFiles
<1> QED
  BY <1>2, <1>3, <1>4, WritesAlone

LEMMA SecretStored ==
    ASSUME SetupInv, NEW s \in Setups, set_secret(s)
    PROVE  SetupInv'
<1> DEFINE r == setup[s]
<1>1. /\ r \in SetupRecord /\ OnItsWay(r) /\ stored \in FilesRecord
      /\ (r.alone => KnowsFiles(r, stored)) /\ r.n \in Nat /\ r.snapshot \in FilesRecord
      /\ r.snapshot.secret \in Nat
  BY AtWork DEF SetupRecord, FilesRecord
<1>2. r.pc = "secret" /\ spent' \in SpentRecord
  BY StillCounted DEF set_secret
<1> DEFINE new == [stored EXCEPT !.secret = r.n]
           back == [stored EXCEPT !.secret = r.snapshot.secret]
<1>3. new = key_set(r.n) /\ back = key_restored(r.snapshot.secret)
  BY DEF key_set, key_restored, key_delete
<1>4. \/ \E pc \in {"bundle", "config"} : /\ pc = "bundle" <=> r.staged # <<>>
                                          /\ Writes(s, [r EXCEPT !.pc = pc, !.at = 1], new)
      \/ Writes(s, Ends(r, "restored"), back)
      \/ \E d \in {stored, new} : Writes(s, Ends(r, "repair"), d)
  BY <1>3 DEF set_secret
<1>5. new \in FilesRecord /\ new.secret = r.n /\ \A w \in Nat : BundleIs(stored, w) => BundleIs(new, w)
  BY <1>1, FileSet
<1>6. back \in FilesRecord /\ (stored = r.snapshot => back = stored)
  BY <1>1 DEF FilesRecord
<1> HIDE DEF r, new, back
<1>7. ASSUME NEW pc \in {"bundle", "config"}, pc = "bundle" <=> r.staged # <<>>,
             Writes(s, [r EXCEPT !.pc = pc, !.at = 1], new)
      PROVE  SetupInv'
  <2> DEFINE x == [[r EXCEPT !.pc = pc] EXCEPT !.at = 1]
  <2>1. Writes(s, x, new)
    BY <1>1, <1>7 DEF SetupRecord
  <2>2. pc \in SetupSteps
    BY DEF SetupSteps
  <2>3. /\ x \in SetupRecord /\ x.pc = pc /\ x.at = 1 /\ x.n = r.n /\ x.before = r.before
        /\ x.snapshot = r.snapshot /\ x.staged = r.staged /\ x.release = r.release /\ x.result = r.result
        /\ x.alone = r.alone /\ r.release \in Nat
    BY <1>1, <2>2 DEF SetupRecord
  <2> HIDE DEF x
  <2>4. OnItsWay(x) /\ (x.alone => KnowsFiles(x, new))
    BY <1>1, <1>2, <1>5, <1>7, <2>3 DEF OnItsWay, KnowsFiles
  <2> QED
    BY <1>2, <1>5, <2>1, <2>3, <2>4, WritesAlone
<1>8. CASE Writes(s, Ends(r, "restored"), back)
  <2>1. r.alone => back = r.before
    BY <1>1, <1>2, <1>6 DEF KnowsFiles
  <2> QED
    BY <1>1, <1>2, <1>6, <1>8, <2>1, EndsAfterWrite
<1>9. ASSUME NEW d \in {stored, new}, Writes(s, Ends(r, "repair"), d)
      PROVE  SetupInv'
  BY <1>1, <1>2, <1>5, <1>9, EndsAfterWrite
<1> QED
  BY <1>4, <1>7, <1>8, <1>9

LEMMA BundleReplaced ==
    ASSUME SetupInv, NEW s \in Setups, replace_staged_file(s)
    PROVE  SetupInv'
<1> DEFINE r == setup[s]
<1>1. /\ r \in SetupRecord /\ OnItsWay(r) /\ stored \in FilesRecord
      /\ (r.alone => KnowsFiles(r, stored)) /\ r.release \in Nat
  BY AtWork DEF SetupRecord
<1>2. r.pc = "bundle" /\ spent' \in SpentRecord
  BY StillCounted DEF replace_staged_file
<1>3. r.at \in 1..3 /\ r.staged = [i \in 1..3 |-> r.release]
  BY <1>1, <1>2 DEF OnItsWay
<1>4. r.staged[r.at] = r.release
  BY <1>3
<1> DEFINE next == IF r.at < 3 THEN [r EXCEPT !.at = r.at + 1] ELSE [r EXCEPT !.pc = "config"]
           d == [stored EXCEPT ![BundleFiles[r.at]] = r.release]
<1>5. Goes(s, Rolls(r)) \/ Writes(s, next, d)
  BY <1>4, BundleFileNames DEF replace_staged_file
<1> HIDE DEF r
<1>6. CASE Goes(s, Rolls(r))
  <2>1. r.alone => r.snapshot = r.before
    BY <1>1, <1>2 DEF KnowsFiles
  <2> QED
    BY <1>1, <1>2, <1>6, <2>1, BeginsRollback, GoesOn
<1>7. CASE Writes(s, next, d)
  <2>1. /\ d \in FilesRecord /\ d.secret = stored.secret
        /\ r.at = 1 => d.manifest = r.release
        /\ r.at = 2 => d.cloudflared = r.release /\ d.manifest = stored.manifest
        /\ r.at = 3 => d.binary = r.release /\ d.cloudflared = stored.cloudflared /\ d.manifest = stored.manifest
    <3>1. CASE r.at = 1
      BY <1>1, <3>1, BundleFileNames DEF FilesRecord
    <3>2. CASE r.at = 2
      BY <1>1, <3>2, BundleFileNames DEF FilesRecord
    <3>3. CASE r.at = 3
      BY <1>1, <3>3, BundleFileNames DEF FilesRecord
    <3> QED
      BY <1>3, <3>1, <3>2, <3>3
  <2>2. PICK pc \in {"bundle", "config"}, at \in 1..3 :
           /\ next = [[r EXCEPT !.pc = pc] EXCEPT !.at = at]
           /\ pc = "bundle" => at = r.at + 1
           /\ pc = "config" => r.at = 3
    <3>1. CASE r.at = 3
      <4>1. next = [r EXCEPT !.pc = "config"]
        BY <3>1
      <4> HIDE DEF next
      <4>2. next = [[r EXCEPT !.pc = "config"] EXCEPT !.at = r.at]
        BY <1>1, <4>1 DEF SetupRecord
      <4> QED
        BY <1>3, <3>1, <4>2
    <3>2. CASE r.at < 3
      <4>1. next = [[r EXCEPT !.pc = "bundle"] EXCEPT !.at = r.at + 1]
        BY <1>1, <1>2, <3>2 DEF SetupRecord
      <4> HIDE DEF next
      <4>2. r.at + 1 \in 1..3
        BY <1>3, <3>2
      <4> QED
        BY <3>2, <4>1, <4>2
    <3> QED
      BY <1>3, <3>1, <3>2
  <2> DEFINE x == [[r EXCEPT !.pc = pc] EXCEPT !.at = at]
  <2>3. pc \in SetupSteps /\ at \in Nat
    BY DEF SetupSteps
  <2>4. /\ x \in SetupRecord /\ x.pc = pc /\ x.at = at /\ x.n = r.n /\ x.before = r.before
        /\ x.snapshot = r.snapshot /\ x.staged = r.staged /\ x.release = r.release /\ x.result = r.result
        /\ x.alone = r.alone
    BY <1>1, <2>3 DEF SetupRecord
  <2>5. Writes(s, x, d)
    BY <1>7, <2>2
  <2> HIDE DEF x, next, d
  <2>6. OnItsWay(x)
    BY <1>1, <1>2, <1>3, <2>2, <2>4 DEF OnItsWay
  <2>7. x.alone => KnowsFiles(x, d)
    <3> SUFFICES ASSUME x.alone
                 PROVE  KnowsFiles(x, d)
      OBVIOUS
    <3>1. /\ r.snapshot = r.before /\ stored.secret = r.n /\ r.result = "none"
          /\ r.at > 1 => stored.manifest = r.release
          /\ r.at > 2 => stored.cloudflared = r.release
      BY <1>1, <1>2, <2>4 DEF KnowsFiles, OnItsWay
    <3>2. d.secret = r.n /\ d.manifest = r.release /\ (r.at > 1 => d.cloudflared = r.release)
          /\ (r.at > 2 => d.binary = r.release)
      BY <1>3, <2>1, <3>1
    <3> QED
      BY <1>3, <2>2, <2>4, <3>1, <3>2 DEF KnowsFiles, BundleIs
  <2> QED
    BY <1>2, <2>1, <2>4, <2>5, <2>6, <2>7, WritesAlone
<1> QED
  BY <1>5, <1>6, <1>7

LEMMA ConfigSaved ==
    ASSUME SetupInv, NEW s \in Setups, save_config(s)
    PROVE  SetupInv'
<1> DEFINE r == setup[s]
           new == [[r.old EXCEPT !.id = r.n] EXCEPT !.release = r.release]
           x == [r EXCEPT !.pc = "bearer"]
           d == [stored EXCEPT !.config = new]
<1>1. /\ r \in SetupRecord /\ OnItsWay(r) /\ stored \in FilesRecord
      /\ (r.alone => KnowsFiles(r, stored)) /\ r.release \in Nat /\ r.n \in Nat /\ r.old \in ConfigRecord
  BY AtWork DEF SetupRecord
<1>2. r.pc = "config" /\ spent' \in SpentRecord
  BY StillCounted DEF save_config
<1>3. Goes(s, Rolls(r)) \/ Writes(s, x, d)
  <2>1. new = [r.old EXCEPT !.id = r.n, !.release = r.release]
    BY <1>1 DEF ConfigRecord
  <2> QED
    BY <2>1 DEF save_config
<1> HIDE DEF r
<1>4. CASE Goes(s, Rolls(r))
  <2>1. r.alone => r.snapshot = r.before
    BY <1>1, <1>2 DEF KnowsFiles
  <2> QED
    BY <1>1, <1>2, <1>4, <2>1, BeginsRollback, GoesOn
<1>5. CASE Writes(s, x, d)
  <2>1. new \in ConfigRecord /\ new.id = r.n /\ new.release = r.release
    BY <1>1 DEF ConfigRecord
  <2> HIDE DEF new
  <2>2. /\ d \in FilesRecord /\ d.config = new /\ d.secret = stored.secret /\ d.manifest = stored.manifest
        /\ d.cloudflared = stored.cloudflared /\ d.binary = stored.binary
    BY <1>1, <2>1 DEF FilesRecord
  <2>3. "bearer" \in SetupSteps
    BY DEF SetupSteps
  <2>4. /\ x \in SetupRecord /\ x.pc = "bearer" /\ x.n = r.n /\ x.before = r.before
        /\ x.snapshot = r.snapshot /\ x.release = r.release /\ x.result = r.result /\ x.alone = r.alone
    BY <1>1, <2>3 DEF SetupRecord
  <2> HIDE DEF x, d
  <2>5. OnItsWay(x) /\ (x.alone => KnowsFiles(x, d))
    BY <1>1, <1>2, <2>1, <2>2, <2>4 DEF OnItsWay, KnowsFiles, BundleIs
  <2> QED
    BY <1>2, <1>5, <2>2, <2>4, <2>5, WritesAlone
<1> QED
  BY <1>3, <1>4, <1>5

LEMMA BearerProvided ==
    ASSUME SetupInv, NEW s \in Setups, ensure_observability_bearer(s)
    PROVE  SetupInv'
<1> DEFINE r == setup[s]
           new == [stored EXCEPT !.bearer = r.n + 1]
<1>1. /\ r \in SetupRecord /\ OnItsWay(r) /\ stored \in FilesRecord
      /\ (r.alone => KnowsFiles(r, stored)) /\ r.release \in Nat /\ r.n \in Nat
  BY AtWork DEF SetupRecord
<1>2. r.pc = "bearer" /\ spent' \in SpentRecord
  BY StillCounted DEF ensure_observability_bearer
<1>3. \/ Goes(s, Rolls(r))
      \/ Goes(s, Ends(r, "complete")) /\ stored.bearer \notin {Absent, ShortBearer}
      \/ Writes(s, Ends(r, "complete"), new)
      \/ \E d \in {stored, new} : Writes(s, Rolls(r), d)
  BY DEF ensure_observability_bearer
<1>4. r.n > 0 /\ r.n + 1 \in Nat
  BY <1>1, <1>2 DEF OnItsWay
<1> DEFINE v == r.n + 1
<1>5. v \in Nat /\ v \notin {Absent, ShortBearer}
  BY <1>1, <1>4 DEF Absent, ShortBearer
<1>6. /\ new \in FilesRecord /\ new.bearer = v /\ new.secret = stored.secret /\ new.config = stored.config
      /\ \A w \in Nat : BundleIs(stored, w) => BundleIs(new, w)
  BY <1>1, <1>5, FileSet
<1> HIDE DEF r, new, v
<1>7. r.alone => /\ r.snapshot = r.before /\ stored.secret = r.n /\ BundleIs(stored, r.release)
                 /\ stored.config.id = r.n /\ stored.config.release = r.release
  BY <1>1, <1>2 DEF KnowsFiles
<1>8. CASE Goes(s, Rolls(r))
  BY <1>1, <1>2, <1>7, <1>8, BeginsRollback, GoesOn
<1>9. CASE Goes(s, Ends(r, "complete")) /\ stored.bearer \notin {Absent, ShortBearer}
  <2> DEFINE x == Ends(r, "complete")
  <2>1. "complete" \in Reports
    BY DEF Reports
  <2>2. /\ x \in SetupRecord /\ x.pc = "idle" /\ x.result = "complete" /\ x.alone = r.alone /\ x.n = r.n
    BY <1>1, <2>1, EndFields
  <2>3. Goes(s, x)
    BY <1>9
  <2> HIDE DEF x
  <2>4. OnItsWay(x) /\ (x.alone => KnowsFiles(x, stored))
    BY <1>7, <1>9, <2>2 DEF OnItsWay, KnowsFiles
  <2> QED
    BY <1>2, <2>2, <2>3, <2>4, GoesOn
<1>10. CASE Writes(s, Ends(r, "complete"), new)
  <2>1. r.alone => /\ BundleIs(new, new.config.release) /\ new.config.id = r.n /\ new.secret = r.n
                   /\ new.bearer \notin {Absent, ShortBearer}
    BY <1>1, <1>5, <1>6, <1>7
  <2> QED
    BY <1>1, <1>2, <1>6, <1>10, <2>1, EndsAfterWrite
<1>11. ASSUME NEW d \in {stored, new}, Writes(s, Rolls(r), d)
       PROVE  SetupInv'
  <2>1. d \in FilesRecord
    BY <1>1, <1>6
  <2> QED
    BY <1>1, <1>2, <1>7, <1>11, <2>1, BeginsRollback, WritesAlone
<1> QED
  BY <1>3, <1>8, <1>9, <1>10, <1>11

-----------------------------------------------------------------------------
(* Rollback, and what happens beside a setup *)

LEMMA RollbackNames ==
    /\ Len(RollbackOrder) = 6 /\ RollbackOrder[1] = "config" /\ RollbackOrder[2] = "binary"
    /\ RollbackOrder[3] = "cloudflared" /\ RollbackOrder[4] = "manifest" /\ RollbackOrder[5] = "bearer"
    /\ RollbackOrder[6] = "secret"
BY DEF RollbackOrder

\* One more thing is put back and the others stay.
LEMMA PutBackNext ==
    ASSUME NEW d \in FilesRecord, NEW r \in SetupRecord, NEW at \in 1..6, PutBack(d, r.snapshot, at)
    PROVE  [d EXCEPT ![RollbackOrder[at]] = r.snapshot[RollbackOrder[at]]] \in FilesRecord
           /\ PutBack([d EXCEPT ![RollbackOrder[at]] = r.snapshot[RollbackOrder[at]]], r.snapshot, at + 1)
<1> DEFINE old == r.snapshot
<1>1. old \in FilesRecord
  BY DEF SetupRecord
<1> HIDE DEF old
<1>2. ASSUME NEW k \in {"binary", "cloudflared", "manifest", "bearer", "secret"}
      PROVE  LET e == [d EXCEPT ![k] = old[k]]
             IN  /\ e \in FilesRecord /\ e[k] = old[k]
                 /\ \A j \in {"config", "binary", "cloudflared", "manifest", "bearer", "secret"} \ {k} : e[j] = d[j]
  BY <1>1 DEF FilesRecord
<1>3. LET e == [d EXCEPT !.config = old.config]
      IN  e \in FilesRecord /\ e.config = old.config
  BY <1>1 DEF FilesRecord
<1>4. CASE at = 1
  <2> DEFINE e == [d EXCEPT !.config = old.config]
  <2>1. [d EXCEPT ![RollbackOrder[at]] = old[RollbackOrder[at]]] = e
    BY <1>4, RollbackNames
  <2>2. e \in FilesRecord /\ e.config = old.config
    BY <1>3
  <2> HIDE DEF e
  <2>3. PutBack(e, old, 2)
    BY <2>2 DEF PutBack
  <2>4. at + 1 = 2
    BY <1>4
  <2>5. [d EXCEPT ![RollbackOrder[at]] = old[RollbackOrder[at]]] \in FilesRecord
        /\ PutBack([d EXCEPT ![RollbackOrder[at]] = old[RollbackOrder[at]]], old, at + 1)
    BY <2>1, <2>2, <2>3, <2>4
  <2> QED
    BY <2>5 DEF old
<1>5. CASE at = 2
  BY <1>2, <1>5, RollbackNames DEF PutBack, old
<1>6. CASE at = 3
  BY <1>2, <1>6, RollbackNames DEF PutBack, old
<1>7. CASE at = 4
  BY <1>2, <1>7, RollbackNames DEF PutBack, old
<1>8. CASE at = 5
  BY <1>2, <1>8, RollbackNames DEF PutBack, old
<1>9. CASE at = 6
  BY <1>2, <1>9, RollbackNames DEF PutBack, old
<1> QED
  BY <1>4, <1>5, <1>6, <1>7, <1>8, <1>9

\* Whatever was put back before.
LEMMA Restored ==
    ASSUME NEW r \in SetupRecord, NEW at \in 1..6, stored \in FilesRecord
    PROVE  /\ Restores(r, RollbackOrder[at]) \in FilesRecord
           /\ PutBack(stored, r.snapshot, at) => PutBack(Restores(r, RollbackOrder[at]), r.snapshot, at + 1)
<1> DEFINE part == RollbackOrder[at]
           e == [stored EXCEPT ![part] = r.snapshot[part]]
<1>1. Restores(r, part) = e
  <2>1. CASE part = "secret"
    BY <2>1 DEF Restores, key_restored, key_set, key_delete
  <2>2. CASE part # "secret"
    BY <2>2 DEF Restores
  <2> QED
    BY <2>1, <2>2
<1>2. e \in FilesRecord
  <2>1. r.snapshot \in FilesRecord
    BY DEF SetupRecord
  <2>2. part \in {"config", "binary", "cloudflared", "manifest", "bearer", "secret"}
    BY RollbackNames
  <2> HIDE DEF part
  <2> QED
    BY <2>1, <2>2 DEF FilesRecord
<1>3. PutBack(stored, r.snapshot, at) => PutBack(e, r.snapshot, at + 1)
  BY PutBackNext
<1> QED
  BY <1>1, <1>2, <1>3

LEMMA AllPutBack ==
    ASSUME NEW d \in FilesRecord, NEW old \in FilesRecord, PutBack(d, old, 7)
    PROVE  d = old
<1>1. /\ d.config = old.config /\ d.binary = old.binary /\ d.cloudflared = old.cloudflared
      /\ d.manifest = old.manifest /\ d.bearer = old.bearer /\ d.secret = old.secret
  BY DEF PutBack
<1> QED
  BY <1>1 DEF FilesRecord

LEMMA RolledBack ==
    ASSUME SetupInv, NEW s \in Setups, rollback(s)
    PROVE  SetupInv'
<1> DEFINE r == setup[s]
           at == r.at + 1
           worked == [r EXCEPT !.at = at]
           failed == [worked EXCEPT !.repair = TRUE]
           d == Restores(r, RollbackOrder[r.at])
<1>1. /\ r \in SetupRecord /\ OnItsWay(r) /\ stored \in FilesRecord
      /\ (r.alone => KnowsFiles(r, stored)) /\ r.snapshot \in FilesRecord /\ r.repair \in BOOLEAN
  BY AtWork DEF SetupRecord
<1>2. r.pc = "rollback" /\ spent' \in SpentRecord
  BY StillCounted DEF rollback
<1>3. r.at \in 1..6 /\ at \in 2..7 /\ at \in Nat /\ r.result = "none" /\ r.n > 0
  BY <1>1, <1>2 DEF OnItsWay
<1>4. /\ worked \in SetupRecord /\ worked.at = at /\ worked.pc = r.pc /\ worked.repair = r.repair
      /\ worked.n = r.n /\ worked.result = r.result /\ worked.alone = r.alone /\ worked.before = r.before
      /\ worked.snapshot = r.snapshot
  <2> HIDE DEF r, at
  <2> QED
    BY <1>1, <1>3 DEF SetupRecord
<1>5. \/ /\ worked.at <= 6
         /\ Writes(s, worked, d)
      \/ /\ worked.at > 6
         /\ Writes(s, Ends(worked, IF worked.repair THEN "repair" ELSE "restored"), d)
      \/ failed.at <= 6 /\ Goes(s, failed)
      \/ Goes(s, Ends(failed, IF failed.repair THEN "repair" ELSE "restored"))
  BY <1>3, <1>4, RollbackNames DEF rollback
<1>6. d \in FilesRecord /\ (r.alone /\ ~r.repair => PutBack(d, r.before, at))
  <2>1. r.alone => r.snapshot = r.before /\ (~r.repair => PutBack(stored, r.before, r.at))
    BY <1>1, <1>2 DEF KnowsFiles
  <2>2. /\ Restores(r, RollbackOrder[r.at]) \in FilesRecord
        /\ PutBack(stored, r.snapshot, r.at) => PutBack(Restores(r, RollbackOrder[r.at]), r.snapshot, r.at + 1)
    BY <1>1, <1>3, Restored
  <2> QED
    BY <2>1, <2>2
<1>7. r.alone => r.snapshot = r.before
  BY <1>1, <1>2 DEF KnowsFiles
<1>8. /\ failed \in SetupRecord /\ failed.at = at /\ failed.pc = r.pc /\ failed.repair = TRUE
      /\ failed.n = r.n /\ failed.result = r.result /\ failed.alone = r.alone /\ failed.before = r.before
      /\ failed.snapshot = r.snapshot
  <2> HIDE DEF worked
  <2> QED
    BY <1>4 DEF SetupRecord
<1> HIDE DEF r, at, worked, failed, d
<1>9. CASE worked.at <= 6 /\ Writes(s, worked, d)
  <2>1. OnItsWay(worked) /\ (worked.alone => KnowsFiles(worked, d))
    BY <1>2, <1>3, <1>4, <1>6, <1>7, <1>9 DEF OnItsWay, KnowsFiles
  <2> QED
    BY <1>2, <1>4, <1>6, <1>9, <2>1, WritesAlone
<1>10. CASE worked.at > 6 /\ Writes(s, Ends(worked, IF worked.repair THEN "repair" ELSE "restored"), d)
  <2>1. PICK how \in {"repair", "restored"} : how = IF worked.repair THEN "repair" ELSE "restored"
    OBVIOUS
  <2>2. how = "restored" /\ worked.alone => d = worked.before
    <3> SUFFICES ASSUME how = "restored", worked.alone
                 PROVE  d = r.before
      BY <1>4
    <3>1. PutBack(d, r.before, 7)
      <4>1. at = 7 /\ ~r.repair /\ r.alone
        BY <1>3, <1>4, <1>10, <2>1
      <4> QED
        BY <1>6, <4>1
    <3> QED
      BY <1>1, <1>4, <1>6, <1>7, <3>1, AllPutBack
  <2> QED
    BY <1>2, <1>4, <1>6, <1>10, <2>1, <2>2, EndsAfterWrite
<1>11. CASE failed.at <= 6 /\ Goes(s, failed)
  <2>1. OnItsWay(failed) /\ (failed.alone => KnowsFiles(failed, stored))
    BY <1>2, <1>3, <1>7, <1>8, <1>11 DEF OnItsWay, KnowsFiles
  <2> QED
    BY <1>2, <1>8, <1>11, <2>1, GoesOn
<1>12. CASE Goes(s, Ends(failed, IF failed.repair THEN "repair" ELSE "restored"))
  <2> DEFINE x == Ends(failed, "repair")
  <2>1. "repair" \in Reports
    BY DEF Reports
  <2>2. x \in SetupRecord /\ x.pc = "idle" /\ x.result = "repair"
    BY <1>8, <2>1, EndFields
  <2>3. Goes(s, x)
    BY <1>8, <1>12
  <2> HIDE DEF x
  <2>4. OnItsWay(x) /\ KnowsFiles(x, stored)
    BY <2>2 DEF OnItsWay, KnowsFiles
  <2> QED
    BY <1>2, <2>2, <2>3, <2>4, GoesOn
<1> QED
  BY <1>5, <1>9, <1>10, <1>11, <1>12

LEMMA SetupKilled ==
    ASSUME SetupInv, NEW s \in Setups, Killed(s)
    PROVE  SetupInv'
<1>1. setup[s] \in SetupRecord
  BY AtWork
<1>2. Goes(s, Ends(setup[s], "killed")) /\ spent' \in SpentRecord
  BY StillCounted DEF Killed
<1> QED
  BY <1>1, <1>2, EndsAt

\* Somebody edits the configuration, starts or stops Local, or publishes a release.
LEMMA Beside ==
    ASSUME SetupInv, Publish \/ (\E key \in Keys : config_set(key)) \/ config_save \/ local_start \/ local_stop
    PROVE  SetupInv'
<1>1. stored \in FilesRecord /\ stored.config \in ConfigRecord /\ editor.config \in ConfigRecord
      /\ spent \in SpentRecord
  BY DEF SetupInv, SetupTyped, FilesRecord
<1>2. spent' \in SpentRecord
  BY <1>1, StillCounted DEF Publish, config_set, config_save, local_start, local_stop
<1>3. ASSUME stored' = stored, setup' = setup, official' \in Manifests,
             editor' \in [pc : {"idle", "loaded"}, config : ConfigRecord, live : BOOLEAN]
      PROVE  SetupInv'
  BY <1>2, <1>3 DEF SetupInv, SetupTyped
<1>4. CASE Publish \/ local_start \/ local_stop
  <2>1. stored' = stored /\ setup' = setup /\ editor' = editor /\ official' \in Manifests
    BY <1>4 DEF Publish, local_start, local_stop, SetupInv, SetupTyped
  <2> QED
    BY <1>3, <2>1 DEF SetupInv, SetupTyped
<1>5. ASSUME NEW key \in Keys, config_set(key)
      PROVE  SetupInv'
  <2>1. with_value(stored.config, key) \in ConfigRecord
    <3>1. OtherTunnel \in Nat
      BY SetupAssumption DEF OtherTunnel
    <3>2. CASE key = "context.enabled"
      BY <1>1, <3>2 DEF with_value, ConfigRecord
    <3>3. CASE key # "context.enabled"
      BY <1>1, <3>1, <3>3 DEF with_value, ConfigRecord
    <3> QED
      BY <3>2, <3>3
  <2>2. stored' = stored /\ setup' = setup /\ official' = official
        /\ editor' = [pc |-> "loaded", live |-> can_set_while_running(key), config |-> with_value(stored.config, key)]
    BY <1>5 DEF config_set
  <2>3. editor' \in [pc : {"idle", "loaded"}, config : ConfigRecord, live : BOOLEAN]
    BY <2>1, <2>2 DEF can_set_while_running
  <2>4. official' \in Manifests
    BY <2>2 DEF SetupInv, SetupTyped
  <2> QED
    BY <1>3, <2>2, <2>3, <2>4
<1>6. CASE config_save
  <2>1. official' = official /\ editor' \in [pc : {"idle", "loaded"}, config : ConfigRecord, live : BOOLEAN]
    BY <1>6 DEF config_save, SetupInv, SetupTyped
  <2>2. CASE UNCHANGED <<stored, setup>>
    BY <1>3, <2>1, <2>2 DEF SetupInv, SetupTyped
  <2>3. CASE /\ stored' = [stored EXCEPT !.config = editor.config]
             /\ setup' = [s \in Setups |-> [setup[s] EXCEPT !.alone = FALSE]]
    <3>1. stored' \in FilesRecord
      BY <1>1, <2>3 DEF FilesRecord
    <3>2. ASSUME NEW s \in Setups
          PROVE  setup'[s] \in SetupRecord /\ OnItsWay(setup'[s]) /\ ~setup'[s].alone
      <4>1. setup'[s] = [setup[s] EXCEPT !.alone = FALSE]
        BY <2>3
      <4>2. setup[s] \in SetupRecord /\ OnItsWay(setup[s])
        BY AtWork
      <4> QED
        BY <4>1, <4>2, NotAlone
    <3>3. setup' = [s \in Setups |-> setup'[s]]
      BY <2>3
    <3>4. setup' \in [Setups -> SetupRecord]
      BY <3>2, <3>3
    <3> QED
      BY <1>2, <2>1, <3>1, <3>2, <3>4 DEF SetupInv, SetupTyped
  <2> QED
    BY <1>6, <2>2, <2>3 DEF config_save
<1> QED
  BY <1>4, <1>5, <1>6

LEMMA SetupInvInit == SetupInit => SetupInv
<1> SUFFICES ASSUME SetupInit
             PROVE  SetupInv
  OBVIOUS
<1>1. NoBundle \in FilesRecord /\ NoBundle.config \in ConfigRecord
  BY DEF NoBundle, FilesRecord, ConfigRecord, Absent
<1>2. stored \in FilesRecord
  <2>1. PICK b \in {Absent, ShortBearer} : stored = [NoBundle EXCEPT !.bearer = b]
    BY DEF SetupInit
  <2>2. b \in Nat
    BY DEF Absent, ShortBearer
  <2> QED
    BY <1>1, <2>1, <2>2 DEF FilesRecord
<1>3. Idle \in SetupRecord /\ Idle.pc = "idle" /\ Idle.result = "none"
  BY DEF Idle, SetupRecord, NoBundle, FilesRecord, ConfigRecord, Absent, SetupSteps, Reports
<1>4. setup \in [Setups -> SetupRecord] /\ \A s \in Setups : setup[s] = Idle
  BY <1>3 DEF SetupInit
<1>5. OnItsWay(Idle) /\ KnowsFiles(Idle, stored)
  BY <1>3 DEF OnItsWay, KnowsFiles
<1>6. /\ official \in Manifests /\ spent \in SpentRecord
      /\ editor \in [pc : {"idle", "loaded"}, config : ConfigRecord, live : BOOLEAN]
  BY <1>1 DEF SetupInit, SpentRecord
<1> QED
  BY <1>2, <1>4, <1>5, <1>6 DEF SetupInv, SetupTyped

LEMMA SetupInvNext == SetupInv /\ [SetupNext]_setupVars => SetupInv'
<1> SUFFICES ASSUME SetupInv, [SetupNext]_setupVars
             PROVE  SetupInv'
  OBVIOUS
<1>1. ASSUME NEW s \in Setups,
             \/ resolve_local_setup_inputs(s) \/ run(s) \/ resolve_latest(s) \/ prepare_tunnel_client(s)
             \/ capture(s) \/ set_secret(s) \/ replace_staged_file(s) \/ save_config(s)
             \/ ensure_observability_bearer(s) \/ rollback(s) \/ Killed(s)
      PROVE  SetupInv'
  BY <1>1, SetupBegins, SetupRuns, ReleaseResolved, TunnelPrepared, SnapshotTaken, SecretStored,
     BundleReplaced, ConfigSaved, BearerProvided, RolledBack, SetupKilled
<1>2. CASE Publish \/ (\E key \in Keys : config_set(key)) \/ config_save \/ local_start \/ local_stop
  BY <1>2, Beside
<1>3. CASE UNCHANGED setupVars
  BY <1>3 DEF SetupInv, SetupTyped, setupVars
<1> QED
  BY <1>1, <1>2, <1>3 DEF SetupNext

\* The inductive invariant of setups: what each of them knows of the files while
\* nobody else writes.
THEOREM SetupInvariant == SetupSpec => []SetupInv
BY SetupInvInit, SetupInvNext, PTL DEF SetupSpec

\* A setup is all or nothing, by what it reports, for any number of setups at
\* once, releases, edits, failing writes and kills.
THEOREM SetupIsAtomicSafe == SetupSpec => []SetupIsAtomic
<1>1. SetupInv => SetupIsAtomic
  <2> SUFFICES ASSUME SetupInv
               PROVE  SetupIsAtomic
    OBVIOUS
  <2>1. ASSUME NEW s \in Setups, setup[s].result = "complete", setup[s].alone
        PROVE  /\ \A i \in DOMAIN BundleFiles : stored[BundleFiles[i]] = stored.config.release
               /\ stored.config.id = setup[s].n /\ stored.secret = setup[s].n
               /\ stored.bearer \notin {Absent, ShortBearer}
    <3>1. /\ BundleIs(stored, stored.config.release) /\ stored.config.id = setup[s].n
          /\ stored.secret = setup[s].n /\ stored.bearer \notin {Absent, ShortBearer}
      BY <2>1 DEF SetupInv, KnowsFiles
    <3> QED
      BY <3>1, BundleFileNames DEF BundleIs
  <2>2. AbortLeavesNoTrace
    BY DEF AbortLeavesNoTrace, SetupInv, KnowsFiles
  <2> QED
    BY <2>1, <2>2 DEF SetupIsAtomic, CompleteIsWhole
<1> QED
  BY <1>1, SetupInvariant, PTL
=============================================================================
