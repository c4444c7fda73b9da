------------------------------- MODULE Upgrade -------------------------------
(***************************************************************************)
(* Upgrades of the operator installation: `zodex upgrade` by hand and the  *)
(* automatic update a desktop app starts, over a Local that may be serving *)
(* an agent.  Time counts idle windows; a plan's deadline is absolute.     *)
(***************************************************************************)
EXTENDS Naturals, FiniteSets

CONSTANTS
    Updaters,    \* upgrade processes
    Interval,    \* AUTOMATIC_UPDATE_INTERVAL_SECONDS, in idle windows
    MaxNow,      \* bound: clock ticks
    MaxBoots,    \* bound: reboots
    MaxVersion,  \* bound: releases
    MaxTroubles, \* bound: failing steps and dying processes
    MaxCalls     \* bound: agent calls and commands of the user
Forever == MaxNow + 1
ASSUME UpgradeAssumption == Interval \in Nat \ {0} /\ MaxNow \in Nat /\ MaxVersion \in Nat

VARIABLES
    now, boot,
    prefs,      \* LocalLoginPreferences
    local,      \* the Local runtime: state, start, deadline, last activity
    up,         \* upgrade processes
    lock,       \* holder of upgrade.lock
    installed, latest,
    troubles, calls,
    attempts,   \* ghost: automatic attempts
    unfair      \* ghost: an automatic update cut off a call it had not checked for

upgradeVars == <<now, boot, prefs, local, up, lock, installed, latest, troubles, calls,
                 attempts, unfair>>
bounds == <<troubles, calls>>
world == <<now, boot, prefs, installed, latest>>

NoLocal == [on |-> FALSE, since |-> 0, exp |-> 0, last |-> 0, busy |-> FALSE, late |-> {}]
NoOne == 0
Fresh == [st |-> "idle", auto |-> FALSE, stop |-> FALSE, mine |-> 0, target |-> 0,
          plan |-> 0, stopped |-> FALSE, again |-> FALSE, cause |-> FALSE]
Begun(auto, stop, target) ==
    [st |-> "check", auto |-> auto, stop |-> stop, mine |-> installed, target |-> target,
     plan |-> 0, stopped |-> FALSE, again |-> FALSE, cause |-> FALSE]
trouble == troubles < MaxTroubles /\ troubles' = troubles + 1
used == calls < MaxCalls /\ calls' = calls + 1
becomes(u, st) == up' = [up EXCEPT ![u].st = st]
\* Leaving run_operator_upgrade: the lock goes with the process, and an
\* automatic attempt that failed is deferred.
ends(u, x) == up' = [up EXCEPT ![u] = x] /\ lock' = (IF lock = u THEN NoOne ELSE lock)
fails(u, x) == ends(u, [x EXCEPT !.st = IF x.auto THEN "defer" ELSE "failed"])

-----------------------------------------------------------------------------
(* Preferences: every change is made under the preferences lock.           *)

claim_automatic_update_attempt(due) ==
    [prefs EXCEPT !.last = IF due THEN now + 1 ELSE @, !.boot = boot + 1, !.retry = FALSE]

run_local_automatic_update(u) ==
    LET due == prefs.last = 0 \/ now + 1 - prefs.last >= Interval
        retry == prefs.retry /\ prefs.boot # 0 /\ prefs.boot # boot + 1
    IN  /\ up[u].st = "idle" /\ prefs.auto /\ (due \/ retry)
        /\ prefs' = claim_automatic_update_attempt(due)
        /\ attempts' = attempts \cup {[by |-> u, at |-> now, boot |-> boot, due |-> due]}
        /\ up' = [up EXCEPT ![u] = Begun(TRUE, TRUE, 0)]
        /\ UNCHANGED <<now, boot, local, lock, installed, latest, bounds, unfair>>

defer_automatic_update_until_reboot(u) ==
    /\ up[u].st = "defer" /\ becomes(u, "failed")
    /\ prefs' = [prefs EXCEPT !.retry = @ \/ prefs.auto]
    /\ UNCHANGED <<now, boot, local, lock, installed, latest, bounds, attempts, unfair>>

set_automatic_updates ==
    /\ used /\ prefs' = [prefs EXCEPT !.auto = ~@]
    /\ UNCHANGED <<now, boot, local, up, lock, installed, latest, troubles, attempts, unfair>>

-----------------------------------------------------------------------------
(* An upgrade.                                                             *)

upgrade_operator(u, stop, version) ==
    /\ up[u].st = "idle" /\ used
    /\ up' = [up EXCEPT ![u] = Begun(FALSE, stop, version)]
    /\ UNCHANGED <<world, local, lock, troubles, attempts, unfair>>

\* A version that was asked for may be a downgrade, the latest one (target
\* 0 so far) never is: resolve_latest_operator_version, latest_direction.
run_operator_upgrade(u) ==
    LET x == up[u]
        goes == IF x.target = 0 THEN latest > x.mine ELSE x.target # x.mine
    IN
    /\ x.st = "check"
    /\ up' = [up EXCEPT ![u] = [x EXCEPT !.st = IF goes THEN "begin" ELSE "done",
                                         !.target = IF @ = 0 THEN latest ELSE @]]
    /\ UNCHANGED <<world, local, lock, bounds, attempts, unfair>>

\* automatic_update_idle_plan for a running Local: no call or process in
\* progress, none within the window, the deadline not passed.
automatic_update_idle_plan ==
    /\ local.on /\ ~local.busy
    /\ now - local.since >= 1 /\ now - local.last >= 1
    /\ local.exp > now

eligible(u) == /\ up[u].auto => prefs.auto
               /\ local.on => IF up[u].auto THEN automatic_update_idle_plan ELSE up[u].stop

\* OperatorUpgradeLock::acquire and the checks before the download.
continue_operator_upgrade(u) ==
    /\ up[u].st = "begin"
    /\ IF lock = NoOne /\ eligible(u)
       THEN lock' = u /\ becomes(u, "download")
       ELSE fails(u, up[u])
    /\ UNCHANGED <<world, local, bounds, attempts, unfair>>

\* download_upgrade_file with its attempts, verify_upgrade_checksum,
\* extract_upgrade_archive: all before Local is touched.
download_upgrade_file(u) ==
    /\ up[u].st = "download" /\ up[u].target <= latest /\ becomes(u, "recheck")
    /\ UNCHANGED <<world, local, lock, bounds, attempts, unfair>>

\* No such release.
release_missing(u) ==
    /\ up[u].st = "download" /\ up[u].target > latest /\ fails(u, up[u])
    /\ UNCHANGED <<world, local, bounds, attempts, unfair>>

\* No network, no readable history, a bad checksum or archive.
step_before_stop_failed(u) ==
    /\ up[u].st \in {"check", "begin", "download", "recheck"} /\ trouble /\ fails(u, up[u])
    /\ UNCHANGED <<world, local, calls, attempts, unfair>>

\* Mutant: the idle check before the download is trusted.
RecheckSkipped(u) ==
    /\ up[u].st = "recheck"
    /\ up' = [up EXCEPT ![u] = [@ EXCEPT !.st = IF local.on THEN "stop" ELSE "install",
                  !.plan = IF local.on /\ up[u].auto THEN local.exp ELSE 0]]
    /\ UNCHANGED <<world, local, lock, bounds, attempts, unfair>>

recheck(u) ==
    LET x == up[u] IN
    /\ x.st = "recheck"
    /\ IF eligible(u)
       THEN /\ up' = [up EXCEPT ![u] = [x EXCEPT
                         !.st = IF local.on THEN "stop" ELSE "install",
                         !.plan = IF local.on /\ x.auto THEN local.exp ELSE 0]]
            /\ UNCHANGED lock
       ELSE fails(u, x)
    /\ UNCHANGED <<world, local, bounds, attempts, unfair>>

stop_local_for_operator_upgrade(u) ==
    /\ up[u].st = "stop"
    /\ local' = NoLocal
    /\ up' = [up EXCEPT ![u] = [@ EXCEPT !.st = "install", !.stopped = local.on]]
    /\ unfair' = (unfair \/ (up[u].auto /\ local.busy /\ u \notin local.late))
    /\ UNCHANGED <<world, lock, bounds, attempts>>

\* The stop reports an error, before or after it took effect.
stop_failed(u) ==
    /\ up[u].st = "stop" /\ trouble /\ local' \in {local, NoLocal}
    /\ fails(u, [up[u] EXCEPT !.stopped = local.on /\ ~local'.on, !.cause = TRUE])
    /\ unfair' = (unfair \/ (up[u].auto /\ local.busy /\ ~local'.on /\ u \notin local.late))
    /\ UNCHANGED <<world, calls, attempts>>

after_install(u, failed) ==
    LET x == up[u] IN
    IF x.plan # 0 THEN becomes(u, IF failed THEN "undo" ELSE "restart") /\ UNCHANGED lock
    ELSE IF failed THEN fails(u, x) ELSE ends(u, [x EXCEPT !.st = "done"])

\* The installer replaces the binaries one rename at a time and rolls back.
install_extracted_operator(u) ==
    /\ up[u].st = "install" /\ installed' = up[u].target /\ after_install(u, FALSE)
    /\ UNCHANGED <<now, boot, prefs, latest, local, bounds, attempts, unfair>>

install_failed(u) ==
    /\ up[u].st = "install" /\ trouble /\ after_install(u, TRUE)
    /\ UNCHANGED <<world, local, calls, attempts, unfair>>

\* The rest of the original deadline; a Local somebody started meanwhile
\* makes `local start` fail.
restart_automatic_local(u) ==
    LET x == up[u]
        starts == x.plan > now /\ ~local.on
        y == [x EXCEPT !.again = starts, !.cause = @ \/ x.plan <= now \/ local.on]
    IN  /\ x.st \in {"restart", "undo"}
        /\ local' = (IF starts THEN [NoLocal EXCEPT !.on = TRUE, !.since = now, !.exp = x.plan]
                     ELSE local)
        /\ IF starts /\ x.st = "restart" THEN ends(u, [y EXCEPT !.st = "done"]) ELSE fails(u, y)
        /\ UNCHANGED <<world, bounds, attempts, unfair>>

restart_failed(u) ==
    /\ up[u].st \in {"restart", "undo"} /\ trouble /\ fails(u, [up[u] EXCEPT !.cause = TRUE])
    /\ UNCHANGED <<world, local, calls, attempts, unfair>>

dies(u) ==
    /\ up[u].st \notin {"idle", "done", "failed"} /\ trouble
    /\ ends(u, [up[u] EXCEPT !.st = "failed", !.cause = TRUE])
    /\ UNCHANGED <<world, local, calls, attempts, unfair>>

-----------------------------------------------------------------------------
(* The rest of the machine.                                                *)

start_local ==
    /\ ~local.on /\ used
    /\ \E exp \in {now + 1, Forever} :
          local' = [NoLocal EXCEPT !.on = TRUE, !.since = now, !.exp = exp]
    /\ UNCHANGED <<world, up, lock, troubles, attempts, unfair>>

stop_local == /\ local.on /\ ((local.exp <= now /\ UNCHANGED calls) \/ used)
              /\ local' = NoLocal
              /\ UNCHANGED <<world, up, lock, troubles, attempts, unfair>>

\* A tool call: history knows it as unfinished until it ends.
begin_call ==
    /\ local.on /\ ~local.busy /\ used
    /\ local' = [local EXCEPT !.busy = TRUE, !.last = now,
                              !.late = {u \in Updaters : up[u].st = "stop"}]
    /\ UNCHANGED <<world, up, lock, troubles, attempts, unfair>>
end_call == /\ local.busy /\ local' = [local EXCEPT !.busy = FALSE, !.last = now]
            /\ UNCHANGED <<world, up, lock, bounds, attempts, unfair>>

publish == /\ latest < MaxVersion /\ latest' = latest + 1
           /\ UNCHANGED <<now, boot, prefs, local, up, lock, installed, bounds, attempts, unfair>>
advance == /\ now < MaxNow /\ now' = now + 1
           /\ UNCHANGED <<boot, prefs, local, up, lock, installed, latest, bounds, attempts, unfair>>
reboot == /\ boot < MaxBoots /\ boot' = boot + 1 /\ local' = NoLocal /\ lock' = NoOne
          /\ up' = [u \in Updaters |-> IF up[u].st \in {"idle", "done", "failed"} THEN up[u]
                                       ELSE [up[u] EXCEPT !.st = "failed", !.cause = TRUE]]
          /\ UNCHANGED <<now, prefs, installed, latest, bounds, attempts, unfair>>

UpgradeInit ==
    /\ now = 0 /\ boot = 0 /\ local = NoLocal /\ lock = NoOne
    /\ prefs = [auto |-> TRUE, last |-> 0, boot |-> 0, retry |-> FALSE]
    /\ up = [u \in Updaters |-> Fresh]
    /\ installed = 1 /\ latest = 1 /\ troubles = 0 /\ calls = 0
    /\ attempts = {} /\ unfair = FALSE

goes_on(u) == \/ run_operator_upgrade(u) \/ continue_operator_upgrade(u) \/ download_upgrade_file(u)
              \/ release_missing(u) \/ recheck(u) \/ stop_local_for_operator_upgrade(u) \/ install_extracted_operator(u)
              \/ restart_automatic_local(u) \/ defer_automatic_update_until_reboot(u)

UpgradeNext ==
    \/ \E u \in Updaters :
          \/ goes_on(u) \/ run_local_automatic_update(u) \/ step_before_stop_failed(u)
          \/ stop_failed(u) \/ install_failed(u) \/ restart_failed(u) \/ dies(u)
          \/ \E stop \in BOOLEAN, version \in 0..MaxVersion : upgrade_operator(u, stop, version)
    \/ start_local \/ stop_local \/ begin_call \/ end_call \/ set_automatic_updates
    \/ publish \/ advance \/ reboot

UpgradeSpec == UpgradeInit /\ [][UpgradeNext]_upgradeVars

-----------------------------------------------------------------------------
\* At most one scheduled automatic attempt per interval and one retry per
\* boot, whatever fails, however often the desktop app asks.
AttemptsBudgeted ==
    \A a, b \in attempts : a.by # b.by =>
        IF a.due /\ b.due THEN a.at - b.at >= Interval \/ b.at - a.at >= Interval
        ELSE a.due \/ b.due \/ a.boot # b.boot

\* An automatic update cuts off a call only if it began after the check made
\* once everything was unpacked: what was running then is left alone.
CutsOffOnlyLate == ~unfair

\* A Local that an automatic update stopped is started again, also when the
\* installation failed; unless its deadline has passed, the stop or the start
\* reported an error, somebody else started it, or the process died.
RestartsWhatItStopped ==
    \A u \in Updaters :
        up[u].auto /\ up[u].stopped /\ up[u].st \in {"defer", "done", "failed"} =>
            up[u].again \/ up[u].cause

\* Automatic updates keep their budget, leave running calls alone and bring
\* back the Local they stopped.
UpdatesAreConsiderate == AttemptsBudgeted /\ CutsOffOnlyLate /\ RestartsWhatItStopped
=============================================================================
