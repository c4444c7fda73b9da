------------------------------ MODULE MenuBar ------------------------------
(***************************************************************************)
(* The macOS menu bar app.  Its handlers run on the main thread, one at a  *)
(* time; the long CLI calls run in the background and report back to the   *)
(* main queue, in any order.  The status, the preferences and the login    *)
(* item are asked for synchronously, inside the handler.  A file panel or  *)
(* the port dialog keeps the main queue running while it is open.  An      *)
(* update replaces the app bundle under the running process, which then    *)
(* relaunches itself; the CLI calls it had started go on without it.       *)
(***************************************************************************)
EXTENDS Integers, FiniteSets

CONSTANTS
    MaxUses,       \* bound: menu actions and scheduled checks
    MaxSpoiled     \* bound: CLI calls and queries that fail although they could succeed

ASSUME MenuBarAssumption == MaxUses \in Nat /\ MaxSpoiled \in Nat

VARIABLES
    runtimeState,  \* what `zodex local status` reports
    login_file,    \* the shared login preferences
    login_item,    \* whether the app is registered to start at login
    bundle,        \* whether the installed app is newer than the running one
    bar,           \* AppDelegate
    cliCalls,      \* background CLI calls and completions waiting for the main queue
    uses, spoiled

barVars == <<runtimeState, login_file, login_item, bundle, bar, cliCalls, uses, spoiled>>

RuntimeItems == {"start", "stop", "liveboard", "copy"}
Lifecycle == {"local_start", "local_stop"}
Installs == {"upgrade", "upgrade_stop"}
Watches == {"watch", "copyurl"}
LocalStates == {"running", "stale", "stopped", "unconfigured"}

-----------------------------------------------------------------------------
(* Enabling the menu's items *)

disableRuntimeActions(b) == [b EXCEPT !.enabled = @ \ RuntimeItems]

Enable(b, items) ==
    [b EXCEPT !.enabled = (@ \ RuntimeItems) \cup (items \ (IF b.folder THEN {} ELSE {"start"}))]
enableFallbackActions(b) == Enable(b, RuntimeItems)

apply(b, status) ==
    CASE status = "running" -> Enable(b, {"stop", "liveboard", "copy"})
      [] status = "stale" -> Enable(b, {"stop"})
      [] status = "stopped" -> Enable(b, {"start"})
      [] status = "unconfigured" -> disableRuntimeActions(b)
      [] OTHER -> enableFallbackActions(b)

\* Mutant of refreshStatus: a command in flight is not looked at after the query.
RefreshesAnyway(b, status) ==
    IF b.upgradeInFlight THEN disableRuntimeActions(b) ELSE apply(disableRuntimeActions(b), status)

refreshStatus(b, status) ==
    IF b.upgradeInFlight \/ b.commandInFlight THEN disableRuntimeActions(b)
    ELSE apply(disableRuntimeActions(b), status)

\* The answers the synchronous query can give: an error enables the fallback.
Spoils == spoiled < MaxSpoiled /\ spoiled' = spoiled + 1
Asked(s, x) ==
    \/ s = x /\ UNCHANGED spoiled
    \/ s = "unavailable" /\ Spoils
Statuses == LocalStates \cup {"unavailable"}

refreshLoginPreferences(b) ==
    [b EXCEPT !.tunnel = login_file'.tunnel, !.automatic = login_file'.automatic,
              !.folder = login_file'.folder]

-----------------------------------------------------------------------------
(* Background calls *)

Call(task, id) == [task |-> task, id |-> id, st |-> "runs", answer |-> "none", mine |-> TRUE]
runZodex(task) == cliCalls \cup {Call(task, uses')}
Waiting(b) == b.modal = "none" /\ b.open

Completes(c, answer) == cliCalls' = (cliCalls \ {c}) \cup {[c EXCEPT !.st = "done", !.answer = answer]}

local_acts(c) ==
    /\ c.task \in Lifecycle /\ c.st = "runs"
    /\ \/ /\ runtimeState' = CASE c.task = "local_start" /\ runtimeState \in {"stopped", "stale"} -> "running"
                        [] c.task = "local_stop" /\ runtimeState \in {"running", "stale"} -> "stopped"
                        [] OTHER -> runtimeState
          /\ Completes(c, "ok") /\ UNCHANGED spoiled
       \/ runtimeState' \in {runtimeState} \cup (IF runtimeState = "unconfigured" THEN {} ELSE {"stale"})
          /\ Completes(c, "failed") /\ Spoils
    /\ UNCHANGED <<login_file, login_item, bundle, bar, uses>>

\* An install replaces the bundle; `upgrade` refuses while Local runs.
install_acts(c) ==
    /\ c.task \in Installs \cup {"automatic"} /\ c.st = "runs"
    /\ \/ /\ c.task = "upgrade" => runtimeState # "running"
          /\ bundle' = "newer" /\ Completes(c, "ok")
          /\ runtimeState' \in IF c.task = "upgrade" THEN {runtimeState}
                        ELSE {runtimeState, IF runtimeState = "running" THEN "stopped" ELSE runtimeState}
          /\ UNCHANGED spoiled
       \/ /\ c.task = "upgrade" /\ runtimeState = "running"
          /\ Completes(c, "local_running") /\ UNCHANGED <<bundle, runtimeState, spoiled>>
       \/ /\ c.task = "automatic" /\ Completes(c, "ok") /\ UNCHANGED <<bundle, runtimeState, spoiled>>
       \/ Completes(c, "failed") /\ Spoils /\ UNCHANGED <<bundle, runtimeState>>
    /\ UNCHANGED <<login_file, login_item, bar, uses>>

other_ends(c) ==
    /\ c.task \in Watches \cup {"check"} /\ c.st = "runs"
    /\ \E a \in IF c.task = "check" THEN {"found", "current"} ELSE {"ok"} : Completes(c, a)
    /\ UNCHANGED <<runtimeState, login_file, login_item, bundle, bar, uses, spoiled>>

-----------------------------------------------------------------------------
(* Completions, on the main queue *)

lifecycle_done(c, b, s) ==
    c.task \in Lifecycle /\ bar' = refreshStatus([b EXCEPT !.commandInFlight = FALSE], s)
    /\ cliCalls' = cliCalls \ {c} /\ UNCHANGED uses

watch_done(c, b, s) ==
    c.task \in Watches /\ bar' = refreshStatus(b, s) /\ cliCalls' = cliCalls \ {c} /\ UNCHANGED uses

automatic_done(c, b, s) ==
    /\ c.task = "automatic" /\ s = runtimeState
    /\ bar' = [b EXCEPT !.automaticUpdateInFlight = FALSE] /\ cliCalls' = cliCalls \ {c} /\ UNCHANGED uses

check_done(c, b, s) ==
    /\ c.task = "check" /\ s = runtimeState
    /\ bar' = [b EXCEPT !.upgradeCheckInFlight = FALSE, !.available = c.answer = "found",
                        !.enabled = @ \cup {"update"}]
    /\ cliCalls' = cliCalls \ {c} /\ UNCHANGED uses

beginUpgrade(b) ==
    [disableRuntimeActions(b) EXCEPT !.upgradeInFlight = TRUE, !.enabled = @ \ {"update"}]

\* After "local_running" the operator may agree to stop Local; the status is
\* refreshed behind that decision.
upgrade_done(c, b, s) ==
    LET ended == [b EXCEPT !.upgradeInFlight = FALSE, !.enabled = @ \cup {"update"},
                           !.available = IF c.answer = "ok" THEN FALSE ELSE @]
    IN  /\ c.task \in Installs
        /\ \E agreed \in BOOLEAN :
              /\ agreed => c.answer = "local_running" /\ uses < MaxUses
              /\ uses' = IF agreed THEN uses + 1 ELSE uses
              /\ bar' = refreshStatus(IF agreed THEN beginUpgrade(ended) ELSE ended, s)
              /\ cliCalls' = (cliCalls \ {c}) \cup (IF agreed THEN {Call("upgrade_stop", uses')} ELSE {})

completion(c) ==
    /\ c.st = "done" /\ c.mine
    /\ \E s \in Statuses :
          /\ Asked(s, runtimeState)
          /\ \/ lifecycle_done(c, bar, s) \/ watch_done(c, bar, s) \/ automatic_done(c, bar, s)
             \/ check_done(c, bar, s) \/ upgrade_done(c, bar, s)
    /\ UNCHANGED <<runtimeState, login_file, login_item, bundle>>

\* The process that made the call is gone: nobody takes its answer.
abandoned(c) ==
    /\ c.st = "done" /\ ~c.mine /\ cliCalls' = cliCalls \ {c}
    /\ UNCHANGED <<runtimeState, login_file, login_item, bundle, bar, uses, spoiled>>

-----------------------------------------------------------------------------
(* Menu actions: the menu is open, then closes *)

Use == uses < MaxUses /\ uses' = uses + 1
Chosen(item) == Waiting(bar) /\ item \in bar.enabled /\ Use
Closed(b) == [b EXCEPT !.open = FALSE]
Elsewhere == UNCHANGED <<runtimeState, bundle>>

beginStart(b) == disableRuntimeActions([b EXCEPT !.commandInFlight = TRUE])

startZodex ==
    /\ Chosen("start")
    /\ IF bar.folder THEN bar' = Closed(beginStart(bar)) /\ cliCalls' = runZodex("local_start")
       ELSE bar' = Closed(bar) /\ UNCHANGED cliCalls
    /\ Elsewhere /\ UNCHANGED <<login_file, login_item, spoiled>>

stopZodex ==
    /\ Chosen("stop")
    /\ bar' = Closed(beginStart(bar)) /\ cliCalls' = runZodex("local_stop")
    /\ Elsewhere /\ UNCHANGED <<login_file, login_item, spoiled>>

watch(item, task) ==
    /\ Chosen(item)
    /\ bar' = Closed([bar EXCEPT !.enabled = @ \ {item}]) /\ cliCalls' = runZodex(task)
    /\ Elsewhere /\ UNCHANGED <<login_file, login_item, spoiled>>

updateZodex ==
    /\ Chosen("update")
    /\ IF bar.available
       THEN IF bar.upgradeInFlight THEN bar' = Closed(bar) /\ UNCHANGED cliCalls
            ELSE bar' = Closed(beginUpgrade(bar)) /\ cliCalls' = runZodex("upgrade")
       ELSE IF bar.upgradeCheckInFlight \/ bar.upgradeInFlight THEN bar' = Closed(bar) /\ UNCHANGED cliCalls
            ELSE /\ bar' = Closed([bar EXCEPT !.upgradeCheckInFlight = TRUE, !.enabled = @ \ {"update"}])
                 /\ cliCalls' = runZodex("check")
    /\ Elsewhere /\ UNCHANGED <<login_file, login_item, spoiled>>

checkAutomaticUpdatesIfDue(b) ==
    LET c == refreshLoginPreferences(b)
    IN  IF /\ c.automatic /\ ~c.automaticUpdateInFlight /\ ~c.commandInFlight
           /\ ~c.upgradeCheckInFlight /\ ~c.upgradeInFlight
        THEN bar' = [c EXCEPT !.automaticUpdateInFlight = TRUE] /\ cliCalls' = runZodex("automatic")
        ELSE bar' = c /\ UNCHANGED cliCalls

toggleAutomaticUpdates ==
    /\ Chosen("settings")
    /\ \/ /\ login_file' = [login_file EXCEPT !.automatic = ~bar.automatic]
          /\ IF bar.automatic THEN bar' = refreshLoginPreferences(Closed(bar)) /\ UNCHANGED cliCalls
             ELSE checkAutomaticUpdatesIfDue(Closed(bar))
          /\ UNCHANGED spoiled
       \/ Spoils /\ UNCHANGED <<login_file, cliCalls>> /\ bar' = refreshLoginPreferences(Closed(bar))
    /\ Elsewhere /\ UNCHANGED login_item

\* Turning it off first turns off the tunnel at login, if this copy says it is on.
toggleLaunchAtLogin ==
    /\ Chosen("settings")
    /\ LET dependent == login_item /\ bar.tunnel
           off == [login_file EXCEPT !.tunnel = FALSE]
           after == IF dependent THEN refreshLoginPreferences(Closed(bar)) ELSE Closed(bar)
       IN  \/ /\ login_file' = IF dependent THEN off ELSE login_file
              /\ login_item' = ~login_item /\ bar' = after /\ UNCHANGED spoiled
           \/ Spoils /\ UNCHANGED <<login_file, login_item>> /\ bar' = Closed(bar)
           \/ /\ Spoils /\ dependent /\ login_file' = off /\ bar' = after
              /\ UNCHANGED login_item
    /\ Elsewhere /\ UNCHANGED cliCalls

toggleLaunchTunnelAtLogin ==
    /\ Chosen("settings")
    /\ \/ /\ bar.tunnel /\ login_file' = [login_file EXCEPT !.tunnel = FALSE]
          /\ UNCHANGED <<login_item, spoiled>>
       \/ /\ ~bar.tunnel /\ bar.folder
          /\ login_file' = [login_file EXCEPT !.tunnel = TRUE] /\ login_item' = TRUE
          /\ UNCHANGED spoiled
       \/ ~bar.tunnel /\ ~bar.folder /\ UNCHANGED <<login_file, login_item, spoiled>>
       \/ Spoils /\ UNCHANGED <<login_file, login_item>>
    /\ bar' = refreshLoginPreferences(Closed(bar))
    /\ Elsewhere /\ UNCHANGED cliCalls

\* The panel or dialog runs the main queue until it is answered.
opens_dialog(d) ==
    /\ Chosen("settings")
    /\ bar' = [Closed(bar) EXCEPT !.modal = d]
    /\ Elsewhere /\ UNCHANGED <<login_file, login_item, cliCalls, spoiled>>

changeStartFolder(s) ==
    /\ bar.modal = "folder"
    /\ LET b == [bar EXCEPT !.modal = "none"]
       IN  \/ bar' = b /\ s = runtimeState /\ UNCHANGED <<login_file, spoiled>>     \* cancelled
           \/ bar' = b /\ s = runtimeState /\ Spoils /\ UNCHANGED login_file
           \/ /\ Asked(s, runtimeState)
              /\ login_file' = [login_file EXCEPT !.folder = TRUE]
              /\ bar' = refreshStatus(refreshLoginPreferences(b), s)
    /\ Elsewhere /\ UNCHANGED <<login_item, cliCalls, uses>>

\* The port itself is read again at the next start of Local.
setLiveboardPort ==
    /\ bar.modal = "port"
    /\ Elsewhere /\ UNCHANGED <<login_file, login_item, cliCalls, uses, spoiled>>
    /\ LET b == [bar EXCEPT !.modal = "none"]
       IN  bar' \in {b, refreshLoginPreferences(b)}

-----------------------------------------------------------------------------
(* Launch, opening the menu, timers, relaunch *)

FreshBar(folder, tunnel, automatic) ==
    [commandInFlight |-> FALSE, upgradeCheckInFlight |-> FALSE, upgradeInFlight |-> FALSE,
     automaticUpdateInFlight |-> FALSE, available |-> FALSE, open |-> FALSE, modal |-> "none",
     folder |-> folder, tunnel |-> tunnel, automatic |-> automatic,
     enabled |-> {"update", "settings"}]

relaunches == bundle = "newer" /\ ~bar.upgradeInFlight

\* The process ends and a new one starts with --after-upgrade: no tunnel start.
relaunchIfBundleWasUpdated ==
    /\ relaunches /\ bar.modal = "none" /\ ~bar.open
    /\ bundle' = "same"
    /\ bar' = FreshBar(login_file.folder, login_file.tunnel, login_file.automatic)
    /\ cliCalls' = {[c EXCEPT !.mine = FALSE] : c \in cliCalls}
    /\ UNCHANGED <<runtimeState, login_file, login_item, uses, spoiled>>

menuWillOpen ==
    /\ ~relaunches /\ bar.modal = "none" /\ ~bar.open
    /\ UNCHANGED login_file
    /\ \E s \in Statuses :
          /\ Asked(s, runtimeState)
          /\ bar' = refreshStatus([refreshLoginPreferences(bar) EXCEPT !.open = TRUE], s)
    /\ Elsewhere /\ UNCHANGED <<login_item, cliCalls, uses>>

menu_closes ==
    /\ Waiting(bar) /\ bar' = Closed(bar)
    /\ Elsewhere /\ UNCHANGED <<login_file, login_item, cliCalls, uses, spoiled>>

timer_fires ==
    /\ bar.modal = "none" /\ ~bar.open /\ Use
    /\ UNCHANGED login_file
    /\ checkAutomaticUpdatesIfDue(bar)
    /\ Elsewhere /\ UNCHANGED <<login_item, spoiled>>

\* Another shell.
shell_acts ==
    /\ Use
    /\ \/ runtimeState' \in LocalStates \ {runtimeState} /\ UNCHANGED <<login_file, login_item>>
       \/ /\ login_file' = [login_file EXCEPT !.tunnel = ~@]
          /\ login_item' = (login_item \/ login_file'.tunnel) /\ UNCHANGED runtimeState
    /\ UNCHANGED <<bundle, bar, cliCalls, spoiled>>

applicationDidFinishLaunching(folder, tunnel) ==
    LET b == FreshBar(folder, tunnel, TRUE)
    IN  IF tunnel /\ folder
        THEN bar = beginStart(b) /\ cliCalls = {Call("local_start", 0)}
        ELSE bar = b /\ cliCalls = {}

BarInit ==
    /\ runtimeState = "stopped" /\ bundle = "same" /\ uses = 0 /\ spoiled = 0
    /\ \E folder, tunnel \in BOOLEAN :
          /\ login_file = [folder |-> folder, tunnel |-> tunnel, automatic |-> TRUE]
          /\ login_item = tunnel
          /\ applicationDidFinishLaunching(folder, tunnel)

BarNext ==
    \/ \E c \in cliCalls : local_acts(c) \/ install_acts(c) \/ other_ends(c) \/ completion(c) \/ abandoned(c)
    \/ startZodex \/ stopZodex \/ watch("liveboard", "watch") \/ watch("copy", "copyurl")
    \/ updateZodex \/ toggleAutomaticUpdates \/ toggleLaunchAtLogin \/ toggleLaunchTunnelAtLogin
    \/ \E d \in {"folder", "port"} : opens_dialog(d)
    \/ \E s \in Statuses : changeStartFolder(s)
    \/ setLiveboardPort \/ relaunchIfBundleWasUpdated \/ menuWillOpen \/ menu_closes
    \/ timer_fires \/ shell_acts

BarSpec == BarInit /\ [][BarNext]_barVars

-----------------------------------------------------------------------------
\* While a start, a stop or an install the app began has not reported back, no
\* item acting on the runtime can be chosen, whatever completes, however often
\* the menu is opened and whatever panel was open: the app never has two of
\* them under way.
NoActionWhileBusy ==
    \A c \in cliCalls :
        c.mine /\ c.task \in Lifecycle \cup Installs => bar.enabled \cap RuntimeItems = {}
=============================================================================
