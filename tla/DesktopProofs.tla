--------------------------- MODULE DesktopProofs ----------------------------
(***************************************************************************)
(* Proofs about the desktop apps: the menu bar app of macOS and the tray   *)
(* app of Windows and Linux.                                               *)
(***************************************************************************)
EXTENDS MenuBar, Tray, TLAPS

-----------------------------------------------------------------------------
(* The menu bar app never offers an item acting on the runtime while a     *)
(* start, a stop or an install it began has not reported back.  The two    *)
(* in-flight flags of AppDelegate stand for the calls of this process:     *)
(* each is set as long as a call of its kind is out, and at most one of    *)
(* each kind is out, so that a completion never clears the flag of another *)
(* call.                                                                   *)
Items == RuntimeItems \cup {"update", "settings"}
Tasks == Lifecycle \cup Installs \cup Watches \cup {"check", "automatic"}
Reports == {"none", "ok", "failed", "local_running", "found", "current"}

BarRecord ==
    [commandInFlight : BOOLEAN, upgradeCheckInFlight : BOOLEAN, upgradeInFlight : BOOLEAN,
     automaticUpdateInFlight : BOOLEAN, available : BOOLEAN, open : BOOLEAN,
     modal : {"none", "folder", "port"}, folder : BOOLEAN, tunnel : BOOLEAN, automatic : BOOLEAN,
     enabled : SUBSET Items]
LoginRecord == [folder : BOOLEAN, tunnel : BOOLEAN, automatic : BOOLEAN]
CallRecord == [task : Tasks, id : Nat, st : {"runs", "done"}, answer : Reports, mine : BOOLEAN]

BarTyped ==
    /\ bar \in BarRecord /\ login_file \in LoginRecord
    /\ cliCalls \subseteq CallRecord /\ uses \in Nat

\* Nothing that acts on the runtime can be chosen under either flag.
Quiet(b) == b.commandInFlight \/ b.upgradeInFlight => b.enabled \cap RuntimeItems = {}

\* The flag is set while a call of this process is out, and one at most is.
Flagged(calls, tasks, flag) ==
    /\ \A c \in calls : c.mine /\ c.task \in tasks => flag
    /\ \A c, d \in calls : c.mine /\ d.mine /\ c.task \in tasks /\ d.task \in tasks => c = d

BarInv ==
    /\ BarTyped /\ Quiet(bar)
    /\ Flagged(cliCalls, Lifecycle, bar.commandInFlight)
    /\ Flagged(cliCalls, Installs, bar.upgradeInFlight)

SameFlags(b, c) == c.commandInFlight = b.commandInFlight /\ c.upgradeInFlight = b.upgradeInFlight

-----------------------------------------------------------------------------
(* What the handlers' helpers do to the flags and the items *)

\* Refreshing the status never changes a flag, and leaves a quiet menu.
LEMMA Refreshed ==
    ASSUME NEW b \in BarRecord, NEW s
    PROVE  /\ refreshStatus(b, s) \in BarRecord
           /\ SameFlags(b, refreshStatus(b, s)) /\ Quiet(refreshStatus(b, s))
<1> DEFINE c == disableRuntimeActions(b)
<1>1. /\ c \in BarRecord /\ SameFlags(b, c) /\ c.enabled \cap RuntimeItems = {} /\ c.folder = b.folder
  BY DEF disableRuntimeActions, BarRecord, SameFlags
<1>2. \A I \in SUBSET RuntimeItems : Enable(c, I) \in BarRecord /\ SameFlags(c, Enable(c, I))
  <2> SUFFICES ASSUME NEW I \in SUBSET RuntimeItems PROVE Enable(c, I) \in BarRecord /\ SameFlags(c, Enable(c, I))
    OBVIOUS
  <2> DEFINE E == (c.enabled \ RuntimeItems) \cup (I \ (IF c.folder THEN {} ELSE {"start"}))
  <2>1. E \in SUBSET Items
    BY <1>1 DEF BarRecord, Items
  <2>2. Enable(c, I) = [c EXCEPT !.enabled = E]
    BY DEF Enable
  <2> HIDE DEF E, c
  <2> QED
    BY <1>1, <2>1, <2>2 DEF BarRecord, SameFlags
<1>3. disableRuntimeActions(c) \in BarRecord /\ SameFlags(c, disableRuntimeActions(c))
  BY <1>1 DEF disableRuntimeActions, BarRecord, SameFlags
<1>4. apply(c, s) \in BarRecord /\ SameFlags(c, apply(c, s))
  <2> HIDE DEF c
  <2>1. /\ {"stop", "liveboard", "copy"} \in SUBSET RuntimeItems /\ {"stop"} \in SUBSET RuntimeItems
        /\ {"start"} \in SUBSET RuntimeItems /\ RuntimeItems \in SUBSET RuntimeItems
    BY DEF RuntimeItems
  <2> QED
    BY <1>2, <1>3, <2>1 DEF apply, enableFallbackActions
<1>5. CASE b.upgradeInFlight \/ b.commandInFlight
  BY <1>1, <1>5 DEF refreshStatus, Quiet
<1>6. CASE ~(b.upgradeInFlight \/ b.commandInFlight)
  <2>1. refreshStatus(b, s) = apply(c, s)
    BY <1>6 DEF refreshStatus
  <2> HIDE DEF c
  <2> QED
    BY <1>1, <1>4, <1>6, <2>1 DEF SameFlags, Quiet
<1> QED
  BY <1>5, <1>6

\* Reading the preferences again touches neither the flags nor the items.
LEMMA PreferencesRead ==
    ASSUME NEW b \in BarRecord, login_file' \in LoginRecord
    PROVE  /\ refreshLoginPreferences(b) \in BarRecord
           /\ SameFlags(b, refreshLoginPreferences(b))
           /\ refreshLoginPreferences(b).enabled = b.enabled
  BY DEF refreshLoginPreferences, BarRecord, LoginRecord, SameFlags

LEMMA MenuClosed ==
    ASSUME NEW b \in BarRecord
    PROVE  Closed(b) \in BarRecord /\ SameFlags(b, Closed(b)) /\ Closed(b).enabled = b.enabled
  BY DEF Closed, BarRecord, SameFlags

LEMMA Begun ==
    ASSUME NEW b \in BarRecord
    PROVE  /\ beginStart(b) \in BarRecord /\ Quiet(beginStart(b))
           /\ beginStart(b).commandInFlight /\ beginStart(b).upgradeInFlight = b.upgradeInFlight
           /\ beginUpgrade(b) \in BarRecord /\ Quiet(beginUpgrade(b))
           /\ beginUpgrade(b).upgradeInFlight /\ beginUpgrade(b).commandInFlight = b.commandInFlight
<1>1. beginStart(b) \in BarRecord /\ beginStart(b).enabled \cap RuntimeItems = {}
  BY DEF beginStart, disableRuntimeActions, BarRecord
<1>2. beginUpgrade(b) \in BarRecord /\ beginUpgrade(b).enabled \cap RuntimeItems = {}
  BY DEF beginUpgrade, disableRuntimeActions, BarRecord
<1>3. /\ beginStart(b).commandInFlight /\ beginStart(b).upgradeInFlight = b.upgradeInFlight
      /\ beginUpgrade(b).upgradeInFlight /\ beginUpgrade(b).commandInFlight = b.commandInFlight
  BY DEF beginStart, beginUpgrade, disableRuntimeActions, BarRecord
<1> QED
  BY <1>1, <1>2, <1>3 DEF Quiet

-----------------------------------------------------------------------------
(* What the calls in flight become *)

\* A new call of a kind that was not in flight.
LEMMA CallBegins ==
    ASSUME NEW calls, NEW tasks, NEW flag \in BOOLEAN, NEW after \in BOOLEAN, NEW c,
           Flagged(calls, tasks, flag), c.task \in tasks => ~flag /\ after, flag => after
    PROVE  Flagged(calls \cup {c}, tasks, after)
  BY DEF Flagged

LEMMA CallEnds ==
    ASSUME NEW calls, NEW tasks, NEW flag \in BOOLEAN, NEW c \in calls, Flagged(calls, tasks, flag)
    PROVE  /\ Flagged(calls \ {c}, tasks, flag)
           /\ c.mine /\ c.task \in tasks => Flagged(calls \ {c}, tasks, FALSE)
  BY DEF Flagged

\* The answer of a call arrives: it is the same call, of the same process.
LEMMA CallReports ==
    ASSUME NEW calls \in SUBSET CallRecord, NEW tasks, NEW flag \in BOOLEAN, NEW c \in calls,
           NEW a \in Reports, Flagged(calls, tasks, flag)
    PROVE  Flagged((calls \ {c}) \cup {[c EXCEPT !.st = "done", !.answer = a]}, tasks, flag)
<1> DEFINE d == [c EXCEPT !.st = "done", !.answer = a]
<1>1. d.task = c.task /\ d.mine = c.mine
  BY DEF CallRecord
<1> HIDE DEF d
<1>2. Flagged((calls \ {c}) \cup {d}, tasks, flag)
  BY <1>1 DEF Flagged
<1> QED
  BY <1>2 DEF d

LEMMA BarInitially == BarInit => BarInv
<1> SUFFICES ASSUME BarInit PROVE BarInv
  OBVIOUS
<1>1. PICK folder \in BOOLEAN, tunnel \in BOOLEAN :
          /\ login_file = [folder |-> folder, tunnel |-> tunnel, automatic |-> TRUE]
          /\ applicationDidFinishLaunching(folder, tunnel)
  BY DEF BarInit
<1> DEFINE b == FreshBar(folder, tunnel, TRUE)
<1>2. b \in BarRecord /\ ~b.commandInFlight /\ ~b.upgradeInFlight
  BY DEF FreshBar, BarRecord, Items
<1>3. login_file \in LoginRecord /\ uses \in Nat
  BY <1>1 DEF LoginRecord, BarInit
<1> HIDE DEF b
<1>4. CASE tunnel /\ folder
  <2>1. bar = beginStart(b) /\ cliCalls = {Call("local_start", 0)}
    BY <1>1, <1>4 DEF applicationDidFinishLaunching, b
  <2>2. /\ Call("local_start", 0) \in CallRecord /\ Call("local_start", 0).task = "local_start"
    BY DEF Call, CallRecord, Tasks, Lifecycle, Reports
  <2>3. bar \in BarRecord /\ Quiet(bar) /\ bar.commandInFlight
    BY <1>2, <2>1, Begun
  <2>4. /\ Flagged(cliCalls, Lifecycle, bar.commandInFlight)
        /\ Flagged(cliCalls, Installs, bar.upgradeInFlight)
    BY <2>1, <2>2, <2>3 DEF Flagged, Installs
  <2> QED
    BY <1>3, <2>1, <2>2, <2>3, <2>4 DEF BarInv, BarTyped
<1>5. CASE ~(tunnel /\ folder)
  <2>1. bar = b /\ cliCalls = {}
    BY <1>1, <1>5 DEF applicationDidFinishLaunching, b
  <2> QED
    BY <1>2, <1>3, <2>1 DEF BarInv, BarTyped, Flagged, Quiet
<1> QED
  BY <1>4, <1>5

LEMMA BarStep == BarInv /\ [BarNext]_barVars => BarInv'
<1> SUFFICES ASSUME BarInv, [BarNext]_barVars PROVE BarInv'
  OBVIOUS
<1>0. /\ bar \in BarRecord /\ login_file \in LoginRecord /\ cliCalls \in SUBSET CallRecord /\ uses \in Nat
      /\ bar.commandInFlight \in BOOLEAN /\ bar.upgradeInFlight \in BOOLEAN
      /\ bar.tunnel \in BOOLEAN /\ bar.folder \in BOOLEAN
      /\ Quiet(bar)
      /\ Flagged(cliCalls, Lifecycle, bar.commandInFlight)
      /\ Flagged(cliCalls, Installs, bar.upgradeInFlight)
  BY DEF BarInv, BarTyped, BarRecord
<1> DEFINE Calls(calls, b) == Flagged(calls, Lifecycle, b.commandInFlight) /\ Flagged(calls, Installs, b.upgradeInFlight)
<1>1. ASSUME bar' \in BarRecord, login_file' \in LoginRecord, uses' \in Nat, Quiet(bar'),
             cliCalls' \in SUBSET CallRecord, Calls(cliCalls', bar')
      PROVE  BarInv'
  BY <1>1 DEF BarInv, BarTyped
\* A handler that begins no call and ends none.
<1>2. ASSUME bar' \in BarRecord, login_file' \in LoginRecord, uses' \in Nat, Quiet(bar'),
             SameFlags(bar, bar'), cliCalls' = cliCalls
      PROVE  BarInv'
  BY <1>0, <1>1, <1>2 DEF SameFlags
<1>3. ASSUME UNCHANGED <<bar, login_file, cliCalls>>, uses' \in Nat PROVE BarInv'
  BY <1>0, <1>2, <1>3 DEF SameFlags
<1>4. Use => uses' \in Nat
  BY <1>0 DEF Use
\* Calls that are neither a start, a stop nor an install.
<1>5. ASSUME NEW task \in {"watch", "copyurl", "check", "automatic"}, uses' \in Nat,
             cliCalls' = runZodex(task), bar' \in BarRecord, SameFlags(bar, bar'), Quiet(bar'),
             login_file' \in LoginRecord
      PROVE  BarInv'
  <2> DEFINE c == Call(task, uses')
  <2>1. c \in CallRecord /\ c.task \notin Lifecycle /\ c.task \notin Installs
    BY <1>5 DEF Call, CallRecord, Tasks, Watches, Lifecycle, Installs, Reports
  <2>2. cliCalls' = cliCalls \cup {c}
    BY <1>5 DEF runZodex
  <2> HIDE DEF c
  <2>3. Calls(cliCalls', bar)
    BY <1>0, <2>1, <2>2, CallBegins
  <2> QED
    BY <1>0, <1>1, <1>5, <2>1, <2>2, <2>3 DEF SameFlags
\* What a background call does before its completion runs.
<1>6. ASSUME NEW c \in cliCalls, NEW a \in Reports, Completes(c, a), UNCHANGED <<bar, login_file, uses>>
      PROVE  BarInv'
  <2>1. cliCalls' = (cliCalls \ {c}) \cup {[c EXCEPT !.st = "done", !.answer = a]}
    BY <1>6 DEF Completes
  <2>2. cliCalls' \in SUBSET CallRecord
    <3>1. [c EXCEPT !.st = "done", !.answer = a] \in CallRecord
      BY <1>0 DEF CallRecord
    <3> QED
      BY <1>0, <2>1, <3>1
  <2>3. Flagged(cliCalls', Lifecycle, bar.commandInFlight)
    BY <1>0, <2>1, CallReports
  <2>4. Flagged(cliCalls', Installs, bar.upgradeInFlight)
    BY <1>0, <2>1, CallReports
  <2> QED
    BY <1>0, <1>1, <1>6, <2>2, <2>3, <2>4
<1>7. ASSUME NEW c \in cliCalls, local_acts(c) \/ install_acts(c) \/ other_ends(c) PROVE BarInv'
  <2>1. UNCHANGED <<bar, login_file, uses>> /\ \E a \in Reports : Completes(c, a)
    <3>1. CASE local_acts(c)
      BY <3>1 DEF local_acts, Reports
    <3>2. CASE install_acts(c)
      BY <3>2 DEF install_acts, Reports
    <3>3. CASE other_ends(c)
      BY <3>3 DEF other_ends, Reports
    <3> QED
      BY <1>7, <3>1, <3>2, <3>3
  <2> QED
    BY <1>6, <2>1
<1>8. ASSUME NEW c \in cliCalls, abandoned(c) PROVE BarInv'
  <2>1. cliCalls' = cliCalls \ {c} /\ UNCHANGED <<bar, login_file, uses>>
    BY <1>8 DEF abandoned
  <2>2. Calls(cliCalls', bar)
    BY <1>0, <2>1, CallEnds
  <2> QED
    BY <1>0, <1>1, <2>1, <2>2
<1>9. ASSUME NEW c \in cliCalls, completion(c) PROVE BarInv'
  <2>1. PICK s \in Statuses :
          \/ lifecycle_done(c, bar, s) \/ watch_done(c, bar, s) \/ automatic_done(c, bar, s)
          \/ check_done(c, bar, s) \/ upgrade_done(c, bar, s)
    BY <1>9 DEF completion
  <2>2. c.mine /\ login_file' = login_file
    BY <1>9 DEF completion
  <2>3. /\ cliCalls \ {c} \in SUBSET CallRecord /\ Calls(cliCalls \ {c}, bar)
        /\ c.task \in Lifecycle => Flagged(cliCalls \ {c}, Lifecycle, FALSE)
        /\ c.task \in Installs => Flagged(cliCalls \ {c}, Installs, FALSE)
    BY <1>0, <2>2, CallEnds
  <2>4. CASE lifecycle_done(c, bar, s)
    <3> DEFINE b == [bar EXCEPT !.commandInFlight = FALSE]
    <3>1. b \in BarRecord /\ ~b.commandInFlight /\ b.upgradeInFlight = bar.upgradeInFlight
      BY <1>0 DEF BarRecord
    <3>2. bar' = refreshStatus(b, s) /\ cliCalls' = cliCalls \ {c} /\ uses' = uses /\ c.task \in Lifecycle
      BY <2>4 DEF lifecycle_done
    <3> HIDE DEF b
    <3>3. bar' \in BarRecord /\ SameFlags(b, bar') /\ Quiet(bar')
      BY <3>1, <3>2, Refreshed
    <3>4. bar'.commandInFlight = FALSE /\ bar'.upgradeInFlight = bar.upgradeInFlight
      BY <3>1, <3>3 DEF SameFlags, BarRecord
    <3> QED
      BY <1>0, <1>1, <2>2, <2>3, <3>2, <3>3, <3>4
  <2>5. CASE watch_done(c, bar, s)
    <3>1. bar' = refreshStatus(bar, s) /\ cliCalls' = cliCalls \ {c} /\ uses' = uses
      BY <2>5 DEF watch_done
    <3>2. bar' \in BarRecord /\ SameFlags(bar, bar') /\ Quiet(bar')
      BY <1>0, <3>1, Refreshed
    <3> QED
      BY <1>0, <1>1, <2>2, <2>3, <3>1, <3>2 DEF SameFlags
  <2>6. CASE automatic_done(c, bar, s)
    <3>1. bar' = [bar EXCEPT !.automaticUpdateInFlight = FALSE] /\ cliCalls' = cliCalls \ {c} /\ uses' = uses
      BY <2>6 DEF automatic_done
    <3>2. bar' \in BarRecord /\ SameFlags(bar, bar') /\ bar'.enabled = bar.enabled
      BY <1>0, <3>1 DEF BarRecord, SameFlags
    <3> QED
      BY <1>0, <1>1, <2>2, <2>3, <3>1, <3>2 DEF SameFlags, Quiet
  <2>7. CASE check_done(c, bar, s)
    <3>1. /\ bar' = [bar EXCEPT !.upgradeCheckInFlight = FALSE, !.available = c.answer = "found",
                                !.enabled = @ \cup {"update"}]
          /\ cliCalls' = cliCalls \ {c} /\ uses' = uses
      BY <2>7 DEF check_done
    <3>2. bar' \in BarRecord /\ SameFlags(bar, bar') /\ bar'.enabled = bar.enabled \cup {"update"}
      BY <1>0, <3>1 DEF BarRecord, SameFlags, Items
    <3>3. Quiet(bar')
      BY <1>0, <3>2 DEF Quiet, SameFlags, RuntimeItems
    <3> QED
      BY <1>0, <1>1, <2>2, <2>3, <3>1, <3>2, <3>3 DEF SameFlags
  <2>8. CASE upgrade_done(c, bar, s)
    <3> DEFINE b == [bar EXCEPT !.upgradeInFlight = FALSE, !.enabled = @ \cup {"update"},
                                !.available = IF c.answer = "ok" THEN FALSE ELSE @]
    <3>1. PICK agreed \in BOOLEAN :
              /\ uses' = IF agreed THEN uses + 1 ELSE uses
              /\ bar' = refreshStatus(IF agreed THEN beginUpgrade(b) ELSE b, s)
              /\ cliCalls' = (cliCalls \ {c}) \cup (IF agreed THEN {Call("upgrade_stop", uses')} ELSE {})
      BY <2>8 DEF upgrade_done
    <3>2. b \in BarRecord /\ ~b.upgradeInFlight /\ b.commandInFlight = bar.commandInFlight
      BY <1>0 DEF BarRecord, Items
    <3>3. uses' \in Nat /\ c.task \in Installs
      BY <1>0, <2>8, <3>1 DEF upgrade_done
    <3> HIDE DEF b
    <3>4. CASE ~agreed
      <4>1. bar' \in BarRecord /\ SameFlags(b, bar') /\ Quiet(bar')
        BY <3>1, <3>2, <3>4, Refreshed
      <4>2. bar'.upgradeInFlight = FALSE /\ bar'.commandInFlight = bar.commandInFlight
        BY <3>2, <4>1 DEF SameFlags, BarRecord
      <4> QED
        BY <1>0, <1>1, <2>2, <2>3, <3>1, <3>3, <3>4, <4>1, <4>2
    <3>5. CASE agreed
      <4> DEFINE d == Call("upgrade_stop", uses')
      <4>1. bar' \in BarRecord /\ SameFlags(beginUpgrade(b), bar') /\ Quiet(bar')
        BY <3>1, <3>2, <3>5, Refreshed, Begun
      <4>2. bar'.upgradeInFlight = TRUE /\ bar'.commandInFlight = bar.commandInFlight
        BY <3>2, <4>1, Begun DEF SameFlags, BarRecord
      <4>3. d \in CallRecord /\ d.task = "upgrade_stop" /\ d.task \notin Lifecycle
        BY <3>3 DEF Call, CallRecord, Tasks, Installs, Lifecycle, Reports
      <4>4. cliCalls' = (cliCalls \ {c}) \cup {d}
        BY <3>1, <3>5
      <4> HIDE DEF d
      <4>5. Flagged(cliCalls', Lifecycle, bar.commandInFlight)
        BY <1>0, <2>3, <4>3, <4>4, CallBegins
      <4>6. Flagged(cliCalls', Installs, TRUE)
        BY <2>3, <3>3, <4>4, CallBegins
      <4>7. cliCalls' \in SUBSET CallRecord
        BY <2>3, <4>3, <4>4
      <4> QED
        BY <1>0, <1>1, <2>2, <3>3, <4>1, <4>2, <4>5, <4>6, <4>7
    <3> QED
      BY <3>4, <3>5
  <2> QED
    BY <2>1, <2>4, <2>5, <2>6, <2>7, <2>8
\* A start or a stop is chosen while neither flag is set.
<1>10. ASSUME NEW task \in Lifecycle, NEW item \in {"start", "stop"}, Chosen(item),
              bar' = Closed(beginStart(bar)), cliCalls' = runZodex(task), login_file' = login_file
       PROVE  BarInv'
  <2> DEFINE c == Call(task, uses')
  <2>1. uses' \in Nat /\ item \in bar.enabled \cap RuntimeItems
    BY <1>4, <1>10 DEF Chosen, RuntimeItems
  <2>2. ~bar.commandInFlight
    BY <1>0, <2>1 DEF Quiet
  <2>3. beginStart(bar) \in BarRecord /\ Quiet(beginStart(bar))
        /\ beginStart(bar).commandInFlight /\ beginStart(bar).upgradeInFlight = bar.upgradeInFlight
    BY <1>0, Begun
  <2>4. bar' \in BarRecord /\ SameFlags(beginStart(bar), bar') /\ bar'.enabled = beginStart(bar).enabled
    BY <1>10, <2>3, MenuClosed
  <2>5. bar'.commandInFlight = TRUE /\ bar'.upgradeInFlight = bar.upgradeInFlight /\ Quiet(bar')
    BY <2>3, <2>4 DEF SameFlags, Quiet, BarRecord
  <2>6. c \in CallRecord /\ c.task = task /\ c.task \notin Installs /\ cliCalls' = cliCalls \cup {c}
    BY <1>10, <2>1 DEF Call, CallRecord, Tasks, Installs, Lifecycle, Reports, runZodex
  <2> HIDE DEF c
  <2>7. Flagged(cliCalls', Lifecycle, TRUE)
    BY <1>0, <2>2, <2>6, CallBegins
  <2>8. Flagged(cliCalls', Installs, bar.upgradeInFlight)
    BY <1>0, <2>6, CallBegins
  <2> QED
    BY <1>0, <1>1, <1>10, <2>1, <2>4, <2>5, <2>6, <2>7, <2>8
<1>11. CASE startZodex
  <2>1. CASE bar.folder
    BY <1>10, <1>11, <2>1 DEF startZodex, Lifecycle
  <2>2. CASE ~bar.folder
    <3>1. bar' = Closed(bar) /\ cliCalls' = cliCalls /\ login_file' = login_file /\ uses' \in Nat
      BY <1>4, <1>11, <2>2 DEF startZodex, Chosen
    <3> QED
      BY <1>0, <1>2, <3>1, MenuClosed DEF Quiet, SameFlags
  <2> QED
    BY <2>1, <2>2
<1>12. CASE stopZodex
  BY <1>10, <1>12 DEF stopZodex, Lifecycle
<1>13. ASSUME NEW item \in {"liveboard", "copy"}, NEW task \in Watches, watch(item, task) PROVE BarInv'
  <2> DEFINE b == [bar EXCEPT !.enabled = @ \ {item}]
  <2>1. bar' = Closed(b) /\ cliCalls' = runZodex(task) /\ login_file' = login_file /\ uses' \in Nat
    BY <1>4, <1>13 DEF watch, Chosen
  <2>2. b \in BarRecord /\ SameFlags(bar, b) /\ b.enabled = bar.enabled \ {item}
    BY <1>0 DEF BarRecord, SameFlags
  <2> HIDE DEF b
  <2>3. bar' \in BarRecord /\ SameFlags(b, bar') /\ bar'.enabled = b.enabled
    BY <2>1, <2>2, MenuClosed
  <2>4. SameFlags(bar, bar') /\ Quiet(bar')
    BY <1>0, <2>2, <2>3 DEF SameFlags, Quiet
  <2> QED
    BY <1>0, <1>5, <2>1, <2>3, <2>4 DEF Watches
<1>14. CASE updateZodex
  <2>0. uses' \in Nat /\ login_file' = login_file
    BY <1>4, <1>14 DEF updateZodex, Chosen
  <2>1. CASE bar' = Closed(bar) /\ cliCalls' = cliCalls
    BY <1>0, <1>2, <2>0, <2>1, MenuClosed DEF Quiet, SameFlags
  <2>2. CASE ~bar.upgradeInFlight /\ bar' = Closed(beginUpgrade(bar)) /\ cliCalls' = runZodex("upgrade")
    <3> DEFINE c == Call("upgrade", uses')
    <3>1. beginUpgrade(bar) \in BarRecord /\ Quiet(beginUpgrade(bar))
          /\ beginUpgrade(bar).upgradeInFlight /\ beginUpgrade(bar).commandInFlight = bar.commandInFlight
      BY <1>0, Begun
    <3>2. bar' \in BarRecord /\ SameFlags(beginUpgrade(bar), bar') /\ bar'.enabled = beginUpgrade(bar).enabled
      BY <2>2, <3>1, MenuClosed
    <3>3. bar'.upgradeInFlight = TRUE /\ bar'.commandInFlight = bar.commandInFlight /\ Quiet(bar')
      BY <3>1, <3>2 DEF SameFlags, Quiet, BarRecord
    <3>4. c \in CallRecord /\ c.task \notin Lifecycle /\ cliCalls' = cliCalls \cup {c}
      BY <2>0, <2>2 DEF Call, CallRecord, Tasks, Installs, Lifecycle, Reports, runZodex
    <3> HIDE DEF c
    <3>5. Flagged(cliCalls', Lifecycle, bar.commandInFlight)
      BY <1>0, <3>4, CallBegins
    <3>6. Flagged(cliCalls', Installs, TRUE)
      <4>1. Flagged(cliCalls, Installs, FALSE)
        BY <1>0, <2>2 DEF Flagged
      <4> QED
        BY <3>4, <4>1, CallBegins
    <3> QED
      BY <1>0, <1>1, <2>0, <3>2, <3>3, <3>4, <3>5, <3>6
  <2>3. CASE /\ bar' = Closed([bar EXCEPT !.upgradeCheckInFlight = TRUE, !.enabled = @ \ {"update"}])
             /\ cliCalls' = runZodex("check")
    <3> DEFINE b == [bar EXCEPT !.upgradeCheckInFlight = TRUE, !.enabled = @ \ {"update"}]
    <3>1. b \in BarRecord /\ SameFlags(bar, b) /\ b.enabled = bar.enabled \ {"update"}
      BY <1>0 DEF BarRecord, SameFlags
    <3> HIDE DEF b
    <3>2. bar' \in BarRecord /\ SameFlags(b, bar') /\ bar'.enabled = b.enabled
      BY <2>3, <3>1, MenuClosed DEF b
    <3>3. SameFlags(bar, bar') /\ Quiet(bar')
      BY <1>0, <3>1, <3>2 DEF SameFlags, Quiet
    <3> QED
      BY <1>0, <1>5, <2>0, <2>3, <3>2, <3>3
  <2> QED
    BY <1>14, <2>1, <2>2, <2>3 DEF updateZodex
\* The automatic update takes its own flag.
<1>15. ASSUME NEW b \in BarRecord, SameFlags(bar, b), b.enabled = bar.enabled, login_file' \in LoginRecord,
              uses' \in Nat, checkAutomaticUpdatesIfDue(b)
       PROVE  BarInv'
  <2> DEFINE c == refreshLoginPreferences(b)
  <2>1. c \in BarRecord /\ SameFlags(b, c) /\ c.enabled = b.enabled
    BY <1>15, PreferencesRead
  <2>2. \/ bar' = [c EXCEPT !.automaticUpdateInFlight = TRUE] /\ cliCalls' = runZodex("automatic")
        \/ bar' = c /\ cliCalls' = cliCalls
    BY <1>15 DEF checkAutomaticUpdatesIfDue
  <2> HIDE DEF c
  <2>3. bar' \in BarRecord /\ SameFlags(c, bar') /\ bar'.enabled = c.enabled
    BY <2>1, <2>2 DEF BarRecord, SameFlags
  <2>4. SameFlags(bar, bar') /\ Quiet(bar')
    BY <1>0, <1>15, <2>1, <2>3 DEF SameFlags, Quiet
  <2> QED
    BY <1>2, <1>5, <1>15, <2>2, <2>3, <2>4
\* The handlers that at most read the preferences again.
<1>16. ASSUME NEW b \in BarRecord, SameFlags(bar, b), b.enabled = bar.enabled, login_file' \in LoginRecord,
              uses' \in Nat, cliCalls' = cliCalls, bar' \in {b, refreshLoginPreferences(b)}
       PROVE  BarInv'
  <2>1. bar' \in BarRecord /\ SameFlags(b, bar') /\ bar'.enabled = b.enabled
    BY <1>16, PreferencesRead DEF SameFlags
  <2> QED
    BY <1>0, <1>2, <1>16, <2>1 DEF SameFlags, Quiet
<1>17. Closed(bar) \in BarRecord /\ SameFlags(bar, Closed(bar)) /\ Closed(bar).enabled = bar.enabled
  BY <1>0, MenuClosed
<1>18. CASE toggleAutomaticUpdates
  <2>1. uses' \in Nat /\ login_file' \in LoginRecord
    BY <1>0, <1>4, <1>18 DEF toggleAutomaticUpdates, Chosen, LoginRecord, BarRecord
  <2> QED
    BY <1>15, <1>16, <1>17, <1>18, <2>1 DEF toggleAutomaticUpdates
<1>19. CASE toggleLaunchAtLogin
  <2>1. uses' \in Nat /\ login_file' \in LoginRecord
    BY <1>0, <1>4, <1>19 DEF toggleLaunchAtLogin, Chosen, LoginRecord
  <2>2. cliCalls' = cliCalls /\ bar' \in {Closed(bar), refreshLoginPreferences(Closed(bar))}
    BY <1>19 DEF toggleLaunchAtLogin
  <2> QED
    BY <1>16, <1>17, <2>1, <2>2
<1>20. CASE toggleLaunchTunnelAtLogin
  <2>1. uses' \in Nat /\ login_file' \in LoginRecord
    BY <1>0, <1>4, <1>20 DEF toggleLaunchTunnelAtLogin, Chosen, LoginRecord
  <2>2. cliCalls' = cliCalls /\ bar' = refreshLoginPreferences(Closed(bar))
    BY <1>20 DEF toggleLaunchTunnelAtLogin
  <2> QED
    BY <1>16, <1>17, <2>1, <2>2
<1>21. ASSUME NEW d \in {"folder", "port"}, opens_dialog(d) PROVE BarInv'
  <2>1. uses' \in Nat /\ login_file' = login_file /\ cliCalls' = cliCalls /\ bar' = [Closed(bar) EXCEPT !.modal = d]
    BY <1>4, <1>21 DEF opens_dialog, Chosen
  <2>2. bar' \in BarRecord /\ SameFlags(bar, bar') /\ bar'.enabled = bar.enabled
    BY <1>17, <2>1 DEF BarRecord, SameFlags
  <2> QED
    BY <1>0, <1>16, <2>1, <2>2
<1> DEFINE undone == [bar EXCEPT !.modal = "none"]
<1>22. undone \in BarRecord /\ SameFlags(bar, undone) /\ undone.enabled = bar.enabled
  BY <1>0 DEF BarRecord, SameFlags
<1>23. ASSUME NEW s \in Statuses, changeStartFolder(s) PROVE BarInv'
  <2>1. uses' \in Nat /\ login_file' \in LoginRecord /\ cliCalls' = cliCalls
    BY <1>0, <1>23 DEF changeStartFolder, LoginRecord
  <2>2. CASE bar' = undone
    BY <1>16, <1>22, <2>1, <2>2
  <2>3. CASE bar' = refreshStatus(refreshLoginPreferences(undone), s)
    <3> HIDE DEF undone
    <3>1. refreshLoginPreferences(undone) \in BarRecord /\ SameFlags(bar, refreshLoginPreferences(undone))
      BY <1>22, <2>1, PreferencesRead DEF SameFlags
    <3>2. bar' \in BarRecord /\ SameFlags(bar, bar') /\ Quiet(bar')
      BY <2>3, <3>1, Refreshed DEF SameFlags
    <3> QED
      BY <1>2, <2>1, <3>2
  <2> QED
    BY <1>23, <2>2, <2>3 DEF changeStartFolder
<1>24. CASE setLiveboardPort
  <2>1. /\ uses' \in Nat /\ login_file' \in LoginRecord /\ cliCalls' = cliCalls
        /\ bar' \in {undone, refreshLoginPreferences(undone)}
    BY <1>0, <1>24 DEF setLiveboardPort
  <2> HIDE DEF undone
  <2> QED
    BY <1>16, <1>22, <2>1
\* The next process has begun nothing yet, and takes no answer of the last one.
<1>25. CASE relaunchIfBundleWasUpdated
  <2>1. /\ uses' = uses /\ login_file' = login_file
        /\ bar' = FreshBar(login_file.folder, login_file.tunnel, login_file.automatic)
        /\ cliCalls' = {[c EXCEPT !.mine = FALSE] : c \in cliCalls}
    BY <1>25 DEF relaunchIfBundleWasUpdated
  <2>2. bar' \in BarRecord /\ ~bar'.commandInFlight /\ ~bar'.upgradeInFlight
    BY <1>0, <2>1 DEF FreshBar, BarRecord, Items, LoginRecord
  <2>3. \A c \in cliCalls : [c EXCEPT !.mine = FALSE] \in CallRecord /\ ~[c EXCEPT !.mine = FALSE].mine
    BY <1>0 DEF CallRecord
  <2>4. cliCalls' \in SUBSET CallRecord /\ \A c \in cliCalls' : ~c.mine
    BY <2>1, <2>3
  <2> QED
    BY <1>0, <1>1, <2>1, <2>2, <2>4 DEF Flagged, Quiet
<1>26. CASE menuWillOpen
  <2>1. PICK s \in Statuses : bar' = refreshStatus([refreshLoginPreferences(bar) EXCEPT !.open = TRUE], s)
    BY <1>26 DEF menuWillOpen
  <2>2. uses' = uses /\ login_file' = login_file /\ cliCalls' = cliCalls
    BY <1>26 DEF menuWillOpen
  <2> DEFINE b == [refreshLoginPreferences(bar) EXCEPT !.open = TRUE]
  <2>3. refreshLoginPreferences(bar) \in BarRecord /\ SameFlags(bar, refreshLoginPreferences(bar))
    BY <1>0, <2>2, PreferencesRead
  <2>4. b \in BarRecord /\ SameFlags(bar, b)
    BY <2>3 DEF BarRecord, SameFlags
  <2> HIDE DEF b
  <2>5. bar' \in BarRecord /\ SameFlags(bar, bar') /\ Quiet(bar')
    BY <2>1, <2>4, Refreshed DEF SameFlags, b
  <2> QED
    BY <1>0, <1>2, <2>2, <2>5
<1>27. CASE menu_closes
  <2>1. bar' = Closed(bar) /\ UNCHANGED <<login_file, cliCalls, uses>>
    BY <1>27 DEF menu_closes
  <2> QED
    BY <1>0, <1>16, <1>17, <2>1
<1>28. CASE timer_fires
  <2>1. uses' \in Nat /\ login_file' = login_file /\ checkAutomaticUpdatesIfDue(bar)
    BY <1>4, <1>28 DEF timer_fires
  <2> QED
    BY <1>0, <1>15, <2>1 DEF SameFlags
<1>29. CASE shell_acts
  <2>1. uses' \in Nat /\ UNCHANGED <<bar, cliCalls>> /\ login_file' \in LoginRecord
    BY <1>0, <1>4, <1>29 DEF shell_acts, LoginRecord
  <2> QED
    BY <1>0, <1>2, <2>1 DEF SameFlags
<1>30. CASE UNCHANGED barVars
  BY <1>0, <1>3, <1>30 DEF barVars
<1> QED
  BY <1>7, <1>8, <1>9, <1>11, <1>12, <1>13, <1>14, <1>18, <1>19, <1>20, <1>21, <1>23, <1>24, <1>25,
     <1>26, <1>27, <1>28, <1>29, <1>30 DEF BarNext, Watches

\* While a start, a stop or an install the app began has not reported back,
\* no item acting on the runtime can be chosen (refreshStatus, beginUpgrade,
\* AppDelegate's in-flight flags): the app never has two of them under way.
THEOREM NothingWhileBusy == BarSpec => []NoActionWhileBusy
<1>1. BarInv => NoActionWhileBusy
  BY DEF BarInv, Flagged, Quiet, NoActionWhileBusy
<1> QED
  BY <1>1, BarInitially, BarStep, PTL DEF BarSpec

-----------------------------------------------------------------------------
(* The tray takes a status for what Local does now only when no menu       *)
(* command began after the query: submit and received_command start a new  *)
(* epoch, and received_status drops the answers of an earlier one.         *)

TrayFields == {"observed", "pending", "active", "next_id", "epoch", "status_in_flight", "update_in_flight",
               "available", "installing", "prefs", "menu"}
JobFields == {"task", "id", "epoch", "st", "answer", "old"}

Drawn(t) == t = [f \in TrayFields |-> t[f]] /\ t.epoch \in Nat
\* A job was begun in an epoch that is not later than the tray's, and earlier
\* when a menu command began after it.
Dated(j, epoch) ==
    /\ j = [f \in JobFields |-> j[f]] /\ j.old \in BOOLEAN
    /\ j.epoch \in Nat /\ j.epoch <= epoch
    /\ j.old => j.epoch < epoch
Answerable(w) == Drawn(w.tray) /\ \A j \in w.jobs : Dated(j, w.tray.epoch)
TrayInv == Answerable(Here)

\* Nothing learned: the observed state stays, and old jobs are still out.
Unmoved(v, w) == w.tray.observed = v.tray.observed /\ \A j \in v.jobs : j.old => j \in w.jobs

-----------------------------------------------------------------------------
LEMMA Rendered ==
    ASSUME NEW t, Drawn(t)
    PROVE  /\ Drawn(render_status(t)) /\ render_status(t).observed = t.observed
           /\ render_status(t).epoch = t.epoch
BY DEF Drawn, render_status, TrayFields

LEMMA LaterStill ==
    ASSUME NEW j, NEW e \in Nat, NEW d \in Nat, Dated(j, e), e <= d
    PROVE  Dated(j, d)
BY DEF Dated

LEMMA NewJob ==
    ASSUME NEW task, NEW id, NEW e \in Nat, NEW d \in Nat, e <= d
    PROVE  Dated(Job(task, id, e), d)
<1>1. Job(task, id, e) = [f \in JobFields |-> Job(task, id, e)[f]]
  BY DEF Job, JobFields
<1>2. Job(task, id, e).old = FALSE /\ Job(task, id, e).epoch = e
  BY DEF Job
<1> QED
  BY <1>1, <1>2 DEF Dated

LEMMA MarkedOld ==
    ASSUME NEW j, NEW e \in Nat, Dated(j, e)
    PROVE  Dated([j EXCEPT !.old = TRUE], e + 1) /\ (j.old => [j EXCEPT !.old = TRUE] = j)
<1> DEFINE x == [j EXCEPT !.old = TRUE]
<1>1. x = [f \in JobFields |-> x[f]] /\ x.old = TRUE /\ x.epoch = j.epoch
  BY DEF Dated, JobFields
<1>2. j.old => x = j
  BY DEF Dated, JobFields
<1> HIDE DEF x
<1>3. x.epoch \in Nat /\ x.epoch <= e
  BY <1>1 DEF Dated
<1>4. Dated(x, e + 1)
  <2>1. x.epoch <= e + 1 /\ x.epoch < e + 1
    BY <1>3
  <2> QED
    BY <1>1, <1>3, <2>1 DEF Dated
<1> QED
  BY <1>2, <1>4 DEF x

LEMMA Submitted ==
    ASSUME NEW w, Answerable(w), NEW task
    PROVE  Answerable(submit(w, task)) /\ Unmoved(w, submit(w, task))
<1> DEFINE t == w.tray
           id == t.next_id + 1
           begun == [t EXCEPT !.next_id = id, !.active = id, !.epoch = t.epoch + 1,
                       !.pending = IF task \in Lifecycles THEN [id |-> id, operation |-> task] ELSE t.pending]
           asking == [t EXCEPT !.status_in_flight = TRUE]
           updating == [t EXCEPT !.update_in_flight = TRUE, !.installing = task \in {"upgrade", "upgrade_stop"}]
           a == [tray |-> asking, jobs |-> w.jobs \cup {Job(task, 0, t.epoch)}]
           b == [tray |-> render_status(updating), jobs |-> w.jobs \cup {Job(task, 0, t.epoch)}]
           c == [tray |-> render_status(begun),
                 jobs |-> {[j EXCEPT !.old = TRUE] : j \in w.jobs} \cup {Job(task, id, t.epoch + 1)}]
<1>1. submit(w, task) \in {w, a, b, c}
  BY DEF submit
<1>2. Drawn(t) /\ t.epoch \in Nat /\ \A j \in w.jobs : Dated(j, t.epoch)
  BY DEF Answerable, Drawn
<1>3. Answerable(w) /\ Unmoved(w, w)
  BY DEF Unmoved
<1>4. Answerable(a) /\ Unmoved(w, a)
  <2>1. Drawn(asking) /\ asking.observed = t.observed /\ asking.epoch = t.epoch
    BY <1>2 DEF Drawn, TrayFields
  <2>2. Dated(Job(task, 0, t.epoch), t.epoch)
    BY <1>2, NewJob
  <2> HIDE DEF asking, t
  <2> QED
    BY <1>2, <2>1, <2>2 DEF Answerable, Unmoved, t
<1>5. Answerable(b) /\ Unmoved(w, b)
  <2>1. Drawn(updating) /\ updating.observed = t.observed /\ updating.epoch = t.epoch
    BY <1>2 DEF Drawn, TrayFields
  <2>2. Dated(Job(task, 0, t.epoch), t.epoch)
    BY <1>2, NewJob
  <2> HIDE DEF updating, t
  <2>3. /\ Drawn(render_status(updating)) /\ render_status(updating).observed = t.observed
        /\ render_status(updating).epoch = t.epoch
    BY <2>1, Rendered
  <2> QED
    BY <1>2, <2>2, <2>3 DEF Answerable, Unmoved, t
<1>6. Answerable(c) /\ Unmoved(w, c)
  <2>1. Drawn(begun) /\ begun.observed = t.observed /\ begun.epoch = t.epoch + 1
    <3>1. t.epoch + 1 \in Nat
      BY <1>2
    <3>2. begun = [g \in TrayFields |-> begun[g]] /\ begun.observed = t.observed
          /\ begun.epoch = t.epoch + 1
      BY <1>2 DEF Drawn, TrayFields
    <3> QED
      BY <3>1, <3>2 DEF Drawn
  <2> HIDE DEF id
  <2>2. Dated(Job(task, id, t.epoch + 1), t.epoch + 1)
    BY <1>2, NewJob
  <2> HIDE DEF begun, t
  <2>3. /\ Drawn(render_status(begun)) /\ render_status(begun).observed = t.observed
        /\ render_status(begun).epoch = t.epoch + 1
    BY <2>1, Rendered
  <2>4. \A j \in w.jobs : /\ Dated([j EXCEPT !.old = TRUE], t.epoch + 1)
                          /\ j.old => [j EXCEPT !.old = TRUE] = j
    BY <1>2, MarkedOld
  <2>5. Answerable(c)
    BY <2>2, <2>3, <2>4 DEF Answerable
  <2>6. \A j \in w.jobs : j.old => j \in c.jobs
    BY <2>4
  <2> QED
    BY <2>3, <2>5, <2>6 DEF Unmoved, t
<1> HIDE DEF a, b, c
<1> QED
  BY <1>1, <1>3, <1>4, <1>5, <1>6

\* The action property, as a formula about one step.
Ignores == \A j \in jobs : j.task = "status" /\ j.old /\ j \notin jobs' => tray'.observed = tray.observed

LEMMA Becomes ==
    ASSUME NEW w, becomes(w), Answerable(w), w.tray.observed = tray.observed
    PROVE  TrayInv' /\ Ignores
BY DEF becomes, Answerable, TrayInv, Here, Ignores

LEMMA HereIs ==
    ASSUME TrayInv
    PROVE  Here.tray = tray /\ Here.jobs = jobs /\ Answerable(Here)
           /\ Drawn(tray) /\ tray.epoch \in Nat /\ \A j \in jobs : Dated(j, tray.epoch)
BY DEF TrayInv, Answerable, Here, Drawn

LEMMA SubmitsHere ==
    ASSUME TrayInv, NEW task, becomes(submit(Here, task))
    PROVE  TrayInv' /\ Ignores
<1>1. Answerable(submit(Here, task)) /\ submit(Here, task).tray.observed = tray.observed
  BY HereIs, Submitted DEF Unmoved
<1> QED
  BY <1>1, Becomes

\* The threads do not touch the tray.
LEMMA JobMoves ==
    ASSUME TrayInv, NEW j \in jobs, NEW x, jobs' = (jobs \ {j}) \cup {x}, UNCHANGED tray,
           Dated(x, tray.epoch)
    PROVE  TrayInv' /\ Ignores
BY HereIs DEF TrayInv, Answerable, Here, Ignores

LEMMA Answered ==
    ASSUME TrayInv, NEW j \in jobs, NEW answer, Answers(j, answer), UNCHANGED tray
    PROVE  TrayInv' /\ Ignores
<1> DEFINE x == [j EXCEPT !.st = "answered", !.answer = answer]
<1>1. jobs' = (jobs \ {j}) \cup {x} /\ Dated(j, tray.epoch)
  BY HereIs DEF Answers
<1>2. x = [f \in JobFields |-> x[f]] /\ x.old = j.old /\ x.epoch = j.epoch
  BY <1>1 DEF Dated, JobFields
<1> HIDE DEF x
<1>3. Dated(x, tray.epoch)
  BY <1>1, <1>2 DEF Dated
<1> QED
  BY <1>1, <1>3, JobMoves

LEMMA ThreadRuns ==
    ASSUME TrayInv, NEW j \in jobs,
           \/ status_answers(j) \/ lifecycle_acts(j) \/ command_ends(j)
           \/ update_ends(j) \/ update_fails(j) \/ picked(j)
    PROVE  TrayInv' /\ Ignores
<1>1. CASE lifecycle_acts(j)
  <2> DEFINE x == [j EXCEPT !.st = "acted"]
  <2>1. jobs' = (jobs \ {j}) \cup {x} /\ Dated(j, tray.epoch) /\ UNCHANGED tray
    BY <1>1, HereIs DEF lifecycle_acts
  <2>2. x = [f \in JobFields |-> x[f]] /\ x.old = j.old /\ x.epoch = j.epoch
    BY <2>1 DEF Dated, JobFields
  <2> HIDE DEF x
  <2>3. Dated(x, tray.epoch)
    BY <2>1, <2>2 DEF Dated
  <2> QED
    BY <2>1, <2>3, JobMoves
<1>2. CASE \/ status_answers(j) \/ command_ends(j) \/ update_ends(j) \/ update_fails(j) \/ picked(j)
  <2>1. PICK answer : Answers(j, answer)
    BY <1>2 DEF status_answers, command_ends, update_ends, update_fails, picked
  <2>2. UNCHANGED tray
    BY <1>2 DEF status_answers, command_ends, update_ends, update_fails, picked
  <2> QED
    BY <2>1, <2>2, Answered
<1> QED
  BY <1>1, <1>2

LEMMA LoginPreferencesRead ==
    ASSUME NEW t, Drawn(t)
    PROVE  LET u == refresh_login_preferences(t) IN
           Drawn(u) /\ u.observed = t.observed /\ u.epoch = t.epoch
<1> DEFINE u == [t EXCEPT !.prefs = saved']
<1>1. Drawn(u) /\ u.observed = t.observed /\ u.epoch = t.epoch
  BY DEF Drawn, TrayFields
<1>2. refresh_login_preferences(t) \in {u, render_status(u)}
  BY DEF refresh_login_preferences
<1> HIDE DEF u
<1> QED
  BY <1>1, <1>2, Rendered

LEMMA StatusReceived ==
    ASSUME TrayInv, NEW j \in jobs, received_status(j)
    PROVE  TrayInv' /\ Ignores
<1> DEFINE s == [tray EXCEPT !.status_in_flight = FALSE]
           t == refresh_login_preferences(s)
           o == observe(t, j.answer)
<1>1. jobs' = jobs \ {j} /\ tray' = IF Relevant(j) THEN render_status(o) ELSE t
  BY DEF received_status
<1>2. Drawn(s) /\ s.observed = tray.observed /\ s.epoch = tray.epoch
  BY HereIs DEF Drawn, TrayFields
<1> HIDE DEF s
<1>3. Drawn(t) /\ t.observed = tray.observed /\ t.epoch = tray.epoch
  BY <1>2, LoginPreferencesRead
<1> HIDE DEF t
<1>4. Drawn(o) /\ o.epoch = tray.epoch
  BY <1>3 DEF observe, Drawn, TrayFields
<1> HIDE DEF o
<1>5. Drawn(tray') /\ tray'.epoch = tray.epoch /\ (~Relevant(j) => tray'.observed = tray.observed)
  BY <1>1, <1>3, <1>4, Rendered
<1>6. TrayInv'
  BY <1>1, <1>5, HereIs DEF TrayInv, Answerable, Here
<1>7. j.old => ~Relevant(j)
  BY HereIs DEF Dated, Relevant
<1> QED
  BY <1>1, <1>5, <1>6, <1>7 DEF Ignores

LEMMA CommandReceived ==
    ASSUME TrayInv, NEW j \in jobs, received_command(j)
    PROVE  TrayInv' /\ Ignores
<1> DEFINE s == [tray EXCEPT !.active = 0, !.epoch = tray.epoch + 1]
           done == finish(s, j.id)
           w == [tray |-> render_status(done), jobs |-> jobs \ {j}]
           v == [Here EXCEPT !.jobs = jobs \ {j}]
<1>1. becomes(v) \/ becomes(submit(w, "status"))
  BY DEF received_command, Here
<1>2. Drawn(s) /\ s.observed = tray.observed /\ s.epoch = tray.epoch + 1
  <2>1. tray.epoch + 1 \in Nat
    BY HereIs
  <2>2. s = [g \in TrayFields |-> s[g]] /\ s.observed = tray.observed /\ s.epoch = tray.epoch + 1
    BY HereIs DEF Drawn, TrayFields
  <2> QED
    BY <2>1, <2>2 DEF Drawn
<1> HIDE DEF s
<1>3. Drawn(done) /\ done.observed = tray.observed /\ done.epoch = tray.epoch + 1
  BY <1>2 DEF finish, Drawn, TrayFields
<1> HIDE DEF done
<1>4. \A i \in jobs : Dated(i, tray.epoch + 1)
  BY HereIs, LaterStill
<1>5. Answerable(w) /\ w.tray.observed = tray.observed
  BY <1>3, <1>4, Rendered DEF Answerable
<1>6. Answerable(v) /\ v.tray.observed = tray.observed
  BY HereIs DEF Answerable, Here
<1> HIDE DEF w, v
<1>7. Answerable(submit(w, "status")) /\ submit(w, "status").tray.observed = tray.observed
  BY <1>5, Submitted DEF Unmoved
<1> QED
  BY <1>1, <1>6, <1>7, Becomes

LEMMA UpdateReceived ==
    ASSUME TrayInv, NEW j \in jobs, received_update(j)
    PROVE  TrayInv' /\ Ignores
<1>1. PICK available :
        LET t == [tray EXCEPT !.update_in_flight = FALSE, !.installing = FALSE, !.available = available]
            w == [tray |-> render_status(t), jobs |-> jobs \ {j}]
        IN  becomes(w) \/ becomes(submit(w, "upgrade_stop"))
  BY DEF received_update
<1> DEFINE t == [tray EXCEPT !.update_in_flight = FALSE, !.installing = FALSE, !.available = available]
           w == [tray |-> render_status(t), jobs |-> jobs \ {j}]
<1>2. Drawn(t) /\ t.observed = tray.observed /\ t.epoch = tray.epoch
  BY HereIs DEF Drawn, TrayFields
<1>3. becomes(w) \/ becomes(submit(w, "upgrade_stop"))
  BY <1>1
<1> HIDE DEF t
<1>4. Answerable(w) /\ w.tray.observed = tray.observed
  BY <1>2, HereIs, Rendered DEF Answerable
<1> HIDE DEF w
<1>5. Answerable(submit(w, "upgrade_stop")) /\ submit(w, "upgrade_stop").tray.observed = tray.observed
  BY <1>4, Submitted DEF Unmoved
<1> QED
  BY <1>3, <1>4, <1>5, Becomes

LEMMA ChoiceReceived ==
    ASSUME TrayInv, NEW j \in jobs, received_choice(j)
    PROVE  TrayInv' /\ Ignores
<1> DEFINE t == refresh_login_preferences(tray)
           w == [tray |-> render_status(t), jobs |-> jobs \ {j}]
           u == [w EXCEPT !.tray = t]
           v == [Here EXCEPT !.jobs = jobs \ {j}]
<1>1. becomes(v) \/ becomes(submit(w, "status")) \/ becomes(u)
  BY DEF received_choice, Here
<1>2. Drawn(t) /\ t.observed = tray.observed /\ t.epoch = tray.epoch
  BY HereIs, LoginPreferencesRead
<1> HIDE DEF t
<1>3. Answerable(w) /\ w.tray.observed = tray.observed
  BY <1>2, HereIs, Rendered DEF Answerable
<1>4. Answerable(u) /\ u.tray.observed = tray.observed
  BY <1>2, HereIs DEF Answerable
<1>5. Answerable(v) /\ v.tray.observed = tray.observed
  BY HereIs DEF Answerable, Here
<1> HIDE DEF w, u, v
<1>6. Answerable(submit(w, "status")) /\ submit(w, "status").tray.observed = tray.observed
  BY <1>3, Submitted DEF Unmoved
<1> QED
  BY <1>1, <1>4, <1>5, <1>6, Becomes

\* A click that runs the CLI to its end only reads the preferences again.
LEMMA PreferencesClicked ==
    ASSUME TrayInv, tray' = refresh_login_preferences(tray), UNCHANGED jobs
    PROVE  TrayInv' /\ Ignores
<1>1. Drawn(tray') /\ tray'.observed = tray.observed /\ tray'.epoch = tray.epoch
  BY HereIs, LoginPreferencesRead
<1> QED
  BY <1>1, HereIs DEF TrayInv, Answerable, Here, Ignores

LEMMA PickerClicked ==
    ASSUME TrayInv, NEW task, becomes([Here EXCEPT !.jobs = Here.jobs \cup {Job(task, 0, 0)}])
    PROVE  TrayInv' /\ Ignores
<1>1. Dated(Job(task, 0, 0), tray.epoch)
  <2>1. 0 \in Nat /\ tray.epoch \in Nat /\ 0 <= tray.epoch
    BY HereIs
  <2> QED
    BY <2>1, NewJob
<1>2. tray' = tray /\ jobs' = jobs \cup {Job(task, 0, 0)}
  BY DEF becomes, Here
<1> QED
  BY <1>1, <1>2, HereIs DEF TrayInv, Answerable, Here, Ignores

LEMMA TrayInvInit == TrayInit => TrayInv
<1> SUFFICES ASSUME NEW f \in BOOLEAN, NEW tunnel \in BOOLEAN,
                    LET p == [folder |-> f, tunnel |-> tunnel, auto |-> TRUE]
                        t == [observed |-> "unavailable", pending |-> NotPending, active |-> 0, next_id |-> 0,
                              epoch |-> 0, status_in_flight |-> FALSE, update_in_flight |-> FALSE,
                              available |-> FALSE, installing |-> FALSE, prefs |-> p,
                              menu |-> [shown |-> "unavailable", start |-> FALSE, stop |-> FALSE,
                                        liveboard |-> FALSE]]
                        w == submit([tray |-> t, jobs |-> {}], "status")
                        x == IF tunnel /\ f THEN submit(w, "start") ELSE w
                    IN  tray = x.tray /\ jobs = x.jobs
             PROVE  TrayInv
  BY DEF TrayInit
<1> DEFINE p == [folder |-> f, tunnel |-> tunnel, auto |-> TRUE]
           t == [observed |-> "unavailable", pending |-> NotPending, active |-> 0, next_id |-> 0,
                 epoch |-> 0, status_in_flight |-> FALSE, update_in_flight |-> FALSE,
                 available |-> FALSE, installing |-> FALSE, prefs |-> p,
                 menu |-> [shown |-> "unavailable", start |-> FALSE, stop |-> FALSE, liveboard |-> FALSE]]
           v == [tray |-> t, jobs |-> {}]
           w == submit(v, "status")
           x == IF tunnel /\ f THEN submit(w, "start") ELSE w
<1>1. tray = x.tray /\ jobs = x.jobs
  OBVIOUS
<1> HIDE DEF p
<1>2. t = [g \in TrayFields |-> t[g]] /\ t.epoch = 0
  BY DEF TrayFields
<1> HIDE DEF t
<1>3. Answerable(v)
  BY <1>2 DEF Answerable, Drawn
<1> HIDE DEF v
<1>4. Answerable(w)
  BY <1>3, Submitted
<1> HIDE DEF w
<1>5. Answerable(x)
  BY <1>4, Submitted
<1> HIDE DEF x
<1> QED
  BY <1>1, <1>5 DEF Answerable, TrayInv, Here

LEMMA TrayStep ==
    ASSUME TrayInv, [TrayNext]_trayVars
    PROVE  TrayInv' /\ Ignores
<1>1. CASE UNCHANGED trayVars
  BY <1>1 DEF trayVars, TrayInv, Answerable, Here, Ignores
<1>2. ASSUME NEW j \in jobs,
             \/ status_answers(j) \/ lifecycle_acts(j) \/ command_ends(j)
             \/ update_ends(j) \/ update_fails(j) \/ picked(j)
      PROVE  TrayInv' /\ Ignores
  BY <1>2, ThreadRuns
<1>3. ASSUME NEW j \in jobs, received(j)
      PROVE  TrayInv' /\ Ignores
  BY <1>3, StatusReceived, CommandReceived, UpdateReceived, ChoiceReceived DEF received
<1>4. ASSUME NEW task, becomes(submit(Here, task))
      PROVE  TrayInv' /\ Ignores
  BY <1>4, SubmitsHere
<1>5. CASE \/ (\E task \in {"start", "stop", "liveboard"} : click_command(task)) \/ click_update
           \/ poll_status \/ poll_update
  BY <1>4, <1>5 DEF click_command, click_update, poll_status, poll_update, clicked
<1>6. ASSUME NEW task \in Pickers, click_picker(task)
      PROVE  TrayInv' /\ Ignores
  <2>1. becomes([Here EXCEPT !.jobs = Here.jobs \cup {Job(task, 0, 0)}])
    BY <1>6 DEF click_picker, clicked
  <2> QED
    BY <2>1, PickerClicked
<1>7. CASE click_launch_at_login \/ click_launch_tunnel_at_login \/ click_automatic_updates
  BY <1>7, PreferencesClicked
     DEF click_launch_at_login, click_launch_tunnel_at_login, click_automatic_updates
<1>8. CASE runtime_changes \/ autostart_registers \/ autostart_saves \/ autostart_disables
  <2>1. UNCHANGED <<tray, jobs>>
    BY <1>8 DEF runtime_changes, autostart_registers, autostart_saves, autostart_disables
  <2> QED
    BY <2>1 DEF TrayInv, Answerable, Here, Ignores
<1> QED
  BY <1>1, <1>2, <1>3, <1>5, <1>6, <1>7, <1>8 DEF TrayNext

\* Every status query is dated: one asked for before the last menu command has
\* an earlier epoch than the tray.
THEOREM TrayInvariant == TraySpec => []TrayInv
<1>1. TrayInv /\ [TrayNext]_trayVars => TrayInv'
  BY TrayStep
<1> QED
  BY <1>1, TrayInvInit, PTL DEF TraySpec

\* However late and in whatever order the answers come, a status asked for
\* before a menu command never changes what the tray believes.
THEOREM OldStatusIgnoredSafe == TraySpec => OldStatusIgnored
<1>1. TrayInv /\ [TrayNext]_trayVars
        => [\A j \in jobs : j.task = "status" /\ j.old /\ j \notin jobs' => tray'.observed = tray.observed]_trayVars
  BY TrayStep DEF Ignores
<1> QED
  BY <1>1, TrayInvariant, PTL DEF TraySpec, OldStatusIgnored
=============================================================================
