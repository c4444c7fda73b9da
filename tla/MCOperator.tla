----------------------------- MODULE MCOperator -----------------------------
(* Seven components that share no variable.  A behaviour exercises one of  *)
(* them, and the others stay in one of their initial states, so that the   *)
(* run explores the sum of the components and not their product.           *)
EXTENDS GithubMode, PushGrants, Upgrade, ApplyPatch, LocalSetup, OutputBuffer, MenuBar

VARIABLE subject

MCAdd(p) == [kind |-> "add", path |-> p, text |-> <<9>>]
MCDelete(p) == [kind |-> "delete", path |-> p]
MCUpdate(p, c) == [kind |-> "update", path |-> p, chunks |-> c]
MCMove(p, q, c) == [kind |-> "move", path |-> p, to |-> q, chunks |-> c]
\* Chunks that apply in order, only reordered, in two orders, overlapping, and not at all.
MCChunks == {<<<<1>>>>, <<<<3>>, <<1>>>>, <<<<2>>, <<1>>>>, <<<<2, 3>>, <<1, 2>>>>, <<<<4>>>>}
MCHunks == {MCAdd(p) : p \in Paths} \cup {MCDelete(p) : p \in {"a", "l", "b"}}
           \cup {MCUpdate("a", c) : c \in MCChunks}
           \cup {MCUpdate("l", <<<<1>>>>), MCMove("a", "b", <<<<1>>>>), MCMove("l", "dc", <<<<3>>, <<1>>>>)}
\* Three operations in a row are taken from these.
MCCore == {MCAdd("a"), MCAdd("dc"), MCDelete("a"), MCDelete("l"), MCUpdate("l", <<<<1>>>>),
           MCUpdate("a", <<<<3>>, <<1>>>>), MCUpdate("a", <<<<4>>>>),
           MCMove("a", "b", <<<<1>>>>), MCMove("l", "dc", <<<<3>>, <<1>>>>)}
MCPatches == [1..1 -> MCHunks] \cup [1..2 -> MCHunks] \cup [1..3 -> MCCore]
MCTexts == {<<1, 2, 3>>, <<1, 2, 2, 3>>, <<101, 2, 1, 3>>}

MCRow(r) == [ours |-> TRUE, release |-> r, valid |-> TRUE]
MCManifests == {<<MCRow(1)>>, <<MCRow(2), [MCRow(2) EXCEPT !.ours = FALSE]>>, <<MCRow(1), MCRow(2)>>}

MCInit ==
    /\ subject \in {"mode", "grants", "upgrade", "patch", "setup", "output", "menubar"}
    /\ ModeInit /\ (subject # "mode" => mode = NoMode)
    /\ GrantsInit /\ (subject # "grants" => cache = [d \in Sides |-> 0])
    /\ UpgradeInit
    /\ IF subject = "patch" THEN PatchInit
       ELSE PatchInit /\ patch = <<MCDelete("b")>> /\ disk["a"] = <<1, 2, 3>>
    /\ SetupInit /\ (subject # "setup" => stored.bearer = Absent /\ official = <<MCRow(1)>>)
    /\ OutputInit /\ (subject # "output" => streams = Unix)
    /\ BarInit /\ (subject # "menubar" => ~login_file.folder /\ ~login_file.tunnel)

MCNext ==
    /\ UNCHANGED subject
    /\ \/ /\ subject = "mode" /\ ModeNext
          /\ UNCHANGED <<grantVars, upgradeVars, patchVars, setupVars, outputVars, barVars>>
       \/ /\ subject = "grants" /\ GrantsNext
          /\ UNCHANGED <<modeVars, upgradeVars, patchVars, setupVars, outputVars, barVars>>
       \/ /\ subject = "upgrade" /\ UpgradeNext
          /\ UNCHANGED <<modeVars, grantVars, patchVars, setupVars, outputVars, barVars>>
       \/ /\ subject = "patch" /\ PatchNext
          /\ UNCHANGED <<modeVars, grantVars, upgradeVars, setupVars, outputVars, barVars>>
       \/ /\ subject = "setup" /\ SetupNext
          /\ UNCHANGED <<modeVars, grantVars, upgradeVars, patchVars, outputVars, barVars>>
       \/ /\ subject = "output" /\ OutputNext
          /\ UNCHANGED <<modeVars, grantVars, upgradeVars, patchVars, setupVars, barVars>>
       \/ /\ subject = "menubar" /\ BarNext
          /\ UNCHANGED <<modeVars, grantVars, upgradeVars, patchVars, setupVars, outputVars>>

MCSpec == MCInit /\ [][MCNext]_<<subject, modeVars, grantVars, upgradeVars, patchVars, setupVars, outputVars, barVars>>

MCBegun == {p \in Pushes : push[p].st # "new"}
\* Two pushes without an operator's command, or one push and one command; three
\* upgrades begin in the order of their names, the third by itself and a second
\* call of the agent without troubles; setups and changes from outside are three
\* in all; two pipes deliver less output than a terminal, and a
\* call waits for the output without notices and failures.
MCScenario ==
    /\ MCBegun # {} => commands + Cardinality(MCBegun) <= 2 /\ (2 \in MCBegun => 1 \in MCBegun)
    /\ \A u, v \in Updaters : u < v /\ up[v].st # "idle" => up[u].st # "idle"
    /\ calls = 2 => troubles = 0
    /\ up[3].st # "idle" => calls + troubles = 0
    /\ spent.changes + spent.setups <= 3
    /\ streams = Pipes => (total_read <= 2 \/ (total_read = 3 /\ notices = 0 /\ failures = 0))
    /\ caller.pc # "idle" => notices = 0 /\ failures = 0
=============================================================================
