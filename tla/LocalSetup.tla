----------------------------- MODULE LocalSetup -----------------------------
(***************************************************************************)
(* `zodex local setup`: it downloads the official tunnel client, stores    *)
(* the runtime key, replaces the three files of the managed bundle, saves  *)
(* the configuration and provides the observability bearer, and undoes all *)
(* of it when one of the writes fails.  It holds no lock: another setup,   *)
(* `zodex local config set`, `zodex local start` and `stop` run beside it, *)
(* and it can be killed between any two writes.                            *)
(*                                                                         *)
(* A release, a runtime key, a tunnel ID and a bearer are numbers, 0 stands*)
(* for a missing one.  A bundle file is the number of the release it was   *)
(* extracted from, so two hashes are equal when the numbers are.  The n-th *)
(* setup asks for key n and tunnel n, and the bearer it creates is n + 1.  *)
(* The official manifest is a sequence of rows, one per published archive. *)
(***************************************************************************)
EXTENDS Naturals, Sequences, FiniteSets

CONSTANTS Setups,       \* the setup processes
          Manifests,    \* what the official manifest may say
          MaxSetups,    \* how many setups are run in all
          MaxBroken,   \* how many writes fail and processes are killed
          MaxChanges    \* how often config, release and runtime change

ASSUME SetupAssumption ==
    /\ \A m \in Manifests : \A i \in DOMAIN m :
         m[i].ours \in BOOLEAN /\ m[i].release \in Nat \ {0} /\ m[i].valid \in BOOLEAN
    /\ MaxSetups \in Nat /\ MaxBroken \in Nat /\ MaxChanges \in Nat

VARIABLES stored,    \* everything a setup writes
          marker,    \* runtime state or discovery file present
          official,  \* what the official manifest says
          setup,     \* one record per setup process
          editor,    \* the `config set` process
          spent      \* [setups, mishaps, changes] used up

setupVars == <<stored, marker, official, setup, editor, spent>>

Absent == 0
ShortBearer == 1        \* a bearer file of fewer than 32 characters
OtherTunnel == MaxSetups + 1

\* In the order in which commit replaces them.
BundleFiles == <<"manifest", "cloudflared", "binary">>
\* In the order in which rollback restores them; the secret comes last.
RollbackOrder ==
    <<"config", "binary", "cloudflared", "manifest", "bearer", "secret">>

NoBundle == [config |-> [id |-> Absent, release |-> Absent, setting |-> 0],
             binary |-> Absent, cloudflared |-> Absent, manifest |-> Absent,
             bearer |-> Absent, secret |-> Absent]

Idle == [pc |-> "idle", n |-> 0, rotate |-> FALSE, old |-> NoBundle.config,
         release |-> Absent, staged |-> <<>>, snapshot |-> NoBundle,
         at |-> 0, repair |-> FALSE, result |-> "none",
         before |-> NoBundle, alone |-> TRUE]

SetupInit ==
    /\ stored \in {[NoBundle EXCEPT !.bearer = b] : b \in {Absent, ShortBearer}}
    /\ marker = FALSE
    /\ official \in Manifests
    /\ setup = [s \in Setups |-> Idle]
    /\ editor = [pc |-> "idle", config |-> NoBundle.config, live |-> FALSE]
    /\ spent = [setups |-> 0, mishaps |-> 0, changes |-> 0]

-----------------------------------------------------------------------------
(* A step of setup s; `alone` records that nobody else wrote since it      *)
(* began.                                                                  *)

\* s goes on with record r and leaves the files alone.
Goes(s, r) ==
    /\ setup' = [setup EXCEPT ![s] = r]
    /\ UNCHANGED <<stored, marker, official, editor>>

\* s goes on with record r after writing d.
Writes(s, r, d) ==
    /\ stored' = d
    /\ setup' = [t \in Setups |-> IF t = s THEN r
                               ELSE [setup[t] EXCEPT !.alone = FALSE]]
    /\ UNCHANGED <<marker, official, editor>>

Ends(r, how) == [r EXCEPT !.pc = "idle", !.result = how]

NoMishap == UNCHANGED spent
Mishap == /\ spent.mishaps < MaxBroken
          /\ spent' = [spent EXCEPT !.mishaps = @ + 1]

ensure_offline_mutation == ~marker

-----------------------------------------------------------------------------
(* Preparation: nothing is written yet.                                    *)

\* The command checks that Local is down, then asks for (or reads) the tunnel
\* ID and the key.
resolve_local_setup_inputs(s) ==
    /\ setup[s].pc = "idle" /\ spent.setups < MaxSetups
    /\ spent' = [spent EXCEPT !.setups = @ + 1]
    /\ \E rotate \in BOOLEAN :
         LET r == [Idle EXCEPT !.n = spent.setups + 1, !.rotate = rotate, !.before = stored]
         IN  Goes(s, IF ensure_offline_mutation
                     THEN [r EXCEPT !.pc = "run"] ELSE Ends(r, "refused"))

\* run, up to its first await: the same check again, and the configuration.
run(s) ==
    /\ setup[s].pc = "run"
    /\ NoMishap
    /\ Goes(s, IF ensure_offline_mutation
               THEN [setup[s] EXCEPT !.pc = "resolve", !.old = stored.config]
               ELSE Ends(setup[s], "refused"))

\* Exactly one row for this architecture, with a well-formed hash.
release_for_architecture(manifest) ==
    LET rows == {i \in DOMAIN manifest : manifest[i].ours}
    IN  IF Cardinality(rows) = 1 /\ \A i \in rows : manifest[i].valid
        THEN manifest[CHOOSE i \in rows : TRUE].release ELSE Absent

\* The manifest is downloaded and parsed.
resolve_latest(s) ==
    LET release == release_for_architecture(official)
    IN  /\ setup[s].pc = "resolve"
        /\ \/ /\ NoMishap
              /\ Goes(s, IF release = Absent THEN Ends(setup[s], "refused")
                         ELSE [setup[s] EXCEPT !.pc = "prepare", !.release = release])
           \/ Mishap /\ Goes(s, Ends(setup[s], "refused"))

\* The installed bundle is kept when the configuration loaded before the
\* download names this release and all three files have its hashes.
reusable_managed_binary(old, release) ==
    /\ old.release = release
    /\ \A i \in DOMAIN BundleFiles : stored[BundleFiles[i]] = release

\* The three files of an archive of that release, in a staging directory.
extract_tunnel_bundle(release) == [i \in DOMAIN BundleFiles |-> release]

\* The archive of that very release is downloaded and its checksum compared;
\* a short, foreign or incomplete archive is a failure.
download_verified_archive(s) ==
    \/ /\ NoMishap
       /\ Goes(s, [setup[s] EXCEPT !.pc = "snapshot",
                                !.staged = extract_tunnel_bundle(setup[s].release)])
    \/ Mishap /\ Goes(s, Ends(setup[s], "refused"))

prepare_tunnel_client(s) ==
    /\ setup[s].pc = "prepare"
    /\ IF reusable_managed_binary(setup[s].old, setup[s].release)
       THEN NoMishap /\ Goes(s, [setup[s] EXCEPT !.pc = "snapshot", !.staged = <<>>])
       ELSE download_verified_archive(s)

\* The current secret and the five files, as they are at this moment.
capture(s) ==
    /\ setup[s].pc = "snapshot"
    /\ \/ NoMishap /\ Goes(s, [setup[s] EXCEPT !.pc = "secret", !.snapshot = stored])
       \/ Mishap /\ Goes(s, Ends(setup[s], "refused"))

-----------------------------------------------------------------------------
(* The commit, one write at a time.                                        *)

\* The store of the runtime key.
key_set(key) == [stored EXCEPT !.secret = key]
key_delete == [stored EXCEPT !.secret = Absent]
key_restored(old) == IF old = Absent THEN key_delete ELSE key_set(old)

\* The key is stored; a store that reports a failure may have written it, and
\* the old key is put back (which may fail too).
set_secret(s) ==
    LET r == setup[s]
        new == key_set(r.n)
        back == key_restored(r.snapshot.secret)
    IN  /\ r.pc = "secret"
        /\ \/ /\ NoMishap
              /\ Writes(s, [r EXCEPT !.pc = IF r.staged # <<>> THEN "bundle" ELSE "config",
                                     !.at = 1], new)
           \/ Mishap /\ Writes(s, Ends(r, "restored"), back)
           \/ Mishap /\ \E d \in {stored, new} : Writes(s, Ends(r, "repair"), d)

Rolls(r) == [r EXCEPT !.pc = "rollback", !.at = 1]

\* The next bundle file is renamed into place; the executable comes last.
replace_staged_file(s) ==
    LET r == setup[s]
        next == IF r.at < Len(BundleFiles) THEN [r EXCEPT !.at = @ + 1]
                ELSE [r EXCEPT !.pc = "config"]
    IN  /\ r.pc = "bundle"
        /\ \/ NoMishap /\ Writes(s, next, [stored EXCEPT ![BundleFiles[r.at]] = r.staged[r.at]])
           \/ Mishap /\ Goes(s, Rolls(r))

\* The whole configuration loaded at the beginning, with the tunnel changed.
save_config(s) ==
    LET r == setup[s]
        new == [r.old EXCEPT !.id = r.n, !.release = r.release]
    IN  /\ r.pc = "config"
        /\ \/ NoMishap /\ Writes(s, [r EXCEPT !.pc = "bearer"], [stored EXCEPT !.config = new])
           \/ Mishap /\ Goes(s, Rolls(r))

\* An existing bearer is kept when it is long enough; otherwise, or when asked
\* to rotate, a new one is written (the write may fail after the file is there).
ensure_observability_bearer(s) ==
    LET r == setup[s]
        new == [stored EXCEPT !.bearer = r.n + 1]
    IN  /\ r.pc = "bearer"
        /\ IF stored.bearer # Absent /\ ~r.rotate
           THEN /\ NoMishap
                /\ Goes(s, IF stored.bearer = ShortBearer THEN Rolls(r)
                           ELSE Ends(r, "complete"))
           ELSE \/ NoMishap /\ Writes(s, Ends(r, "complete"), new)
                \/ Mishap /\ \E d \in {stored, new} : Writes(s, Rolls(r), d)

\* rollback restores one thing after the other, goes on after a failure and
\* says at the end whether all of it worked.
\* Mutant: only the files the configuration names are put back.
RestoresSome(r, part) ==
    IF part = "manifest" THEN stored ELSE [stored EXCEPT ![part] = r.snapshot[part]]
Restores(r, part) ==
    IF part = "secret" THEN key_restored(r.snapshot.secret)
    ELSE [stored EXCEPT ![part] = r.snapshot[part]]

rollback(s) ==
    LET r == setup[s]
        worked == [r EXCEPT !.at = @ + 1]
        failed == [worked EXCEPT !.repair = TRUE]
        after(q) == IF q.at <= Len(RollbackOrder) THEN q
                    ELSE Ends(q, IF q.repair THEN "repair" ELSE "restored")
    IN  /\ r.pc = "rollback"
        /\ \/ NoMishap /\ Writes(s, after(worked), Restores(r, RollbackOrder[r.at]))
           \/ Mishap /\ Goes(s, after(failed))

\* The process is killed; its staging directory is of no further interest.
Killed(s) ==
    /\ setup[s].pc # "idle"
    /\ Mishap
    /\ Goes(s, Ends(setup[s], "killed"))

-----------------------------------------------------------------------------
(* What happens beside it.                                                 *)

Change == /\ spent.changes < MaxChanges
          /\ spent' = [spent EXCEPT !.changes = @ + 1]

\* The official manifest names another release (a new one, or an earlier one
\* after a release is withdrawn).
Publish ==
    /\ Change
    /\ official' \in Manifests \ {official}
    /\ UNCHANGED <<stored, marker, setup, editor>>

\* One of the context switches, or the tunnel ID.
Keys == {"context.enabled", "tunnel.id"}
can_set_while_running(key) == key = "context.enabled"
with_value(config, key) ==
    IF key = "context.enabled" THEN [config EXCEPT !.setting = 1 - @]
    ELSE [config EXCEPT !.id = OtherTunnel]

\* config set: load and change ...
config_set(key) ==
    /\ editor.pc = "idle"
    /\ Change
    /\ editor' = [pc |-> "loaded", live |-> can_set_while_running(key),
                  config |-> with_value(stored.config, key)]
    /\ UNCHANGED <<stored, marker, official, setup>>

\* ... and save, after the offline check for the keys that need it.
config_save ==
    /\ editor.pc = "loaded"
    /\ editor' = [editor EXCEPT !.pc = "idle"]
    /\ IF editor.live \/ ensure_offline_mutation
       THEN /\ stored' = [stored EXCEPT !.config = editor.config]
            /\ setup' = [s \in Setups |-> [setup[s] EXCEPT !.alone = FALSE]]
       ELSE UNCHANGED <<stored, setup>>
    /\ UNCHANGED <<marker, official, spent>>

is_provider_configured == stored.config.id # Absent /\ stored.config.release # Absent

\* local start wants a key and a configured tunnel; it knows nothing of a
\* setup in progress.
local_start ==
    /\ ~marker /\ Change
    /\ stored.secret # Absent /\ is_provider_configured
    /\ marker' = TRUE
    /\ UNCHANGED <<stored, official, setup, editor>>

local_stop ==
    /\ marker
    /\ marker' = FALSE
    /\ UNCHANGED <<stored, official, setup, editor, spent>>

SetupNext ==
    \/ \E s \in Setups :
         \/ resolve_local_setup_inputs(s) \/ run(s) \/ resolve_latest(s)
         \/ prepare_tunnel_client(s) \/ capture(s) \/ set_secret(s) \/ replace_staged_file(s) \/ save_config(s)
         \/ ensure_observability_bearer(s) \/ rollback(s) \/ Killed(s)
    \/ Publish
    \/ \E key \in Keys : config_set(key)
    \/ config_save \/ local_start \/ local_stop

SetupSpec == SetupInit /\ [][SetupNext]_setupVars

-----------------------------------------------------------------------------
(* Properties.                                                             *)

\* Whatever an earlier setup that was killed or could not roll back left on
\* disk, a setup that reports completion with nobody else writing leaves one
\* whole bundle, of the release its configuration names, with the key, the
\* tunnel and a usable bearer (setup.rs:55-99, 185-209, 334-373).
CompleteIsWhole ==
    \A s \in Setups : setup[s].result = "complete" /\ setup[s].alone =>
        /\ \A i \in DOMAIN BundleFiles : stored[BundleFiles[i]] = stored.config.release
        /\ stored.config.id = setup[s].n /\ stored.secret = setup[s].n
        /\ stored.bearer \notin {Absent, ShortBearer}

\* A setup that says it changed nothing or restored the prior state has, with
\* nobody else writing, left every file and the key as it found them
\* (setup.rs:162-260).
AbortLeavesNoTrace ==
    \A s \in Setups :
        setup[s].result \in {"refused", "restored"} /\ setup[s].alone => stored = setup[s].before

\* A setup is all or nothing, by what it reports.
SetupIsAtomic == CompleteIsWhole /\ AbortLeavesNoTrace
=============================================================================
