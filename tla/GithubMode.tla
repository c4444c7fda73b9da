----------------------------- MODULE GithubMode -----------------------------
(***************************************************************************)
(* Direct pushes from a Sprite: the operator CLI keeps the YOLO mode       *)
(* record and the agent's git configuration on the Sprite, the agent's     *)
(* remote helper and publish-pr send requests to the publisher daemon, and *)
(* the daemon decides by the record, imports the objects into a clone and  *)
(* pushes.  A ref's value is the set of commits reachable from it.         *)
(***************************************************************************)
EXTENDS Naturals, FiniteSets

CONSTANTS
    Repos,       \* repositories
    Covered,     \* those the publisher's targets and installations cover
    Pushes,      \* requests of the agent; each creates at most one commit
    Ttls,        \* lifetimes the operator asks for
    MaxTime,     \* bound: clock ticks
    MaxCommands, \* bound: operator commands
    MaxMishaps   \* bound: failing steps, dying clients and daemons
All == "all-installed"
Never == MaxTime + 1   \* expires_at_epoch_seconds: None
ASSUME ModeAssumption == Covered \subseteq Repos /\ MaxTime \in Nat
                         /\ Ttls \subseteq 1..Never /\ All \notin Repos   \* a repository is owner/name

VARIABLES
    clock,     \* seconds since the epoch
    mode,      \* GithubModeRecord on the Sprite
    rewrite,   \* pushInsteadOf in the agent's git configuration
    op,        \* the operator command in progress
    commands,
    push,      \* requests, client and connection task together
    remote,    \* GitHub: the ref of each repository
    branches,  \* GitHub: generated branches
    prs,       \* GitHub: pull requests
    mishaps,
    issued,    \* ghost: scopes the operator granted, with their expiry
    want,      \* ghost: for each scope the expiry granted last
    kept       \* ghost: reported pushes nobody rewrote since

modeVars == <<clock, mode, rewrite, op, commands, push, remote, branches, prs, mishaps,
              issued, want, kept>>
github == <<remote, branches, prs, kept>>
operator == <<mode, rewrite, op, commands, issued, want>>

Scopes == Repos \cup {All}
NoMode == [all |-> FALSE, exp |-> 0, grants |-> [r \in Repos |-> 0], repos |-> {}]
IdleOp == [st |-> "idle", next |-> NoMode, seen |-> NoMode, yolo |-> FALSE]
NewPush == [st |-> "new", kind |-> "bundle", repo |-> CHOOSE r \in Repos : TRUE, force |-> FALSE,
            base |-> {}, value |-> {}, clone |-> {}, at |-> 0]
active(exp) == exp > clock
command == op.st = "idle" /\ commands < MaxCommands /\ commands' = commands + 1
mishap == mishaps < MaxMishaps /\ mishaps' = mishaps + 1

-----------------------------------------------------------------------------
(* The record as the publisher reads it.  A record without repo grants is  *)
(* of an older release and lists its repositories under one expiry.        *)

hasGrants(m) == \E r \in Repos : m.grants[r] # 0
github_yolo_all_installed_active(m) == m.all /\ active(m.exp)

github_yolo_active_legacy_repos(m) ==
    ~hasGrants(m) /\ ~m.all /\ active(m.exp) /\ m.repos # {}

github_mode_expired(m) ==
    /\ ~github_yolo_all_installed_active(m)
    /\ \A r \in Repos : ~active(m.grants[r])
    /\ ~github_yolo_active_legacy_repos(m)

github_mode_allows_repo(m, r) ==
    \/ github_yolo_all_installed_active(m)
    \/ active(m.grants[r])
    \/ github_yolo_active_legacy_repos(m) /\ r \in m.repos

(* The record as the operator CLI reads and writes it.                     *)

github_yolo_active_repo_grants(m) ==
    [r \in Repos |->
        CASE hasGrants(m) -> IF active(m.grants[r]) THEN m.grants[r] ELSE 0
          [] ~hasGrants(m) /\ ~m.all /\ active(m.exp) /\ r \in m.repos -> m.exp
          [] OTHER -> 0]

github_mode_has_active_scope(m) ==
    \/ github_yolo_all_installed_active(m)
    \/ \E r \in Repos : github_yolo_active_repo_grants(m)[r] # 0

build_github_yolo_mode_record(R, ttl) ==
    LET exp == IF ttl = Never \/ clock + ttl > MaxTime THEN Never ELSE clock + ttl
    IN  [all |-> R = {}, exp |-> exp, grants |-> [r \in Repos |-> IF r \in R THEN exp ELSE 0],
         repos |-> R]

\* Mutant: the new record's scope is widened and the old expiry kept.
MergeKeepsExpiry(existing, next) ==
    LET grants == [r \in Repos |-> IF next.grants[r] # 0 THEN next.grants[r]
                                   ELSE github_yolo_active_repo_grants(existing)[r]]
    IN  IF ~github_mode_has_active_scope(existing) THEN next
        ELSE [all |-> existing.all \/ next.all, exp |-> existing.exp, grants |-> grants,
              repos |-> {r \in Repos : grants[r] # 0}]

merge_github_yolo_mode_records(existing, next) ==
    LET grants == [r \in Repos |-> IF next.grants[r] # 0 THEN next.grants[r]
                                   ELSE github_yolo_active_repo_grants(existing)[r]]
        keepsAll == github_yolo_all_installed_active(existing)
    IN  IF ~github_mode_has_active_scope(existing) THEN next
        ELSE [all |-> next.all \/ keepsAll,
              exp |-> IF next.all THEN next.exp ELSE IF keepsAll THEN existing.exp ELSE Never,
              grants |-> grants, repos |-> {r \in Repos : grants[r] # 0}]

-----------------------------------------------------------------------------
(* Operator commands: each remote read and each remote write is one exec.  *)

enable_github_yolo_mode(R, ttl) ==
    /\ command
    /\ op' = [IdleOp EXCEPT !.st = "merge", !.next = build_github_yolo_mode_record(R, ttl),
                            !.seen = mode]
    /\ UNCHANGED <<clock, mode, rewrite, push, github, mishaps, issued, want>>

scopesOf(m) == {r \in Repos : m.grants[r] # 0} \cup (IF m.all THEN {All} ELSE {})
expiryOf(m, s) == IF s = All THEN m.exp ELSE m.grants[s]

install_mode ==
    /\ op.st = "merge"
    /\ mode' = merge_github_yolo_mode_records(op.seen, op.next)
    /\ rewrite' = TRUE /\ op' = IdleOp
    /\ issued' = issued \cup {<<s, expiryOf(op.next, s)>> : s \in scopesOf(op.next)}
    /\ want' = [s \in Scopes |-> IF s \in scopesOf(op.next) THEN expiryOf(op.next, s) ELSE want[s]]
    /\ UNCHANGED <<clock, commands, push, github, mishaps>>

\* The script goes on to the git configuration when the install failed, and
\* its last command decides what the CLI prints.
install_mode_failed ==
    /\ op.st = "merge" /\ mishap
    /\ rewrite' = TRUE /\ op' = IdleOp
    /\ UNCHANGED <<clock, mode, commands, push, github, issued, want>>

disable_github_yolo_mode ==
    /\ command
    /\ mode' = NoMode /\ rewrite' = FALSE /\ want' = [s \in Scopes |-> 0]
    /\ UNCHANGED <<clock, op, push, github, mishaps, issued>>

reconcile_github_agent_git_for_mode ==
    /\ command
    /\ op' = [IdleOp EXCEPT !.st = "repair", !.yolo = github_mode_has_active_scope(mode)]
    /\ UNCHANGED <<clock, mode, rewrite, push, github, mishaps, issued, want>>

repair_agent_git ==
    /\ op.st = "repair" /\ rewrite' = op.yolo /\ op' = IdleOp
    /\ UNCHANGED <<clock, mode, commands, push, github, mishaps, issued, want>>

tick == clock < MaxTime /\ clock' = clock + 1
        /\ UNCHANGED <<operator, push, github, mishaps>>

-----------------------------------------------------------------------------
(* The client: the remote helper, or publish-pr.                           *)

Kinds == {"bundle", "oid", "delete", "pr"}
to(p, st) == push' = [push EXCEPT ![p].st = st]

\* A bundle excludes what the remote-tracking refs hold.  Pushing a commit
\* the remote already has gives no bundle, and the object id is sent.
\* Without the rewrite git pushes to GitHub itself, with the reader's token.
create_direct_push_bundle(p, kind, r, force) ==
    /\ push[p].st = "new"
    /\ kind \in {"pr", "delete", "oid"} => ~force
    /\ kind # "pr" => rewrite
    /\ push' = [push EXCEPT ![p] = [NewPush EXCEPT !.st = "sending", !.kind = kind, !.repo = r,
          !.force = force, !.base = remote[r],
          !.value = CASE kind = "oid" -> remote[r] [] kind = "delete" -> {}
                      [] OTHER -> remote[r] \cup {p}]]
    /\ UNCHANGED <<clock, operator, github, mishaps>>

\* validate_direct_push_request and validate_publish_request.
validate(p) ==
    /\ push[p].repo \in Covered
    /\ push[p].kind # "pr" => github_mode_allows_repo(mode, push[p].repo)

\* The metadata frame is decided before a byte of the bundle is read.
handle_connection(p) ==
    /\ push[p].st = "sending"
    /\ push' = [push EXCEPT ![p] = IF validate(p) THEN [@ EXCEPT !.st = "accepted", !.at = clock]
                                   ELSE [@ EXCEPT !.st = "error"]]
    /\ UNCHANGED <<clock, operator, github, mishaps>>

receive_declared_bundle(p) ==
    /\ push[p].st = "accepted" /\ to(p, "received")
    /\ UNCHANGED <<clock, operator, github, mishaps>>

\* The client dies while it sends, or its bundle changes: too few bytes or
\* too many, and the daemon gives up before it asks for a token.
bundle_cut(p) ==
    /\ push[p].st = "accepted" /\ mishap /\ to(p, "error")
    /\ UNCHANGED <<clock, operator, github>>

clone_repo_with_token(p) ==
    /\ push[p].st = "received"
    /\ push' = [push EXCEPT ![p] = [@ EXCEPT !.st = "cloned", !.clone = remote[push[p].repo]]]
    /\ UNCHANGED <<clock, operator, github, mishaps>>

\* git fetch needs the bundle's prerequisites, cat-file -e the object.
importable(p) == push[p].kind # "delete" => push[p].base \subseteq push[p].clone

import(p) ==
    /\ push[p].st = "cloned"
    /\ to(p, IF importable(p) THEN "imported" ELSE "error")
    /\ UNCHANGED <<clock, operator, github, mishaps>>

\* Mutant: every refspec is forced.
RefspecForced(p) == TRUE

refspec(p) == push[p].force \/ push[p].kind = "delete"

\* git push: GitHub takes what is forced or a fast-forward.
git_push(p) ==
    LET x == push[p] r == x.repo IN
    /\ x.st = "imported" /\ x.kind # "pr"
    /\ IF refspec(p) \/ remote[r] \subseteq x.value
       THEN /\ remote' = [remote EXCEPT ![r] = x.value]
            /\ kept' = IF x.force \/ x.kind = "delete" THEN {q \in kept : push[q].repo # r} ELSE kept
            /\ to(p, "pushed")
       ELSE to(p, "error") /\ UNCHANGED <<remote, kept>>
    /\ UNCHANGED <<clock, operator, branches, prs, mishaps>>

\* publish-pr: a branch of a fresh name, then the pull request.
push_branch(p) ==
    /\ push[p].st = "imported" /\ push[p].kind = "pr"
    /\ branches' = branches \cup {p} /\ to(p, "branch")
    /\ UNCHANGED <<clock, operator, remote, prs, kept, mishaps>>

create_pull_request(p) ==
    /\ push[p].st = "branch" /\ prs' = prs \cup {p} /\ to(p, "pushed")
    /\ UNCHANGED <<clock, operator, remote, branches, kept, mishaps>>

\* A step of the daemon fails: the client reads the error.
step_failed(p) ==
    /\ push[p].st \in {"received", "cloned", "imported", "branch"} /\ mishap /\ to(p, "error")
    /\ UNCHANGED <<clock, operator, github>>

respond(p) ==
    /\ push[p].st = "pushed" /\ to(p, "ok")
    /\ kept' = IF push[p].kind = "bundle" /\ p \in remote[push[p].repo]
               THEN kept \cup {p} ELSE kept
    /\ UNCHANGED <<clock, operator, remote, branches, prs, mishaps>>

\* The daemon dies with every connection; the clients read an empty reply.
serve_publisher ==
    /\ mishap /\ \E p \in Pushes : push[p].st \notin {"new", "ok", "error"}
    /\ push' = [p \in Pushes |-> IF push[p].st \in {"new", "ok", "error"} THEN push[p]
                                 ELSE [push[p] EXCEPT !.st = "error"]]
    /\ UNCHANGED <<clock, operator, github>>

-----------------------------------------------------------------------------
ModeInit ==
    /\ clock = 0 /\ op = IdleOp /\ commands = 0 /\ mishaps = 0
    /\ \/ mode = NoMode /\ rewrite = FALSE /\ issued = {} /\ want = [s \in Scopes |-> 0]
       \/ \E R \in SUBSET Repos \ {{}}, exp \in {1, Never} :   \* left by an older release
             /\ mode = [NoMode EXCEPT !.exp = exp, !.repos = R] /\ rewrite = TRUE
             /\ issued = R \X {exp}
             /\ want = [s \in Scopes |-> IF s \in R THEN exp ELSE 0]
    /\ push = [p \in Pushes |-> NewPush]
    /\ remote = [r \in Repos |-> {0}] /\ branches = {} /\ prs = {} /\ kept = {}

serve(p) == \/ handle_connection(p) \/ receive_declared_bundle(p) \/ clone_repo_with_token(p)
            \/ import(p) \/ git_push(p) \/ push_branch(p) \/ create_pull_request(p) \/ respond(p)

ModeNext ==
    \/ \E R \in SUBSET Repos, ttl \in Ttls : enable_github_yolo_mode(R, ttl)
    \/ install_mode \/ install_mode_failed \/ disable_github_yolo_mode
    \/ reconcile_github_agent_git_for_mode \/ repair_agent_git \/ tick
    \/ \E p \in Pushes : \/ serve(p) \/ bundle_cut(p) \/ step_failed(p)
          \/ \E kind \in Kinds, r \in Repos, force \in BOOLEAN :
                create_direct_push_bundle(p, kind, r, force)
    \/ serve_publisher

ModeSpec == ModeInit /\ [][ModeNext]_modeVars

-----------------------------------------------------------------------------
inFlight(p) == push[p].st \notin {"new", "sending", "error"}

\* A direct push gets past the daemon only under a grant the operator gave
\* for its repository or for all, which had not expired when the daemon
\* looked: merging records never widens or prolongs a grant.
PushWasGranted ==
    \A p \in Pushes : inFlight(p) /\ push[p].kind # "pr" =>
        \E g \in issued : g[1] \in {push[p].repo, All} /\ g[2] > push[p].at

\* The daemon allows exactly the scopes the operator granted last and has
\* not withdrawn, each until its own expiry, whatever was merged when.
ScopesAsGranted ==
    \A r \in Repos : github_mode_allows_repo(mode, r) <=>
                        active(want[r]) \/ active(want[All])

\* The operator CLI and the daemon, which each have their own code for it,
\* agree on whether a record is still active.
SidesAgree == github_mode_has_active_scope(mode) <=> ~github_mode_expired(mode)

\* While a record is active and no operator command is under way, the
\* agent's pushes are routed to the publisher.
RewriteFollowsMode == op.st = "idle" /\ github_mode_has_active_scope(mode) => rewrite

\* What was reported as pushed stays on the ref until somebody forces or
\* deletes it: a request built on an older state never undoes it.
ReportedStays == \A p \in kept : p \in remote[push[p].repo]

\* The mode record is enforced as it was granted: by the daemon, for every
\* repository and until its expiry, by both sides' code and by the rewrite.
GrantsAreEnforced == PushWasGranted /\ ScopesAsGranted /\ SidesAgree /\ RewriteFollowsMode
=============================================================================
