----------------------------- MODULE PushGrants -----------------------------
(***************************************************************************)
(* Push grants of one repository (every file is per repository): requests  *)
(* from the operator CLI or on the Sprite, each with its own cache, refresh *)
(* a cached GitHub token or go through the device flow, and write the grant *)
(* file on the Sprite that the git credential helper serves until it       *)
(* expires.  A refresh token is used up by the refresh that returns its    *)
(* successor.                                                              *)
(***************************************************************************)
EXTENDS Naturals, FiniteSets

CONSTANTS
    Requests,      \* grant requests, of either side
    MaxHour,       \* bound: clock ticks
    MaxAccidents   \* bound: failing steps
NoTtl == MaxHour + 1
ASSUME GrantsAssumption == MaxHour \in Nat

VARIABLES
    hour,       \* clock
    grant,      \* grant file: expiry, 0 when there is none
    cache,      \* per side: cached refresh token, 0 when there is none
    live,       \* GitHub: refresh tokens it accepts
    minted,     \* GitHub: refresh tokens it issued
    request,    \* requests in progress
    helper,     \* the credential helper
    accidents,
    cause,      \* ghost: requests GitHub, the user or an accident refused
    thrifty     \* ghost: some request used the cache without renewing it

grantVars == <<hour, grant, cache, live, minted, request, helper, accidents, cause, thrifty>>
hub == <<live, minted>>

Sides == {"sprite", "operator"}
Quiet == [st |-> "new", side |-> "sprite", tok |-> 0, keep |-> FALSE, ttl |-> 0]
accident(q) == /\ accidents < MaxAccidents /\ accidents' = accidents + 1
               /\ cause' = cause \cup {q}
moves(q, st) == request' = [request EXCEPT ![q].st = st]

-----------------------------------------------------------------------------
(* A request.                                                              *)

\* load_cached_device_flow_grant: another client's cache is not used.
load_cached_device_flow_grant(q, side, keep, ttl) ==
    /\ request[q].st = "new"
    /\ request' = [request EXCEPT ![q] =
          [st |-> IF cache[side] = 0 THEN "resolve" ELSE "refresh", side |-> side,
           tok |-> cache[side], keep |-> keep, ttl |-> ttl]]
    /\ UNCHANGED <<hour, grant, cache, hub, helper, accidents, cause, thrifty>>

refresh_user_access_token(q) ==
    LET x == request[q] new == minted + 1 IN
    /\ x.st = "refresh" /\ x.tok \in live
    /\ live' = (live \ {x.tok}) \cup {new} /\ minted' = new
    /\ request' = [request EXCEPT ![q] = [x EXCEPT !.st = IF x.keep THEN "save" ELSE "write",
                                                   !.tok = new]]
    /\ thrifty' = (thrifty \/ ~x.keep)
    /\ UNCHANGED <<hour, grant, cache, helper, accidents, cause>>

\* Mutant: a used-up token ends the request.
StaleTokenFails(q) ==
    /\ request[q].st = "refresh" /\ request[q].tok \notin live
    /\ moves(q, "failed")
    /\ UNCHANGED <<hour, grant, cache, hub, helper, accidents, cause, thrifty>>

\* bad_refresh_token: the cache is dropped and the user asked again.
remove_cached_device_flow_grant(q) ==
    /\ request[q].st = "refresh" /\ request[q].tok \notin live
    /\ cache' = [cache EXCEPT ![request[q].side] = 0] /\ moves(q, "resolve")
    /\ UNCHANGED <<hour, grant, hub, helper, accidents, cause, thrifty>>

\* The repository id, unauthenticated or with the reader's token, then the
\* device code; browser and clipboard are best effort.
request_device_flow_code(q) ==
    /\ request[q].st = "resolve" /\ moves(q, "poll")
    /\ UNCHANGED <<hour, grant, cache, hub, helper, accidents, cause, thrifty>>

\* authorization_pending and slow_down keep polling; the user authorizes.
poll_device_flow_access_token(q) ==
    LET x == request[q] new == minted + 1 IN
    /\ x.st = "poll"
    /\ live' = live \cup {new} /\ minted' = new
    /\ request' = [request EXCEPT ![q] = [x EXCEPT !.st = IF x.keep THEN "save" ELSE "write",
                                                   !.tok = new]]
    /\ UNCHANGED <<hour, grant, cache, helper, accidents, cause, thrifty>>

\* Denied, expired or disabled.
device_flow_refused(q) ==
    /\ request[q].st = "poll" /\ moves(q, "failed") /\ cause' = cause \cup {q}
    /\ UNCHANGED <<hour, grant, cache, hub, helper, accidents, thrifty>>

save_cached_device_flow_grant(q) ==
    /\ request[q].st = "save" /\ moves(q, "write")
    /\ cache' = [cache EXCEPT ![request[q].side] = request[q].tok]
    /\ UNCHANGED <<hour, grant, hub, helper, accidents, cause, thrifty>>

expires_at_from_now(ttl) == IF ttl = NoTtl THEN NoTtl ELSE hour + ttl

\* The last step on the Sprite and from the operator: the grant file.
write_local_push_grant(q) ==
    /\ request[q].st = "write" /\ moves(q, "done")
    /\ grant' = expires_at_from_now(request[q].ttl)
    /\ UNCHANGED <<hour, cache, hub, helper, accidents, cause, thrifty>>

\* GitHub or the file system answers with any other error.
request_failed(q) ==
    /\ request[q].st \in {"refresh", "resolve", "poll", "save", "write"}
    /\ accident(q) /\ moves(q, "failed")
    /\ UNCHANGED <<hour, grant, cache, hub, helper, thrifty>>

forgets(side, forget) == cache' = (IF forget THEN [cache EXCEPT ![side] = 0] ELSE cache)

revoke_push_access(side, forget) ==
    /\ grant # 0 \/ (forget /\ cache[side] # 0)
    /\ grant' = 0 /\ forgets(side, forget)
    /\ UNCHANGED <<hour, hub, request, helper, accidents, cause, thrifty>>

-----------------------------------------------------------------------------
(* The credential helper: it reads the file and removes an expired one.    *)

handle_git_credential_helper ==
    /\ helper = "idle"
    /\ helper' = CASE grant = 0 -> "reader" [] grant > hour -> "grant" [] OTHER -> "prune"
    /\ UNCHANGED <<hour, grant, cache, hub, request, accidents, cause, thrifty>>

load_push_grant_from_dir ==
    /\ helper = "prune" /\ grant' = 0 /\ helper' = "reader"
    /\ UNCHANGED <<hour, cache, hub, request, accidents, cause, thrifty>>

answer == helper \in {"reader", "grant"} /\ helper' = "idle"
          /\ UNCHANGED <<hour, grant, cache, hub, request, accidents, cause, thrifty>>

passes == hour < MaxHour /\ hour' = hour + 1
          /\ UNCHANGED <<grant, cache, hub, request, helper, accidents, cause, thrifty>>

-----------------------------------------------------------------------------
GrantsInit ==
    /\ hour = 0 /\ grant = 0 /\ live = {1} /\ minted = 1
    /\ cache \in {[d \in Sides |-> 0], [d \in Sides |-> IF d = "sprite" THEN 1 ELSE 0]}
    /\ request = [q \in Requests |-> Quiet] /\ helper = "idle"
    /\ accidents = 0 /\ cause = {} /\ thrifty = FALSE

\* mint_device_flow_push_grant, which both sides have.
mint_device_flow_push_grant(q) ==
    \/ refresh_user_access_token(q) \/ remove_cached_device_flow_grant(q)
    \/ request_device_flow_code(q) \/ poll_device_flow_access_token(q)
    \/ device_flow_refused(q) \/ save_cached_device_flow_grant(q)

request_push_access(q) ==
    \/ \E keep \in BOOLEAN, ttl \in {1, NoTtl} : load_cached_device_flow_grant(q, "sprite", keep, ttl)
    \/ request[q].side = "sprite" /\ (mint_device_flow_push_grant(q) \/ write_local_push_grant(q))

\* The operator always caches and takes the token's own lifetime.
grant_push_access(q) ==
    \/ load_cached_device_flow_grant(q, "operator", TRUE, NoTtl)
    \/ request[q].side = "operator" /\ (mint_device_flow_push_grant(q) \/ write_local_push_grant(q))

GrantsNext ==
    \/ \E q \in Requests : request_push_access(q) \/ grant_push_access(q) \/ request_failed(q)
    \/ \E side \in Sides, forget \in BOOLEAN : revoke_push_access(side, forget)
    \/ handle_git_credential_helper \/ load_push_grant_from_dir \/ answer \/ passes

GrantsSpec == GrantsInit /\ [][GrantsNext]_grantVars

-----------------------------------------------------------------------------
\* A request fails only when the user, GitHub or the file system refused:
\* a cached token that another request used up never stops one.
FailsOnlyForCause == \A q \in Requests : request[q].st = "failed" => q \in cause

\* At rest the cached token is one GitHub accepts, when every request that
\* used the cache was told to renew it and nothing failed, whichever of
\* them refreshed, dropped or saved it last.
CacheIsLive ==
    ~thrifty /\ accidents = 0 /\ (\A q \in Requests : request[q].st \in {"new", "done", "failed"})
        => \A d \in Sides : cache[d] \in live \cup {0}

\* No request spoils the cached token for another one.
TokensAreKept == FailsOnlyForCause /\ CacheIsLive
=============================================================================
