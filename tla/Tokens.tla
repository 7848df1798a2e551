------------------------------- MODULE Tokens -------------------------------
(***************************************************************************)
(* JWT pairs and their blacklist: auth.Auth, the JWT middleware and the    *)
(* Refresh and Logout cases of AuthService.                                *)
(*                                                                         *)
(* A token is a number, its jti; tokens[t] holds its claims.  A signature  *)
(* cannot be forged, so a client presents tokens that were signed.  Each   *)
(* Redis call is a step; parsing and signing are local.  now counts        *)
(* seconds, the unit of the exp claim.  A nil cache is a Redis that stays  *)
(* down.                                                                   *)
(***************************************************************************)
EXTENDS Integers, Sequences, FiniteSets

CONSTANTS Procs,                  \* request goroutines
          AccessTTL, RefreshTTL,  \* Auth.accessTTL, Auth.refreshTTL
          LogoutTTL,              \* the 24h Logout gives the access token's key
          RedisStartsUp,
          MaxTime,                \* bound: last second modelled
          MaxLogins,              \* bound: logins
          MaxRequests,            \* bound: requests received
          MaxOutages,             \* bound: Redis going down or coming back
          MaxLosses,              \* bound: times Redis loses keys
          MaxAborts               \* bound: requests that stop half way

ASSUME TTLAssumption ==
    /\ AccessTTL \in Nat \ {0} /\ RefreshTTL \in Nat \ {0} /\ LogoutTTL \in Nat \ {0}
ASSUME TokenBoundAssumption ==
    /\ RedisStartsUp \in BOOLEAN
    /\ MaxTime \in Nat /\ MaxLogins \in Nat /\ MaxRequests \in Nat
    /\ MaxOutages \in Nat /\ MaxLosses \in Nat /\ MaxAborts \in Nat

VARIABLES now,
          tokens,     \* claims of the tokens signed so far
          blacklist,  \* the Redis keys auth:blacklist:<jti>, with their expiry
          redisUp,
          pc, req,    \* where each request is, and its local variables
          revoked,    \* history: tokens whose Revoke returned no error
          used        \* how much of each bound is spent

vars == <<now, tokens, blacklist, redisUp, pc, req, revoked, used>>
redisVars == <<blacklist, redisUp, revoked>>

Kinds == {"access", "refresh"}

\* token is the one presented (Authorization header, or the refresh request),
\* pair the refresh token a logout brings along (0 = none), ttl the time.Until
\* before a Revoke.  stale and blind are history variables: the token had been
\* revoked when the request arrived, and IsRevoked got an error from Redis.
IdleReq == [call |-> "use", token |-> 0, pair |-> 0, ttl |-> 0, stale |-> FALSE,
            blind |-> FALSE]

Labels == {"idle", "check", "revokeOld", "issue", "admitted", "revokeAccess",
           "revokeRefresh"}

Init ==
    /\ now = 0 /\ tokens = <<>>
    /\ blacklist = {} /\ redisUp = RedisStartsUp
    /\ pc = [p \in Procs |-> "idle"] /\ req = [p \in Procs |-> IdleReq]
    /\ revoked = {}
    /\ used = [logins |-> 0, requests |-> 0, outages |-> 0, losses |-> 0, aborts |-> 0]

-----------------------------------------------------------------------------
(* auth.Auth. *)

\* Parse accepts the token, and its Kind is the one the caller asks for.
Accepted(t, kind) ==
    t \in DOMAIN tokens /\ now < tokens[t].exp /\ tokens[t].kind = kind

\* Issue: an access and a refresh token bought with the refresh token from.
Pair(from) ==
    <<[kind |-> "access", exp |-> now + AccessTTL, from |-> from],
      [kind |-> "refresh", exp |-> now + RefreshTTL, from |-> from]>>

Issue(from) == tokens' = tokens \o Pair(from)

\* Revoke: it fails exactly when Redis is down.
Revoke(t, ttl) ==
    IF redisUp
    THEN /\ blacklist' = {k \in blacklist : k.jti # t} \cup {[jti |-> t, exp |-> now + ttl]}
         /\ revoked' = revoked \cup {t}
    ELSE UNCHANGED <<blacklist, revoked>>

\* Variant: the error is returned, and with it always "not revoked".
IsRevokedDiscarded(t) == FALSE
\* IsRevoked: any error reads as "not revoked".
IsRevoked(t) == redisUp /\ \E k \in blacklist : k.jti = t

Go(p, from, to, r) ==
    pc[p] = from /\ pc' = [pc EXCEPT ![p] = to] /\ req' = [req EXCEPT ![p] = r]

Finish(p, from) == Go(p, from, "idle", IdleReq)

-----------------------------------------------------------------------------
(* Requests. *)

\* The end of a successful AuthService.Login.
Login ==
    /\ used.logins < MaxLogins
    /\ used' = [used EXCEPT !.logins = @ + 1]
    /\ Issue(0)
    /\ UNCHANGED <<now, redisVars, pc, req>>

\* A request is received and its token parsed; one that Parse or the check of
\* Kind refuses is answered at once and changes nothing.
Arrive(p, call, kind, pairs) ==
    /\ used.requests < MaxRequests
    /\ used' = [used EXCEPT !.requests = @ + 1]
    /\ \E t \in DOMAIN tokens, pair \in pairs :
          /\ Accepted(t, kind)
          /\ Go(p, "idle", "check", [IdleReq EXCEPT !.call = call, !.token = t,
                                     !.pair = pair, !.stale = t \in revoked])
    /\ UNCHANGED <<now, tokens, redisVars>>

\* Any route behind the JWT middleware.
StartUse(p) == Arrive(p, "use", "access", {0})
\* Refresh is a public route: the token is in the body.
StartRefresh(p) == Arrive(p, "refresh", "refresh", {0})
\* Logout is behind the JWT middleware; its body may bring any token along.
StartLogout(p) == Arrive(p, "logout", "access", {0} \cup DOMAIN tokens)

\* Variant: a fixed ttl for every token.
LeftFixed(t) == AccessTTL
\* The time a token has left.
Left(t) == tokens[t].exp - now

\* Variant: what is left is not compared with zero.
CheckRevokedUnguarded(p) ==
    /\ ~IsRevoked(req[p].token) /\ req[p].call = "refresh"
    /\ Go(p, "check", "revokeOld", [req[p] EXCEPT !.ttl = Left(req[p].token)])
    /\ UNCHANGED <<now, tokens, redisVars, used>>
\* IsRevoked, and the time.Until that follows it in Auth.Refresh.
CheckRevoked(p) ==
    LET t == req[p].token
        r == [req[p] EXCEPT !.blind = ~redisUp]
    IN  /\ \/ IsRevoked(t) /\ Finish(p, "check")
           \/ /\ ~IsRevoked(t)
              /\ \/ r.call = "use" /\ Go(p, "check", "admitted", r)
                 \/ r.call = "logout" /\ Go(p, "check", "revokeAccess", r)
                 \/ /\ r.call = "refresh" /\ Left(t) > 0
                    /\ Go(p, "check", "revokeOld", [r EXCEPT !.ttl = Left(t)])
                 \/ /\ r.call = "refresh" /\ Left(t) <= 0
                    /\ Go(p, "check", "issue", r)
        /\ UNCHANGED <<now, tokens, redisVars, used>>

Serve(p) ==
    /\ Finish(p, "admitted")
    /\ UNCHANGED <<now, tokens, redisVars, used>>

\* Auth.Refresh goes on whatever Revoke returns.
RevokeOld(p) ==
    /\ Go(p, "revokeOld", "issue", [req[p] EXCEPT !.ttl = 0])
    /\ Revoke(req[p].token, req[p].ttl)
    /\ UNCHANGED <<now, tokens, redisUp, used>>

IssuePair(p) ==
    /\ Finish(p, "issue") /\ Issue(req[p].token)
    /\ UNCHANGED <<now, redisVars, used>>

\* Logout revokes the access token, or answers 500; then it parses the refresh
\* token, and a token of the other kind or past its expiry is left alone.
RevokeAccess(p) ==
    LET pair == req[p].pair
    IN  /\ pc[p] = "revokeAccess"
        /\ Revoke(req[p].token, LogoutTTL)
        /\ \/ /\ ~(redisUp /\ Accepted(pair, "refresh"))
              /\ Finish(p, "revokeAccess")
           \/ /\ redisUp /\ Accepted(pair, "refresh")
              /\ Go(p, "revokeAccess", "revokeRefresh", [req[p] EXCEPT !.ttl = Left(pair)])
        /\ UNCHANGED <<now, tokens, redisUp, used>>

\* A failure to revoke the refresh token is logged, and the answer is 200.
RevokeRefresh(p) ==
    /\ Finish(p, "revokeRefresh")
    /\ Revoke(req[p].pair, req[p].ttl)
    /\ UNCHANGED <<now, tokens, redisUp, used>>

-----------------------------------------------------------------------------
(* What happens around the requests. *)

\* A second passes and Redis drops the keys that reach their expiry.
Tick ==
    /\ now < MaxTime /\ now' = now + 1
    /\ blacklist' = {k \in blacklist : k.exp > now'}
    /\ UNCHANGED <<tokens, redisUp, pc, req, revoked, used>>

\* Redis becomes unreachable, or reachable again with the keys it had.
SwitchRedis ==
    /\ used.outages < MaxOutages /\ used' = [used EXCEPT !.outages = @ + 1]
    /\ redisUp' = ~redisUp
    /\ UNCHANGED <<now, tokens, blacklist, pc, req, revoked>>

\* A restart without persistence, or an eviction.
LoseKeys ==
    /\ used.losses < MaxLosses /\ used' = [used EXCEPT !.losses = @ + 1]
    /\ blacklist' \in SUBSET blacklist
    /\ UNCHANGED <<now, tokens, redisUp, pc, req, revoked>>

\* The process dies or the client goes away: the steps left are not taken.
Abort(p) ==
    /\ pc[p] # "idle" /\ Finish(p, pc[p])
    /\ used.aborts < MaxAborts /\ used' = [used EXCEPT !.aborts = @ + 1]
    /\ UNCHANGED <<now, tokens, redisVars>>

Quiet == (\A p \in Procs : pc[p] = "idle") /\ UNCHANGED vars

Start(p) == StartUse(p) \/ StartRefresh(p) \/ StartLogout(p)
RefreshStep(p) == RevokeOld(p) \/ IssuePair(p)
LogoutStep(p) == RevokeAccess(p) \/ RevokeRefresh(p)
RequestStep(p) == CheckRevoked(p) \/ Serve(p) \/ RefreshStep(p) \/ LogoutStep(p)

Next ==
    \/ \E p \in Procs : Start(p) \/ RequestStep(p) \/ Abort(p)
    \/ Login \/ Tick \/ SwitchRedis \/ LoseKeys \/ Quiet

Spec == Init /\ [][Next]_vars

-----------------------------------------------------------------------------
(* Properties. *)

Claims == [kind : Kinds, exp : Nat, from : Nat]
Requests == [call : {"use", "refresh", "logout"}, token : Nat, pair : Nat, ttl : Nat,
             stale : BOOLEAN, blind : BOOLEAN]

\* Every variable has its type; no request computes a ttl below zero, and the
\* keys and the histories name tokens that were signed.
TypeOK ==
    /\ now \in Nat /\ tokens \in Seq(Claims) /\ redisUp \in BOOLEAN
    /\ blacklist \subseteq [jti : DOMAIN tokens, exp : Nat]
    /\ revoked \subseteq DOMAIN tokens
    /\ pc \in [Procs -> Labels] /\ req \in [Procs -> Requests]
    /\ used \in [logins : Nat, requests : Nat, outages : Nat, losses : Nat, aborts : Nat]

Passed == {"revokeOld", "issue", "admitted", "revokeAccess", "revokeRefresh"}

\* Redis has kept its keys so far.
Kept == used.losses = 0

\* A token revoked before a request arrived does not get that request past the
\* blacklist while the token is valid: neither into a route, nor to a new pair,
\* whatever outages there were before, between and after.  Only a request whose
\* own check met an error may pass, for IsRevoked reads it as "not revoked".
RevokedRefused ==
    Kept => \A p \in Procs :
        pc[p] \in Passed /\ req[p].stale /\ ~req[p].blind => tokens[req[p].token].exp <= now

\* The key of each revoked token is in the blacklist until Parse refuses the token.
KeysCover ==
    \A t \in revoked : now < tokens[t].exp =>
        \E k \in blacklist : k.jti = t /\ k.exp >= tokens[t].exp

\* The key of a revoked token outlives the token, as long as Redis keeps its keys:
\* an outage may fail a Revoke, and never shortens one that succeeded.
KeyOutlivesToken == Kept => KeysCover

\* The refresh tokens bought with t; one was signed RefreshTTL before its expiry.
Bought(t) == {u \in DOMAIN tokens : tokens[u].from = t /\ tokens[u].kind = "refresh"}
Signed(u) == tokens[u].exp - RefreshTTL

\* A refresh token buys one pair while it is valid, and one more only each time
\* Redis loses its keys.
BuysOnceWhileValid ==
    \A t \in DOMAIN tokens :
        Cardinality({u \in Bought(t) : Signed(u) < tokens[t].exp}) <= 1 + used.losses
=============================================================================
