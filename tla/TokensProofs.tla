---------------------------- MODULE TokensProofs ----------------------------
(* What TLAPS proves of Tokens, for every lifetime and every bound. *)
EXTENDS Tokens, SequenceTheorems, TLAPS

\* A request holds a token that was signed, a logout an access token, and the
\* ttl it is about to give a key covers what the token has left.
Sound(p) ==
    /\ pc[p] # "idle" =>
          /\ req[p].token \in DOMAIN tokens
          /\ req[p].call = "logout" => tokens[req[p].token].kind = "access"
    /\ pc[p] = "revokeOld" => now + req[p].ttl >= tokens[req[p].token].exp
    /\ pc[p] = "revokeAccess" => req[p].call = "logout"
    /\ pc[p] = "revokeRefresh" =>
          req[p].pair \in DOMAIN tokens /\ now + req[p].ttl >= tokens[req[p].pair].exp

\* No access token is valid for longer than AccessTTL from now on.
AccessShort ==
    \A t \in DOMAIN tokens : tokens[t].kind = "access" => tokens[t].exp <= now + AccessTTL

TypeInv == TypeOK /\ AccessShort /\ \A p \in Procs : Sound(p)

KeyInv == TypeInv /\ KeysCover

-----------------------------------------------------------------------------
(* Types. *)

LEMMA PairType ==
    ASSUME now \in Nat, NEW from \in Nat
    PROVE  /\ Pair(from) \in Seq(Claims) /\ Len(Pair(from)) = 2
           /\ Pair(from)[1] = [kind |-> "access", exp |-> now + AccessTTL, from |-> from]
           /\ Pair(from)[2] = [kind |-> "refresh", exp |-> now + RefreshTTL, from |-> from]
BY TTLAssumption DEF Pair, Claims, Kinds

\* Signing a pair keeps the tokens there are and adds two.
Signing(from) ==
    /\ tokens' \in Seq(Claims) /\ Len(tokens') = Len(tokens) + 2
    /\ \A t \in DOMAIN tokens : t \in DOMAIN tokens' /\ tokens'[t] = tokens[t]
    /\ \A t \in DOMAIN tokens' \ DOMAIN tokens :
          tokens'[t] = [kind |-> "access", exp |-> now + AccessTTL, from |-> from]
          \/ tokens'[t] = [kind |-> "refresh", exp |-> now + RefreshTTL, from |-> from]

LEMMA AppendTwo ==
    ASSUME NEW S, NEW seq \in Seq(S), NEW two \in Seq(S), Len(two) = 2
    PROVE  /\ seq \o two \in Seq(S) /\ Len(seq \o two) = Len(seq) + 2
           /\ \A t \in 1..Len(seq) : (seq \o two)[t] = seq[t]
           /\ (seq \o two)[Len(seq) + 1] = two[1]
           /\ (seq \o two)[Len(seq) + 2] = two[2]
<1>1. Len(seq) \in Nat
  OBVIOUS
<1>2. /\ seq \o two \in Seq(S) /\ Len(seq \o two) = Len(seq) + 2
      /\ \A t \in 1..Len(seq) + 2 :
            (seq \o two)[t] = IF t <= Len(seq) THEN seq[t] ELSE two[t - Len(seq)]
  <2>1. /\ seq \o two \in Seq(S) /\ Len(seq \o two) = Len(seq) + Len(two)
        /\ \A t \in 1..Len(seq) + Len(two) :
              (seq \o two)[t] = IF t <= Len(seq) THEN seq[t] ELSE two[t - Len(seq)]
    BY ConcatProperties
  <2> QED BY <2>1
<1>3. Len(seq) + 1 \in 1..Len(seq) + 2 /\ ~(Len(seq) + 1 <= Len(seq))
  BY <1>1
<1>4. Len(seq) + 2 \in 1..Len(seq) + 2 /\ ~(Len(seq) + 2 <= Len(seq))
  BY <1>1
<1>5. (Len(seq) + 1) - Len(seq) = 1 /\ (Len(seq) + 2) - Len(seq) = 2
  BY <1>1
<1>6. \A t \in 1..Len(seq) : t \in 1..Len(seq) + 2 /\ t <= Len(seq)
  BY <1>1
<1> QED BY <1>2, <1>3, <1>4, <1>5, <1>6

LEMMA IssueSigns ==
    ASSUME TypeOK, NEW from \in Nat, Issue(from)
    PROVE  Signing(from)
<1> DEFINE pair == Pair(from)
<1> HIDE DEF pair
<1>1. tokens \in Seq(Claims) /\ pair \in Seq(Claims) /\ Len(pair) = 2
  BY PairType DEF TypeOK, pair
<1>2. tokens' = tokens \o pair
  BY DEF Issue, pair
<1>3. /\ tokens' \in Seq(Claims) /\ Len(tokens') = Len(tokens) + 2
      /\ \A t \in 1..Len(tokens) : tokens'[t] = tokens[t]
      /\ tokens'[Len(tokens) + 1] = pair[1] /\ tokens'[Len(tokens) + 2] = pair[2]
  BY <1>1, <1>2, AppendTwo
<1>4. DOMAIN tokens = 1..Len(tokens) /\ DOMAIN tokens' = 1..Len(tokens) + 2 /\ Len(tokens) \in Nat
  BY <1>1, <1>3
<1>5. \A t \in DOMAIN tokens' \ DOMAIN tokens : t \in {Len(tokens) + 1, Len(tokens) + 2}
  BY <1>4
<1>6. pair[1] = [kind |-> "access", exp |-> now + AccessTTL, from |-> from]
      /\ pair[2] = [kind |-> "refresh", exp |-> now + RefreshTTL, from |-> from]
  BY PairType DEF TypeOK, pair
<1>7. \A t \in DOMAIN tokens : t \in DOMAIN tokens'
  BY <1>4
<1>8. \A t \in DOMAIN tokens' \ DOMAIN tokens : tokens'[t] \in {pair[1], pair[2]}
  BY <1>3, <1>5
<1> QED BY <1>3, <1>4, <1>6, <1>7, <1>8 DEF Signing

\* Tokens are only ever added, and keep their claims.
TokensKept ==
    /\ tokens' \in Seq(Claims)
    /\ \A t \in DOMAIN tokens : t \in DOMAIN tokens' /\ tokens'[t] = tokens[t]

LEMMA ClaimsType ==
    ASSUME TypeOK, NEW t \in DOMAIN tokens
    PROVE  t \in Nat /\ tokens[t].exp \in Nat /\ tokens[t].kind \in Kinds
<1>1. tokens \in Seq(Claims)
  BY DEF TypeOK
<1>2. t \in 1..Len(tokens) /\ t \in Nat
  BY <1>1
<1>3. tokens[t] \in Claims
  BY <1>1, <1>2
<1> QED BY <1>2, <1>3 DEF Claims

LEMMA SoundFrame ==
    ASSUME TypeOK, TokensKept, now' = now \/ now' = now + 1,
           NEW p \in Procs, Sound(p), pc'[p] = pc[p], req'[p] = req[p]
    PROVE  Sound(p)'
<1>1. now \in Nat /\ req[p] \in Requests
  BY DEF TypeOK
<1>2. req[p].ttl \in Nat /\ \A t \in DOMAIN tokens : tokens[t].exp \in Nat
  BY <1>1, ClaimsType DEF Requests
<1>3. \A t \in DOMAIN tokens : now + req[p].ttl >= tokens[t].exp
                                  => now' + req[p].ttl >= tokens'[t].exp
  BY <1>1, <1>2 DEF TokensKept
<1> QED BY <1>3 DEF Sound, TokensKept

LEMMA GoType ==
    ASSUME TypeOK, NEW p \in Procs, NEW from, NEW to \in Labels, NEW r \in Requests,
           Go(p, from, to, r)
    PROVE  /\ pc' \in [Procs -> Labels] /\ req' \in [Procs -> Requests]
           /\ pc'[p] = to /\ req'[p] = r /\ pc[p] = from
           /\ \A q \in Procs \ {p} : pc'[q] = pc[q] /\ req'[q] = req[q]
BY DEF TypeOK, Go

LEMMA IdleReqType == IdleReq \in Requests /\ "idle" \in Labels
BY DEF IdleReq, Requests, Labels

LEMMA AccessShortKept ==
    ASSUME TypeInv, tokens' = tokens, now' = now \/ now' = now + 1
    PROVE  AccessShort'
<1>1. now \in Nat /\ AccessTTL \in Nat /\ \A t \in DOMAIN tokens : tokens[t].exp \in Nat
  BY TTLAssumption, ClaimsType DEF TypeInv, TypeOK
<1> QED BY <1>1 DEF TypeInv, AccessShort

\* A step of one request that leaves tokens, keys and histories alone.
LEMMA LocalStep ==
    ASSUME TypeInv, NEW p \in Procs, NEW from, NEW to \in Labels, NEW r \in Requests,
           Go(p, from, to, r), UNCHANGED <<now, tokens, redisVars>>,
           used' \in [logins : Nat, requests : Nat, outages : Nat, losses : Nat, aborts : Nat],
           Sound(p)'
    PROVE  TypeInv'
<1>1. TypeOK /\ TokensKept
  BY DEF TypeInv, TypeOK, TokensKept
<1>2. \A q \in Procs \ {p} : Sound(q)'
  BY <1>1, GoType, SoundFrame DEF TypeInv
<1>3. TypeOK'
  BY <1>1, GoType DEF TypeOK, redisVars
<1> QED BY <1>2, <1>3, AccessShortKept DEF TypeInv

LEMMA FinishStep ==
    ASSUME TypeInv, NEW p \in Procs, NEW from, Finish(p, from),
           UNCHANGED <<now, tokens, redisVars>>,
           used' \in [logins : Nat, requests : Nat, outages : Nat, losses : Nat, aborts : Nat]
    PROVE  TypeInv'
<1>1. pc'[p] = "idle"
  BY GoType, IdleReqType DEF TypeInv, Finish
<1>2. Sound(p)'
  BY <1>1 DEF Sound
<1> QED BY <1>2, LocalStep, IdleReqType DEF Finish

-----------------------------------------------------------------------------
(* One lemma per action. *)

LEMMA ArriveStep ==
    ASSUME TypeInv, NEW p \in Procs, NEW call \in {"use", "refresh", "logout"},
           NEW kind \in Kinds, call = "logout" => kind = "access",
           NEW pairs \in SUBSET Nat, Arrive(p, call, kind, pairs)
    PROVE  TypeInv'
<1>1. PICK t \in DOMAIN tokens, pair \in pairs :
        /\ Accepted(t, kind)
        /\ Go(p, "idle", "check", [IdleReq EXCEPT !.call = call, !.token = t,
                                   !.pair = pair, !.stale = t \in revoked])
  BY DEF Arrive
<1> DEFINE stale == t \in revoked
           r == [IdleReq EXCEPT !.call = call, !.token = t, !.pair = pair, !.stale = stale]
<1>2. r \in Requests /\ r.token = t /\ r.call = call
  <2>1. t \in Nat /\ pair \in Nat
    BY ClaimsType DEF TypeInv
  <2>2. stale \in BOOLEAN
    OBVIOUS
  <2> HIDE DEF stale
  <2> QED BY <2>1, <2>2 DEF IdleReq, Requests
<1>3. pc'[p] = "check" /\ req'[p] = r
  BY <1>1, <1>2, GoType DEF TypeInv, Labels
<1>4. tokens' = tokens /\ tokens[t].kind = kind
  BY <1>1 DEF Arrive, Accepted
<1>5. Sound(p)'
  BY <1>2, <1>3, <1>4 DEF Sound
<1>6. used' \in [logins : Nat, requests : Nat, outages : Nat, losses : Nat, aborts : Nat]
  BY DEF Arrive, TypeInv, TypeOK
<1> QED BY <1>1, <1>2, <1>5, <1>6, LocalStep DEF Arrive, Labels

LEMMA CheckRevokedStep ==
    ASSUME TypeInv, NEW p \in Procs, CheckRevoked(p)
    PROVE  TypeInv'
<1> DEFINE t == req[p].token
           blind == ~redisUp
           seen == [req[p] EXCEPT !.blind = blind]
           r == [seen EXCEPT !.ttl = Left(t)]
<1>0. blind \in BOOLEAN
  OBVIOUS
<1> HIDE DEF blind
<1>1. /\ req[p] \in Requests /\ pc[p] = "check" /\ t \in DOMAIN tokens
      /\ now \in Nat /\ tokens[t].exp \in Nat
      /\ req[p].call = "logout" => tokens[t].kind = "access"
  <2>1. pc[p] = "check"
    BY DEF CheckRevoked, Go, Finish
  <2>2. req[p] \in Requests /\ now \in Nat
    BY DEF TypeInv, TypeOK
  <2>3. t \in DOMAIN tokens /\ (req[p].call = "logout" => tokens[t].kind = "access")
    BY <2>1 DEF TypeInv, Sound
  <2> QED BY <2>1, <2>2, <2>3, ClaimsType DEF TypeInv
<1>2. used' \in [logins : Nat, requests : Nat, outages : Nat, losses : Nat, aborts : Nat]
      /\ UNCHANGED <<now, tokens, redisVars>>
  BY DEF CheckRevoked, TypeInv, TypeOK
<1>3. CASE Finish(p, "check")
  BY <1>2, <1>3, FinishStep
<1>7. seen \in Requests /\ seen.token = t /\ seen.call = req[p].call
  BY <1>0, <1>1 DEF Requests
<1>4. ASSUME NEW to \in {"admitted", "revokeAccess", "issue"}, Go(p, "check", to, seen),
             to = "revokeAccess" => req[p].call = "logout"
      PROVE  TypeInv'
  <2>1. to \in Labels
    BY DEF Labels
  <2>2. pc'[p] = to /\ req'[p] = seen
    BY <1>7, <1>4, <2>1, GoType DEF TypeInv
  <2>3. Sound(p)'
    BY <1>1, <1>2, <1>7, <1>4, <2>2 DEF Sound
  <2> QED BY <1>7, <1>2, <1>4, <2>1, <2>3, LocalStep
<1>5. CASE Left(t) > 0 /\ Go(p, "check", "revokeOld", r)
  <2>1. Left(t) \in Nat /\ now + Left(t) = tokens[t].exp
    BY <1>1, <1>5 DEF Left
  <2>2. r \in Requests /\ r.token = t /\ r.call = req[p].call /\ r.ttl = Left(t)
    BY <1>7, <2>1 DEF Requests
  <2>3. "revokeOld" \in Labels
    BY DEF Labels
  <2>4. pc'[p] = "revokeOld" /\ req'[p] = r
    BY <1>5, <2>2, <2>3, GoType DEF TypeInv
  <2>5. Sound(p)'
    BY <1>1, <1>2, <2>1, <2>2, <2>4 DEF Sound
  <2> QED BY <1>2, <1>5, <2>2, <2>3, <2>5, LocalStep
<1>6. seen.call = req[p].call /\ seen = [req[p] EXCEPT !.blind = ~redisUp]
  BY <1>7 DEF blind
<1> HIDE DEF seen
<1> QED BY <1>3, <1>4, <1>5, <1>6 DEF CheckRevoked

\* Revoke writes a key for a signed token, or nothing.
LEMMA RevokeType ==
    ASSUME TypeOK, NEW t \in DOMAIN tokens, NEW ttl \in Nat, Revoke(t, ttl)
    PROVE  /\ blacklist' \subseteq [jti : DOMAIN tokens, exp : Nat]
           /\ revoked' \subseteq DOMAIN tokens
<1>1. now + ttl \in Nat
  BY DEF TypeOK
<1> QED BY <1>1 DEF TypeOK, Revoke

\* A step of one request that revokes a token.
LEMMA RevokingStep ==
    ASSUME TypeInv, NEW p \in Procs, NEW from, NEW to \in Labels, NEW r \in Requests,
           Go(p, from, to, r), NEW t \in DOMAIN tokens, NEW ttl \in Nat, Revoke(t, ttl),
           UNCHANGED <<now, tokens, redisUp, used>>,
           Sound(p)'
    PROVE  TypeInv'
<1>1. TypeOK /\ TokensKept
  BY DEF TypeInv, TypeOK, TokensKept
<1>2. \A q \in Procs \ {p} : Sound(q)'
  BY <1>1, GoType, SoundFrame DEF TypeInv
<1>3. TypeOK'
  BY <1>1, GoType, RevokeType DEF TypeOK
<1> QED BY <1>2, <1>3, AccessShortKept DEF TypeInv

LEMMA RevokeOldStep ==
    ASSUME TypeInv, NEW p \in Procs, RevokeOld(p)
    PROVE  TypeInv'
<1> DEFINE r == [req[p] EXCEPT !.ttl = 0]
<1>1. pc[p] = "revokeOld" /\ req[p] \in Requests /\ "issue" \in Labels
  BY DEF RevokeOld, Go, TypeInv, TypeOK, Labels
<1>2. /\ req[p].token \in DOMAIN tokens /\ req[p].ttl \in Nat
      /\ req[p].call = "logout" => tokens[req[p].token].kind = "access"
  BY <1>1 DEF TypeInv, Sound, Requests
<1>3. r \in Requests /\ r.token = req[p].token /\ r.call = req[p].call
  BY <1>1 DEF Requests
<1>4. pc'[p] = "issue" /\ req'[p] = r
  BY <1>1, <1>3, GoType DEF RevokeOld, TypeInv
<1>5. Sound(p)'
  BY <1>2, <1>3, <1>4 DEF Sound, RevokeOld
<1> QED BY <1>1, <1>2, <1>3, <1>5, RevokingStep DEF RevokeOld

LEMMA RevokeAccessStep ==
    ASSUME TypeInv, NEW p \in Procs, RevokeAccess(p)
    PROVE  TypeInv'
<1> DEFINE pair == req[p].pair
           r == [req[p] EXCEPT !.ttl = Left(pair)]
<1>1. /\ pc[p] = "revokeAccess" /\ req[p] \in Requests /\ req[p].call = "logout"
      /\ req[p].token \in DOMAIN tokens /\ tokens[req[p].token].kind = "access"
      /\ LogoutTTL \in Nat /\ now \in Nat
  BY TTLAssumption DEF RevokeAccess, TypeInv, TypeOK, Sound
<1>2. CASE Finish(p, "revokeAccess")
  <2>1. pc'[p] = "idle"
    BY <1>2, GoType, IdleReqType DEF Finish, TypeInv
  <2>2. Sound(p)'
    BY <2>1 DEF Sound
  <2> QED BY <1>1, <1>2, <2>2, IdleReqType, RevokingStep DEF RevokeAccess, Finish
<1>3. CASE Accepted(pair, "refresh") /\ Go(p, "revokeAccess", "revokeRefresh", r)
  <2>1. pair \in DOMAIN tokens /\ Left(pair) \in Nat /\ now + Left(pair) = tokens[pair].exp
    BY <1>1, <1>3, ClaimsType DEF Accepted, Left, TypeInv
  <2>2. /\ r \in Requests /\ r.token = req[p].token /\ r.call = "logout" /\ r.pair = pair
        /\ r.ttl = Left(pair)
    BY <1>1, <2>1 DEF Requests
  <2>3. "revokeRefresh" \in Labels
    BY DEF Labels
  <2>4. pc'[p] = "revokeRefresh" /\ req'[p] = r
    BY <1>3, <2>2, <2>3, GoType DEF TypeInv
  <2>5. tokens[pair].exp \in Nat /\ tokens' = tokens /\ now' = now
    BY <2>1, ClaimsType DEF TypeInv, RevokeAccess
  <2>6. Sound(p)'
    BY <1>1, <2>1, <2>2, <2>4, <2>5 DEF Sound
  <2> QED BY <1>1, <1>3, <2>2, <2>3, <2>6, RevokingStep DEF RevokeAccess
<1> QED BY <1>2, <1>3 DEF RevokeAccess

LEMMA RevokeRefreshStep ==
    ASSUME TypeInv, NEW p \in Procs, RevokeRefresh(p)
    PROVE  TypeInv'
<1>1. pc[p] = "revokeRefresh" /\ req[p] \in Requests
  BY DEF RevokeRefresh, Finish, Go, TypeInv, TypeOK
<1>2. req[p].pair \in DOMAIN tokens /\ req[p].ttl \in Nat
  BY <1>1 DEF TypeInv, Sound, Requests
<1>3. pc'[p] = "idle"
  BY GoType, IdleReqType DEF RevokeRefresh, Finish, TypeInv
<1>4. Sound(p)'
  BY <1>3 DEF Sound
<1> QED BY <1>2, <1>4, IdleReqType, RevokingStep DEF RevokeRefresh, Finish

\* Signing a pair, at the end of a login or of a refresh.
LEMMA SigningStep ==
    ASSUME TypeInv, NEW from \in Nat, Issue(from), UNCHANGED <<now, redisVars>>,
           pc' \in [Procs -> Labels], req' \in [Procs -> Requests],
           used' \in [logins : Nat, requests : Nat, outages : Nat, losses : Nat, aborts : Nat],
           \A p \in Procs : pc'[p] = "idle" \/ (pc'[p] = pc[p] /\ req'[p] = req[p])
    PROVE  TypeInv' /\ TokensKept
<1>1. Signing(from)
  BY IssueSigns DEF TypeInv
<1>2. TokensKept
  BY <1>1 DEF Signing, TokensKept
<1>3. \A p \in Procs : Sound(p)'
  <2>1. ASSUME NEW p \in Procs, pc'[p] = "idle" PROVE Sound(p)'
    BY <2>1 DEF Sound
  <2> QED BY <1>2, <2>1, SoundFrame DEF TypeInv
<1>4. TypeOK'
  BY <1>2 DEF TypeInv, TypeOK, TokensKept, redisVars
<1>5. AccessShort'
  <2>1. now \in Nat /\ AccessTTL \in Nat
    BY TTLAssumption DEF TypeInv, TypeOK
  <2>2. \A t \in DOMAIN tokens' \ DOMAIN tokens :
            tokens'[t].kind = "access" => tokens'[t].exp <= now + AccessTTL
    BY <1>1, <2>1 DEF Signing
  <2>3. \A t \in DOMAIN tokens : tokens'[t] = tokens[t]
    BY <1>2 DEF TokensKept
  <2> QED BY <2>2, <2>3 DEF TypeInv, AccessShort
<1> QED BY <1>2, <1>3, <1>4, <1>5 DEF TypeInv

LEMMA IssuePairStep ==
    ASSUME TypeInv, NEW p \in Procs, IssuePair(p)
    PROVE  TypeInv' /\ TokensKept
<1>1. pc[p] = "issue"
  BY DEF IssuePair, Finish, Go
<1>2. req[p].token \in Nat
  BY <1>1, ClaimsType DEF TypeInv, Sound
<1>3. /\ pc' \in [Procs -> Labels] /\ req' \in [Procs -> Requests]
      /\ \A q \in Procs : pc'[q] = "idle" \/ (pc'[q] = pc[q] /\ req'[q] = req[q])
  BY GoType, IdleReqType DEF IssuePair, Finish, TypeInv
<1>4. used' \in [logins : Nat, requests : Nat, outages : Nat, losses : Nat, aborts : Nat]
  BY DEF IssuePair, TypeInv, TypeOK
<1> QED BY <1>2, <1>3, <1>4, SigningStep DEF IssuePair

LEMMA LoginStep ==
    ASSUME TypeInv, Login
    PROVE  TypeInv' /\ TokensKept
<1>1. /\ pc' \in [Procs -> Labels] /\ req' \in [Procs -> Requests]
      /\ \A q \in Procs : pc'[q] = pc[q] /\ req'[q] = req[q]
  BY DEF Login, TypeInv, TypeOK
<1>2. used' \in [logins : Nat, requests : Nat, outages : Nat, losses : Nat, aborts : Nat]
  BY DEF Login, TypeInv, TypeOK
<1> QED BY <1>1, <1>2, SigningStep DEF Login

LEMMA EnvironmentStep ==
    ASSUME TypeInv, Tick \/ SwitchRedis \/ LoseKeys \/ UNCHANGED vars
    PROVE  TypeInv'
<1>1. /\ UNCHANGED <<tokens, pc, req, revoked>>
      /\ now' = now \/ now' = now + 1
      /\ blacklist' \subseteq blacklist /\ redisUp' \in BOOLEAN
      /\ used' \in [logins : Nat, requests : Nat, outages : Nat, losses : Nat, aborts : Nat]
  <2>1. CASE Tick
    BY <2>1 DEF Tick, TypeInv, TypeOK
  <2>2. CASE SwitchRedis
    BY <2>2 DEF SwitchRedis, TypeInv, TypeOK
  <2>3. CASE LoseKeys
    BY <2>3 DEF LoseKeys, TypeInv, TypeOK
  <2>4. CASE UNCHANGED vars
    BY <2>4 DEF vars, TypeInv, TypeOK
  <2> QED BY <2>1, <2>2, <2>3, <2>4
<1>2. TypeOK' /\ TokensKept
  BY <1>1 DEF TypeInv, TypeOK, TokensKept
<1>3. \A p \in Procs : Sound(p)'
  BY <1>1, <1>2, SoundFrame DEF TypeInv
<1> QED BY <1>1, <1>2, <1>3, AccessShortKept DEF TypeInv

LEMMA AbortStep ==
    ASSUME TypeInv, NEW p \in Procs, Abort(p) \/ Serve(p)
    PROVE  TypeInv'
<1>1. used' \in [logins : Nat, requests : Nat, outages : Nat, losses : Nat, aborts : Nat]
  BY DEF Abort, Serve, TypeInv, TypeOK
<1> QED BY <1>1, FinishStep DEF Abort, Serve

LEMMA NextType == TypeInv /\ [Next]_vars => TypeInv'
<1> SUFFICES ASSUME TypeInv, [Next]_vars PROVE TypeInv'
  OBVIOUS
<1>1. ASSUME NEW p \in Procs, Start(p) PROVE TypeInv'
  <2>1. DOMAIN tokens \subseteq Nat
    BY ClaimsType DEF TypeInv
  <2> QED BY <1>1, <2>1, ArriveStep DEF Start, StartUse, StartRefresh, StartLogout, Kinds
<1>2. ASSUME NEW p \in Procs, RequestStep(p) \/ Abort(p) PROVE TypeInv'
  BY <1>2, CheckRevokedStep, AbortStep, RevokeOldStep, IssuePairStep, RevokeAccessStep,
     RevokeRefreshStep DEF RequestStep, RefreshStep, LogoutStep
<1> QED BY <1>1, <1>2, LoginStep, EnvironmentStep DEF Next, Quiet

LEMMA InitType == Init => TypeInv
<1> SUFFICES ASSUME Init PROVE TypeInv
  OBVIOUS
<1>1. tokens = <<>> /\ DOMAIN tokens = {} /\ tokens \in Seq(Claims)
  BY DEF Init
<1>2. TypeOK
  BY <1>1, IdleReqType, TokenBoundAssumption DEF Init, TypeOK
<1>3. AccessShort /\ \A p \in Procs : Sound(p)
  BY <1>1 DEF Init, AccessShort, Sound
<1> QED BY <1>2, <1>3 DEF TypeInv

\* Every variable has its type: in particular, no request ends up with a ttl below
\* zero, and only tokens that were signed are revoked.
THEOREM TokensTyped == Spec => []TypeOK
<1>1. TypeInv => TypeOK
  BY DEF TypeInv
<1> QED BY InitType, NextType, <1>1, PTL DEF Spec

-----------------------------------------------------------------------------
(* A key outlives its token. *)

LEMMA RevokeCovers ==
    ASSUME KeyInv, NEW t \in DOMAIN tokens, NEW ttl \in Nat, now + ttl >= tokens[t].exp,
           Revoke(t, ttl), UNCHANGED <<now, tokens>>
    PROVE  KeysCover'
<1>1. CASE ~redisUp
  BY <1>1 DEF Revoke, KeyInv, KeysCover
<1>2. CASE redisUp
  <2> DEFINE key == [jti |-> t, exp |-> now + ttl]
  <2>1. /\ blacklist' = {k \in blacklist : k.jti # t} \cup {key}
        /\ revoked' = revoked \cup {t} /\ key.jti = t /\ key.exp = now + ttl
    BY <1>2 DEF Revoke
  <2>2. ASSUME NEW u \in revoked', now' < tokens'[u].exp
        PROVE  \E k \in blacklist' : k.jti = u /\ k.exp >= tokens'[u].exp
    <3>1. CASE u = t
      <4>1. key \in blacklist' /\ key.jti = u /\ key.exp >= tokens'[u].exp
        BY <2>1, <3>1
      <4> QED BY <4>1
    <3>2. CASE u # t
      <4>1. PICK k \in blacklist : k.jti = u /\ k.exp >= tokens[u].exp
        BY <2>1, <2>2, <3>2 DEF KeyInv, KeysCover
      <4>2. k \in blacklist'
        BY <2>1, <3>2, <4>1
      <4> QED BY <4>1, <4>2
    <3> QED BY <3>1, <3>2
  <2> QED BY <2>2 DEF KeysCover
<1> QED BY <1>1, <1>2

LEMMA CoversKept ==
    ASSUME KeyInv, UNCHANGED <<now, blacklist, revoked>>, TokensKept
    PROVE  KeysCover'
<1>1. revoked \subseteq DOMAIN tokens
  BY DEF KeyInv, TypeInv, TypeOK
<1> QED BY <1>1 DEF KeyInv, KeysCover, TokensKept

LEMMA KeyStep ==
    ASSUME KeyInv, AccessTTL <= LogoutTTL, ~LoseKeys, [Next]_vars
    PROVE  KeyInv'
<1>0. /\ TypeInv /\ TypeInv' /\ TypeOK /\ now \in Nat
      /\ AccessTTL \in Nat /\ LogoutTTL \in Nat
  BY NextType, TTLAssumption DEF KeyInv, TypeInv, TypeOK
<1>1. ASSUME NEW p \in Procs, RevokeOld(p) PROVE KeysCover'
  <2>1. pc[p] = "revokeOld" /\ req[p] \in Requests
    BY <1>0, <1>1 DEF RevokeOld, Go, TypeOK
  <2>2. /\ req[p].token \in DOMAIN tokens /\ req[p].ttl \in Nat
        /\ now + req[p].ttl >= tokens[req[p].token].exp
    BY <1>0, <2>1 DEF TypeInv, Sound, Requests
  <2> QED BY <1>1, <2>2, RevokeCovers DEF RevokeOld
<1>2. ASSUME NEW p \in Procs, RevokeAccess(p) PROVE KeysCover'
  <2>1. pc[p] = "revokeAccess"
    BY <1>2 DEF RevokeAccess
  <2>2. req[p].token \in DOMAIN tokens /\ tokens[req[p].token].kind = "access"
    BY <1>0, <2>1 DEF TypeInv, Sound
  <2>3. tokens[req[p].token].exp \in Nat /\ tokens[req[p].token].exp <= now + AccessTTL
    BY <1>0, <2>2, ClaimsType DEF TypeInv, AccessShort
  <2>4. now + LogoutTTL >= tokens[req[p].token].exp
    BY <1>0, <2>3
  <2> QED BY <1>0, <1>2, <2>2, <2>4, RevokeCovers DEF RevokeAccess
<1>3. ASSUME NEW p \in Procs, RevokeRefresh(p) PROVE KeysCover'
  <2>1. pc[p] = "revokeRefresh" /\ req[p] \in Requests
    BY <1>0, <1>3 DEF RevokeRefresh, Finish, Go, TypeOK
  <2>2. /\ req[p].pair \in DOMAIN tokens /\ req[p].ttl \in Nat
        /\ now + req[p].ttl >= tokens[req[p].pair].exp
    BY <1>0, <2>1 DEF TypeInv, Sound, Requests
  <2> QED BY <1>3, <2>2, RevokeCovers DEF RevokeRefresh
<1>4. ASSUME UNCHANGED <<now, blacklist, revoked, tokens>> PROVE KeysCover'
  <2>1. TokensKept
    BY <1>0, <1>4 DEF TypeOK, TokensKept
  <2> QED BY <1>4, <2>1, CoversKept
<1>5. ASSUME Login \/ \E p \in Procs : IssuePair(p) PROVE KeysCover'
  BY <1>0, <1>5, LoginStep, IssuePairStep, CoversKept DEF Login, IssuePair, redisVars
<1>6. ASSUME Tick PROVE KeysCover'
  <2>1. ASSUME NEW t \in revoked', now' < tokens'[t].exp
        PROVE  \E k \in blacklist' : k.jti = t /\ k.exp >= tokens'[t].exp
    <3>1. t \in revoked /\ t \in DOMAIN tokens /\ tokens' = tokens /\ now' = now + 1
      BY <1>0, <1>6, <2>1 DEF Tick, TypeOK
    <3>2. tokens[t].exp \in Nat /\ now < tokens[t].exp
      BY <1>0, <2>1, <3>1, ClaimsType
    <3>3. PICK k \in blacklist : k.jti = t /\ k.exp >= tokens[t].exp
      BY <3>1, <3>2 DEF KeyInv, KeysCover
    <3>4. k.exp \in Nat
      BY <1>0 DEF TypeOK
    <3>5. k \in blacklist'
      BY <1>0, <1>6, <2>1, <3>1, <3>2, <3>3, <3>4 DEF Tick
    <3> QED BY <3>1, <3>3, <3>5
  <2> QED BY <2>1 DEF KeysCover
<1>7. KeysCover'
  <2>1. ASSUME NEW p \in Procs, Start(p) \/ CheckRevoked(p) \/ Serve(p) \/ Abort(p)
        PROVE  KeysCover'
    BY <1>4, <2>1 DEF Start, StartUse, StartRefresh, StartLogout, Arrive, CheckRevoked, Serve,
                      Abort, redisVars
  <2>2. ASSUME NEW p \in Procs, RequestStep(p) PROVE KeysCover'
    BY <1>1, <1>2, <1>3, <1>5, <2>1, <2>2 DEF RequestStep, RefreshStep, LogoutStep
  <2>3. CASE SwitchRedis \/ UNCHANGED vars
    BY <1>4, <2>3 DEF SwitchRedis, vars
  <2> QED BY <1>5, <1>6, <2>1, <2>2, <2>3 DEF Next, Quiet
<1> QED BY <1>0, <1>7 DEF KeyInv

LEMMA KeyInit == Init => KeyInv
<1>1. Init => KeysCover
  BY DEF Init, KeysCover
<1> QED BY <1>1, InitType DEF KeyInv

\* Losses are only ever counted up.
LEMMA LossesCounted ==
    ASSUME TypeOK, [Next]_vars, Kept'
    PROVE  Kept /\ ~LoseKeys
<1>1. /\ used.losses \in Nat
      /\ used \in [logins : Nat, requests : Nat, outages : Nat, losses : Nat, aborts : Nat]
  BY DEF TypeOK
<1>2. ~LoseKeys
  <2>1. LoseKeys => used'.losses = used.losses + 1
    BY <1>1 DEF LoseKeys
  <2> QED BY <1>1, <2>1 DEF Kept
<1>3. used'.losses = used.losses
  BY <1>1, <1>2 DEF Next, Start, StartUse, StartRefresh, StartLogout, Arrive, RequestStep,
       CheckRevoked, Serve, RefreshStep, RevokeOld, IssuePair, LogoutStep, RevokeAccess,
       RevokeRefresh, Abort, Login, Tick, SwitchRedis, Quiet, vars
<1> QED BY <1>2, <1>3 DEF Kept

\* As long as the 24h of Logout are no shorter than the life of an access token,
\* the key of a revoked token outlives the token until Redis loses a key: for any
\* number of concurrent requests and through any outage of Redis.  AccessShort
\* carries the argument for Logout, Sound the one for the keys of refresh tokens.
THEOREM KeysOutliveTokens ==
    ASSUME AccessTTL <= LogoutTTL
    PROVE  Spec => []KeyOutlivesToken
<1> DEFINE Inv == TypeInv /\ (Kept => KeyInv)
<1>1. Init => Inv
  BY KeyInit, InitType
<1>2. Inv /\ [Next]_vars => Inv'
  <2> SUFFICES ASSUME Inv, [Next]_vars PROVE Inv'
    OBVIOUS
  <2>1. TypeInv' /\ TypeOK
    BY NextType DEF TypeInv
  <2>2. ASSUME Kept' PROVE KeyInv'
    BY <2>1, <2>2, LossesCounted, KeyStep
  <2> QED BY <2>1, <2>2
<1>3. Inv => KeyOutlivesToken
  BY DEF KeyInv, KeyOutlivesToken
<1> QED BY <1>1, <1>2, <1>3, PTL DEF Spec

-----------------------------------------------------------------------------
(* A revoked token is refused. *)

\* A request whose token was revoked when it arrived; once it is past the
\* blacklist without an error, its token has expired in the meantime.
Stale(p) ==
    pc[p] # "idle" /\ req[p].stale =>
        /\ req[p].token \in revoked
        /\ pc[p] \in Passed /\ ~req[p].blind => tokens[req[p].token].exp <= now

RefuseInv == KeyInv /\ \A p \in Procs : Stale(p)

LEMMA StaleFrame ==
    ASSUME TypeOK, TokensKept, now' = now \/ now' = now + 1, revoked \subseteq revoked',
           NEW p \in Procs, Stale(p), pc'[p] = pc[p], req'[p] = req[p]
    PROVE  Stale(p)'
<1>1. now \in Nat /\ revoked \subseteq DOMAIN tokens
  BY DEF TypeOK
<1>2. \A t \in DOMAIN tokens : tokens'[t] = tokens[t] /\ tokens[t].exp \in Nat
  BY ClaimsType DEF TokensKept
<1> QED BY <1>1, <1>2 DEF Stale

\* The moves of one request.  IsRevoked reads the blacklist while the key of a
\* revoked token is in it, so a stale request passes only once the token is over.
LEMMA StaleStep ==
    ASSUME RefuseInv, NEW p \in Procs, Start(p) \/ RequestStep(p) \/ Abort(p), TokensKept,
           now' = now, revoked \subseteq revoked'
    PROVE  Stale(p)'
<1> USE DEF RefuseInv, KeyInv
<1>1. TypeInv /\ TypeOK /\ now \in Nat /\ req[p] \in Requests /\ revoked \subseteq DOMAIN tokens
  BY DEF TypeInv, TypeOK
<1>2. \A t \in DOMAIN tokens : tokens'[t] = tokens[t] /\ tokens[t].exp \in Nat
  BY <1>1, ClaimsType DEF TokensKept
<1>3. CASE pc'[p] = "idle"
  BY <1>3 DEF Stale
<1>4. CASE Start(p)
  <2>1. \E call \in {"use", "refresh", "logout"}, kind \in Kinds, pairs \in SUBSET Nat :
            Arrive(p, call, kind, pairs)
    <3>1. DOMAIN tokens \subseteq Nat
      BY <1>1, ClaimsType
    <3> QED BY <1>4, <3>1 DEF Start, StartUse, StartRefresh, StartLogout, Kinds
  <2>2. PICK call \in {"use", "refresh", "logout"}, t \in DOMAIN tokens, pair \in Nat :
          Go(p, "idle", "check", [IdleReq EXCEPT !.call = call, !.token = t, !.pair = pair,
                                                 !.stale = t \in revoked])
    BY <2>1 DEF Arrive
  <2> DEFINE stale == t \in revoked
             r == [IdleReq EXCEPT !.call = call, !.token = t, !.pair = pair, !.stale = stale]
  <2>3. pc'[p] = "check" /\ req'[p] = r
    BY <1>1, <2>2 DEF Go, TypeOK
  <2>4. r.token = t /\ r.stale = stale
    BY DEF IdleReq
  <2> QED BY <2>3, <2>4 DEF Stale, Passed
<1>5. CASE CheckRevoked(p) /\ pc'[p] # "idle"
  <2> DEFINE t == req[p].token
  <2>1. ~IsRevoked(t) /\ pc[p] = "check"
    BY <1>1, <1>5 DEF CheckRevoked, Finish, Go, TypeOK
  <2> DEFINE blind == ~redisUp
             r == [req[p] EXCEPT !.blind = blind]
  <2>2. req'[p].token = t /\ req'[p].stale = req[p].stale /\ (req'[p].blind <=> ~redisUp)
    <3>1. req'[p] = r \/ req'[p] = [r EXCEPT !.ttl = Left(t)]
      BY <1>1, <1>5 DEF CheckRevoked, Finish, Go, TypeOK
    <3> HIDE DEF blind
    <3>2. req'[p].token = t /\ req'[p].stale = req[p].stale /\ req'[p].blind = blind
      BY <1>1, <3>1 DEF Requests
    <3> QED BY <3>2 DEF blind
  <2>3. t \in revoked /\ redisUp => tokens[t].exp <= now
    BY <1>1, <1>2, <2>1 DEF IsRevoked, KeysCover
  <2> QED BY <1>1, <1>2, <2>1, <2>2, <2>3 DEF Stale
<1>6. CASE (Serve(p) \/ RefreshStep(p) \/ LogoutStep(p) \/ Abort(p)) /\ pc'[p] # "idle"
  <2>1. /\ pc[p] \in Passed
        /\ req'[p] = [req[p] EXCEPT !.ttl = 0] \/ \E n : req'[p] = [req[p] EXCEPT !.ttl = n]
    BY <1>1, <1>6 DEF Serve, RefreshStep, RevokeOld, IssuePair, LogoutStep, RevokeAccess,
                      RevokeRefresh, Abort, Finish, Go, TypeOK, Passed
  <2>2. req'[p].token = req[p].token /\ req'[p].stale = req[p].stale
        /\ req'[p].blind = req[p].blind
    BY <1>1, <2>1 DEF Requests
  <2> QED BY <1>1, <1>2, <2>1, <2>2 DEF Stale, Passed
<1> QED BY <1>3, <1>4, <1>5, <1>6 DEF RequestStep

LEMMA RefuseStep ==
    ASSUME RefuseInv, AccessTTL <= LogoutTTL, ~LoseKeys, [Next]_vars
    PROVE  RefuseInv'
<1> USE DEF RefuseInv
<1>1. KeyInv'
  BY KeyStep
<1>2. TypeInv /\ TypeOK /\ TypeOK'
  BY <1>1 DEF KeyInv, TypeInv
<1>3. ~LoseKeys
  OBVIOUS
<1>5. revoked \subseteq revoked'
  BY <1>3 DEF Next, Start, StartUse, StartRefresh, StartLogout, Arrive, RequestStep,
       CheckRevoked, Serve, RefreshStep, RevokeOld, IssuePair, LogoutStep, RevokeAccess,
       RevokeRefresh, Abort, Login, Tick, SwitchRedis, Quiet, vars, redisVars, Revoke
<1>6. TokensKept
  <2>1. CASE Login \/ \E p \in Procs : IssuePair(p)
    BY <1>2, <2>1, LoginStep, IssuePairStep
  <2>2. CASE tokens' = tokens
    BY <1>2, <2>2 DEF TypeOK, TokensKept
  <2>3. tokens' = tokens \/ Login \/ \E p \in Procs : IssuePair(p)
    BY <1>3 DEF Next, Start, StartUse, StartRefresh, StartLogout, Arrive, RequestStep,
         CheckRevoked, Serve, RefreshStep, RevokeOld, LogoutStep, RevokeAccess,
         RevokeRefresh, Abort, Tick, SwitchRedis, Quiet, vars
  <2> QED BY <2>1, <2>2, <2>3
<1>7. \A p \in Procs : Stale(p)'
  <2>1. ASSUME NEW q \in Procs, Start(q) \/ RequestStep(q) \/ Abort(q)
        PROVE  \A p \in Procs : Stale(p)'
    <3>1. now' = now
      BY <2>1 DEF Start, StartUse, StartRefresh, StartLogout, Arrive, RequestStep,
           CheckRevoked, Serve, RefreshStep, RevokeOld, IssuePair, LogoutStep, RevokeAccess,
           RevokeRefresh, Abort
    <3>2. \A p \in Procs \ {q} : pc'[p] = pc[p] /\ req'[p] = req[p]
      BY <1>2, <2>1 DEF Start, StartUse, StartRefresh, StartLogout, Arrive, RequestStep,
           CheckRevoked, Serve, RefreshStep, RevokeOld, IssuePair, LogoutStep, RevokeAccess,
           RevokeRefresh, Abort, Finish, Go, TypeOK
    <3>3. Stale(q)'
      BY <1>5, <1>6, <2>1, <3>1, StaleStep
    <3> QED BY <1>2, <1>5, <1>6, <3>1, <3>2, <3>3, StaleFrame
  <2>2. CASE Login \/ Tick \/ SwitchRedis \/ UNCHANGED vars
    <3>1. UNCHANGED <<pc, req>> /\ (now' = now \/ now' = now + 1)
      BY <2>2 DEF Login, Tick, SwitchRedis, vars
    <3> QED BY <1>2, <1>5, <1>6, <3>1, StaleFrame
  <2> QED BY <1>3, <2>1, <2>2 DEF Next, Quiet
<1> QED BY <1>1, <1>7

\* With a Redis that keeps its keys, a token revoked before a request arrived gets
\* that request past the blacklist only if it expired meanwhile, or if the check
\* met an error: for any number of concurrent requests, any that stop half way and
\* any outages.
THEOREM RevokedAreRefused ==
    ASSUME AccessTTL <= LogoutTTL
    PROVE  Spec => []RevokedRefused
<1> DEFINE Inv == TypeInv /\ (Kept => RefuseInv)
<1>1. Init => Inv
  <2>1. Init => \A p \in Procs : Stale(p)
    BY DEF Init, Stale
  <2> QED BY <2>1, KeyInit, InitType DEF RefuseInv
<1>2. Inv /\ [Next]_vars => Inv'
  <2> SUFFICES ASSUME Inv, [Next]_vars PROVE Inv'
    OBVIOUS
  <2>1. TypeInv' /\ TypeOK
    BY NextType DEF TypeInv
  <2>2. ASSUME Kept' PROVE RefuseInv'
    BY <2>1, <2>2, LossesCounted, RefuseStep
  <2> QED BY <2>1, <2>2
<1>3. Inv => RevokedRefused
  BY DEF RefuseInv, Stale, RevokedRefused, Passed
<1> QED BY <1>1, <1>2, <1>3, PTL DEF Spec
=============================================================================
