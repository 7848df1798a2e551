-------------------------- MODULE RateLimitProofs --------------------------
(* The quotas of the rate limiters: TLAPS proofs. *)
EXTENDS RateLimit, FiniteSetTheorems, TLAPS

Full == Burst * Token

LEMMA Products ==
    /\ Full \in Nat /\ Full >= Token
    /\ \A x \in Nat : Rate * x \in Nat
    /\ \A x, y \in Int : Rate * (x - y) \in Int
    /\ \A x, y, z \in Int : Rate * (x - z) = Rate * (x - y) + Rate * (y - z)
    /\ \A x, y \in Int : x <= y => Rate * (y - x) >= 0
<1> USE QuotaAssumption
<1>1. Full \in Nat /\ Full >= Token
  BY DEF Full
<1>2. \A x \in Nat : Rate * x \in Nat
  OBVIOUS
<1>3. \A x, y \in Int : Rate * (x - y) \in Int
  OBVIOUS
<1>4. \A x, y, z \in Int : Rate * (x - z) = Rate * (x - y) + Rate * (y - z)
  OBVIOUS
<1>5. \A x, y \in Int : x <= y => Rate * (y - x) >= 0
  OBVIOUS
<1> QED BY <1>1, <1>2, <1>3, <1>4, <1>5

\* The time in which a bucket gets a token, and the one in which it is filled.
LEMMA Quotients ==
    /\ SlidingLimit \in Nat
    /\ LET q == (Token + Rate - 1) \div Rate IN q \in Nat /\ q >= 1 /\ Rate * q >= Token
    /\ LET q == Full \div Rate IN q \in Nat /\ Rate * (q + 1) > Full
<1> USE QuotaAssumption
<1>1. SlidingLimit \in Nat
  <2>1. ASSUME NEW a \in Nat, NEW b \in Nat \ {0} PROVE a \div b \in Nat
    OBVIOUS
  <2>2. 3 * Rate * Second \in Nat /\ 2 * Token \in Nat \ {0}
    OBVIOUS
  <2> QED BY <2>1, <2>2 DEF SlidingLimit
<1>2. ASSUME NEW a \in Nat
      PROVE  /\ a \div Rate \in Nat /\ Rate * (a \div Rate) <= a
             /\ Rate * ((a \div Rate) + 1) > a
  OBVIOUS
<1>3. LET q == (Token + Rate - 1) \div Rate IN q \in Nat /\ q >= 1 /\ Rate * q >= Token
  <2> DEFINE a == Token + Rate - 1
             q == a \div Rate
  <2>1. a \in Nat
    OBVIOUS
  <2>2. q \in Nat /\ Rate * (q + 1) > a
    BY <1>2, <2>1
  <2>3. Rate * (q + 1) = Rate * q + Rate
    BY <2>2
  <2>4. Rate * q >= Token
    BY <2>2, <2>3
  <2>5. q >= 1
    BY <2>2, <2>4
  <2> QED BY <2>2, <2>4, <2>5
<1>4. LET q == Full \div Rate IN q \in Nat /\ Rate * (q + 1) > Full
  BY <1>2, Products
<1> QED BY <1>1, <1>3, <1>4

-----------------------------------------------------------------------------
(* Types. *)

\* A request under way is in one of the pipelines of its limiter; the sliding window
\* reads the clock in the tick in which the pipeline runs.
Working(p) ==
    /\ Shared
    /\ conf.fixed => pc[p] \in {"incr", "renew"}
    /\ ~conf.fixed => pc[p] \in {"trim", "card", "add"} /\ req[p].at = now
    /\ req[p].client \in Clients /\ req[p].id \in 1..used.requests /\ req[p].at <= now

Requested ==
    /\ \A p \in Procs : IF pc[p] = "idle" THEN req[p] = NoReq ELSE Working(p)
    /\ \A v \in verdicts : v.id \in 1..used.requests /\ v.at <= now

\* No entry is from the future, and no bucket there is is overdrawn.
Entered ==
    /\ members \in [Clients -> SUBSET [id : Nat, at : Nat]]
    /\ \A c \in Clients : IsFiniteSet(members[c])
    /\ \A i \in Instances, c \in Clients :
          /\ window[i][c].start <= now
          /\ bucket[i][c] # NoBucket => bucket[i][c].tokens >= 0 /\ bucket[i][c].at <= now

Sound ==
    /\ TypeOK /\ Validate(conf) /\ IsFiniteSet(verdicts)
    /\ Requested /\ Entered
    /\ used.outages = 0 => redisUp

LEMMA SpanType == conf \in Configs => Span \in Nat /\ Span >= 1
BY QuotaAssumption, Quotients DEF Span, Configs

LEMMA InitSound == Init => Sound
<1> SUFFICES ASSUME Init PROVE Sound
  OBVIOUS
<1> USE DEF Init
<1>1. conf \in Configs /\ Span \in Nat
  BY SpanType
<1>2. TypeOK
  <2>1. /\ NoEntry \in [n : Nat, start : Nat] /\ NoKey \in [n : Nat, exp : Nat]
        /\ NoReq \in Requests /\ NoBucket \in Tokened
    BY Products DEF NoEntry, NoBucket, NoKey, NoReq, Tokened, Requests, Full
  <2>2. conf \in Configs /\ -Span \in Int
    BY <1>1
  <2> QED BY <2>1, <2>2 DEF TypeOK
<1>3. Requested
  BY DEF Requested
<1>4. Entered
  BY FS_EmptySet DEF Entered, NoEntry, NoBucket
<1> QED BY <1>2, <1>3, <1>4, FS_EmptySet DEF Sound

\* The tokens of an entry lie between none and a full bucket.
LEMMA TokensType ==
    ASSUME Sound, NEW i \in Instances, NEW c \in Clients
    PROVE  /\ Tokens(bucket[i][c]) \in 0..Full
           /\ Spend(Tokens(bucket[i][c])) \in 0..Full
<1> DEFINE b == bucket[i][c]
<1>1. b \in Tokened /\ now \in Nat
  BY DEF Sound, TypeOK
<1>2. CASE b = NoBucket
  BY <1>2, Products, QuotaAssumption DEF Tokens, Spend, Full
<1>3. CASE b # NoBucket
  <2>1. b.tokens \in Nat /\ b.at \in Nat /\ b.at <= now
    BY <1>1, <1>3 DEF Sound, Entered, Tokened
  <2>2. Rate * (now - b.at) \in Nat
    BY <1>1, <2>1, Products
  <2> QED BY <2>1, <2>2, Products, QuotaAssumption DEF Tokens, Spend, Full
<1> QED BY <1>2, <1>3

\* What a verdict adds.
LEMMA VerdictSound ==
    ASSUME Sound, NEW r, r.id \in Nat, r.client \in Clients, r.at \in Nat, r.quiet \in BOOLEAN,
           r.id \in 1..used'.requests, r.at <= now', now' >= now, now' \in Int,
           used'.requests >= used.requests, used'.requests \in Nat,
           NEW pass \in BOOLEAN, Verdict(r, pass)
    PROVE  /\ verdicts' \subseteq Answers /\ IsFiniteSet(verdicts')
           /\ \A v \in verdicts' : v.id \in 1..used'.requests /\ v.at <= now'
<1> DEFINE new == [id |-> r.id, client |-> r.client, at |-> r.at, pass |-> pass,
                   quiet |-> r.quiet]
<1>1. verdicts' = verdicts \cup {new} /\ new \in Answers
  BY DEF Verdict, Answers
<1>2. verdicts' \subseteq Answers /\ IsFiniteSet(verdicts')
  BY <1>1, FS_AddElement DEF Sound, TypeOK
<1>3. ASSUME NEW v \in verdicts
      PROVE  v.id \in 1..used'.requests /\ v.at <= now'
  <2>1. v.id \in 1..used.requests /\ v.at <= now /\ v \in Answers /\ used.requests \in Nat
        /\ now \in Nat
    BY DEF Sound, Requested, TypeOK
  <2>2. v.at \in Nat
    BY <2>1 DEF Answers
  <2> QED BY <2>1, <2>2
<1> QED BY <1>1, <1>2, <1>3

LEMMA NewRequestType ==
    ASSUME Sound, NEW c \in Clients, Received(c)
    PROVE  /\ NewRequest(c) \in Requests
           /\ NewRequest(c).id = used.requests + 1 /\ NewRequest(c).client = c
           /\ NewRequest(c).at = now /\ NewRequest(c).n = 0
           /\ used' = [used EXCEPT !.requests = used.requests + 1]
           /\ used'.requests = used.requests + 1 /\ used.requests \in Nat
           /\ used'.outages = used.outages
           /\ used' \in [requests : Nat, outages : Nat]
BY DEF Sound, TypeOK, NewRequest, Requests, Received

LEMMA AllowWindowSound ==
    ASSUME Sound, NEW c \in Clients, NEW i \in Instances, AllowInMemory(c, i), conf.fixed,
           AllowWindow(c, i)
    PROVE  Sound'
<1> DEFINE r == NewRequest(c)
           e == window[i][c]
<1>1. /\ Received(c) /\ last' = [last EXCEPT ![c] = now] /\ ~Shared
      /\ UNCHANGED <<now, conf, counter, members, redisUp, cleared, pc, req, bucket>>
  BY DEF AllowInMemory, AllowWindow
<1>2. /\ r \in Requests /\ r.id = used.requests + 1 /\ r.client = c /\ r.at = now
      /\ used'.requests = used.requests + 1 /\ used.requests \in Nat
      /\ used'.outages = used.outages /\ used' \in [requests : Nat, outages : Nat]
  BY <1>1, NewRequestType
<1>3. now \in Nat /\ e \in [n : Nat, start : Nat]
  BY DEF Sound, TypeOK
<1>4. \E pass \in BOOLEAN : Verdict(r, pass)
  BY DEF AllowWindow
<1>5. /\ verdicts' \subseteq Answers /\ IsFiniteSet(verdicts')
      /\ \A v \in verdicts' : v.id \in 1..used'.requests /\ v.at <= now'
  BY <1>1, <1>2, <1>3, <1>4, VerdictSound DEF Requests
<1>6. PICK new \in [n : Nat, start : Nat] :
         window' = [window EXCEPT ![i][c] = new] /\ new.start <= now
  <2> DEFINE fresh == e.n = 0 \/ now - e.start >= Window
             new == IF fresh THEN [n |-> 1, start |-> now] ELSE [e EXCEPT !.n = @ + 1]
  <2>1. window' = [window EXCEPT ![i][c] = new]
    BY DEF AllowWindow
  <2>2. new \in [n : Nat, start : Nat] /\ new.start <= now
    BY <1>3 DEF Sound, Entered
  <2> QED BY <2>1, <2>2
<1>7. TypeOK'
  BY <1>1, <1>2, <1>5, <1>6 DEF Sound, TypeOK
<1>8. Requested'
  BY <1>1, <1>5 DEF Sound, Requested, Working, Shared
<1>9. Entered'
  BY <1>1, <1>6 DEF Sound, Entered, TypeOK
<1> QED BY <1>1, <1>2, <1>5, <1>7, <1>8, <1>9 DEF Sound

LEMMA AllowBucketSound ==
    ASSUME Sound, NEW c \in Clients, NEW i \in Instances, AllowInMemory(c, i),
           AllowBucket(c, i)
    PROVE  Sound'
<1> DEFINE r == NewRequest(c)
           tokens == Tokens(bucket[i][c])
           left == [tokens |-> Spend(tokens), at |-> now]
<1>1. /\ Received(c) /\ last' = [last EXCEPT ![c] = now] /\ ~Shared
      /\ UNCHANGED <<now, conf, counter, members, redisUp, cleared, pc, req, window>>
  BY DEF AllowInMemory, AllowBucket
<1>2. /\ r \in Requests /\ r.id = used.requests + 1 /\ r.client = c /\ r.at = now
      /\ used'.requests = used.requests + 1 /\ used.requests \in Nat
      /\ used'.outages = used.outages /\ used' \in [requests : Nat, outages : Nat]
  BY <1>1, NewRequestType
<1>3. now \in Nat
  BY DEF Sound, TypeOK
<1>4. \E pass \in BOOLEAN : Verdict(r, pass)
  <2>1. Verdict(r, tokens >= Token)
    BY DEF AllowBucket
  <2>2. (tokens >= Token) \in BOOLEAN
    OBVIOUS
  <2> QED BY <2>1, <2>2
<1>5. /\ verdicts' \subseteq Answers /\ IsFiniteSet(verdicts')
      /\ \A v \in verdicts' : v.id \in 1..used'.requests /\ v.at <= now'
  BY <1>1, <1>2, <1>3, <1>4, VerdictSound DEF Requests
<1>6. /\ left \in Tokened /\ left.tokens >= 0 /\ NoBucket \in Tokened
  BY <1>3, TokensType, Products DEF Tokened, Full, NoBucket
<1>7. /\ bucket' \in [Instances -> [Clients -> Tokened]]
      /\ \A j \in Instances, d \in Clients :
            bucket'[j][d] \in {bucket[j][d], left, NoBucket}
  <2> DEFINE entries == [bucket[i] EXCEPT ![c] = left]
  <2>1. bucket \in [Instances -> [Clients -> Tokened]]
    BY DEF Sound, TypeOK
  <2>2. entries \in [Clients -> Tokened]
    BY <1>6, <2>1
  <2>3. /\ Cleaned(entries) \in [Clients -> Tokened]
        /\ \A d \in Clients : Cleaned(entries)[d] \in {entries[d], NoBucket}
    BY <1>6, <2>2 DEF Cleaned
  <2>4. bucket' = [bucket EXCEPT ![i] = Cleaned(entries)]
    BY <2>1 DEF AllowBucket
  <2> QED BY <2>1, <2>3, <2>4
<1>8. TypeOK'
  BY <1>1, <1>2, <1>5, <1>7 DEF Sound, TypeOK
<1>9. Requested'
  BY <1>1, <1>5 DEF Sound, Requested, Working, Shared
<1>10. Entered'
  BY <1>1, <1>3, <1>6, <1>7 DEF Sound, Entered
<1> QED BY <1>1, <1>2, <1>5, <1>8, <1>9, <1>10 DEF Sound

LEMMA StartSharedSound ==
    ASSUME Sound, NEW p \in Procs, NEW c \in Clients, StartShared(p, c)
    PROVE  Sound'
<1> DEFINE r == NewRequest(c)
           new == [q \in Procs |-> IF q = p THEN r
                                   ELSE [req[q] EXCEPT !.quiet = @ /\ req[q].client # c]]
<1>1. /\ Received(c) /\ Shared /\ pc[p] = "idle"
      /\ pc' = [pc EXCEPT ![p] = IF conf.fixed THEN "incr" ELSE "trim"] /\ req' = new
      /\ UNCHANGED <<now, conf, stores, redisUp, cleared, last, verdicts>>
  BY DEF StartShared
<1>2. /\ r \in Requests /\ r.id = used.requests + 1 /\ r.client = c /\ r.at = now
      /\ used'.requests = used.requests + 1 /\ used.requests \in Nat
      /\ used'.outages = used.outages /\ used' \in [requests : Nat, outages : Nat]
  BY <1>1, NewRequestType
<1>3. ASSUME NEW q \in Procs, q # p
      PROVE  /\ req'[q] \in Requests /\ req'[q].client = req[q].client /\ pc'[q] = pc[q]
             /\ req'[q].id = req[q].id /\ req'[q].at = req[q].at
             /\ req[q] = NoReq => req'[q] = NoReq
  <2>1. req[q] \in Requests /\ pc' = [pc EXCEPT ![p] = pc'[p]] /\ pc \in [Procs -> {"idle",
          "incr", "renew", "trim", "card", "add"}]
    BY <1>1 DEF Sound, TypeOK
  <2>2. req'[q] = [req[q] EXCEPT !.quiet = @ /\ req[q].client # c]
    BY <1>1, <1>3
  <2> DEFINE quiet == req[q].quiet /\ req[q].client # c
  <2>3. quiet \in BOOLEAN /\ (req[q].quiet = FALSE => quiet = FALSE)
    OBVIOUS
  <2>4. req'[q] = [req[q] EXCEPT !.quiet = quiet]
    BY <2>2
  <2> HIDE DEF quiet
  <2>5. req'[q] \in Requests /\ req'[q].client = req[q].client /\ req'[q].id = req[q].id
        /\ req'[q].at = req[q].at
    BY <2>1, <2>3, <2>4 DEF Requests
  <2>6. req[q] = NoReq => req'[q] = NoReq
    <3>1. [req[q] EXCEPT !.quiet = req[q].quiet] = req[q]
      BY <2>1 DEF Requests
    <3>2. req[q] = NoReq => req[q].quiet = FALSE
      BY DEF NoReq
    <3>3. req[q] = NoReq => quiet = req[q].quiet
      BY <2>3, <3>2
    <3> QED BY <2>4, <3>1, <3>3
  <2> QED BY <1>3, <2>1, <2>5, <2>6
<1>4. pc'[p] = (IF conf.fixed THEN "incr" ELSE "trim") /\ req'[p] = r
  BY <1>1 DEF Sound, TypeOK
<1>5. TypeOK'
  <2>1. req' \in [Procs -> Requests]
    <3>1. \A q \in Procs : req'[q] \in Requests
      BY <1>2, <1>3, <1>4
    <3> QED BY <1>1, <3>1
  <2>2. pc' \in [Procs -> {"idle", "incr", "renew", "trim", "card", "add"}]
    BY <1>1 DEF Sound, TypeOK
  <2> QED BY <1>1, <1>2, <2>1, <2>2 DEF Sound, TypeOK, stores
<1>6. Requested'
  <2>1. ASSUME NEW q \in Procs
        PROVE  (IF pc[q] = "idle" THEN req[q] = NoReq ELSE Working(q))'
    <3>1. CASE q = p
      BY <1>1, <1>2, <1>4, <3>1 DEF Working, Shared, Sound, TypeOK
    <3>2. CASE q # p
      BY <1>1, <1>2, <1>3, <3>2 DEF Sound, Requested, Working, Shared
    <3> QED BY <3>1, <3>2
  <2>2. \A v \in verdicts : v.id \in 1..used'.requests /\ v.at <= now
    BY <1>2 DEF Sound, Requested
  <2> QED BY <1>1, <2>1, <2>2 DEF Requested
<1>7. Entered'
  BY <1>1 DEF Sound, Entered, stores
<1> QED BY <1>1, <1>2, <1>5, <1>6, <1>7 DEF Sound

\* What every command of a pipeline does to the requests: the one of p goes on with its
\* client, its place and its time in the tick, or it is answered.
Moves(p, to, r) ==
    /\ Go(p, to, r)
    /\ \/ to = "idle" /\ r = NoReq
       \/ /\ to \in {"incr", "renew", "trim", "card", "add"} /\ r \in Requests
          /\ conf.fixed => to \in {"incr", "renew"}
          /\ ~conf.fixed => to \in {"trim", "card", "add"} /\ r.at = now
          /\ r.client = req[p].client /\ r.id = req[p].id /\ r.at <= now

LEMMA MovesRequested ==
    ASSUME Sound, NEW p \in Procs, pc[p] # "idle", NEW to, NEW r, Moves(p, to, r),
           UNCHANGED <<now, conf, used>>
    PROVE  /\ pc' \in [Procs -> {"idle", "incr", "renew", "trim", "card", "add"}]
           /\ req' \in [Procs -> Requests]
           /\ \A q \in Procs : (IF pc[q] = "idle" THEN req[q] = NoReq ELSE Working(q))'
<1>1. NoReq \in Requests
  BY DEF NoReq, Requests
<1>2. /\ pc \in [Procs -> {"idle", "incr", "renew", "trim", "card", "add"}]
      /\ req \in [Procs -> Requests] /\ Working(p)
  BY DEF Sound, TypeOK, Requested
<1>3. pc' = [pc EXCEPT ![p] = to] /\ req' = [req EXCEPT ![p] = r]
  BY DEF Moves, Go
<1>4. /\ pc' \in [Procs -> {"idle", "incr", "renew", "trim", "card", "add"}]
      /\ req' \in [Procs -> Requests]
  BY <1>1, <1>2, <1>3 DEF Moves
<1>5. ASSUME NEW q \in Procs
      PROVE  (IF pc[q] = "idle" THEN req[q] = NoReq ELSE Working(q))'
  <2>1. CASE q = p
    BY <1>2, <1>3, <2>1 DEF Moves, Working, Shared
  <2>2. CASE q # p
    BY <1>2, <1>3, <2>2 DEF Sound, Requested, Working, Shared
  <2> QED BY <2>1, <2>2
<1> QED BY <1>4, <1>5

LEMMA FailOpenMoves ==
    ASSUME Sound, NEW p \in Procs, pc[p] # "idle", FailOpen(p)
    PROVE  /\ Moves(p, "idle", NoReq) /\ UNCHANGED <<verdicts, stores>>
           /\ last' \in [Clients -> Int]
BY DEF FailOpen, Finish, Moves, Sound, TypeOK, Requested, Working

LEMMA SharedStepSound ==
    ASSUME Sound, NEW p \in Procs, SharedStep(p)
    PROVE  Sound'
<1> DEFINE r == req[p]
           c == r.client
<1>1. /\ UNCHANGED <<now, conf, redisUp, cleared, used>> /\ pc[p] # "idle"
      /\ pc[p] \in {"incr", "renew", "trim", "card", "add"}
  BY DEF SharedStep, Incr, Renew, Trim, Card, Add
<1>2. /\ r \in Requests /\ Working(p) /\ c \in Clients /\ now \in Nat
      /\ members \in [Clients -> SUBSET [id : Nat, at : Nat]] /\ IsFiniteSet(members[c])
      /\ counter \in [Clients -> [n : Nat, exp : Nat]] /\ r.at \in Nat /\ r.id \in Nat
      /\ r.n \in Nat /\ r.quiet \in BOOLEAN
  BY <1>1 DEF Sound, TypeOK, Requested, Entered, Working, Requests
<1>3. \E to, new : Moves(p, to, new)
  <2>1. CASE FailOpen(p)
    BY <1>1, <2>1, FailOpenMoves
  <2>2. CASE Incr(p) /\ ~FailOpen(p)
    <3> DEFINE n == counter[c].n + 1
    <3>1. Go(p, "renew", [r EXCEPT !.n = n, !.at = now]) /\ conf.fixed
      BY <1>2, <2>2 DEF Incr, Working
    <3>2. n \in Nat
      BY <1>2
    <3>3. [r EXCEPT !.n = n, !.at = now] \in Requests
      BY <1>2, <3>2 DEF Requests
    <3>4. Moves(p, "renew", [r EXCEPT !.n = n, !.at = now])
      BY <1>2, <3>1, <3>3 DEF Moves, Requests
    <3> QED BY <3>4
  <2>3. CASE Renew(p) /\ ~FailOpen(p)
    BY <2>3 DEF Renew, Finish, Moves
  <2>4. CASE Trim(p) /\ ~FailOpen(p)
    <3>1. Go(p, "card", r) /\ ~conf.fixed /\ r.at = now
      BY <1>2, <2>4 DEF Trim, Working
    <3>2. Moves(p, "card", r)
      BY <1>2, <3>1 DEF Moves
    <3> QED BY <3>2
  <2>5. CASE Card(p) /\ ~FailOpen(p)
    <3> DEFINE n == Cardinality(members[c])
    <3>1. Go(p, "add", [r EXCEPT !.n = n]) /\ ~conf.fixed /\ r.at = now
      BY <1>2, <2>5 DEF Card, Working
    <3>2. n \in Nat
      BY <1>2, FS_CardinalityType
    <3>3. [r EXCEPT !.n = n] \in Requests
      BY <1>2, <3>2 DEF Requests
    <3>4. Moves(p, "add", [r EXCEPT !.n = n])
      BY <1>2, <3>1, <3>3 DEF Moves, Requests
    <3> QED BY <3>4
  <2>6. CASE Add(p) /\ ~FailOpen(p)
    BY <2>6 DEF Add, Finish, Moves
  <2> QED BY <2>1, <2>2, <2>3, <2>4, <2>5, <2>6 DEF SharedStep
<1>4. /\ pc' \in [Procs -> {"idle", "incr", "renew", "trim", "card", "add"}]
      /\ req' \in [Procs -> Requests]
      /\ \A q \in Procs : (IF pc[q] = "idle" THEN req[q] = NoReq ELSE Working(q))'
  BY <1>1, <1>3, MovesRequested
<1>5. /\ verdicts' \subseteq Answers /\ IsFiniteSet(verdicts')
      /\ \A v \in verdicts' : v.id \in 1..used'.requests /\ v.at <= now'
  <2>1. CASE verdicts' = verdicts
    BY <1>1, <2>1 DEF Sound, Requested, TypeOK
  <2>2. CASE \E pass \in BOOLEAN : Verdict(r, pass)
    BY <1>1, <1>2, <2>2, VerdictSound DEF Working, Sound, TypeOK
  <2>3. Renew(p) /\ ~FailOpen(p) => Verdict(r, r.n <= Limit) /\ (r.n <= Limit) \in BOOLEAN
    BY DEF Renew
  <2>4. Add(p) /\ ~FailOpen(p) => Verdict(r, Within(r.n)) /\ Within(r.n) \in BOOLEAN
    BY DEF Add, Within
  <2>5. FailOpen(p) \/ Incr(p) \/ Trim(p) \/ Card(p) => verdicts' = verdicts
    BY DEF Incr, Trim, Card, FailOpen
  <2> QED BY <2>1, <2>2, <2>3, <2>4, <2>5 DEF SharedStep
<1>6. counter' \in [Clients -> [n : Nat, exp : Nat]]
  <2>1. CASE Incr(p) /\ ~FailOpen(p)
    BY <1>2, <2>1 DEF Incr
  <2>2. CASE Renew(p) /\ ~FailOpen(p)
    BY <1>2, <2>2, QuotaAssumption DEF Renew, Expire
  <2>3. CASE counter' = counter
    BY <1>2, <2>3
  <2> QED BY <2>1, <2>2, <2>3 DEF SharedStep, Incr, Renew, Trim, Card, Add, FailOpen, stores
<1>7. /\ members' \in [Clients -> SUBSET [id : Nat, at : Nat]]
      /\ \A d \in Clients : IsFiniteSet(members'[d])
  <2>1. CASE Trim(p) /\ ~FailOpen(p)
    <3> DEFINE kept == {m \in members[c] : m.at > r.at - Second}
    <3>1. members' = [members EXCEPT ![c] = kept]
      BY <1>2, <2>1 DEF Trim
    <3>2. kept \subseteq members[c] /\ IsFiniteSet(kept)
      BY <1>2, FS_Subset
    <3> QED BY <1>2, <3>1, <3>2 DEF Sound, Entered
  <2>2. CASE Add(p) /\ ~FailOpen(p)
    <3> DEFINE more == members[c] \cup {[id |-> r.id, at |-> r.at]}
    <3>1. members' = [members EXCEPT ![c] = more]
      BY <1>2, <2>2 DEF Add
    <3>2. more \subseteq [id : Nat, at : Nat] /\ IsFiniteSet(more)
      <4>1. /\ members[c] \subseteq [id : Nat, at : Nat]
            /\ [id |-> r.id, at |-> r.at] \in [id : Nat, at : Nat]
        BY <1>2
      <4> QED BY <1>2, <4>1, FS_AddElement
    <3> QED BY <1>2, <3>1, <3>2 DEF Sound, Entered
  <2>3. CASE members' = members
    BY <1>2, <2>3 DEF Sound, Entered
  <2> QED BY <2>1, <2>2, <2>3 DEF SharedStep, Incr, Renew, Trim, Card, Add, FailOpen, stores
<1>8. last' \in [Clients -> Int] /\ UNCHANGED <<window, bucket>>
  <2>1. last' = last \/ last' = [last EXCEPT ![c] = now]
    BY DEF SharedStep, Incr, Renew, Trim, Card, Add, FailOpen, Finish
  <2>2. UNCHANGED <<window, bucket>>
    BY DEF SharedStep, Incr, Renew, Trim, Card, Add, FailOpen, stores
  <2> QED BY <1>2, <2>1, <2>2 DEF Sound, TypeOK
<1>9. TypeOK'
  <2>1. \A d \in Clients : members'[d] \subseteq [id : Nat, at : Nat]
    BY <1>7
  <2> QED BY <1>1, <1>4, <1>5, <1>6, <1>8, <2>1 DEF Sound, TypeOK
<1>10. Requested'
  BY <1>4, <1>5 DEF Requested
<1>11. Entered'
  BY <1>1, <1>7, <1>8 DEF Sound, Entered
<1> QED BY <1>1, <1>5, <1>9, <1>10, <1>11 DEF Sound

\* What happens around the requests.
LEMMA EnvironmentSound ==
    ASSUME Sound, Clear \/ Tick \/ SwitchRedis \/ UNCHANGED vars
    PROVE  Sound'
<1>1. CASE Clear
  <2>1. NoBucket \in Tokened
    BY Products DEF NoBucket, Tokened, Full
  <2>2. TypeOK'
    BY <1>1, <2>1 DEF Clear, Sound, TypeOK
  <2>3. Requested' /\ Entered'
    BY <1>1 DEF Clear, Sound, Requested, Entered, Working, Shared
  <2> QED BY <1>1, <2>2, <2>3 DEF Clear, Sound
<1>2. CASE Tick
  <2>1. now' = now + 1 /\ now \in Nat /\ used' = used
    BY <1>2 DEF Tick, Sound, TypeOK
  <2>2. TypeOK'
    <3>1. counter' \in [Clients -> [n : Nat, exp : Nat]]
      BY <1>2 DEF Tick, Sound, TypeOK, NoKey
    <3> QED BY <1>2, <2>1, <3>1 DEF Tick, Sound, TypeOK
  <2>3. Requested'
    <3>1. ASSUME NEW p \in Procs
          PROVE  (IF pc[p] = "idle" THEN req[p] = NoReq ELSE Working(p))'
      BY <1>2, <2>1, <3>1 DEF Tick, Sound, Requested, Working, Shared, TypeOK, Requests
    <3>2. ASSUME NEW v \in verdicts
          PROVE  v.id \in 1..used.requests /\ v.at <= now + 1
      BY <2>1, <3>2 DEF Sound, Requested, TypeOK, Answers
    <3> QED BY <1>2, <2>1, <3>1, <3>2 DEF Tick, Requested
  <2>4. Entered'
    <3>1. ASSUME NEW i \in Instances, NEW c \in Clients
          PROVE  /\ window[i][c].start <= now + 1
                 /\ bucket[i][c] # NoBucket =>
                       bucket[i][c].tokens >= 0 /\ bucket[i][c].at <= now + 1
      BY <2>1, <3>1 DEF Sound, Entered, TypeOK, Tokened
    <3> QED BY <1>2, <2>1, <3>1 DEF Tick, Sound, Entered
  <2> QED BY <1>2, <2>1, <2>2, <2>3, <2>4 DEF Tick, Sound
<1>3. CASE SwitchRedis
  <2>1. /\ used' = [used EXCEPT !.outages = @ + 1] /\ redisUp' = ~redisUp
        /\ UNCHANGED <<now, conf, stores, cleared, pc, req, last, verdicts>>
    BY <1>3 DEF SwitchRedis
  <2>2. /\ used' \in [requests : Nat, outages : Nat] /\ used'.requests = used.requests
        /\ used'.outages # 0
    BY <2>1 DEF Sound, TypeOK
  <2>3. TypeOK'
    BY <2>1, <2>2 DEF Sound, TypeOK, stores
  <2>4. Requested'
    BY <2>1, <2>2 DEF Sound, Requested, Working, Shared
  <2>5. Entered'
    BY <2>1 DEF Sound, Entered, stores
  <2> QED BY <2>1, <2>2, <2>3, <2>4, <2>5 DEF Sound
<1>4. CASE UNCHANGED vars
  BY <1>4 DEF vars, Sound, TypeOK, Requested, Entered, Working, Shared
<1> QED BY <1>1, <1>2, <1>3, <1>4

LEMMA NextSound == Sound /\ [Next]_vars => Sound'
<1> SUFFICES ASSUME Sound, [Next]_vars PROVE Sound'
  OBVIOUS
<1>1. ASSUME NEW c \in Clients, NEW i \in Instances, AllowInMemory(c, i)
      PROVE  Sound'
  BY <1>1, AllowWindowSound, AllowBucketSound DEF AllowInMemory
<1>2. ASSUME NEW p \in Procs, SharedStep(p) \/ \E c \in Clients : StartShared(p, c)
      PROVE  Sound'
  BY <1>2, SharedStepSound, StartSharedSound
<1> QED BY <1>1, <1>2, EnvironmentSound DEF Next, Quiet

\* Every variable has its type, and no bucket is overdrawn or overfull.
THEOREM LimiterTyped == Spec => []TypeOK
<1>1. Sound => TypeOK
  BY DEF Sound
<1> QED BY <1>1, InitSound, NextSound, PTL DEF Spec

-----------------------------------------------------------------------------
(* Silence. *)

\* A request that came after silence is the only one of its client.
Alone(p) == req[p].quiet =>
    \A q \in Procs \ {p} : pc[q] # "idle" => req[q].client # req[p].client

\* What the limiters keep of a client is no younger than its last answer; a counter in
\* Redis expires a Window after it, or somebody is about to set its expiry.
Aged(c) ==
    /\ last[c] <= now
    /\ \A i \in Instances :
          /\ window[i][c].n # 0 => window[i][c].start <= last[c]
          /\ bucket[i][c] # NoBucket => bucket[i][c].at <= last[c]
    /\ \A m \in members[c] : m.at <= last[c]
    /\ counter[c].n # 0 =>
          \/ \E p \in Procs : pc[p] = "renew" /\ req[p].client = c
          \/ now < counter[c].exp /\ counter[c].exp <= last[c] + Window
    /\ counter[c].n = 0 => counter[c].exp = 0

\* What a request that came after silence finds at each of its steps.
Fresh(p) == req[p].quiet =>
    /\ pc[p] = "incr" => counter[req[p].client].n = 0
    /\ pc[p] = "renew" => req[p].n = 1
    /\ pc[p] = "trim" => last[req[p].client] <= now - Second
    /\ pc[p] = "card" => members[req[p].client] = {}
    /\ pc[p] = "add" => req[p].n = 0

SilenceInv ==
    used.outages = 0 =>
        /\ \A v \in verdicts : v.quiet => v.pass \/ RefusesAll
        /\ \A c \in Clients : Aged(c)
        /\ \A p \in Procs : Alone(p) /\ Fresh(p)

LEMMA InitSilence == Init => SilenceInv
<1> SUFFICES ASSUME Init PROVE SilenceInv
  OBVIOUS
<1> USE DEF Init
<1>1. conf \in Configs /\ Span \in Nat
  BY SpanType
<1>2. \A c \in Clients : Aged(c)
  BY <1>1 DEF Aged, NoEntry, NoBucket, NoKey
<1>3. \A p \in Procs : Alone(p) /\ Fresh(p)
  BY DEF Alone, Fresh, NoReq
<1> QED BY <1>2, <1>3 DEF SilenceInv

LEMMA RefusesKept ==
    ASSUME conf' = conf
    PROVE  RefusesAll' = RefusesAll
BY DEF RefusesAll, Shared

LEMMA QuietVerdict ==
    ASSUME NEW r, NEW pass, Verdict(r, pass), r.quiet => pass \/ RefusesAll, conf' = conf,
           \A v \in verdicts : v.quiet => v.pass \/ RefusesAll
    PROVE  \A v \in verdicts' : v.quiet => v.pass \/ RefusesAll'
<1> DEFINE new == [id |-> r.id, client |-> r.client, at |-> r.at, pass |-> pass,
                   quiet |-> r.quiet]
<1>1. verdicts' = verdicts \cup {new}
  BY DEF Verdict
<1>2. new.quiet = r.quiet /\ new.pass = pass
  OBVIOUS
<1>3. RefusesAll' = RefusesAll
  BY RefusesKept
<1> HIDE DEF new
<1> QED BY <1>1, <1>2, <1>3

\* In memory a client that kept silent for a Span meets a new window, or a token.
LEMMA SilenceInMemory ==
    ASSUME Sound, SilenceInv, NEW c \in Clients, NEW i \in Instances, AllowInMemory(c, i)
    PROVE  SilenceInv'
<1> SUFFICES ASSUME used.outages = 0 PROVE SilenceInv'
  BY DEF SilenceInv, AllowInMemory, Received, Sound, TypeOK
<1> DEFINE r == NewRequest(c)
           e == window[i][c]
           b == bucket[i][c]
           fresh == e.n = 0 \/ now - e.start >= Window
<1>1. /\ Received(c) /\ ~Shared /\ last' = [last EXCEPT ![c] = now]
      /\ UNCHANGED <<now, conf, counter, members, redisUp, cleared, pc, req>>
  BY DEF AllowInMemory
<1>2. /\ now \in Nat /\ last \in [Clients -> Int] /\ Aged(c) /\ conf \in Configs
      /\ e \in [n : Nat, start : Nat] /\ b \in Tokened
      /\ bucket \in [Instances -> [Clients -> Tokened]]
      /\ window \in [Instances -> [Clients -> [n : Nat, start : Nat]]]
      /\ r.quiet => now - last[c] >= Span
  BY DEF Sound, TypeOK, SilenceInv, NewRequest
<1>3. /\ \A v \in verdicts' : v.quiet => v.pass \/ RefusesAll'
      /\ \A j \in Instances, d \in Clients :
            /\ window'[j][d].n # 0 => window'[j][d].start <= last'[d]
            /\ bucket'[j][d] # NoBucket => bucket'[j][d].at <= last'[d]
  <2>1. CASE conf.fixed /\ AllowWindow(c, i)
    <3>1. r.quiet => fresh
      <4>1. SUFFICES ASSUME r.quiet, e.n # 0 PROVE now - e.start >= Window
        OBVIOUS
      <4>2. e.start <= last[c] /\ Span = Window /\ e.start \in Nat /\ last[c] \in Int
        BY <1>2, <2>1, <4>1 DEF Aged, Span
      <4>3. now - last[c] >= Window
        BY <1>2, <4>1, <4>2
      <4> QED BY <1>2, <4>2, <4>3, QuotaAssumption
    <3>2. Verdict(r, fresh \/ e.n + 1 <= Limit) /\ UNCHANGED bucket
      BY <2>1 DEF AllowWindow
    <3>3. \A v \in verdicts' : v.quiet => v.pass \/ RefusesAll'
      BY <1>1, <3>1, <3>2, QuietVerdict DEF SilenceInv
    <3>4. window' = [window EXCEPT ![i][c] =
                        IF fresh THEN [n |-> 1, start |-> now] ELSE [e EXCEPT !.n = @ + 1]]
      BY <2>1 DEF AllowWindow
    <3>5. window'[i][c].start <= now
      BY <1>2, <3>4 DEF Sound, Entered
    <3>6. ASSUME NEW j \in Instances, NEW d \in Clients, window'[j][d].n # 0
          PROVE  window'[j][d].start <= last'[d]
      <4>1. CASE j = i /\ d = c
        BY <1>1, <1>2, <3>5, <4>1
      <4>2. CASE ~(j = i /\ d = c)
        <5>1. window'[j][d] = window[j][d] /\ Aged(d)
          BY <1>2, <3>4, <4>2 DEF SilenceInv
        <5> QED BY <1>1, <1>2, <3>6, <5>1 DEF Aged, Sound, Entered
      <4> QED BY <4>1, <4>2
    <3>7. \A j \in Instances, d \in Clients :
             bucket'[j][d] # NoBucket => bucket'[j][d].at <= last'[d]
      BY <1>1, <1>2, <3>2 DEF SilenceInv, Aged, Sound, Entered
    <3> QED BY <3>3, <3>6, <3>7
  <2>2. CASE ~conf.fixed /\ AllowBucket(c, i)
    <3>1. r.quiet => Tokens(b) >= Token
      <4>1. CASE b = NoBucket
        BY <4>1, Products DEF Tokens, Full
      <4>2. CASE b # NoBucket /\ r.quiet
        <5> DEFINE q == (Token + Rate - 1) \div Rate
        <5>1. b.tokens \in Nat /\ b.at \in Nat /\ b.at <= last[c] /\ b.at <= now
          BY <1>2, <4>2 DEF Sound, Entered, Aged, Tokened
        <5>2. q \in Nat /\ Rate * q >= Token /\ now - last[c] >= q
          BY <1>1, <1>2, <2>2, <4>2, Quotients DEF Span
        <5> HIDE DEF q
        <5>3. now - b.at >= q
          BY <1>2, <5>1, <5>2
        <5>4. Rate * (now - b.at) >= Rate * q
          <6>1. \A x, y \in Nat : x >= y => Rate * x >= Rate * y
            BY QuotaAssumption
          <6>2. now - b.at \in Nat
            BY <1>2, <5>1
          <6> QED BY <5>2, <5>3, <6>1, <6>2
        <5> QED BY <1>2, <4>2, <5>1, <5>2, <5>4, Products, QuotaAssumption DEF Tokens, Full
      <4> QED BY <4>1, <4>2
    <3>2. Verdict(r, Tokens(b) >= Token) /\ UNCHANGED window
      BY <2>2 DEF AllowBucket
    <3>3. \A v \in verdicts' : v.quiet => v.pass \/ RefusesAll'
      BY <1>1, <3>1, <3>2, QuietVerdict DEF SilenceInv
    <3> DEFINE left == [tokens |-> Spend(Tokens(b)), at |-> now]
               entries == [bucket[i] EXCEPT ![c] = left]
    <3>4. \A j \in Instances, d \in Clients :
             \/ bucket'[j][d] \in {bucket[j][d], NoBucket}
             \/ d = c /\ bucket'[j][d].at = now
      <4>1. bucket' = [bucket EXCEPT ![i] = Cleaned(entries)]
        BY <1>2, <2>2 DEF AllowBucket
      <4>2. \A d \in Clients : Cleaned(entries)[d] \in {entries[d], NoBucket}
        BY <1>2 DEF Cleaned
      <4>3. \A d \in Clients : entries[d] = bucket[i][d] \/ (d = c /\ entries[d].at = now)
        BY <1>2
      <4> QED BY <1>2, <4>1, <4>2, <4>3
    <3>5. ASSUME NEW j \in Instances, NEW d \in Clients, bucket'[j][d] # NoBucket
          PROVE  bucket'[j][d].at <= last'[d]
      <4>1. CASE bucket'[j][d] = bucket[j][d]
        BY <1>1, <1>2, <3>5, <4>1 DEF SilenceInv, Aged, Sound, Entered
      <4>2. CASE d = c /\ bucket'[j][d].at = now
        BY <1>1, <1>2, <4>2
      <4> QED BY <3>4, <3>5, <4>1, <4>2
    <3>6. \A j \in Instances, d \in Clients :
             window'[j][d].n # 0 => window'[j][d].start <= last'[d]
      BY <1>1, <1>2, <3>2 DEF SilenceInv, Aged, Sound, Entered
    <3> QED BY <3>3, <3>5, <3>6
  <2> QED BY <2>1, <2>2 DEF AllowInMemory
<1>4. ASSUME NEW d \in Clients PROVE Aged(d)'
  <2>1. Aged(d) /\ last'[d] >= last[d] /\ last'[d] <= now /\ last'[d] \in Int /\ last[d] \in Int
    BY <1>1, <1>2 DEF SilenceInv, Aged
  <2>2. \A m \in members[d] : m.at \in Nat
    BY DEF Sound, TypeOK
  <2>3. counter[d] \in [n : Nat, exp : Nat]
    BY DEF Sound, TypeOK
  <2> QED BY <1>1, <1>2, <1>3, <2>1, <2>2, <2>3, QuotaAssumption DEF Aged
<1>5. ASSUME NEW p \in Procs PROVE Alone(p)' /\ Fresh(p)'
  <2>1. Alone(p) /\ Fresh(p)
    BY DEF SilenceInv
  <2>2. pc[p] = "idle"
    BY <1>1 DEF Sound, Requested, Working
  <2> QED BY <1>1, <2>1, <2>2 DEF Alone, Fresh
<1> QED BY <1>3, <1>4, <1>5 DEF SilenceInv

LEMMA SilenceStartShared ==
    ASSUME Sound, SilenceInv, NEW p \in Procs, NEW c \in Clients, StartShared(p, c)
    PROVE  SilenceInv'
<1> SUFFICES ASSUME used.outages = 0 PROVE SilenceInv'
  BY DEF SilenceInv, StartShared, Received, Sound, TypeOK
<1> DEFINE r == NewRequest(c)
<1>1. /\ Received(c) /\ Shared /\ pc[p] = "idle"
      /\ pc' = [pc EXCEPT ![p] = IF conf.fixed THEN "incr" ELSE "trim"]
      /\ req' = [q \in Procs |-> IF q = p THEN r
                                 ELSE [req[q] EXCEPT !.quiet = @ /\ req[q].client # c]]
      /\ UNCHANGED <<now, conf, stores, redisUp, cleared, last, verdicts>>
  BY DEF StartShared
<1>2. /\ pc'[p] = (IF conf.fixed THEN "incr" ELSE "trim") /\ req'[p] = r
      /\ r.client = c /\ r.at = now
      /\ r.quiet => now - last[c] >= Span /\ \A q \in Procs : req[q].client # c
  BY <1>1 DEF Sound, TypeOK, NewRequest
<1>3. ASSUME NEW q \in Procs, q # p
      PROVE  /\ pc'[q] = pc[q] /\ req'[q].client = req[q].client /\ req'[q].n = req[q].n
             /\ req'[q].quiet => req[q].quiet /\ req[q].client # c
  <2> DEFINE quiet == req[q].quiet /\ req[q].client # c
  <2>1. req'[q] = [req[q] EXCEPT !.quiet = quiet] /\ req[q] \in Requests
    BY <1>1, <1>3 DEF Sound, TypeOK
  <2>2. pc'[q] = pc[q]
    BY <1>1, <1>3 DEF Sound, TypeOK
  <2>3. quiet => req[q].quiet /\ req[q].client # c
    OBVIOUS
  <2> HIDE DEF quiet
  <2>4. req'[q].quiet = quiet /\ req'[q].client = req[q].client /\ req'[q].n = req[q].n
    BY <2>1 DEF Requests
  <2> QED BY <2>2, <2>3, <2>4
<1>4. ASSUME NEW d \in Clients PROVE Aged(d)'
  <2>1. Aged(d)
    BY DEF SilenceInv
  <2>2. \A q \in Procs : pc[q] = "renew" /\ req[q].client = d =>
           pc'[q] = "renew" /\ req'[q].client = d
    BY <1>1, <1>3
  <2> QED BY <1>1, <2>1, <2>2 DEF Aged, stores
<1>5. Alone(p)' /\ Fresh(p)'
  <2>1. SUFFICES ASSUME r.quiet PROVE Alone(p)' /\ Fresh(p)'
    BY <1>2 DEF Alone, Fresh
  <2>2. Alone(p)'
    BY <1>2, <1>3, <2>1 DEF Alone
  <2>3. CASE conf.fixed
    <3>1. counter[c].n = 0
      <4>1. Aged(c) /\ now \in Nat /\ last[c] \in Int /\ counter[c].exp \in Nat /\ Span = Window
        BY <2>3 DEF SilenceInv, Sound, TypeOK, Span
      <4> QED BY <1>2, <2>1, <4>1, QuotaAssumption DEF Aged
    <3> QED BY <1>1, <1>2, <2>2, <2>3, <3>1 DEF Fresh, stores
  <2>4. CASE ~conf.fixed
    <3>1. now - last[c] >= Second /\ now \in Nat /\ last[c] \in Int
      BY <1>1, <1>2, <2>1, <2>4 DEF Span, Sound, TypeOK
    <3> QED BY <1>1, <1>2, <2>2, <2>4, <3>1, QuotaAssumption DEF Fresh
  <2> QED BY <2>3, <2>4
<1>6. ASSUME NEW q \in Procs, q # p PROVE Alone(q)' /\ Fresh(q)'
  <2>1. Alone(q) /\ Fresh(q)
    BY DEF SilenceInv
  <2>2. Alone(q)'
    BY <1>2, <1>3, <1>6, <2>1 DEF Alone
  <2>3. Fresh(q)'
    BY <1>1, <1>3, <1>6, <2>1 DEF Fresh, stores
  <2> QED BY <2>2, <2>3
<1> QED BY <1>1, <1>4, <1>5, <1>6, RefusesKept DEF SilenceInv

\* With Redis up every command of a pipeline runs, and one that changes what Redis has of
\* a client meets no other request of that client which came after silence.
LEMMA SilenceInRedis ==
    ASSUME Sound, SilenceInv, NEW p \in Procs, SharedStep(p)
    PROVE  SilenceInv'
<1> DEFINE r == req[p]
<1>1. /\ UNCHANGED <<now, conf, redisUp, cleared, used>> /\ pc[p] # "idle"
  BY DEF SharedStep, Incr, Renew, Trim, Card, Add
<1> SUFFICES ASSUME used.outages = 0 PROVE SilenceInv'
  BY <1>1 DEF SilenceInv
<1>2. /\ r \in Requests /\ Working(p) /\ r.client \in Clients /\ now \in Nat /\ r.at \in Nat
      /\ r.n \in Nat /\ members \in [Clients -> SUBSET [id : Nat, at : Nat]]
      /\ counter \in [Clients -> [n : Nat, exp : Nat]] /\ last \in [Clients -> Int]
      /\ pc \in [Procs -> {"idle", "incr", "renew", "trim", "card", "add"}]
      /\ req \in [Procs -> Requests] /\ redisUp /\ ~FailOpen(p)
  BY <1>1 DEF Sound, TypeOK, Requested, Entered, Working, Requests, FailOpen
<1>. PICK c \in Clients : c = r.client
  BY <1>2
<1>3. \A d \in Clients : Aged(d)
  BY DEF SilenceInv
<1>4. Alone(p) /\ Fresh(p) /\ \A q \in Procs \ {p} : Alone(q) /\ Fresh(q)
  BY DEF SilenceInv
<1>5. UNCHANGED <<window, bucket>>
  BY <1>2 DEF SharedStep, Incr, Renew, Trim, Card, Add, stores
\* What remains of the other requests, once the step of p is known.
<1>6. ASSUME NEW to, NEW new, Go(p, to, new), to = "idle" \/ new.client = c,
             \A d \in Clients \ {c} : /\ counter'[d] = counter[d] /\ members'[d] = members[d]
                                      /\ last'[d] = last[d]
      PROVE  /\ \A q \in Procs \ {p} : pc'[q] = pc[q] /\ req'[q] = req[q]
             /\ pc'[p] = to /\ req'[p] = new
             /\ \A q \in Procs \ {p} : Alone(q)' /\ Fresh(q)'
             /\ \A d \in Clients \ {c} : Aged(d)'
  <2>1. pc' = [pc EXCEPT ![p] = to] /\ req' = [req EXCEPT ![p] = new]
    BY <1>6 DEF Go
  <2>2. /\ \A q \in Procs \ {p} : pc'[q] = pc[q] /\ req'[q] = req[q]
        /\ pc'[p] = to /\ req'[p] = new
    BY <1>2, <2>1
  <2>3. ASSUME NEW q \in Procs \ {p} PROVE Alone(q)' /\ Fresh(q)'
    <3>1. Alone(q)'
      BY <1>1, <1>4, <1>6, <2>2 DEF Alone
    <3>2. CASE ~req[q].quiet
      BY <2>2, <3>1, <3>2 DEF Fresh
    <3>3. CASE req[q].quiet /\ pc[q] # "idle"
      <4>1. req[q].client \in Clients \ {c}
        BY <1>1, <1>4, <3>3 DEF Alone, Sound, Requested, Working
      <4>2. /\ counter'[req[q].client] = counter[req[q].client]
            /\ members'[req[q].client] = members[req[q].client]
            /\ last'[req[q].client] = last[req[q].client]
        BY <1>6, <4>1
      <4>3. Fresh(q)'
        BY <1>1, <1>4, <2>2, <4>2 DEF Fresh
      <4> QED BY <3>1, <4>3
    <3>4. CASE pc[q] = "idle"
      BY <2>2, <3>1, <3>4 DEF Fresh
    <3> QED BY <3>1, <3>2, <3>3, <3>4
  <2>4. ASSUME NEW d \in Clients \ {c} PROVE Aged(d)'
    <3>1. Aged(d) /\ counter'[d] = counter[d] /\ members'[d] = members[d] /\ last'[d] = last[d]
      BY <1>3, <1>6
    <3>2. \A q \in Procs : pc[q] = "renew" /\ req[q].client = d =>
             pc'[q] = "renew" /\ req'[q].client = d
      BY <2>2
    <3> QED BY <1>1, <1>5, <3>1, <3>2 DEF Aged
  <2> QED BY <2>2, <2>3, <2>4
<1>7. CASE Incr(p)
  <2> DEFINE n == counter[c].n + 1
             new == [r EXCEPT !.n = n, !.at = now]
  <2>1. /\ pc[p] = "incr" /\ counter' = [counter EXCEPT ![c].n = n] /\ Go(p, "renew", new)
        /\ UNCHANGED <<members, last, verdicts>>
    BY <1>2, <1>7 DEF Incr
  <2>2. new.client = c /\ new.quiet = r.quiet /\ new.n = n
    BY <1>2 DEF Requests
  <2>3. /\ \A q \in Procs \ {p} : pc'[q] = pc[q] /\ req'[q] = req[q]
        /\ pc'[p] = "renew" /\ req'[p] = new
        /\ \A q \in Procs \ {p} : Alone(q)' /\ Fresh(q)'
        /\ \A d \in Clients \ {c} : Aged(d)'
    <3>1. \A d \in Clients \ {c} : counter'[d] = counter[d]
      BY <1>2, <2>1
    <3> HIDE DEF new
    <3> QED BY <1>6, <2>1, <2>2, <3>1
  <2>4. Aged(c)'
    <3>1. counter'[c].n # 0
      BY <1>2, <2>1
    <3> QED BY <1>1, <1>2, <1>3, <1>5, <2>1, <2>2, <2>3, <3>1 DEF Aged
  <2>5. Alone(p)' /\ Fresh(p)'
    BY <1>4, <2>1, <2>2, <2>3 DEF Alone, Fresh
  <2> QED BY <1>1, <2>1, <2>3, <2>4, <2>5, RefusesKept DEF SilenceInv
<1>8. CASE Renew(p)
  <2>1. /\ pc[p] = "renew" /\ Go(p, "idle", NoReq) /\ last' = [last EXCEPT ![c] = now]
        /\ Expire(c) /\ Verdict(r, r.n <= Limit) /\ UNCHANGED members
    BY <1>2, <1>8 DEF Renew, Finish
  <2>2. counter' = IF counter[c].n = 0 THEN counter
                   ELSE [counter EXCEPT ![c].exp = now + Window]
    BY <2>1 DEF Expire
  <2>3. /\ \A q \in Procs \ {p} : pc'[q] = pc[q] /\ req'[q] = req[q]
        /\ pc'[p] = "idle" /\ req'[p] = NoReq
        /\ \A q \in Procs \ {p} : Alone(q)' /\ Fresh(q)'
        /\ \A d \in Clients \ {c} : Aged(d)'
    <3>1. \A d \in Clients \ {c} : counter'[d] = counter[d] /\ last'[d] = last[d]
      BY <1>2, <2>1, <2>2
    <3> QED BY <1>6, <2>1, <3>1
  <2>4. Aged(c)'
    <3>1. last'[c] = now /\ last[c] <= now /\ last[c] \in Int
      BY <1>2, <1>3, <2>1 DEF Aged
    <3>2. /\ counter'[c].n # 0 => counter'[c].exp = now + Window
          /\ counter'[c].n = 0 => counter'[c].exp = 0
      BY <1>2, <1>3, <2>2 DEF Aged
    <3>3. \A i \in Instances :
            /\ window[i][c].n # 0 => window[i][c].start <= now
            /\ bucket[i][c] # NoBucket => bucket[i][c].at <= now
      BY <1>2 DEF Sound, Entered
    <3>4. \A m \in members[c] : m.at <= now
      <4> TAKE m \in members[c]
      <4>1. m.at <= last[c] /\ m.at \in Nat
        BY <1>2, <1>3 DEF Aged
      <4> QED BY <1>2, <3>1, <4>1
    <3> QED BY <1>1, <1>2, <1>5, <2>1, <3>1, <3>2, <3>3, <3>4, QuotaAssumption DEF Aged
  <2>5. Alone(p)' /\ Fresh(p)'
    BY <2>3 DEF Alone, Fresh, NoReq
  <2>6. \A v \in verdicts' : v.quiet => v.pass \/ RefusesAll'
    <3>1. r.quiet => r.n <= Limit
      BY <1>4, <2>1, QuotaAssumption DEF Fresh
    <3> QED BY <1>1, <2>1, <3>1, QuietVerdict DEF SilenceInv
  <2> QED BY <1>1, <2>3, <2>4, <2>5, <2>6 DEF SilenceInv
<1>9. CASE Trim(p)
  <2>1. /\ pc[p] = "trim" /\ Go(p, "card", r) /\ UNCHANGED <<counter, last, verdicts>>
        /\ members' = [members EXCEPT ![c] = {m \in members[c] : m.at > r.at - Second}]
    BY <1>2, <1>9 DEF Trim
  <2>2. /\ \A q \in Procs \ {p} : pc'[q] = pc[q] /\ req'[q] = req[q]
        /\ pc'[p] = "card" /\ req'[p] = r
        /\ \A q \in Procs \ {p} : Alone(q)' /\ Fresh(q)'
        /\ \A d \in Clients \ {c} : Aged(d)'
    <3>1. \A d \in Clients \ {c} : members'[d] = members[d]
      BY <1>2, <2>1
    <3> QED BY <1>6, <2>1, <3>1
  <2>3. members'[c] = {m \in members[c] : m.at > r.at - Second}
    BY <1>2, <2>1
  <2>4. Aged(c)'
    <3>1. \A q \in Procs : pc[q] = "renew" /\ req[q].client = c =>
             pc'[q] = "renew" /\ req'[q].client = c
      BY <2>1, <2>2
    <3> QED BY <1>1, <1>2, <1>3, <1>5, <2>1, <2>3, <3>1 DEF Aged
  <2>5. Alone(p)'
    BY <1>4, <2>2 DEF Alone
  <2>6. Fresh(p)'
    <3>1. SUFFICES ASSUME r.quiet PROVE members'[c] = {}
      BY <2>2 DEF Fresh
    <3>2. last[c] <= now - Second /\ r.at = now /\ last[c] \in Int
      BY <1>2, <1>4, <2>1, <3>1 DEF Fresh, Working
    <3>3. \A m \in members[c] : m.at <= last[c] /\ m.at \in Nat
      BY <1>2, <1>3 DEF Aged
    <3> QED BY <1>2, <2>3, <3>2, <3>3, QuotaAssumption
  <2> QED BY <1>1, <2>1, <2>2, <2>4, <2>5, <2>6, RefusesKept DEF SilenceInv
<1>10. CASE Card(p)
  <2> DEFINE n == Cardinality(members[c])
             new == [r EXCEPT !.n = n]
  <2>1. pc[p] = "card" /\ Go(p, "add", new) /\ UNCHANGED <<stores, last, verdicts>>
    BY <1>2, <1>10 DEF Card
  <2>2. new.client = c /\ new.quiet = r.quiet /\ new.n = n
    BY <1>2 DEF Requests
  <2>3. /\ \A q \in Procs \ {p} : pc'[q] = pc[q] /\ req'[q] = req[q]
        /\ pc'[p] = "add" /\ req'[p] = new
        /\ \A q \in Procs \ {p} : Alone(q)' /\ Fresh(q)'
        /\ \A d \in Clients \ {c} : Aged(d)'
    <3> HIDE DEF new
    <3> QED BY <1>6, <2>1, <2>2 DEF stores
  <2>4. Aged(c)'
    <3>1. \A q \in Procs : pc[q] = "renew" /\ req[q].client = c =>
             pc'[q] = "renew" /\ req'[q].client = c
      BY <2>1, <2>3
    <3> QED BY <1>1, <1>3, <1>5, <2>1, <3>1 DEF Aged, stores
  <2>5. Alone(p)' /\ Fresh(p)'
    <3>1. r.quiet => n = 0
      BY <1>4, <2>1, FS_EmptySet DEF Fresh
    <3> QED BY <1>4, <2>1, <2>2, <2>3, <3>1 DEF Alone, Fresh
  <2> QED BY <1>1, <2>1, <2>3, <2>4, <2>5, RefusesKept DEF SilenceInv
<1>11. CASE Add(p)
  <2>1. /\ pc[p] = "add" /\ Go(p, "idle", NoReq) /\ last' = [last EXCEPT ![c] = now]
        /\ members' = [members EXCEPT ![c] = members[c] \cup {[id |-> r.id, at |-> r.at]}]
        /\ Verdict(r, Within(r.n)) /\ UNCHANGED counter
    BY <1>2, <1>11 DEF Add, Finish
  <2>2. /\ \A q \in Procs \ {p} : pc'[q] = pc[q] /\ req'[q] = req[q]
        /\ pc'[p] = "idle" /\ req'[p] = NoReq
        /\ \A q \in Procs \ {p} : Alone(q)' /\ Fresh(q)'
        /\ \A d \in Clients \ {c} : Aged(d)'
    <3>1. \A d \in Clients \ {c} : members'[d] = members[d] /\ last'[d] = last[d]
      BY <1>2, <2>1
    <3> QED BY <1>6, <2>1, <3>1
  <2>3. Aged(c)'
    <3>1. last'[c] = now /\ last[c] <= now /\ last[c] \in Int /\ r.at <= now
      BY <1>2, <1>3, <2>1 DEF Aged, Working
    <3>2. members'[c] = members[c] \cup {[id |-> r.id, at |-> r.at]}
      BY <1>2, <2>1
    <3>3. \A m \in members'[c] : m.at <= now
      <4>1. ASSUME NEW m \in members[c] PROVE m.at <= now
        <5>1. m.at <= last[c] /\ m.at \in Nat
          BY <1>2, <1>3 DEF Aged
        <5> QED BY <1>2, <3>1, <5>1
      <4> QED BY <3>1, <3>2, <4>1
    <3>4. \A i \in Instances :
            /\ window[i][c].n # 0 => window[i][c].start <= now
            /\ bucket[i][c] # NoBucket => bucket[i][c].at <= now
      BY <1>2 DEF Sound, Entered
    <3>5. counter[c].n # 0 =>
            \/ \E q \in Procs : pc'[q] = "renew" /\ req'[q].client = c
            \/ now < counter[c].exp /\ counter[c].exp <= now + Window
      <4>1. \A q \in Procs : pc[q] = "renew" /\ req[q].client = c =>
               pc'[q] = "renew" /\ req'[q].client = c
        BY <2>1, <2>2
      <4> QED BY <1>2, <1>3, <3>1, <4>1, QuotaAssumption DEF Aged
    <3>6. counter[c].n = 0 => counter[c].exp = 0
      BY <1>2, <1>3 DEF Aged
    <3> QED BY <1>1, <1>2, <1>5, <2>1, <3>1, <3>3, <3>4, <3>5, <3>6 DEF Aged
  <2>4. Alone(p)' /\ Fresh(p)'
    BY <2>2 DEF Alone, Fresh, NoReq
  <2>5. \A v \in verdicts' : v.quiet => v.pass \/ RefusesAll'
    <3>1. r.quiet => Within(r.n) \/ RefusesAll
      <4>1. Shared /\ ~conf.fixed
        BY <2>1 DEF Sound, Working, Requested
      <4> QED BY <1>4, <2>1, <4>1, Quotients DEF Fresh, Within, RefusesAll
    <3> QED BY <1>1, <2>1, <3>1, QuietVerdict DEF SilenceInv
  <2> QED BY <1>1, <2>2, <2>3, <2>4, <2>5 DEF SilenceInv
<1> QED BY <1>7, <1>8, <1>9, <1>10, <1>11 DEF SharedStep

LEMMA SilenceAround ==
    ASSUME Sound, SilenceInv, Clear \/ Tick \/ SwitchRedis \/ UNCHANGED vars
    PROVE  SilenceInv'
<1> USE DEF SilenceInv
<1>1. CASE Clear
  <2>1. ASSUME used.outages = 0, NEW c \in Clients PROVE Aged(c)'
    BY <1>1, <2>1 DEF Clear, Aged
  <2> QED BY <1>1, <2>1, RefusesKept DEF Clear, Alone, Fresh
<1>2. CASE Tick
  <2>1. SUFFICES ASSUME used.outages = 0 PROVE SilenceInv'
    BY <1>2 DEF Tick
  <2>2. /\ now' = now + 1 /\ now \in Nat
        /\ counter' = [c \in Clients |->
              IF counter[c].exp > 0 /\ counter[c].exp <= now' THEN NoKey ELSE counter[c]]
        /\ UNCHANGED <<conf, members, window, bucket, redisUp, cleared, pc, req, last,
                       verdicts, used>>
    BY <1>2 DEF Tick, Sound, TypeOK
  <2>3. ASSUME NEW c \in Clients PROVE Aged(c)'
    <3>1. Aged(c) /\ last[c] \in Int /\ counter[c] \in [n : Nat, exp : Nat]
      BY <2>1 DEF Sound, TypeOK
    <3>2. last[c] <= now + 1
      BY <2>2, <3>1 DEF Aged
    <3>3. /\ counter'[c].n # 0 =>
            \/ \E p \in Procs : pc[p] = "renew" /\ req[p].client = c
            \/ now + 1 < counter'[c].exp /\ counter'[c].exp <= last[c] + Window
          /\ counter'[c].n = 0 => counter'[c].exp = 0
      <4>1. CASE counter[c].exp > 0 /\ counter[c].exp <= now'
        BY <2>2, <4>1 DEF NoKey
      <4>2. CASE ~(counter[c].exp > 0 /\ counter[c].exp <= now')
        BY <2>2, <3>1, <4>2 DEF Aged
      <4> QED BY <4>1, <4>2
    <3> QED BY <2>2, <3>1, <3>2, <3>3 DEF Aged
  <2>4. ASSUME NEW p \in Procs PROVE Alone(p)' /\ Fresh(p)'
    <3>1. Alone(p) /\ Fresh(p)
      BY <2>1
    <3>2. CASE pc[p] = "idle"
      BY <2>2, <3>1, <3>2 DEF Alone, Fresh
    <3>3. CASE pc[p] # "idle"
      <4>1. Working(p) /\ conf.fixed
        BY <1>2, <3>3 DEF Tick, Sound, Requested
      <4>2. pc[p] \in {"incr", "renew"} /\ req[p].client \in Clients
        BY <4>1 DEF Working
      <4>3. counter[req[p].client].n = 0 => counter'[req[p].client].n = 0
        BY <2>2, <4>2 DEF NoKey
      <4> QED BY <2>2, <3>1, <4>2, <4>3 DEF Alone, Fresh
    <3> QED BY <3>2, <3>3
  <2> QED BY <2>1, <2>2, <2>3, <2>4, RefusesKept
<1>3. CASE SwitchRedis
  <2>1. used'.outages # 0
    BY <1>3 DEF SwitchRedis, Sound, TypeOK
  <2> QED BY <2>1
<1>4. CASE UNCHANGED vars
  BY <1>4, RefusesKept DEF vars, Aged, Alone, Fresh
<1> QED BY <1>1, <1>2, <1>3, <1>4

\* A client that kept silent for long enough is let in, whatever it was refused before,
\* as long as no pipeline broke off between INCR and EXPIRE: by every limiter and at every
\* rate, but for the sliding window whose limit is 0, which lets nobody in.
THEOREM SilentClientsAdmitted == Spec => []SilenceHelps
<1>1. Init => Sound /\ SilenceInv
  BY InitSound, InitSilence
<1>2. Sound /\ SilenceInv /\ [Next]_vars => (Sound /\ SilenceInv)'
  <2> SUFFICES ASSUME Sound, SilenceInv, [Next]_vars PROVE SilenceInv'
    BY NextSound
  <2> QED BY SilenceInMemory, SilenceStartShared, SilenceInRedis, SilenceAround DEF Next, Quiet
<1>3. SilenceInv => SilenceHelps
  BY DEF SilenceInv, SilenceHelps
<1> QED BY <1>1, <1>2, <1>3, PTL DEF Spec

-----------------------------------------------------------------------------
(* Counting what was let through. *)

Admitted(c, from, to) == {v \in verdicts : v.client = c /\ v.pass /\ v.at \in from..to}

\* What it cost, in the unit of a bucket, and what flows into a bucket from y to x.
Cost(c, from, to) == Passed(c, from, to) * Token
Refill(x, y) == Rate * (x - y)

LEMMA Refills ==
    \A x, y \in Int : Refill(x, y) \in Int
BY Products DEF Refill

LEMMA RefillGrows ==
    ASSUME NEW x \in Int, NEW y \in Int, x >= y
    PROVE  Refill(x, y) \in Nat
<1>1. PICK d \in Nat : d = x - y
  OBVIOUS
<1> QED BY <1>1, Products DEF Refill

LEMMA RefillsAdd ==
    ASSUME NEW x \in Int, NEW y \in Int, NEW z \in Int
    PROVE  Refill(x, z) = Refill(x, y) + Refill(y, z)
BY QuotaAssumption DEF Refill

LEMMA Costs ==
    /\ \A n \in Nat : n * Token \in Nat /\ (n + 1) * Token = n * Token + Token
    /\ \A m, n \in Nat : m <= n => m * Token <= n * Token
    /\ \A n \in Nat : n * Token + Token > Full => n >= Burst
<1> USE QuotaAssumption
<1>1. \A n \in Nat : n * Token \in Nat /\ (n + 1) * Token = n * Token + Token
  OBVIOUS
<1>2. ASSUME NEW m \in Nat, NEW n \in Nat, m <= n PROVE m * Token <= n * Token
  <2>1. (n - m) * Token >= 0
    BY <1>2
  <2> QED BY <2>1
<1>3. ASSUME NEW n \in Nat, n * Token + Token > Full PROVE n >= Burst
  <2>1. SUFFICES ASSUME n + 1 <= Burst PROVE FALSE
    OBVIOUS
  <2>2. (n + 1) * Token <= Burst * Token
    BY <1>2, <2>1
  <2> QED BY <1>1, <1>3, <2>2, Products DEF Full
<1> QED BY <1>1, <1>2, <1>3

LEMMA AdmittedFacts ==
    ASSUME IsFiniteSet(verdicts), NEW c, NEW from, NEW to
    PROVE  /\ IsFiniteSet(Admitted(c, from, to))
           /\ Passed(c, from, to) = Cardinality(Admitted(c, from, to))
           /\ Passed(c, from, to) \in Nat /\ Cost(c, from, to) \in Nat
           /\ Admitted(c, from, to) = {} => Passed(c, from, to) = 0 /\ Cost(c, from, to) = 0
<1>1. Admitted(c, from, to) \subseteq verdicts
  BY DEF Admitted
<1>2. Passed(c, from, to) = Cardinality(Admitted(c, from, to))
  BY DEF Passed, Admitted
<1>3. IsFiniteSet(Admitted(c, from, to))
  BY <1>1, FS_Subset
<1>4. Passed(c, from, to) \in Nat
  BY <1>2, <1>3, FS_CardinalityType
<1>5. Admitted(c, from, to) = {} => Passed(c, from, to) = 0
  BY <1>2, FS_EmptySet
<1> QED BY <1>2, <1>3, <1>4, <1>5, Costs, QuotaAssumption DEF Cost

LEMMA AdmittedWithin ==
    ASSUME IsFiniteSet(verdicts), NEW c, NEW a, NEW b, NEW from, NEW to,
           Admitted(c, a, b) \subseteq Admitted(c, from, to)
    PROVE  Passed(c, a, b) <= Passed(c, from, to) /\ Cost(c, a, b) <= Cost(c, from, to)
BY AdmittedFacts, FS_Subset, Costs DEF Cost

\* What the answer to a new request adds.
LEMMA CountedOnce ==
    ASSUME Sound, NEW c \in Clients, NEW pass \in BOOLEAN, Verdict(NewRequest(c), pass)
    PROVE  /\ IsFiniteSet(verdicts')
           /\ \A d, from, to : Passed(d, from, to)' \in Nat /\ Cost(d, from, to)' \in Nat
           /\ \A v \in verdicts' : v \in verdicts \/ (v.client = c /\ v.at = now /\ v.pass = pass)
           /\ \A d, from, to : /\ Admitted(d, from, to) \subseteq Admitted(d, from, to)'
                                /\ Passed(d, from, to) <= Passed(d, from, to)'
                                /\ Cost(d, from, to) <= Cost(d, from, to)'
           /\ \A d, from, to : (d # c \/ ~pass \/ now \notin from..to) =>
                 /\ Admitted(d, from, to)' = Admitted(d, from, to)
                 /\ Passed(d, from, to)' = Passed(d, from, to)
                 /\ Cost(d, from, to)' = Cost(d, from, to)
           /\ \A from, to : pass /\ now \in from..to =>
                 /\ Passed(c, from, to)' = Passed(c, from, to) + 1
                 /\ Cost(c, from, to)' = Cost(c, from, to) + Token
<1> DEFINE r == NewRequest(c)
           new == [id |-> r.id, client |-> r.client, at |-> r.at, pass |-> pass,
                   quiet |-> r.quiet]
<1>1. verdicts' = verdicts \cup {new}
  BY DEF Verdict
<1>2. new.client = c /\ new.at = now /\ new.pass = pass /\ new.id = used.requests + 1
  BY DEF NewRequest
<1>3. new \notin verdicts
  <2>1. \A v \in verdicts : v.id \in 1..used.requests
    BY DEF Sound, Requested
  <2>2. used.requests \in Nat
    BY DEF Sound, TypeOK
  <2> HIDE DEF new
  <2> QED BY <1>2, <2>1, <2>2
<1> HIDE DEF new
<1>4. IsFiniteSet(verdicts) /\ IsFiniteSet(verdicts')
  BY <1>1, FS_AddElement DEF Sound
<1>5. ASSUME NEW d, NEW from, NEW to
      PROVE  /\ Admitted(d, from, to)' = {v \in verdicts' : v.client = d /\ v.pass
                                                           /\ v.at \in from..to}
             /\ IsFiniteSet(Admitted(d, from, to)) /\ IsFiniteSet(Admitted(d, from, to)')
             /\ Passed(d, from, to) = Cardinality(Admitted(d, from, to))
             /\ Passed(d, from, to)' = Cardinality(Admitted(d, from, to)')
             /\ Passed(d, from, to) \in Nat
             /\ Passed(d, from, to)' \in Nat /\ Cost(d, from, to)' \in Nat
             /\ Cost(d, from, to) = Passed(d, from, to) * Token
             /\ Cost(d, from, to)' = Passed(d, from, to)' * Token
  <2>1. Admitted(d, from, to)' \subseteq verdicts'
    BY DEF Admitted
  <2>2. IsFiniteSet(Admitted(d, from, to)')
    BY <1>4, <2>1, FS_Subset
  <2>3. Passed(d, from, to)' = Cardinality(Admitted(d, from, to)')
    BY DEF Admitted, Passed
  <2>4. /\ Cost(d, from, to) = Passed(d, from, to) * Token
        /\ Cost(d, from, to)' = Passed(d, from, to)' * Token
    BY DEF Cost
  <2>5. Admitted(d, from, to)' = {v \in verdicts' : v.client = d /\ v.pass /\ v.at \in from..to}
    BY DEF Admitted
  <2>6. Passed(d, from, to)' \in Nat /\ Cost(d, from, to)' \in Nat
    BY <2>2, <2>3, <2>4, FS_CardinalityType, Costs
  <2> QED BY <1>4, <2>2, <2>3, <2>4, <2>5, <2>6, AdmittedFacts
<1>6. ASSUME NEW d, NEW from, NEW to, d # c \/ ~pass \/ now \notin from..to
      PROVE  /\ Admitted(d, from, to)' = Admitted(d, from, to)
             /\ Passed(d, from, to)' = Passed(d, from, to)
             /\ Cost(d, from, to)' = Cost(d, from, to)
  <2>1. Admitted(d, from, to)' = Admitted(d, from, to)
    BY <1>1, <1>2, <1>5, <1>6 DEF Admitted
  <2> QED BY <1>5, <2>1
<1>7. ASSUME NEW from, NEW to, pass, now \in from..to
      PROVE  /\ Admitted(c, from, to) \subseteq Admitted(c, from, to)'
             /\ Passed(c, from, to)' = Passed(c, from, to) + 1
             /\ Cost(c, from, to)' = Cost(c, from, to) + Token
  <2>1. Admitted(c, from, to)' = Admitted(c, from, to) \cup {new}
    BY <1>1, <1>2, <1>5, <1>7 DEF Admitted
  <2>2. new \notin Admitted(c, from, to)
    BY <1>3 DEF Admitted
  <2>3. Passed(c, from, to)' = Passed(c, from, to) + 1
    BY <1>5, <2>1, <2>2, FS_AddElement
  <2> QED BY <1>5, <2>1, <2>3, Costs
<1>8. ASSUME NEW d, NEW from, NEW to
      PROVE  /\ Admitted(d, from, to) \subseteq Admitted(d, from, to)'
             /\ Passed(d, from, to) <= Passed(d, from, to)'
             /\ Cost(d, from, to) <= Cost(d, from, to)'
  <2>1. CASE d # c \/ ~pass \/ now \notin from..to
    BY <1>5, <1>6, <2>1, Costs
  <2>2. CASE d = c /\ pass /\ now \in from..to
    BY <1>5, <1>7, <2>2, Costs, QuotaAssumption
  <2> QED BY <2>1, <2>2
<1>9. \A v \in verdicts' : v \in verdicts \/ (v.client = c /\ v.at = now /\ v.pass = pass)
  BY <1>1, <1>2
<1> QED BY <1>4, <1>5, <1>6, <1>7, <1>8, <1>9

\* Nothing was let through in the ticks to come.
LEMMA NothingAhead ==
    ASSUME Sound, NEW c, NEW from \in Int, NEW to \in Int
    PROVE  /\ from > now => Admitted(c, from, to) = {}
           /\ to >= now => Admitted(c, from, to) = Admitted(c, from, now)
<1>1. now \in Nat /\ \A v \in verdicts : v.at \in Nat /\ v.at <= now
  BY DEF Sound, TypeOK, Requested, Answers
<1>2. ASSUME from > now PROVE Admitted(c, from, to) = {}
  BY <1>1, <1>2 DEF Admitted
<1>3. ASSUME to >= now PROVE Admitted(c, from, to) = Admitted(c, from, now)
  BY <1>1, <1>3 DEF Admitted
<1> QED BY <1>2, <1>3

-----------------------------------------------------------------------------
(* Refusals in memory. *)

\* The count of a window is paid for by requests let through since it began, and what a
\* bucket lacks by requests let through while it could have filled up.
WindowPaid(i, c) ==
    LET e == window[i][c]
    IN  e.n # 0 => Passed(c, e.start, now) >= e.n \/ Passed(c, e.start, now) >= Limit
BucketPaid(b, c) ==
    \A x \in Int : x <= b.at =>
       \/ b.tokens + Cost(c, x + 1, now) >= Full
       \/ b.tokens + Cost(c, x + 1, now) >= Refill(b.at, x)

EarnedInv == ~Shared =>
    /\ \A v \in verdicts : v.pass \/ Earned(v)
    /\ \A i \in Instances, c \in Clients :
          /\ WindowPaid(i, c)
          /\ bucket[i][c] # NoBucket => BucketPaid(bucket[i][c], c)

\* The tokens there are: a full bucket, or what was left and what flowed in since.
LEMMA TokensAre ==
    ASSUME Sound, NEW i \in Instances, NEW c \in Clients, NEW b, b = bucket[i][c]
    PROVE  /\ b = NoBucket => Tokens(b) = Full
           /\ b # NoBucket =>
                 /\ b.tokens \in Nat /\ b.at \in Nat /\ b.at <= now /\ Tokens(b) <= Full
                 /\ Tokens(b) = Full \/ Tokens(b) = b.tokens + Refill(now, b.at)
                 /\ Tokens(b) <= b.tokens + Refill(now, b.at)
<1>1. b \in Tokened /\ now \in Nat
  BY DEF Sound, TypeOK
<1>2. CASE b = NoBucket
  BY <1>2 DEF Tokens, Full
<1>3. CASE b # NoBucket
  <2>1. PICK n \in Nat, at \in Nat : n = b.tokens /\ at = b.at /\ at <= now
    BY <1>1, <1>3 DEF Sound, Entered, Tokened
  <2>2. Refill(now, at) \in Int
    BY <1>1, Refills
  <2>3. Tokens(b) = IF n + Refill(now, at) > Full THEN Full ELSE n + Refill(now, at)
    BY <1>3, <2>1 DEF Tokens, Full, Refill
  <2>4. /\ Tokens(b) <= Full /\ Tokens(b) <= n + Refill(now, at)
        /\ Tokens(b) = Full \/ Tokens(b) = n + Refill(now, at)
    BY <2>2, <2>3, Products
  <2> QED BY <1>3, <2>1, <2>4
<1> QED BY <1>2, <1>3

\* What is earned and paid for stays so.
LEMMA EarnedStays ==
    ASSUME UNCHANGED conf, NEW v, Earned(v),
           \A c, from, to : /\ Passed(c, from, to) <= Passed(c, from, to)'
                            /\ Passed(c, from, to) \in Nat /\ Passed(c, from, to)' \in Nat
    PROVE  Earned(v)'
BY QuotaAssumption DEF Earned

LEMMA PaidStays ==
    ASSUME NEW c \in Clients, NEW i \in Instances, Sound,
           \A from \in Int : /\ Passed(c, from, now) <= Passed(c, from, now)'
                             /\ Passed(c, from, now) \in Nat /\ Passed(c, from, now)' \in Nat
                             /\ Cost(c, from, now) <= Cost(c, from, now)'
                             /\ Cost(c, from, now) \in Nat /\ Cost(c, from, now)' \in Nat
    PROVE  /\ WindowPaid(i, c) /\ window'[i][c] = window[i][c] => WindowPaid(i, c)'
           /\ \A b \in Tokened : BucketPaid(b, c) => BucketPaid(b, c)'
<1>1. ASSUME WindowPaid(i, c), window'[i][c] = window[i][c] PROVE WindowPaid(i, c)'
  <2>1. PICK e \in [n : Nat, start : Nat] : e = window[i][c] /\ e = window'[i][c]
    BY <1>1 DEF Sound, TypeOK
  <2> QED BY <1>1, <2>1, QuotaAssumption DEF WindowPaid
<1>2. ASSUME NEW b \in Tokened, BucketPaid(b, c) PROVE BucketPaid(b, c)'
  <2> SUFFICES ASSUME NEW x \in Int, x <= b.at
               PROVE  \/ b.tokens + Cost(c, x + 1, now)' >= Full
                      \/ b.tokens + Cost(c, x + 1, now)' >= Refill(b.at, x)
    BY DEF BucketPaid, Refill, Full
  <2>1. b.tokens \in Int /\ b.at \in Int /\ Refill(b.at, x) \in Int
    BY Refills DEF Tokened
  <2> QED BY <1>2, <2>1, Products DEF BucketPaid
<1> QED BY <1>1, <1>2

LEMMA EarnedWindow ==
    ASSUME Sound, EarnedInv, NEW c \in Clients, NEW i \in Instances, AllowInMemory(c, i),
           conf.fixed, AllowWindow(c, i)
    PROVE  EarnedInv'
<1>1. PICK t \in Nat, e \in [n : Nat, start : Nat] :
         t = now /\ t = now' /\ e = window[i][c] /\ e.start <= t
  BY DEF Sound, TypeOK, Entered, AllowInMemory
<1> DEFINE fresh == e.n = 0 \/ t - e.start >= Window
           pass == fresh \/ e.n + 1 <= Limit
           new == IF fresh THEN [n |-> 1, start |-> t] ELSE [n |-> e.n + 1, start |-> e.start]
<1>2. /\ ~Shared /\ UNCHANGED <<conf, bucket>> /\ Verdict(NewRequest(c), pass)
      /\ window' = [window EXCEPT ![i][c] =
                        IF fresh THEN [n |-> 1, start |-> t] ELSE [e EXCEPT !.n = @ + 1]]
  BY <1>1 DEF AllowInMemory, AllowWindow
<1>3. /\ window \in [Instances -> [Clients -> [n : Nat, start : Nat]]]
      /\ window' = [window EXCEPT ![i][c] = new]
      /\ IsFiniteSet(verdicts) /\ bucket \in [Instances -> [Clients -> Tokened]]
  <2>1. ~fresh => [e EXCEPT !.n = @ + 1] = [n |-> e.n + 1, start |-> e.start]
    BY <1>1
  <2>2. window' = [window EXCEPT ![i][c] = new]
    BY <1>2, <2>1
  <2> QED BY <1>1, <2>2 DEF Sound, TypeOK
<1>4. pass \in BOOLEAN
  OBVIOUS
<1>5. /\ \A v \in verdicts' : v \in verdicts \/ (v.client = c /\ v.at = t /\ v.pass = pass)
      /\ \A d, from, to : Passed(d, from, to) <= Passed(d, from, to)'
      /\ \A d, from, to : Cost(d, from, to) <= Cost(d, from, to)'
      /\ \A from, to : pass /\ t \in from..to => Passed(c, from, to)' = Passed(c, from, to) + 1
      /\ \A d, from, to : Passed(d, from, to)' \in Nat /\ Cost(d, from, to)' \in Nat
      /\ \A d, from, to : Passed(d, from, to) \in Nat /\ Cost(d, from, to) \in Nat
  <2> HIDE DEF pass
  <2> QED BY <1>1, <1>2, <1>3, <1>4, CountedOnce, AdmittedFacts
<1>6. WindowPaid(i, c)'
  <2>1. SUFFICES Passed(c, new.start, t)' >= new.n \/ Passed(c, new.start, t)' >= Limit
    BY <1>1, <1>3 DEF WindowPaid
  <2>2. CASE fresh
    <3>1. Passed(c, t, t)' = Passed(c, t, t) + 1
      BY <1>1, <1>5, <2>2
    <3> QED BY <1>5, <2>2, <3>1
  <2>3. CASE ~fresh
    <3>1. Passed(c, e.start, t) >= e.n \/ Passed(c, e.start, t) >= Limit
      BY <1>1, <1>2, <2>3 DEF EarnedInv, WindowPaid
    <3>2. pass => Passed(c, e.start, t)' = Passed(c, e.start, t) + 1
      BY <1>1, <1>5
    <3> QED BY <1>1, <1>5, <2>3, <3>1, <3>2, QuotaAssumption
  <2> QED BY <2>2, <2>3
<1>7. ASSUME NEW j \in Instances, NEW d \in Clients
      PROVE  WindowPaid(j, d)' /\ (bucket'[j][d] # NoBucket => BucketPaid(bucket[j][d], d)')
  <2>1. \A from \in Int : /\ Passed(d, from, now) <= Passed(d, from, now)'
                          /\ Passed(d, from, now) \in Nat /\ Passed(d, from, now)' \in Nat
                          /\ Cost(d, from, now) <= Cost(d, from, now)'
                          /\ Cost(d, from, now) \in Nat /\ Cost(d, from, now)' \in Nat
    BY <1>1, <1>5
  <2>2. /\ WindowPaid(j, d) /\ window'[j][d] = window[j][d] => WindowPaid(j, d)'
        /\ \A b \in Tokened : BucketPaid(b, d) => BucketPaid(b, d)'
    BY <2>1, PaidStays
  <2>3. (bucket'[j][d] # NoBucket => BucketPaid(bucket[j][d], d)')
    <3>1. PICK b \in Tokened : b = bucket[j][d] /\ b = bucket'[j][d]
      BY <1>2, <1>3
    <3> QED BY <1>2, <2>2, <3>1 DEF EarnedInv
  <2>4. WindowPaid(j, d)'
    <3>1. CASE j = i /\ d = c
      BY <1>6, <3>1
    <3>2. CASE ~(j = i /\ d = c)
      BY <1>2, <1>3, <2>2, <3>2 DEF EarnedInv
    <3> QED BY <3>1, <3>2
  <2> QED BY <2>3, <2>4
<1>8. ASSUME NEW v \in verdicts' PROVE v.pass \/ Earned(v)'
  <2>1. CASE v \in verdicts
    <3>1. v.pass \/ Earned(v)
      BY <1>2, <2>1 DEF EarnedInv
    <3> QED BY <1>2, <1>5, <3>1, EarnedStays
  <2>2. CASE v.client = c /\ v.at = t /\ v.pass = pass /\ ~pass
    <3>1. Passed(c, e.start, t) >= Limit
      BY <1>1, <1>2, <1>5, <2>2, QuotaAssumption DEF EarnedInv, WindowPaid
    <3>2. Admitted(c, e.start, t) \subseteq Admitted(c, t - Window + 1, t)
      BY <1>1, <2>2, QuotaAssumption DEF Admitted, Sound, TypeOK, Answers
    <3>3. Passed(c, t - Window + 1, t) >= Limit
      BY <1>3, <1>5, <3>1, <3>2, AdmittedWithin, QuotaAssumption
    <3>4. Passed(c, t - Window + 1, t)' >= Limit
      BY <1>5, <3>3, QuotaAssumption
    <3> QED BY <1>2, <2>2, <3>4 DEF Earned
  <2> QED BY <1>5, <2>1, <2>2
<1> QED BY <1>2, <1>7, <1>8 DEF EarnedInv

\* The entries a request leaves behind: its own, and of the others some idle ones go.
LEMMA EntriesLeft ==
    ASSUME Sound, NEW c \in Clients, NEW i \in Instances, AllowBucket(c, i),
           NEW left, left = [tokens |-> Spend(Tokens(bucket[i][c])), at |-> now]
    PROVE  /\ left \in Tokened /\ left # NoBucket /\ bucket'[i][c] = left
           /\ \A j \in Instances, d \in Clients :
                 \/ bucket'[j][d] = bucket[j][d]
                 \/ j = i /\ d = c
                 \/ bucket'[j][d] = NoBucket /\ now - bucket[j][d].at > Idle
<1> DEFINE entries == [bucket[i] EXCEPT ![c] = left]
<1>1. bucket \in [Instances -> [Clients -> Tokened]] /\ now \in Nat
  BY DEF Sound, TypeOK
<1>2. left \in Tokened /\ left # NoBucket /\ left.at = now
  BY <1>1, TokensType, Products DEF Tokened, NoBucket, Full
<1>3. entries \in [Clients -> Tokened] /\ entries[c] = left
      /\ \A d \in Clients \ {c} : entries[d] = bucket[i][d]
  BY <1>1, <1>2
<1>4. bucket' = [bucket EXCEPT ![i] = Cleaned(entries)]
  BY <1>1 DEF AllowBucket
<1> HIDE DEF entries
<1>5. /\ Cleaned(entries)[c] = left
      /\ \A d \in Clients \ {c} :
            \/ Cleaned(entries)[d] = entries[d]
            \/ Cleaned(entries)[d] = NoBucket /\ now - entries[d].at > Idle
  <2>1. ~(now - left.at > Idle)
    BY <1>1, <1>2, RateBoundAssumption
  <2>2. CASE Cleaned(entries) = entries
    BY <1>3, <2>2
  <2>3. CASE Cleaned(entries) = [d \in Clients |-> IF now - entries[d].at > Idle THEN NoBucket
                                                 ELSE entries[d]]
    BY <1>3, <2>1, <2>3
  <2> QED BY <2>2, <2>3 DEF Cleaned
<1>6. \A d \in Clients : bucket'[i][d] = Cleaned(entries)[d]
  BY <1>1, <1>4
<1>7. \A j \in Instances \ {i} : bucket'[j] = bucket[j]
  BY <1>1, <1>4
<1>8. ASSUME NEW j \in Instances, NEW d \in Clients
      PROVE  \/ bucket'[j][d] = bucket[j][d]
             \/ j = i /\ d = c
             \/ bucket'[j][d] = NoBucket /\ now - bucket[j][d].at > Idle
  <2>1. CASE j # i
    BY <1>7, <2>1
  <2>2. CASE j = i /\ d # c
    <3>1. entries[d] = bucket[i][d]
      BY <1>3, <2>2
    <3>2. bucket'[i][d] = Cleaned(entries)[d]
      BY <1>6
    <3> QED BY <1>5, <2>2, <3>1, <3>2
  <2> QED BY <2>1, <2>2
<1> QED BY <1>2, <1>5, <1>6, <1>8

LEMMA EarnedBucket ==
    ASSUME Sound, EarnedInv, NEW c \in Clients, NEW i \in Instances, AllowInMemory(c, i),
           ~conf.fixed, AllowBucket(c, i)
    PROVE  EarnedInv'
<1>1. PICK t \in Nat, b \in Tokened, n \in 0..Full :
         t = now /\ t = now' /\ b = bucket[i][c] /\ n = Tokens(b)
  BY TokensType DEF Sound, TypeOK, AllowInMemory
<1> DEFINE pass == n >= Token
           left == [tokens |-> Spend(n), at |-> t]
<1>2. ~Shared /\ UNCHANGED <<conf, window>> /\ Verdict(NewRequest(c), pass)
  BY <1>1 DEF AllowInMemory, AllowBucket
<1>3. /\ left \in Tokened /\ left # NoBucket /\ bucket'[i][c] = left
      /\ \A j \in Instances, d \in Clients :
            bucket'[j][d] \in {bucket[j][d], NoBucket} \/ (j = i /\ d = c)
  BY <1>1, EntriesLeft
<1>4. pass \in BOOLEAN /\ IsFiniteSet(verdicts)
  BY DEF Sound
<1>5. /\ \A v \in verdicts' : v \in verdicts \/ (v.client = c /\ v.at = t /\ v.pass = pass)
      /\ \A d, from, to : Passed(d, from, to) <= Passed(d, from, to)'
      /\ \A d, from, to : Cost(d, from, to) <= Cost(d, from, to)'
      /\ \A from, to : pass /\ t \in from..to => Cost(c, from, to)' = Cost(c, from, to) + Token
      /\ \A d, from, to : Passed(d, from, to)' \in Nat /\ Cost(d, from, to)' \in Nat
      /\ \A d, from, to : Passed(d, from, to) \in Nat /\ Cost(d, from, to) \in Nat
  <2> HIDE DEF pass
  <2> QED BY <1>1, <1>2, <1>4, CountedOnce, AdmittedFacts
\* Before the request the tokens are paid for.
<1>6. ASSUME NEW x \in Int, x <= t
      PROVE  n + Cost(c, x + 1, t) >= Full \/ n + Cost(c, x + 1, t) >= Refill(t, x)
  <2>1. CASE n = Full
    BY <1>5, <2>1, Products
  <2>2. CASE b # NoBucket /\ n # Full
    <3>1. PICK m \in Nat, at \in Nat :
             m = b.tokens /\ at = b.at /\ at <= t /\ n = m + Refill(t, at)
      BY <1>1, <2>2, TokensAre
    <3>2. Refill(t, at) \in Int /\ Refill(t, at) >= 0 /\ Refill(t, x) \in Int
      <4>1. t >= at
        BY <3>1
      <4>2. Refill(t, at) \in Nat
        BY <4>1, RefillGrows
      <4>3. Refill(t, x) \in Int
        BY Refills
      <4> QED BY <4>2, <4>3
    <3>3. CASE x <= at
      <4>1. m + Cost(c, x + 1, t) >= Full \/ m + Cost(c, x + 1, t) >= Refill(at, x)
        BY <1>1, <1>2, <2>2, <3>1, <3>3 DEF EarnedInv, BucketPaid
      <4>2. Refill(t, x) = Refill(t, at) + Refill(at, x) /\ Refill(at, x) \in Int
        <5>1. Refill(at, x) \in Int
          BY Refills
        <5>2. Refill(t, x) = Refill(t, at) + Refill(at, x)
          BY RefillsAdd
        <5> QED BY <5>1, <5>2
      <4>3. Cost(c, x + 1, t) \in Nat
        BY <1>5
      <4> QED BY <3>1, <3>2, <4>1, <4>2, <4>3, Products
    <3>4. CASE x > at
      <4>1. Refill(t, at) = Refill(t, x) + Refill(x, at) /\ Refill(x, at) >= 0
            /\ Refill(x, at) \in Int
        <5>1. Refill(x, at) \in Nat
          BY <3>4, RefillGrows
        <5>2. Refill(t, at) = Refill(t, x) + Refill(x, at)
          BY RefillsAdd
        <5> QED BY <5>1, <5>2
      <4>2. Cost(c, x + 1, t) \in Nat
        BY <1>5
      <4> QED BY <3>1, <3>2, <4>1, <4>2
    <3> QED BY <3>3, <3>4
  <2> QED BY <1>1, <2>1, <2>2, TokensAre
\* What is left of them afterwards is, too.
<1>7. BucketPaid(left, c)'
  <2>1. SUFFICES ASSUME NEW x \in Int, x <= t
                 PROVE  \/ Spend(n) + Cost(c, x + 1, t)' >= Full
                        \/ Spend(n) + Cost(c, x + 1, t)' >= Refill(t, x)
    BY <1>1 DEF BucketPaid, Full, Refill, Spend
  <2>2. /\ Cost(c, x + 1, t) \in Nat /\ Cost(c, x + 1, t)' \in Nat
        /\ Cost(c, x + 1, t) <= Cost(c, x + 1, t)'
    BY <1>5
  <2>7. Refill(t, x) \in Int
    BY Refills
  <2>3. n + Cost(c, x + 1, t) >= Full \/ n + Cost(c, x + 1, t) >= Refill(t, x)
    BY <1>6, <2>1
  <2>4. CASE ~pass
    BY <2>2, <2>3, <2>4, <2>7, Products DEF Spend
  <2>5. CASE pass /\ x < t
    <3>1. Cost(c, x + 1, t)' = Cost(c, x + 1, t) + Token
      BY <1>5, <2>5
    <3> QED BY <2>2, <2>3, <2>5, <2>7, <3>1, Products, QuotaAssumption DEF Spend
  <2>6. CASE pass /\ x = t
    <3>1. Refill(t, t) = 0
      BY QuotaAssumption DEF Refill
    <3> QED BY <2>2, <2>6, <3>1, Products, QuotaAssumption DEF Spend
  <2> QED BY <2>1, <2>4, <2>5, <2>6
<1>8. ASSUME NEW j \in Instances, NEW d \in Clients
      PROVE  WindowPaid(j, d)' /\ (bucket'[j][d] # NoBucket => BucketPaid(bucket[j][d], d)')
  <2>1. \A from \in Int : /\ Passed(d, from, now) <= Passed(d, from, now)'
                          /\ Passed(d, from, now) \in Nat /\ Passed(d, from, now)' \in Nat
                          /\ Cost(d, from, now) <= Cost(d, from, now)'
                          /\ Cost(d, from, now) \in Nat /\ Cost(d, from, now)' \in Nat
    BY <1>1, <1>5
  <2>2. /\ WindowPaid(j, d) /\ window'[j][d] = window[j][d] => WindowPaid(j, d)'
        /\ \A e \in Tokened : BucketPaid(e, d) => BucketPaid(e, d)'
    BY <2>1, PaidStays
  <2>3. WindowPaid(j, d)'
    BY <1>2, <2>2 DEF EarnedInv
  <2>4. CASE j = i /\ d = c
    BY <1>3, <1>7, <2>3, <2>4
  <2>5. CASE ~(j = i /\ d = c) /\ bucket'[j][d] # NoBucket
    <3>1. PICK e \in Tokened : e = bucket[j][d] /\ e = bucket'[j][d]
      BY <1>3, <2>5 DEF Sound, TypeOK
    <3> QED BY <1>2, <2>2, <2>3, <2>5, <3>1 DEF EarnedInv
  <2> QED BY <2>3, <2>4, <2>5
<1>9. ASSUME NEW v \in verdicts' PROVE v.pass \/ Earned(v)'
  <2>1. CASE v \in verdicts
    <3>1. v.pass \/ Earned(v)
      BY <1>2, <2>1 DEF EarnedInv
    <3> QED BY <1>2, <1>5, <3>1, EarnedStays
  <2>2. CASE v.client = c /\ v.at = t /\ v.pass = pass /\ ~pass
    <3>1. PICK q \in Nat : q = Full \div Rate /\ Rate * (q + 1) > Full
      BY Quotients
    <3>2. PICK x \in Int : x = t - q - 1 /\ x <= t /\ x + 1 = t - q
      OBVIOUS
    <3>3. Refill(t, x) > Full
      <4>1. t - x = q + 1
        BY <3>2
      <4> QED BY <3>1, <4>1 DEF Refill
    <3>4. Refill(t, x) \in Int /\ Cost(c, t - q, t) \in Nat
      <4>1. Refill(t, x) \in Int
        BY Refills
      <4> QED BY <1>5, <4>1
    <3>5. n + Cost(c, t - q, t) >= Full \/ n + Cost(c, t - q, t) >= Refill(t, x)
      BY <1>6, <3>2
    <3>6. Cost(c, t - q, t) + Token > Full
      BY <2>2, <3>3, <3>4, <3>5, Products, QuotaAssumption
    <3>7. Passed(c, t - q, t) >= Burst
      BY <1>5, <3>6, Costs DEF Cost
    <3>8. Passed(c, t - q, t)' >= Burst
      BY <1>5, <3>7, QuotaAssumption
    <3> QED BY <1>2, <2>2, <3>1, <3>8 DEF Earned, Full
  <2> QED BY <1>5, <2>1, <2>2
<1> QED BY <1>2, <1>8, <1>9 DEF EarnedInv

LEMMA EarnedAround ==
    ASSUME Sound, EarnedInv, ~Shared, Clear \/ Tick \/ UNCHANGED vars
    PROVE  EarnedInv'
<1>1. /\ UNCHANGED <<conf, window, verdicts>> /\ now' \in Nat /\ now' >= now /\ now \in Nat
      /\ IsFiniteSet(verdicts)
      /\ bucket \in [Instances -> [Clients -> Tokened]]
      /\ \A i \in Instances, c \in Clients : bucket'[i][c] \in {bucket[i][c], NoBucket}
  BY DEF Clear, Tick, vars, Sound, TypeOK
<1>2. \A d, from, to : /\ Passed(d, from, to)' = Passed(d, from, to)
                      /\ Cost(d, from, to)' = Cost(d, from, to)
                      /\ Passed(d, from, to) \in Nat /\ Cost(d, from, to) \in Nat
  <2> SUFFICES ASSUME NEW d, NEW from, NEW to
               PROVE  /\ Passed(d, from, to)' = Passed(d, from, to)
                      /\ Cost(d, from, to)' = Cost(d, from, to)
                      /\ Passed(d, from, to) \in Nat /\ Cost(d, from, to) \in Nat
    OBVIOUS
  <2>1. Passed(d, from, to)' = Passed(d, from, to)
    BY <1>1 DEF Passed
  <2> QED BY <1>1, <2>1, AdmittedFacts DEF Cost
<1>3. ASSUME NEW i \in Instances, NEW c \in Clients
      PROVE  WindowPaid(i, c)' /\ (bucket'[i][c] # NoBucket => BucketPaid(bucket[i][c], c)')
  <2>1. ASSUME NEW from \in Int
        PROVE  Passed(c, from, now) <= Passed(c, from, now)'
               /\ Cost(c, from, now) <= Cost(c, from, now)'
    <3>1. PICK t \in Nat, u \in Nat : t = now /\ u = now' /\ u >= t
      BY <1>1
    <3>2. Admitted(c, from, t) = Admitted(c, from, u)
      BY <3>1, NothingAhead
    <3>3. Passed(c, from, t) = Passed(c, from, u) /\ Cost(c, from, t) = Cost(c, from, u)
      BY <1>1, <3>2, AdmittedFacts DEF Cost
    <3> QED BY <1>2, <3>1, <3>3
  <2>2. /\ WindowPaid(i, c) /\ window'[i][c] = window[i][c] => WindowPaid(i, c)'
        /\ \A b \in Tokened : BucketPaid(b, c) => BucketPaid(b, c)'
    BY <1>2, <2>1, PaidStays
  <2>3. PICK b \in Tokened : b = bucket[i][c]
    BY <1>1
  <2>4. bucket'[i][c] # NoBucket => BucketPaid(bucket[i][c], c)'
    <3>1. SUFFICES ASSUME bucket'[i][c] # NoBucket PROVE BucketPaid(bucket[i][c], c)'
      OBVIOUS
    <3>2. b = bucket'[i][c] /\ BucketPaid(b, c)
      BY <1>1, <2>3, <3>1 DEF EarnedInv
    <3> QED BY <2>2, <3>2
  <2> QED BY <1>1, <2>2, <2>4 DEF EarnedInv
<1>4. ASSUME NEW v \in verdicts PROVE v.pass \/ Earned(v)'
  <2>1. v.pass \/ Earned(v)
    BY DEF EarnedInv
  <2>2. \A d, from, to : Passed(d, from, to) <= Passed(d, from, to)'
    BY <1>2
  <2> QED BY <1>1, <1>2, <2>1, <2>2, EarnedStays
<1> QED BY <1>1, <1>3, <1>4 DEF EarnedInv

LEMMA NextEarned == Sound /\ EarnedInv /\ [Next]_vars => EarnedInv'
<1> SUFFICES ASSUME Sound, EarnedInv, [Next]_vars PROVE EarnedInv'
  OBVIOUS
<1>1. UNCHANGED conf
  BY DEF Next, vars, AllowInMemory, SharedStep, Incr, Renew, Trim, Card, Add, StartShared,
         Clear, Tick, SwitchRedis, Quiet
<1>2. CASE Shared
  BY <1>1, <1>2 DEF EarnedInv, Shared
<1>3. CASE ~Shared
  <2>1. ASSUME NEW c \in Clients, NEW i \in Instances, AllowInMemory(c, i)
        PROVE  EarnedInv'
    BY <2>1, EarnedWindow, EarnedBucket DEF AllowInMemory
  <2>2. \A p \in Procs : ~SharedStep(p) /\ \A c \in Clients : ~StartShared(p, c)
    BY <1>3 DEF Sound, Requested, Working, StartShared, SharedStep, Incr, Renew, Trim, Card, Add
  <2>3. ~SwitchRedis
    BY <1>3 DEF SwitchRedis
  <2> QED BY <1>3, <2>1, <2>2, <2>3, EarnedAround DEF Next, Quiet
<1> QED BY <1>2, <1>3

\* In memory a request is refused only when its client used up its quota not long before:
\* refused requests are not held against a client.
THEOREM RefusalsEarned == Spec => []MemoryRefusalsEarned
<1>1. Init => Sound /\ EarnedInv
  BY InitSound DEF Init, EarnedInv, WindowPaid, NoEntry
<1>2. Sound /\ EarnedInv /\ [Next]_vars => (Sound /\ EarnedInv)'
  BY NextSound, NextEarned
<1>3. EarnedInv => MemoryRefusalsEarned
  BY DEF EarnedInv, MemoryRefusalsEarned
<1> QED BY <1>1, <1>2, <1>3, PTL DEF Spec

-----------------------------------------------------------------------------
(* The quota of a bucket. *)

Home == CHOOSE i \in Instances : TRUE

\* Without an entry the bucket would be full; with one, what was let through since any
\* time, and the tokens left, are no more than a full bucket and what flowed in since.
BucketKept(c, b) ==
    /\ b = NoBucket => \A from \in Int : from <= now => Cost(c, from, now) <= Refill(now, from)
    /\ b # NoBucket =>
          /\ \A from \in Int : from <= b.at =>
                Cost(c, from, now) + b.tokens <= Full + Refill(b.at, from)
          /\ Admitted(c, b.at + 1, now) = {}

BucketQuota == ~Shared /\ ~conf.fixed /\ ~cleared => \A c \in Clients :
    /\ BucketKept(c, bucket[Home][c])
    /\ \A from, to \in Int : from <= to /\ to <= now =>
          Cost(c, from, to) <= Full + Refill(to, from)

LEMMA HomeServes ==
    /\ Home \in Instances
    /\ \A c, i : Sound /\ AllowInMemory(c, i) => i = Home
<1>1. Home \in Instances
  BY RateBoundAssumption DEF Home
<1>2. ASSUME Sound, NEW c, NEW i, AllowInMemory(c, i) PROVE i = Home
  BY <1>2 DEF Sound, Validate, AllowInMemory, Serving, Shared, Home
<1> QED BY <1>1, <1>2

\* A clean-up drops full buckets only.
LEMMA DroppedWhenFull ==
    ASSUME Burst * Token <= Rate * (Idle + 1),
           NEW at \in Int, NEW t \in Int, t - at > Idle
    PROVE  Refill(t, at) >= Full
<1>1. PICK d \in Nat : d = t - at - (Idle + 1)
  BY RateBoundAssumption
<1>2. t - at = (Idle + 1) + d /\ Idle + 1 \in Nat
  BY <1>1, RateBoundAssumption
<1>3. Rate * (t - at) = Rate * (Idle + 1) + Rate * d
  BY <1>2, QuotaAssumption
<1>4. Rate * d \in Nat /\ Rate * (Idle + 1) \in Nat
  BY <1>2, Products
<1> QED BY <1>3, <1>4, Products DEF Refill, Full

LEMMA QuotaBucketStep ==
    ASSUME Burst * Token <= Rate * (Idle + 1), Sound, BucketQuota,
           NEW c \in Clients, NEW i \in Instances, AllowInMemory(c, i),
           ~conf.fixed, AllowBucket(c, i)
    PROVE  BucketQuota'
<1> SUFFICES ASSUME ~cleared PROVE BucketQuota'
  BY DEF BucketQuota, AllowInMemory
<1>1. PICK t \in Nat, b \in Tokened, n \in 0..Full :
         t = now /\ t = now' /\ b = bucket[i][c] /\ n = Tokens(b) /\ i = Home
  BY TokensType, HomeServes DEF Sound, TypeOK, AllowInMemory
<1> DEFINE pass == n >= Token
           left == [tokens |-> Spend(n), at |-> t]
<1>2. ~Shared /\ UNCHANGED <<conf, cleared>> /\ Verdict(NewRequest(c), pass)
  BY <1>1 DEF AllowInMemory, AllowBucket
<1>3. /\ left \in Tokened /\ left # NoBucket /\ bucket'[i][c] = left
      /\ \A d \in Clients \ {c} :
            \/ bucket'[i][d] = bucket[i][d]
            \/ bucket'[i][d] = NoBucket /\ t - bucket[i][d].at > Idle
  BY <1>1, EntriesLeft
<1>4. pass \in BOOLEAN /\ IsFiniteSet(verdicts)
  BY DEF Sound
<1>5. /\ \A d, from, to : (d # c \/ ~pass \/ t \notin from..to) =>
            /\ Admitted(d, from, to)' = Admitted(d, from, to)
            /\ Cost(d, from, to)' = Cost(d, from, to)
      /\ \A from, to : pass /\ t \in from..to => Cost(c, from, to)' = Cost(c, from, to) + Token
      /\ \A d, from, to : Cost(d, from, to)' \in Nat /\ Cost(d, from, to) \in Nat
  <2> HIDE DEF pass
  <2> QED BY <1>1, <1>2, <1>4, CountedOnce, AdmittedFacts
<1>6. ASSUME NEW from \in Int, from <= t
      PROVE  Cost(c, from, t) + n <= Full + Refill(t, from)
  <2>1. PICK k \in Nat, g \in Nat : k = Cost(c, from, t) /\ g = Refill(t, from)
    BY <1>5, <1>6, RefillGrows
  <2>2. BucketKept(c, b)
    BY <1>1, <1>2 DEF BucketQuota
  <2>3. CASE b = NoBucket
    <3>1. k <= g /\ n = Full
      BY <1>1, <1>6, <2>1, <2>2, <2>3, TokensAre DEF BucketKept
    <3> QED BY <2>1, <3>1, Products
  <2>4. CASE b # NoBucket
    <3>1. PICK m \in Nat, at \in Nat :
             m = b.tokens /\ at = b.at /\ at <= t /\ n <= Full /\ n <= m + Refill(t, at)
      BY <1>1, <2>4, TokensAre
    <3>2. CASE from <= at
      <4>1. k + m <= Full + Refill(at, from)
        BY <1>1, <2>1, <2>2, <2>4, <3>1, <3>2 DEF BucketKept
      <4>2. PICK u \in Nat : u = Refill(t, at)
        <5>1. t >= at
          BY <3>1
        <5> QED BY <5>1, RefillGrows
      <4>3. PICK w \in Nat : w = Refill(at, from)
        BY <3>2, RefillGrows
      <4>4. Refill(t, from) = Refill(t, at) + Refill(at, from)
        BY RefillsAdd
      <4>5. g = u + w
        BY <2>1, <4>2, <4>3, <4>4
      <4> QED BY <2>1, <3>1, <4>1, <4>2, <4>3, <4>5, Products
    <3>3. CASE from > at
      <4>1. Admitted(c, at + 1, t) = {}
        BY <1>1, <2>2, <2>4, <3>1 DEF BucketKept
      <4>2. Admitted(c, from, t) = {}
        BY <3>3, <4>1 DEF Admitted, Sound, TypeOK, Answers
      <4>3. k = 0
        BY <1>4, <2>1, <4>2, AdmittedFacts
      <4> QED BY <2>1, <3>1, <4>3, Products
    <3> QED BY <3>2, <3>3
  <2> QED BY <2>3, <2>4
<1>7. ASSUME NEW from \in Int, from <= t
      PROVE  Cost(c, from, t)' + Spend(n) <= Full + Refill(t, from)
  <2>1. PICK k \in Nat, l \in Nat, g \in Nat :
           k = Cost(c, from, t) /\ l = Cost(c, from, t)' /\ g = Refill(t, from)
    <3>1. Refill(t, from) \in Nat
      BY <1>7, RefillGrows
    <3>2. Cost(c, from, t) \in Nat /\ Cost(c, from, t)' \in Nat
      BY <1>5
    <3> QED BY <3>1, <3>2
  <2>2. k + n <= Full + g
    BY <1>6, <1>7, <2>1
  <2>3. l = IF pass THEN k + Token ELSE k
    BY <1>5, <1>7, <2>1
  <2> QED BY <2>1, <2>2, <2>3, Products, QuotaAssumption DEF Spend
<1>8. BucketKept(c, left)'
  <2>1. Admitted(c, t + 1, t)' = {}
    BY DEF Admitted
  <2>2. SUFFICES ASSUME NEW from \in Int, from <= t
                 PROVE  Cost(c, from, t)' + Spend(n) <= Full + Refill(t, from)
    BY <1>1, <1>3, <2>1 DEF BucketKept, Full, Refill, Spend
  <2> QED BY <1>7, <2>2
<1>9. ASSUME NEW d \in Clients, d # c PROVE BucketKept(d, bucket[i][d])'
  <2>1. PICK e \in Tokened, f \in Tokened : e = bucket[i][d] /\ f = bucket'[i][d]
    <3>1. NoBucket \in Tokened
      BY Products DEF NoBucket, Tokened, Full
    <3> QED BY <1>1, <1>3, <1>9, <3>1 DEF Sound, TypeOK
  <2>2. BucketKept(d, e)
    BY <1>1, <1>2, <2>1 DEF BucketQuota
  <2>3. CASE f = e
    <3>1. BucketKept(d, e)'
      BY <1>1, <1>5, <1>9, <2>2 DEF BucketKept, Refill, Full
    <3> QED BY <2>1, <2>3, <3>1
  <2>4. CASE f = NoBucket /\ e # NoBucket /\ t - e.at > Idle
    <3>1. PICK m \in Nat, at \in Nat : m = e.tokens /\ at = e.at /\ at <= t
      BY <1>1, <2>1, <2>4, TokensAre
    <3>2. ASSUME NEW from \in Int, from <= t PROVE Cost(d, from, t) <= Refill(t, from)
      <4>1. PICK k \in Nat, g \in Nat : k = Cost(d, from, t) /\ g = Refill(t, from)
        BY <1>5, <3>2, RefillGrows
      <4>2. CASE from <= at
        <5>1. k + m <= Full + Refill(at, from)
          BY <1>1, <2>2, <2>4, <3>1, <4>1, <4>2 DEF BucketKept
        <5>2. PICK u \in Nat : u = Refill(t, at) /\ u >= Full
          <6>1. t >= at /\ t - at > Idle
            BY <2>4, <3>1
          <6>2. Refill(t, at) \in Nat
            BY <6>1, RefillGrows
          <6>3. Refill(t, at) >= Full
            BY <6>1, DroppedWhenFull
          <6> QED BY <6>2, <6>3
        <5>3. PICK w \in Nat : w = Refill(at, from)
          BY <4>2, RefillGrows
        <5>4. Refill(t, from) = Refill(t, at) + Refill(at, from)
          BY RefillsAdd
        <5>5. g = u + w
          BY <4>1, <5>2, <5>3, <5>4
        <5> QED BY <4>1, <5>1, <5>2, <5>3, <5>5, Products
      <4>3. CASE from > at
        <5>1. Admitted(d, at + 1, t) = {}
          BY <1>1, <2>2, <2>4, <3>1 DEF BucketKept
        <5>2. Admitted(d, from, t) = {}
          BY <4>3, <5>1 DEF Admitted, Sound, TypeOK, Answers
        <5>3. k = 0
          BY <1>4, <4>1, <5>2, AdmittedFacts
        <5> QED BY <4>1, <5>3
      <4> QED BY <4>2, <4>3
    <3>3. BucketKept(d, NoBucket)'
      BY <1>1, <1>5, <1>9, <3>2 DEF BucketKept, Refill, NoBucket
    <3> QED BY <2>1, <2>4, <3>3
  <2> QED BY <1>3, <1>9, <2>1, <2>3, <2>4
<1>10. ASSUME NEW d \in Clients, NEW from \in Int, NEW to \in Int, from <= to, to <= t
       PROVE  Cost(d, from, to)' <= Full + Refill(to, from)
  <2>1. CASE d # c \/ to # t
    <3>1. Cost(d, from, to)' = Cost(d, from, to)
      BY <1>5, <1>10, <2>1
    <3>2. Cost(d, from, to) <= Full + Refill(to, from)
      BY <1>1, <1>2, <1>10 DEF BucketQuota
    <3> QED BY <3>1, <3>2
  <2>2. CASE d = c /\ to = t
    <3>1. Cost(c, from, t)' + Spend(n) <= Full + Refill(t, from)
      BY <1>7, <1>10, <2>2
    <3>2. PICK l \in Nat, g \in Nat : l = Cost(c, from, t)' /\ g = Refill(t, from)
      BY <1>5, <1>10, <2>2, RefillGrows
    <3>3. Spend(n) \in Nat
      BY Products, QuotaAssumption DEF Spend
    <3> QED BY <2>2, <3>1, <3>2, <3>3, Products
  <2> QED BY <2>1, <2>2
<1>11. ASSUME NEW d \in Clients PROVE BucketKept(d, bucket[Home][d])'
  <2>1. CASE d = c
    <3>1. bucket'[Home][d] = left
      BY <1>1, <1>3, <2>1
    <3> HIDE DEF left
    <3> QED BY <1>8, <2>1, <3>1 DEF Home
  <2>2. CASE d # c
    BY <1>1, <1>9, <2>2 DEF Home
  <2> QED BY <2>1, <2>2
<1>12. BucketQuota' <=> \A d \in Clients :
          /\ BucketKept(d, bucket[Home][d])'
          /\ \A from, to \in Int : from <= to /\ to <= t =>
                Cost(d, from, to)' <= Full + Refill(to, from)
  BY <1>1, <1>2 DEF BucketQuota, Shared, Full, Refill, AllowInMemory
<1> QED BY <1>10, <1>11, <1>12

LEMMA QuotaBucketAround ==
    ASSUME Sound, BucketQuota, ~Shared, ~conf.fixed, Clear \/ Tick \/ UNCHANGED vars
    PROVE  BucketQuota'
<1> SUFFICES ASSUME ~cleared' PROVE BucketQuota'
  BY DEF BucketQuota
<1>1. PICK t \in Nat, u \in Nat : t = now /\ u = now' /\ u \in {t, t + 1}
  <2>1. now \in Nat /\ now' \in {now, now + 1}
    BY DEF Clear, Tick, vars, Sound, TypeOK
  <2> QED BY <2>1
<1>2. UNCHANGED <<conf, bucket, verdicts>> /\ ~cleared /\ IsFiniteSet(verdicts)
  BY DEF Clear, Tick, vars, Sound
<1>3. ASSUME NEW d, NEW from, NEW to
      PROVE  /\ Admitted(d, from, to)' = Admitted(d, from, to)
             /\ Cost(d, from, to)' = Cost(d, from, to) /\ Cost(d, from, to) \in Nat
  <2>1. Passed(d, from, to)' = Passed(d, from, to)
    BY <1>2 DEF Passed
  <2>2. Admitted(d, from, to)' = Admitted(d, from, to)
    BY <1>2 DEF Admitted
  <2> QED BY <1>2, <2>1, <2>2, AdmittedFacts DEF Cost
<1>4. ASSUME NEW d, NEW from \in Int, NEW to \in Int, to >= t
      PROVE  /\ Admitted(d, from, to) = Admitted(d, from, t)
             /\ Cost(d, from, to) = Cost(d, from, t)
             /\ from > t => Admitted(d, from, to) = {} /\ Cost(d, from, to) = 0
  <2>1. Admitted(d, from, to) = Admitted(d, from, t) /\ (from > t => Admitted(d, from, to) = {})
    BY <1>1, <1>4, NothingAhead
  <2> QED BY <1>2, <2>1, AdmittedFacts DEF Cost
<1>5. ASSUME NEW d \in Clients PROVE BucketKept(d, bucket[Home][d])'
  <2>1. PICK b \in Tokened : b = bucket[Home][d] /\ b = bucket'[Home][d]
    BY <1>2, HomeServes DEF Sound, TypeOK
  <2>2. BucketKept(d, b)
    BY <1>2, <2>1 DEF BucketQuota
  <2>3. CASE b = NoBucket
    <3>1. ASSUME NEW from \in Int, from <= u PROVE Cost(d, from, u) <= Refill(u, from)
      <4>1. PICK g \in Nat : g = Refill(u, from)
        BY <3>1, RefillGrows
      <4>2. CASE from > t
        <5>1. Cost(d, from, u) = 0
          BY <1>1, <1>4, <4>2
        <5> QED BY <4>1, <5>1
      <4>3. CASE from <= t
        <5>1. Cost(d, from, u) = Cost(d, from, t)
          BY <1>1, <1>4
        <5>2. Cost(d, from, t) <= Refill(t, from)
          BY <1>1, <2>2, <2>3, <4>3 DEF BucketKept
        <5>3. PICK h \in Nat : h = Refill(t, from)
          BY <4>3, RefillGrows
        <5>4. PICK w \in Nat : w = Refill(u, t)
          BY <1>1, RefillGrows
        <5>5. Refill(u, from) = Refill(u, t) + Refill(t, from)
          BY RefillsAdd
        <5>6. g = w + h
          BY <4>1, <5>3, <5>4, <5>5
        <5>7. PICK k \in Nat : k = Cost(d, from, t)
          BY <1>3
        <5> QED BY <4>1, <5>1, <5>2, <5>3, <5>6, <5>7
      <4> QED BY <4>2, <4>3
    <3>2. \A from \in Int : from <= u => Cost(d, from, u)' <= Refill(u, from)
      BY <1>3, <3>1
    <3>3. BucketKept(d, NoBucket)'
      BY <1>1, <3>2 DEF BucketKept, Refill, NoBucket
    <3> QED BY <2>1, <2>3, <3>3
  <2>4. CASE b # NoBucket
    <3>1. PICK m \in Nat, at \in Nat : m = b.tokens /\ at = b.at /\ at <= t
      BY <1>1, <2>1, <2>4, HomeServes, TokensAre
    <3>2. ASSUME NEW from \in Int, from <= at
          PROVE  Cost(d, from, u)' + m <= Full + Refill(at, from)
      <4>1. Cost(d, from, t) + m <= Full + Refill(at, from)
        BY <1>1, <2>2, <2>4, <3>1, <3>2 DEF BucketKept
      <4>2. Cost(d, from, u)' = Cost(d, from, t)
        BY <1>1, <1>3, <1>4
      <4> QED BY <4>1, <4>2
    <3>3. Admitted(d, at + 1, u)' = {}
      <4>1. Admitted(d, at + 1, t) = {}
        BY <1>1, <2>2, <2>4, <3>1 DEF BucketKept
      <4> QED BY <1>1, <1>3, <1>4, <4>1
    <3>4. BucketKept(d, b)'
      BY <1>1, <2>4, <3>1, <3>2, <3>3 DEF BucketKept, Refill, Full
    <3> QED BY <2>1, <3>4
  <2> QED BY <2>3, <2>4
<1>6. ASSUME NEW d \in Clients, NEW from \in Int, NEW to \in Int, from <= to, to <= u
      PROVE  Cost(d, from, to)' <= Full + Refill(to, from)
  <2>1. CASE to <= t
    BY <1>1, <1>2, <1>3, <1>6, <2>1 DEF BucketQuota
  <2>2. CASE to > t /\ from <= t
    <3>1. Cost(d, from, to)' = Cost(d, from, t)
      BY <1>3, <1>4, <2>2
    <3>2. Cost(d, from, t) <= Full + Refill(t, from)
      BY <1>1, <1>2, <2>2 DEF BucketQuota
    <3>3. PICK h \in Nat : h = Refill(t, from)
      BY <2>2, RefillGrows
    <3>4. PICK w \in Nat : w = Refill(to, t)
      BY <2>2, RefillGrows
    <3>5. Refill(to, from) = Refill(to, t) + Refill(t, from)
      BY RefillsAdd
    <3>6. Refill(to, from) = w + h
      BY <3>3, <3>4, <3>5
    <3>7. PICK k \in Nat : k = Cost(d, from, t)
      BY <1>3
    <3> QED BY <3>1, <3>2, <3>3, <3>6, <3>7, Products
  <2>3. CASE from > t
    <3>1. Cost(d, from, to)' = 0
      BY <1>3, <1>4, <1>6, <2>3
    <3>2. PICK h \in Nat : h = Refill(to, from)
      BY <1>6, RefillGrows
    <3> QED BY <3>1, <3>2, Products
  <2> QED BY <2>1, <2>2, <2>3
<1> QED BY <1>1, <1>2, <1>5, <1>6 DEF BucketQuota, Full, Refill

LEMMA QuotaBucketNext ==
    ASSUME Burst * Token <= Rate * (Idle + 1), Sound, BucketQuota, [Next]_vars
    PROVE  BucketQuota'
<1>1. UNCHANGED conf
  BY DEF Next, vars, AllowInMemory, SharedStep, Incr, Renew, Trim, Card, Add, StartShared,
         Clear, Tick, SwitchRedis, Quiet
<1>2. CASE Shared \/ conf.fixed
  BY <1>1, <1>2 DEF BucketQuota, Shared
<1>3. CASE ~Shared /\ ~conf.fixed
  <2>1. ASSUME NEW c \in Clients, NEW i \in Instances, AllowInMemory(c, i)
        PROVE  BucketQuota'
    BY <1>3, <2>1, QuotaBucketStep DEF AllowInMemory
  <2>2. \A p \in Procs : ~SharedStep(p) /\ \A c \in Clients : ~StartShared(p, c)
    BY <1>3 DEF Sound, Requested, Working, StartShared, SharedStep, Incr, Renew, Trim, Card, Add
  <2>3. ~SwitchRedis
    BY <1>3 DEF SwitchRedis
  <2> QED BY <1>3, <2>1, <2>2, <2>3, QuotaBucketAround DEF Next, Quiet
<1> QED BY <1>2, <1>3

LEMMA QuotaBucketInit == Init => BucketQuota
<1> SUFFICES ASSUME Init PROVE BucketQuota
  OBVIOUS
<1>1. IsFiniteSet(verdicts) /\ now = 0
  BY FS_EmptySet DEF Init
<1>2. ASSUME NEW c, NEW from, NEW to PROVE Cost(c, from, to) = 0
  <2>1. Admitted(c, from, to) = {}
    BY DEF Admitted, Init
  <2> QED BY <1>1, <2>1, AdmittedFacts
<1>3. ASSUME NEW c \in Clients PROVE BucketKept(c, bucket[Home][c])
  <2>1. bucket[Home][c] = NoBucket
    BY HomeServes DEF Init
  <2>2. ASSUME NEW from \in Int, from <= now PROVE Cost(c, from, now) <= Refill(now, from)
    <3>1. Refill(now, from) \in Nat
      BY <1>1, <2>2, RefillGrows
    <3> QED BY <1>2, <3>1
  <2> QED BY <2>1, <2>2 DEF BucketKept
<1>4. ASSUME NEW c, NEW from \in Int, NEW to \in Int, from <= to
      PROVE  Cost(c, from, to) <= Full + Refill(to, from)
  <2>1. Refill(to, from) \in Nat
    BY <1>4, RefillGrows
  <2> QED BY <1>2, <2>1, Products
<1> QED BY <1>3, <1>4 DEF BucketQuota

-----------------------------------------------------------------------------
(* What was granted: the requests let through, and those that will be. *)

LEMMA VerdictAdds ==
    ASSUME NEW r, NEW pass, Verdict(r, pass)
    PROVE  \E new : /\ verdicts' = verdicts \cup {new} /\ new.id = r.id /\ new.client = r.client
                    /\ new.at = r.at /\ new.pass = pass
<1> DEFINE new == [id |-> r.id, client |-> r.client, at |-> r.at, pass |-> pass,
                   quiet |-> r.quiet]
<1>1. verdicts' = verdicts \cup {new}
  BY DEF Verdict
<1>2. new.id = r.id /\ new.client = r.client /\ new.at = r.at /\ new.pass = pass
  OBVIOUS
<1> HIDE DEF new
<1> QED BY <1>1, <1>2

\* What each command does to the request of p and to the answers.
LEMMA Commands ==
    ASSUME Sound, NEW p \in Procs, SharedStep(p)
    PROVE  /\ UNCHANGED <<now, conf, used, cleared>> /\ pc[p] # "idle"
           /\ \A q \in Procs \ {p} : pc'[q] = pc[q] /\ req'[q] = req[q]
           /\ \/ pc'[p] = "idle" /\ UNCHANGED <<verdicts, counter, members>>
              \/ /\ conf.fixed /\ pc[p] = "incr" /\ pc'[p] = "renew" /\ UNCHANGED verdicts
                 /\ req'[p].id = req[p].id /\ req'[p].client = req[p].client
                 /\ req'[p].at = now /\ req'[p].n = counter[req[p].client].n + 1
                 /\ counter' = [counter EXCEPT ![req[p].client].n = req'[p].n]
              \/ /\ conf.fixed /\ pc[p] = "renew" /\ pc'[p] = "idle"
                 /\ Verdict(req[p], req[p].n <= Limit) /\ Expire(req[p].client)
              \/ /\ ~conf.fixed /\ pc[p] = "trim" /\ pc'[p] = "card" /\ req'[p] = req[p]
                 /\ members' = [members EXCEPT ![req[p].client] =
                                  {m \in members[req[p].client] : m.at > req[p].at - Second}]
                 /\ UNCHANGED verdicts
              \/ /\ ~conf.fixed /\ pc[p] = "card" /\ pc'[p] = "add"
                 /\ req'[p].id = req[p].id /\ req'[p].client = req[p].client
                 /\ req'[p].at = req[p].at
                 /\ req'[p].n = Cardinality(members[req[p].client])
                 /\ UNCHANGED <<members, verdicts>>
              \/ /\ ~conf.fixed /\ pc[p] = "add" /\ pc'[p] = "idle"
                 /\ Verdict(req[p], Within(req[p].n))
                 /\ members' = [members EXCEPT ![req[p].client] =
                       members[req[p].client] \cup {[id |-> req[p].id, at |-> req[p].at]}]
<1>1. /\ UNCHANGED <<now, conf, used, cleared>> /\ pc[p] # "idle"
  BY DEF SharedStep, Incr, Renew, Trim, Card, Add
<1>2. /\ Working(p) /\ req[p] \in Requests /\ req \in [Procs -> Requests]
      /\ pc \in [Procs -> {"idle", "incr", "renew", "trim", "card", "add"}]
      /\ members \in [Clients -> SUBSET [id : Nat, at : Nat]]
      /\ counter \in [Clients -> [n : Nat, exp : Nat]]
  BY <1>1 DEF Sound, TypeOK, Requested, Entered
<1>3. ASSUME NEW to, NEW new, Go(p, to, new)
      PROVE  /\ pc'[p] = to /\ req'[p] = new
             /\ \A q \in Procs \ {p} : pc'[q] = pc[q] /\ req'[q] = req[q]
  BY <1>2, <1>3 DEF Go
<1>4. CASE FailOpen(p)
  BY <1>1, <1>3, <1>4 DEF FailOpen, Finish, stores
<1>5. CASE Incr(p) /\ ~FailOpen(p)
  <2> DEFINE n == counter[req[p].client].n + 1
             new == [req[p] EXCEPT !.n = n, !.at = now]
  <2>1. /\ pc[p] = "incr" /\ counter' = [counter EXCEPT ![req[p].client].n = n]
        /\ Go(p, "renew", new) /\ UNCHANGED verdicts /\ conf.fixed
    BY <1>2, <1>5 DEF Incr, Working
  <2>2. /\ new.id = req[p].id /\ new.client = req[p].client /\ new.at = now /\ new.n = n
    BY <1>2 DEF Requests
  <2> HIDE DEF new
  <2>3. /\ pc'[p] = "renew" /\ req'[p] = new
        /\ \A q \in Procs \ {p} : pc'[q] = pc[q] /\ req'[q] = req[q]
    BY <1>3, <2>1
  <2> QED BY <1>1, <2>1, <2>2, <2>3
<1>6. CASE Renew(p) /\ ~FailOpen(p)
  BY <1>1, <1>2, <1>3, <1>6 DEF Renew, Finish, Working
<1>7. CASE Trim(p) /\ ~FailOpen(p)
  BY <1>1, <1>2, <1>3, <1>7 DEF Trim, Working
<1>8. CASE Card(p) /\ ~FailOpen(p)
  <2> DEFINE n == Cardinality(members[req[p].client])
             new == [req[p] EXCEPT !.n = n]
  <2>1. /\ pc[p] = "card" /\ Go(p, "add", new) /\ UNCHANGED <<members, verdicts>> /\ ~conf.fixed
    BY <1>2, <1>8 DEF Card, Working, stores
  <2>2. /\ new.id = req[p].id /\ new.client = req[p].client /\ new.at = req[p].at /\ new.n = n
    BY <1>2 DEF Requests
  <2> HIDE DEF new
  <2>3. /\ pc'[p] = "add" /\ req'[p] = new
        /\ \A q \in Procs \ {p} : pc'[q] = pc[q] /\ req'[q] = req[q]
    BY <1>3, <2>1
  <2> QED BY <1>1, <2>1, <2>2, <2>3
<1>9. CASE Add(p) /\ ~FailOpen(p)
  BY <1>1, <1>2, <1>3, <1>9 DEF Add, Finish, Working
<1> QED BY <1>4, <1>5, <1>6, <1>7, <1>8, <1>9 DEF SharedStep

\* Every request has an id of its own.
Distinct ==
    /\ \A v, w \in verdicts : v.id = w.id => v = w
    /\ \A p, q \in Procs : pc[p] # "idle" /\ pc[q] # "idle" /\ req[p].id = req[q].id => p = q
    /\ \A p \in Procs, v \in verdicts : pc[p] # "idle" => v.id # req[p].id

LEMMA DistinctNext == Sound /\ Distinct /\ [Next]_vars => Distinct'
<1> SUFFICES ASSUME Sound, Distinct, [Next]_vars PROVE Distinct'
  OBVIOUS
<1>1. /\ \A v \in verdicts : v.id \in 1..used.requests
      /\ \A p \in Procs : pc[p] # "idle" => req[p].id \in 1..used.requests
      /\ used.requests \in Nat
  BY DEF Sound, TypeOK, Requested, Working
<1>2. ASSUME NEW c \in Clients, NEW i \in Instances, AllowInMemory(c, i) PROVE Distinct'
  <2>1. UNCHANGED <<pc, req>> /\ \A p \in Procs : pc[p] = "idle"
    BY <1>2 DEF AllowInMemory, Sound, Requested, Working
  <2>2. PICK new : verdicts' = verdicts \cup {new} /\ new.id = used.requests + 1
    <3>1. \E pass : Verdict(NewRequest(c), pass)
      BY <1>2 DEF AllowInMemory, AllowWindow, AllowBucket
    <3>2. NewRequest(c).id = used.requests + 1
      BY DEF NewRequest
    <3> QED BY <3>1, <3>2, VerdictAdds
  <2>3. \A v \in verdicts : v.id # new.id
    BY <1>1, <2>2
  <2> QED BY <2>1, <2>2, <2>3 DEF Distinct
<1>3. ASSUME NEW p \in Procs, NEW c \in Clients, StartShared(p, c) PROVE Distinct'
  <2>1. /\ verdicts' = verdicts /\ pc[p] = "idle" /\ req'[p].id = used.requests + 1
        /\ \A q \in Procs \ {p} : pc'[q] = pc[q] /\ req'[q].id = req[q].id
    BY <1>3 DEF StartShared, NewRequest, Sound, TypeOK, Requests
  <2>2. \A q \in Procs \ {p} : pc'[q] # "idle" => req'[q].id # req'[p].id
    BY <1>1, <2>1
  <2>3. \A v \in verdicts : v.id # req'[p].id
    BY <1>1, <2>1
  <2> QED BY <2>1, <2>2, <2>3 DEF Distinct
<1>4. ASSUME NEW p \in Procs, SharedStep(p) PROVE Distinct'
  <2>1. /\ pc[p] # "idle"
        /\ \A q \in Procs \ {p} : pc'[q] = pc[q] /\ req'[q] = req[q]
        /\ pc'[p] # "idle" => req'[p].id = req[p].id
    BY <1>4, Commands
  <2>4. \/ verdicts' = verdicts
        \/ pc'[p] = "idle" /\ \E new : verdicts' = verdicts \cup {new} /\ new.id = req[p].id
    <3>1. ASSUME NEW pass, Verdict(req[p], pass)
          PROVE  \E new : verdicts' = verdicts \cup {new} /\ new.id = req[p].id
      BY <3>1, VerdictAdds
    <3> QED BY <1>4, <3>1, Commands
  <2>2. CASE verdicts' = verdicts
    BY <2>1, <2>2 DEF Distinct
  <2>3. ASSUME NEW new, verdicts' = verdicts \cup {new}, new.id = req[p].id, pc'[p] = "idle"
        PROVE  Distinct'
    BY <2>1, <2>3 DEF Distinct
  <2> QED BY <2>2, <2>3, <2>4
<1>5. CASE Clear \/ Tick \/ SwitchRedis \/ UNCHANGED vars
  BY <1>5 DEF Clear, Tick, SwitchRedis, vars, Distinct
<1> QED BY <1>2, <1>3, <1>4, <1>5 DEF Next, Quiet

\* A request is sure to be let through, unless Redis goes down, once its count is read.
Awaits(p) ==
    \/ pc[p] = "renew" /\ req[p].n <= Limit
    \/ pc[p] = "add" /\ Within(req[p].n)

Granted(c, from, to) ==
    {id \in 1..used.requests :
        \/ \E v \in Admitted(c, from, to) : v.id = id
        \/ \E p \in Procs : Awaits(p) /\ req[p].id = id /\ req[p].client = c
                             /\ req[p].at \in from..to}

Grants(c, from, to) == Cardinality(Granted(c, from, to))

LEMMA GrantedFinite ==
    ASSUME Sound, NEW c, NEW from, NEW to
    PROVE  IsFiniteSet(Granted(c, from, to)) /\ Grants(c, from, to) \in Nat
<1>1. used.requests \in Nat
  BY DEF Sound, TypeOK
<1>2. IsFiniteSet(1..used.requests)
  BY <1>1, FS_Interval
<1>3. Granted(c, from, to) \subseteq 1..used.requests
  BY DEF Granted
<1>4. IsFiniteSet(Granted(c, from, to))
  BY <1>2, <1>3, FS_Subset
<1> QED BY <1>4, FS_CardinalityType DEF Grants

LEMMA PassedGranted ==
    ASSUME Sound, Distinct, NEW c, NEW from, NEW to
    PROVE  Passed(c, from, to) <= Grants(c, from, to)
<1> DEFINE S == Admitted(c, from, to)
           T == Granted(c, from, to)
           f == [v \in S |-> v.id]
<1>1. \A v \in S : v \in verdicts /\ v.id \in T
  BY DEF Sound, Requested, Admitted, Granted
<1>2. \A v, w \in S : v.id = w.id => v = w
  BY <1>1 DEF Distinct
<1>3. IsFiniteSet(T)
  BY GrantedFinite
<1>4. Cardinality(S) = Passed(c, from, to)
  BY AdmittedFacts DEF Sound
<1> HIDE DEF S, T
<1>5. f \in Injection(S, T)
  BY <1>1, <1>2 DEF Injection, IsInjective
<1>6. Cardinality(S) <= Cardinality(T)
  BY <1>3, <1>5, FS_Injection
<1> QED BY <1>4, <1>6 DEF Grants, T

\* A step grants nothing new but the request x of c, at t, if ok.
GrantsOnly(c, x, t, ok) ==
    \A d, from, to : \A id \in Granted(d, from, to)' :
       \/ id \in Granted(d, from, to)
       \/ ok /\ d = c /\ t \in from..to /\ id = x

LEMMA GrantedInMemory ==
    ASSUME Sound, NEW c \in Clients, NEW i \in Instances, AllowInMemory(c, i),
           NEW pass, Verdict(NewRequest(c), pass)
    PROVE  GrantsOnly(c, used.requests + 1, now, pass)
<1>1. UNCHANGED <<pc, req>> /\ \A p \in Procs : pc[p] = "idle"
  BY DEF AllowInMemory, Sound, Requested, Working
<1>2. PICK new : /\ verdicts' = verdicts \cup {new} /\ new.id = used.requests + 1
                 /\ new.client = c /\ new.at = now /\ new.pass = pass
  <2>1. NewRequest(c).id = used.requests + 1 /\ NewRequest(c).client = c /\ NewRequest(c).at = now
    BY DEF NewRequest
  <2> QED BY <2>1, VerdictAdds
<1>3. ASSUME NEW d, NEW from, NEW to, NEW id \in Granted(d, from, to)'
      PROVE  id \in Granted(d, from, to)
             \/ (pass /\ d = c /\ now \in from..to /\ id = used.requests + 1)
  <2>1. PICK v \in Admitted(d, from, to)' : v.id = id
    BY <1>1, <1>3 DEF Granted, Awaits
  <2>2. v \in verdicts' /\ v.client = d /\ v.pass /\ v.at \in from..to
    BY <2>1 DEF Admitted
  <2>3. CASE v \in verdicts
    BY <2>1, <2>2, <2>3 DEF Granted, Admitted, Sound, Requested
  <2>4. CASE v = new
    BY <1>2, <2>1, <2>2, <2>4
  <2> QED BY <1>2, <2>2, <2>3, <2>4
<1> QED BY <1>3 DEF GrantsOnly

LEMMA GrantedInRedis ==
    ASSUME Sound, NEW p \in Procs, SharedStep(p),
           NEW c, c = req[p].client, NEW x, x = req[p].id, NEW t, t = req'[p].at,
           NEW ok, ok <=> Awaits(p)'
    PROVE  GrantsOnly(c, x, t, ok)
<1>1. used' = used /\ \A q \in Procs \ {p} : pc'[q] = pc[q] /\ req'[q] = req[q]
  BY Commands
<1>2. ASSUME NEW d, NEW from, NEW to, NEW id \in Granted(d, from, to)',
             NEW v \in Admitted(d, from, to)', v.id = id
      PROVE  id \in Granted(d, from, to)
  <2>1. v \in verdicts' /\ v.client = d /\ v.pass /\ v.at \in from..to
    BY <1>2 DEF Admitted
  <2>2. CASE v \in verdicts
    BY <1>2, <2>1, <2>2 DEF Granted, Admitted, Sound, Requested
  <2>3. ASSUME NEW pass, Verdict(req[p], pass), v \notin verdicts, pass => Awaits(p)
        PROVE  id \in Granted(d, from, to)
    <3>1. /\ v.id = req[p].id /\ v.client = req[p].client /\ v.at = req[p].at /\ v.pass = pass
      <4>1. PICK new : /\ verdicts' = verdicts \cup {new} /\ new.id = req[p].id
                       /\ new.client = req[p].client /\ new.at = req[p].at /\ new.pass = pass
        BY <2>3, VerdictAdds
      <4>2. v = new
        BY <2>1, <2>3, <4>1
      <4> QED BY <4>1, <4>2
    <3>2. id \in 1..used.requests
      BY <1>1, <1>2 DEF Granted
    <3> QED BY <1>2, <2>1, <2>3, <3>1, <3>2 DEF Granted
  <2>4. \/ verdicts' = verdicts
        \/ Verdict(req[p], req[p].n <= Limit) /\ pc[p] = "renew"
        \/ Verdict(req[p], Within(req[p].n)) /\ pc[p] = "add"
    BY Commands
  <2> QED BY <2>1, <2>2, <2>3, <2>4 DEF Awaits
<1>3. ASSUME NEW d, NEW from, NEW to, NEW id \in Granted(d, from, to)', NEW q \in Procs,
             Awaits(q)', req'[q].id = id, req'[q].client = d, req'[q].at \in from..to
      PROVE  id \in Granted(d, from, to) \/ (ok /\ d = c /\ t \in from..to /\ id = x)
  <2>1. id \in 1..used.requests
    BY <1>1, <1>3 DEF Granted
  <2>2. CASE q = p
    <3>1. req'[p].id = req[p].id /\ req'[p].client = req[p].client
      <4>1. pc'[p] # "idle"
        BY <1>3, <2>2 DEF Awaits
      <4> QED BY <4>1, Commands
    <3> QED BY <1>3, <2>2, <3>1
  <2>3. CASE q # p
    <3>1. pc'[q] = pc[q] /\ req'[q] = req[q]
      BY <1>1, <2>3
    <3>2. Awaits(q)
      BY <1>3, <3>1 DEF Awaits, Within
    <3> QED BY <1>3, <2>1, <3>1, <3>2 DEF Granted
  <2> QED BY <2>2, <2>3
<1>4. ASSUME NEW d, NEW from, NEW to, NEW id \in Granted(d, from, to)'
      PROVE  id \in Granted(d, from, to) \/ (ok /\ d = c /\ t \in from..to /\ id = x)
  <2>1. \/ \E v \in Admitted(d, from, to)' : v.id = id
        \/ \E q \in Procs : Awaits(q)' /\ req'[q].id = id /\ req'[q].client = d
                            /\ req'[q].at \in from..to
    BY <1>4 DEF Granted
  <2> QED BY <1>2, <1>3, <1>4, <2>1
<1> QED BY <1>4 DEF GrantsOnly

LEMMA GrantedAround ==
    ASSUME Sound, \/ \E p \in Procs, c \in Clients : StartShared(p, c)
                  \/ Clear \/ Tick \/ SwitchRedis \/ UNCHANGED vars,
           NEW c, NEW x, NEW t
    PROVE  GrantsOnly(c, x, t, FALSE)
<1>1. verdicts' = verdicts
  BY DEF StartShared, Clear, Tick, SwitchRedis, vars
<1>2. ASSUME NEW q \in Procs, Awaits(q)'
      PROVE  Awaits(q) /\ pc[q] # "idle" /\ req'[q].id = req[q].id
             /\ req'[q].client = req[q].client /\ req'[q].at = req[q].at
  <2>1. CASE UNCHANGED <<pc, req>>
    BY <1>2, <2>1 DEF Awaits, Within
  <2>2. ASSUME NEW p \in Procs, NEW d \in Clients, StartShared(p, d)
        PROVE  Awaits(q) /\ pc[q] # "idle" /\ req'[q].id = req[q].id
               /\ req'[q].client = req[q].client /\ req'[q].at = req[q].at
    <3>1. pc' = [pc EXCEPT ![p] = IF conf.fixed THEN "incr" ELSE "trim"]
          /\ pc \in [Procs -> {"idle", "incr", "renew", "trim", "card", "add"}]
      BY <2>2 DEF StartShared, Sound, TypeOK
    <3>2. q # p /\ pc'[q] = pc[q]
      BY <1>2, <3>1 DEF Awaits
    <3> DEFINE quiet == req[q].quiet /\ req[q].client # d
    <3>3. req'[q] = [req[q] EXCEPT !.quiet = quiet] /\ req[q] \in Requests
      BY <2>2, <3>2 DEF StartShared, Sound, TypeOK
    <3> HIDE DEF quiet
    <3>4. req'[q].id = req[q].id /\ req'[q].client = req[q].client /\ req'[q].at = req[q].at
          /\ req'[q].n = req[q].n
      BY <3>3 DEF Requests
    <3> QED BY <1>2, <3>2, <3>4 DEF Awaits, Within
  <2> QED BY <2>1, <2>2 DEF Clear, Tick, SwitchRedis, vars
<1>3. ASSUME NEW d, NEW from, NEW to, NEW id \in Granted(d, from, to)'
      PROVE  id \in Granted(d, from, to)
  <2>1. CASE \E v \in Admitted(d, from, to)' : v.id = id
    BY <1>1, <2>1 DEF Admitted, Granted, Sound, Requested
  <2>2. ASSUME NEW q \in Procs, Awaits(q)', req'[q].id = id, req'[q].client = d,
               req'[q].at \in from..to
        PROVE  id \in Granted(d, from, to)
    BY <1>2, <2>2 DEF Granted, Sound, Requested, Working
  <2> QED BY <1>3, <2>1, <2>2 DEF Granted
<1> QED BY <1>3 DEF GrantsOnly

\* What that makes of the numbers.
LEMMA GrantsCounted ==
    ASSUME Sound, Sound', NEW c, NEW x, NEW t, NEW ok, GrantsOnly(c, x, t, ok),
           NEW d, NEW from, NEW to
    PROVE  /\ Grants(d, from, to)' \in Nat /\ Grants(d, from, to) \in Nat
           /\ Grants(d, from, to)' <= Grants(d, from, to) + 1
           /\ Granted(d, from, to) = {} => Grants(d, from, to)' <= 1
           /\ d # c \/ ~ok \/ t \notin from..to =>
                 /\ Granted(d, from, to)' \subseteq Granted(d, from, to)
                 /\ Grants(d, from, to)' <= Grants(d, from, to)
<1> DEFINE S == Granted(d, from, to)
           T == Granted(d, from, to)'
<1>1. T \subseteq S \cup {x} /\ (d # c \/ ~ok \/ t \notin from..to => T \subseteq S)
  BY DEF GrantsOnly
<1>2. /\ IsFiniteSet(S) /\ Grants(d, from, to) \in Nat /\ Grants(d, from, to) = Cardinality(S)
      /\ Grants(d, from, to)' = Cardinality(T)
  BY GrantedFinite DEF Grants
<1> HIDE DEF S, T
<1>3. /\ IsFiniteSet(S \cup {x}) /\ Cardinality(S \cup {x}) <= Cardinality(S) + 1
      /\ Cardinality(S) \in Nat /\ Cardinality(S \cup {x}) \in Nat
  <2>1. /\ IsFiniteSet(S \cup {x}) /\ Cardinality(S) \in Nat
        /\ Cardinality(S \cup {x}) = IF x \in S THEN Cardinality(S) ELSE Cardinality(S) + 1
    BY <1>2, FS_AddElement, FS_CardinalityType
  <2> QED BY <2>1
<1>4. IsFiniteSet(T) /\ Cardinality(T) <= Cardinality(S \cup {x}) /\ Cardinality(T) \in Nat
  BY <1>1, <1>3, FS_Subset, FS_CardinalityType
<1>5. T \subseteq S => Cardinality(T) <= Cardinality(S)
  BY <1>2, FS_Subset
<1>6. S = {} => Cardinality(T) <= 1
  BY <1>3, <1>4, FS_EmptySet
<1> QED BY <1>1, <1>2, <1>3, <1>4, <1>5, <1>6 DEF S, T

-----------------------------------------------------------------------------
(* The quota of a fixed window. *)

Count(c) == IF Shared THEN counter[c].n ELSE window[Home][c].n

\* Since s no more than the count and the Limit were granted, and in the Window before s
\* no more than the Limit.
Epoch(c, s, n) ==
    /\ s <= now
    /\ Grants(c, s, now) <= n /\ Grants(c, s, now) <= Limit
    /\ Grants(c, s - Window + 1, s - 1) <= Limit

\* s is when the count began.  It lasts a Window at least; with no count a Window has gone
\* by, and nothing was granted in this tick.
WindowKept(c, s) ==
    /\ Count(c) = 0 =>
          s <= now - Window /\ Epoch(c, s, Limit) /\ Granted(c, now, now) = {}
    /\ Count(c) # 0 =>
          /\ Epoch(c, s, Count(c))
          /\ Shared => counter[c].exp = 0 \/ counter[c].exp >= s + Window
          /\ ~Shared => s = window[Home][c].start /\ Granted(c, s + Window, now) = {}

FixedQuota == conf.fixed => \A c \in Clients :
    /\ \E s \in Int : WindowKept(c, s)
    /\ counter[c].n = 0 => counter[c].exp = 0
    /\ \A from, to \in Int : from <= to /\ to < now /\ to - from < Window =>
          Grants(c, from, to) <= 2 * Limit

\* A Window touches two of them at most.
LEMMA TwoEpochs ==
    ASSUME Sound, NEW c, NEW s \in Int, NEW n, Epoch(c, s, n), NEW t \in Nat, t = now,
           NEW from \in Int, t - from < Window
    PROVE  Grants(c, from, t) <= 2 * Limit
<1> DEFINE S == Granted(c, s - Window + 1, s - 1)
           T == Granted(c, s, t)
           U == Granted(c, from, t)
<1>1. s <= t /\ Grants(c, s, t) <= Limit /\ Grants(c, s - Window + 1, s - 1) <= Limit
  BY DEF Epoch
<1>2. U \subseteq S \cup T
  <2>1. \A at \in Nat : at \in from..t => at \in (s - Window + 1)..(s - 1) \/ at \in s..t
    BY <1>1, QuotaAssumption
  <2>2. \A v \in verdicts : v.at \in Nat
    BY DEF Sound, TypeOK, Answers
  <2>3. \A p \in Procs : req[p].at \in Nat
    BY DEF Sound, TypeOK, Requests
  <2> QED BY <2>1, <2>2, <2>3 DEF Granted, Admitted
<1>3. /\ IsFiniteSet(S) /\ IsFiniteSet(T) /\ Cardinality(S) \in Nat /\ Cardinality(T) \in Nat
      /\ Cardinality(S) <= Limit /\ Cardinality(T) <= Limit
  BY <1>1, GrantedFinite DEF Grants
<1> SUFFICES Cardinality(U) <= 2 * Limit
  BY DEF Grants
<1> HIDE DEF S, T, U
<1>4. /\ IsFiniteSet(S \cup T) /\ IsFiniteSet(S \cap T)
      /\ Cardinality(S \cup T) = Cardinality(S) + Cardinality(T) - Cardinality(S \cap T)
  BY <1>3, FS_Union, FS_Intersection
<1>5. Cardinality(S \cap T) \in Nat /\ Cardinality(S \cup T) \in Nat
  BY <1>4, FS_CardinalityType
<1>6. Cardinality(U) <= Cardinality(S \cup T) /\ Cardinality(U) \in Nat
  BY <1>2, <1>4, FS_Subset, FS_CardinalityType
<1> QED BY <1>3, <1>4, <1>5, <1>6, QuotaAssumption

LEMMA BeforeNow ==
    ASSUME NEW t \in Nat
    PROVE  /\ t \notin (t - Window + 1)..(t - 1)
           /\ \A s \in Int : s <= t - Window =>
                 \A at \in Nat : at \in (t - Window + 1)..(t - 1) => at \in s..t
BY QuotaAssumption

LEMMA EpochStep ==
    ASSUME Sound, Sound', NEW t \in Nat, t = now, t = now',
           NEW c, NEW x, NEW ok, GrantsOnly(c, x, t, ok),
           NEW d, NEW s \in Int, NEW n \in Nat, Epoch(d, s, n)
    PROVE  /\ d # c \/ ~ok => Epoch(d, s, n)' /\ Epoch(d, s, n + 1)'
           /\ n + 1 <= Limit => Epoch(d, s, n + 1)'
           /\ d = c /\ s <= t - Window /\ Granted(d, t, t) = {} => Epoch(d, t, 1)'
<1>1. /\ s <= t /\ Grants(d, s, t) <= n /\ Grants(d, s, t) <= Limit
      /\ Grants(d, s - Window + 1, s - 1) <= Limit
  BY DEF Epoch
<1>2. \A from, to :
        /\ Grants(d, from, to)' \in Nat /\ Grants(d, from, to) \in Nat
        /\ Grants(d, from, to)' <= Grants(d, from, to) + 1
        /\ Granted(d, from, to) = {} => Grants(d, from, to)' <= 1
        /\ d # c \/ ~ok \/ t \notin from..to => Grants(d, from, to)' <= Grants(d, from, to)
  BY GrantsCounted
<1>3. Grants(d, s - Window + 1, s - 1)' <= Limit
  <2>1. t \notin (s - Window + 1)..(s - 1)
    BY <1>1
  <2> QED BY <1>1, <1>2, <2>1, QuotaAssumption
<1>4. ASSUME NEW m \in Nat, Grants(d, s, t)' <= m, Grants(d, s, t)' <= Limit
      PROVE  Epoch(d, s, m)'
  BY <1>1, <1>3, <1>4 DEF Epoch
<1>5. ASSUME d # c \/ ~ok PROVE Epoch(d, s, n)' /\ Epoch(d, s, n + 1)'
  <2>1. Grants(d, s, t)' <= n /\ Grants(d, s, t)' <= n + 1 /\ Grants(d, s, t)' <= Limit
    BY <1>1, <1>2, <1>5, QuotaAssumption
  <2> QED BY <1>4, <2>1
<1>6. ASSUME n + 1 <= Limit PROVE Epoch(d, s, n + 1)'
  <2>1. Grants(d, s, t)' <= n + 1 /\ Grants(d, s, t)' <= Limit
    BY <1>1, <1>2, <1>6, QuotaAssumption
  <2> QED BY <1>4, <2>1
<1>7. ASSUME d = c, s <= t - Window, Granted(d, t, t) = {} PROVE Epoch(d, t, 1)'
  <2>1. Grants(d, t, t)' <= 1 /\ Grants(d, t, t)' <= Limit
    BY <1>2, <1>7, QuotaAssumption
  <2>2. Granted(d, t - Window + 1, t - 1) \subseteq Granted(d, s, t)
    <3>1. \A at \in Nat : at \in (t - Window + 1)..(t - 1) => at \in s..t
      BY <1>7, BeforeNow
    <3>2. (\A v \in verdicts : v.at \in Nat) /\ (\A p \in Procs : req[p].at \in Nat)
      BY DEF Sound, TypeOK, Answers, Requests
    <3> QED BY <3>1, <3>2 DEF Granted, Admitted
  <2>3. Grants(d, t - Window + 1, t - 1) <= Grants(d, s, t)
    BY <2>2, GrantedFinite, FS_Subset DEF Grants
  <2>4. t \notin (t - Window + 1)..(t - 1)
    BY BeforeNow
  <2>5. Grants(d, t - Window + 1, t - 1)' <= Limit
    BY <1>1, <1>2, <2>3, <2>4, QuotaAssumption
  <2> QED BY <2>1, <2>5 DEF Epoch
<1> QED BY <1>5, <1>6, <1>7

\* What a step leaves alone: the past, and the clients of other requests.
LEMMA FixedStep ==
    ASSUME Sound, Sound', FixedQuota, conf.fixed, NEW t \in Nat, t = now, t = now',
           conf' = conf, NEW c, NEW x, NEW ok, GrantsOnly(c, x, t, ok), NEW d \in Clients
    PROVE  /\ \A from, to \in Int : from <= to /\ to < t /\ to - from < Window =>
                 Grants(d, from, to)' <= 2 * Limit
           /\ \A s \in Int :
                 /\ d # c \/ ~ok
                 /\ WindowKept(d, s) /\ Count(d)' = Count(d)
                 /\ Shared => counter'[d].exp = counter[d].exp \/ counter'[d].exp >= t + Window
                 /\ ~Shared => window'[Home][d].start = window[Home][d].start
                 => WindowKept(d, s)'
<1>1. ASSUME NEW from, NEW to, d # c \/ ~ok \/ t \notin from..to
      PROVE  /\ Grants(d, from, to)' <= Grants(d, from, to)
             /\ Granted(d, from, to)' \subseteq Granted(d, from, to)
             /\ Grants(d, from, to)' \in Nat /\ Grants(d, from, to) \in Nat
  BY <1>1, GrantsCounted
<1>2. ASSUME NEW from \in Int, NEW to \in Int, from <= to, to < t, to - from < Window
      PROVE  Grants(d, from, to)' <= 2 * Limit
  <2>1. Grants(d, from, to) <= 2 * Limit
    BY <1>2 DEF FixedQuota
  <2> QED BY <1>1, <1>2, <2>1, QuotaAssumption
<1>3. ASSUME NEW s \in Int, d # c \/ ~ok, WindowKept(d, s), Count(d)' = Count(d),
             Shared => counter'[d].exp = counter[d].exp \/ counter'[d].exp >= t + Window,
             ~Shared => window'[Home][d].start = window[Home][d].start
      PROVE  WindowKept(d, s)'
  <2>1. PICK n \in Nat : n = Count(d) /\ n = Count(d)'
    BY <1>3, HomeServes DEF Count, Sound, TypeOK
  <2>2. Shared' <=> Shared
    BY DEF Shared
  <2>3. CASE n = 0
    <3>1. s <= t - Window /\ Epoch(d, s, Limit) /\ Granted(d, t, t) = {}
      BY <1>3, <2>1, <2>3 DEF WindowKept
    <3>2. Epoch(d, s, Limit)'
      BY <1>3, <3>1, EpochStep, QuotaAssumption
    <3>3. Granted(d, t, t)' = {}
      BY <1>1, <1>3, <3>1
    <3> QED BY <2>1, <2>3, <3>1, <3>2, <3>3 DEF WindowKept
  <2>4. CASE n # 0
    <3>1. /\ Epoch(d, s, n) /\ s <= t
          /\ Shared => counter[d].exp = 0 \/ counter[d].exp >= s + Window
          /\ ~Shared => s = window[Home][d].start /\ Granted(d, s + Window, t) = {}
      BY <1>3, <2>1, <2>4 DEF WindowKept, Epoch
    <3>2. Epoch(d, s, n)'
      BY <1>3, <3>1, EpochStep
    <3>3. ~Shared => Granted(d, s + Window, t)' = {}
      BY <1>1, <1>3, <3>1
    <3>4. Shared => counter'[d].exp = 0 \/ counter'[d].exp >= s + Window
      <4>1. counter'[d].exp \in Nat
        BY DEF Sound, TypeOK
      <4> QED BY <1>3, <3>1, <4>1, QuotaAssumption
    <3> QED BY <1>3, <2>1, <2>2, <2>4, <3>1, <3>2, <3>3, <3>4 DEF WindowKept
  <2> QED BY <2>3, <2>4
<1> QED BY <1>2, <1>3

LEMMA FixedInMemory ==
    ASSUME Sound, Sound', FixedQuota, conf.fixed,
           NEW c \in Clients, NEW i \in Instances, AllowInMemory(c, i), AllowWindow(c, i)
    PROVE  FixedQuota'
<1>1. PICK t \in Nat, e \in [n : Nat, start : Nat] :
         t = now /\ t = now' /\ e = window[Home][c] /\ e.start <= t /\ i = Home
  <2>1. i = Home
    BY HomeServes
  <2>2. now' = now
    BY DEF AllowInMemory
  <2> QED BY <2>1, <2>2 DEF Sound, TypeOK, Entered
<1> DEFINE fresh == e.n = 0 \/ t - e.start >= Window
           pass == fresh \/ e.n + 1 <= Limit
           new == IF fresh THEN [n |-> 1, start |-> t] ELSE [n |-> e.n + 1, start |-> e.start]
<1>2. /\ ~Shared /\ ~Shared' /\ UNCHANGED <<conf, counter>> /\ Verdict(NewRequest(c), pass)
      /\ window' = [window EXCEPT ![Home][c] =
                        IF fresh THEN [n |-> 1, start |-> t] ELSE [e EXCEPT !.n = @ + 1]]
  BY <1>1 DEF AllowInMemory, AllowWindow, Shared
<1>3. window'[Home][c] = new /\ \A d \in Clients \ {c} : window'[Home][d] = window[Home][d]
  <2>1. ~fresh => [e EXCEPT !.n = @ + 1] = [n |-> e.n + 1, start |-> e.start]
    BY <1>1
  <2>2. window' = [window EXCEPT ![Home][c] = new]
    BY <1>2, <2>1
  <2> QED BY <2>2, HomeServes DEF Sound, TypeOK
<1>4. PICK x : GrantsOnly(c, x, t, pass)
  <2> HIDE DEF pass
  <2> QED BY <1>1, <1>2, GrantedInMemory
<1>5. \E s \in Int : WindowKept(c, s)'
  <2>1. PICK s \in Int : WindowKept(c, s)
    BY DEF FixedQuota
  <2>2. Count(c) = e.n /\ Count(c)' = new.n /\ new.n # 0
    BY <1>1, <1>2, <1>3 DEF Count
  <2>3. CASE fresh
    <3>1. s <= t - Window /\ Granted(c, t, t) = {} /\ \E n \in Nat : Epoch(c, s, n)
      <4>1. CASE e.n = 0
        BY <1>1, <2>1, <2>2, <4>1, QuotaAssumption DEF WindowKept
      <4>2. CASE e.n # 0
        <5>1. s = e.start /\ s <= t - Window /\ Granted(c, s + Window, t) = {} /\ Epoch(c, s, e.n)
          BY <1>1, <1>2, <2>1, <2>2, <2>3, <4>2, QuotaAssumption DEF WindowKept
        <5>2. Granted(c, t, t) \subseteq Granted(c, s + Window, t)
          BY <5>1, QuotaAssumption DEF Granted, Admitted
        <5> QED BY <5>1, <5>2
      <4> QED BY <4>1, <4>2
    <3>2. Epoch(c, t, 1)'
      <4> HIDE DEF fresh, pass
      <4> QED BY <1>1, <1>4, <3>1, EpochStep
    <3>3. Granted(c, t + Window, t)' = {}
      BY <1>1, QuotaAssumption DEF Granted, Admitted
    <3>4. WindowKept(c, t)'
      BY <1>1, <1>2, <1>3, <2>2, <2>3, <3>2, <3>3 DEF WindowKept
    <3> QED BY <3>4
  <2>4. CASE ~fresh
    <3>1. s = e.start /\ s > t - Window /\ Epoch(c, s, e.n)
      BY <1>1, <1>2, <2>1, <2>2, <2>4, QuotaAssumption DEF WindowKept
    <3>2. Epoch(c, s, e.n + 1)'
      <4>1. ~pass \/ e.n + 1 <= Limit
        BY <2>4
      <4> HIDE DEF fresh, pass
      <4> QED BY <1>1, <1>4, <3>1, <4>1, EpochStep
    <3>3. Granted(c, s + Window, t)' = {}
      BY <1>1, <3>1, QuotaAssumption DEF Granted, Admitted
    <3>4. WindowKept(c, s)'
      BY <1>1, <1>2, <1>3, <2>2, <2>4, <3>1, <3>2, <3>3 DEF WindowKept
    <3> QED BY <3>4
  <2> QED BY <2>3, <2>4
<1>6. ASSUME NEW d \in Clients
      PROVE  /\ \E s \in Int : WindowKept(d, s)'
             /\ \A from, to \in Int : from <= to /\ to < t /\ to - from < Window =>
                   Grants(d, from, to)' <= 2 * Limit
  <2>1. \A from, to \in Int : from <= to /\ to < t /\ to - from < Window =>
           Grants(d, from, to)' <= 2 * Limit
    <3> HIDE DEF pass
    <3> QED BY <1>1, <1>2, <1>4, FixedStep
  <2>2. CASE d = c
    BY <1>5, <2>1, <2>2
  <2>3. CASE d # c
    <3>1. PICK s \in Int : WindowKept(d, s)
      BY DEF FixedQuota
    <3>2. Count(d)' = Count(d) /\ window'[Home][d].start = window[Home][d].start
      BY <1>2, <1>3, <2>3 DEF Count
    <3>3. WindowKept(d, s)'
      <4> HIDE DEF pass
      <4> QED BY <1>1, <1>2, <1>4, <2>3, <3>1, <3>2, FixedStep
    <3> QED BY <2>1, <3>3
  <2> QED BY <2>2, <2>3
<1> QED BY <1>1, <1>2, <1>6 DEF FixedQuota

LEMMA FixedInRedis ==
    ASSUME Sound, Sound', FixedQuota, conf.fixed, NEW p \in Procs, SharedStep(p)
    PROVE  FixedQuota'
<1>1. PICK t \in Nat, c \in Clients : t = now /\ t = now' /\ c = req[p].client
  BY Commands DEF Sound, TypeOK, Requested, Working
<1>2. /\ Shared /\ Shared' /\ conf' = conf /\ counter \in [Clients -> [n : Nat, exp : Nat]]
      /\ counter' \in [Clients -> [n : Nat, exp : Nat]]
  BY Commands DEF Sound, TypeOK, Requested, Working, Shared
<1>3. PICK x, u, ok : u = req'[p].at /\ (ok <=> Awaits(p)') /\ GrantsOnly(c, x, u, ok)
  BY <1>1, GrantedInRedis
<1>4. ASSUME NEW d \in Clients, GrantsOnly(c, x, t, ok)
      PROVE  /\ \A from, to \in Int : from <= to /\ to < t /\ to - from < Window =>
                   Grants(d, from, to)' <= 2 * Limit
             /\ d # c \/ ~ok => \A s \in Int :
                   /\ WindowKept(d, s) /\ counter'[d].n = counter[d].n
                   /\ counter'[d].exp = counter[d].exp \/ counter'[d].exp >= t + Window
                   => WindowKept(d, s)'
  BY <1>1, <1>2, <1>4, FixedStep DEF Count
<1>5. CASE pc'[p] # "renew"
  <2>1. ~ok /\ GrantsOnly(c, x, t, ok)
    <3>1. ~ok
      BY <1>2, <1>3, <1>5, Commands DEF Awaits
    <3> QED BY <1>3, <3>1 DEF GrantsOnly
  <2>2. ASSUME NEW d \in Clients
        PROVE  /\ counter'[d].n = counter[d].n
               /\ counter'[d].exp = counter[d].exp \/ counter'[d].exp >= t + Window
               /\ counter'[d].n = 0 => counter'[d].exp = 0
    <3>1. counter' = counter \/ Expire(c)
      BY <1>1, <1>5, Commands
    <3>2. counter[d].n = 0 => counter[d].exp = 0
      BY DEF FixedQuota
    <3>3. CASE counter' = counter
      BY <3>2, <3>3
    <3>4. CASE Expire(c)
      <4>1. \/ counter' = counter
            \/ counter[c].n # 0 /\ counter' = [counter EXCEPT ![c].exp = t + Window]
        BY <1>1, <3>4 DEF Expire
      <4>2. t + Window \in Nat
        BY QuotaAssumption
      <4> QED BY <1>2, <3>2, <4>1, <4>2
    <3> QED BY <3>1, <3>3, <3>4
  <2>3. ASSUME NEW d \in Clients PROVE \E s \in Int : WindowKept(d, s)'
    <3>1. PICK s \in Int : WindowKept(d, s)
      BY DEF FixedQuota
    <3> QED BY <1>4, <2>1, <2>2, <3>1
  <2> QED BY <1>1, <1>2, <1>4, <2>1, <2>2, <2>3 DEF FixedQuota
<1>6. CASE pc'[p] = "renew"
  <2>1. PICK n \in Nat : /\ n = counter[c].n /\ u = t /\ (ok <=> n + 1 <= Limit)
                         /\ counter' = [counter EXCEPT ![c].n = n + 1]
    <3>1. /\ req'[p].at = now /\ req'[p].n = counter[c].n + 1
          /\ counter' = [counter EXCEPT ![c].n = counter[c].n + 1]
      BY <1>1, <1>6, Commands
    <3> QED BY <1>1, <1>2, <1>3, <1>6, <3>1 DEF Awaits
  <2>2. GrantsOnly(c, x, t, ok)
    BY <1>3, <2>1
  <2>3. /\ counter'[c].n = n + 1 /\ counter'[c].exp = counter[c].exp
        /\ \A d \in Clients \ {c} : counter'[d] = counter[d]
    BY <1>2, <2>1
  <2>4. \E s \in Int : WindowKept(c, s)'
    <3>1. PICK s \in Int : WindowKept(c, s)
      BY DEF FixedQuota
    <3>2. CASE n = 0
      <4>1. /\ s <= t - Window /\ Epoch(c, s, Limit) /\ Granted(c, t, t) = {}
            /\ counter[c].exp = 0
        BY <1>1, <1>2, <2>1, <3>1, <3>2 DEF WindowKept, Count, FixedQuota
      <4>2. Epoch(c, t, 1)'
        BY <1>1, <2>2, <4>1, EpochStep, QuotaAssumption
      <4>3. WindowKept(c, t)'
        BY <1>2, <2>1, <2>3, <3>2, <4>1, <4>2 DEF WindowKept, Count
      <4> QED BY <4>3
    <3>3. CASE n # 0
      <4>1. Epoch(c, s, n) /\ (counter[c].exp = 0 \/ counter[c].exp >= s + Window)
        BY <1>2, <2>1, <3>1, <3>3 DEF WindowKept, Count
      <4>2. Epoch(c, s, n + 1)'
        <5>1. ~ok \/ n + 1 <= Limit
          BY <2>1
        <5>2. /\ ~ok => Epoch(c, s, n + 1)'
              /\ n + 1 <= Limit => Epoch(c, s, n + 1)'
          <6> HIDE <5>1
          <6>1. Epoch(c, s, n)
            BY <4>1
          <6> QED BY <1>1, <2>2, <6>1, EpochStep
        <5> QED BY <5>1, <5>2
      <4>3. WindowKept(c, s)'
        BY <1>2, <2>3, <4>1, <4>2 DEF WindowKept, Count
      <4> QED BY <4>3
    <3> QED BY <3>2, <3>3
  <2>5. ASSUME NEW d \in Clients
        PROVE  (\E s \in Int : WindowKept(d, s)') /\ (counter'[d].n = 0 => counter'[d].exp = 0)
    <3>1. CASE d = c
      BY <2>3, <2>4, <3>1
    <3>2. CASE d # c
      <4>1. PICK s \in Int : WindowKept(d, s)
        BY DEF FixedQuota
      <4>2. WindowKept(d, s)'
        BY <1>4, <2>2, <2>3, <3>2, <4>1
      <4> QED BY <2>3, <3>2, <4>2 DEF FixedQuota
    <3> QED BY <3>1, <3>2
  <2> QED BY <1>1, <1>2, <1>4, <2>2, <2>5 DEF FixedQuota
<1> QED BY <1>5, <1>6

LEMMA NothingGrantedAhead ==
    ASSUME Sound, NEW t \in Nat, t = now, NEW c, NEW from \in Int, NEW to \in Int
    PROVE  /\ from > t => Granted(c, from, to) = {} /\ Grants(c, from, to) = 0
           /\ to >= t => Granted(c, from, to) = Granted(c, from, t)
                        /\ Grants(c, from, to) = Grants(c, from, t)
<1>1. /\ \A v \in verdicts : v.at \in Nat /\ v.at <= t
      /\ \A p \in Procs : Awaits(p) => req[p].at \in Nat /\ req[p].at <= t
  BY DEF Sound, TypeOK, Answers, Requests, Requested, Working, Awaits
<1>2. ASSUME from > t PROVE Granted(c, from, to) = {}
  <2>1. \A at \in Nat : at <= t => at \notin from..to
    BY <1>2
  <2> QED BY <1>1, <2>1 DEF Granted, Admitted
<1>3. ASSUME to >= t PROVE Granted(c, from, to) = Granted(c, from, t)
  <2>1. \A at \in Nat : at <= t => (at \in from..to <=> at \in from..t)
    BY <1>3
  <2> QED BY <1>1, <2>1 DEF Granted, Admitted
<1> QED BY <1>2, <1>3, FS_EmptySet DEF Grants

LEMMA FixedTick ==
    ASSUME Sound, Sound', FixedQuota, conf.fixed, Tick
    PROVE  FixedQuota'
<1>1. PICK t \in Nat, u \in Nat : t = now /\ u = now' /\ u = t + 1
  BY DEF Tick, Sound, TypeOK
<1>2. /\ conf' = conf /\ window' = window
      /\ counter' = [c \in Clients |->
            IF counter[c].exp > 0 /\ counter[c].exp <= u THEN NoKey ELSE counter[c]]
  BY <1>1 DEF Tick
<1>3. ASSUME NEW d, NEW from \in Int, NEW to \in Int
      PROVE  /\ Granted(d, from, to)' \subseteq Granted(d, from, to)
             /\ Grants(d, from, to)' <= Grants(d, from, to)
             /\ Grants(d, from, to)' \in Nat /\ Grants(d, from, to) \in Nat
             /\ to >= t => Granted(d, from, to) = Granted(d, from, t)
                          /\ Grants(d, from, to) = Grants(d, from, t)
             /\ from > t => Granted(d, from, to) = {}
  <2>1. GrantsOnly(d, 0, t, FALSE)
    BY GrantedAround
  <2>2. /\ Grants(d, from, to)' \in Nat /\ Grants(d, from, to) \in Nat
        /\ Granted(d, from, to)' \subseteq Granted(d, from, to)
        /\ Grants(d, from, to)' <= Grants(d, from, to)
    <3> DEFINE ok == FALSE
    <3>1. ~ok /\ GrantsOnly(d, 0, t, ok)
      BY <2>1
    <3> HIDE DEF ok
    <3> QED BY <3>1, GrantsCounted
  <2>3. /\ from > t => Granted(d, from, to) = {}
        /\ to >= t => Granted(d, from, to) = Granted(d, from, t)
                     /\ Grants(d, from, to) = Grants(d, from, t)
    BY <1>1, NothingGrantedAhead
  <2> QED BY <2>2, <2>3
<1>4. ASSUME NEW d \in Clients, NEW s \in Int, NEW n \in Nat, Epoch(d, s, n) PROVE Epoch(d, s, n)'
  <2>1. /\ s <= t /\ Grants(d, s, t) <= n /\ Grants(d, s, t) <= Limit
        /\ Grants(d, s - Window + 1, s - 1) <= Limit
    BY <1>1, <1>4 DEF Epoch
  <2>2. Grants(d, s, u)' <= Grants(d, s, t)
    <3>1. Grants(d, s, u) = Grants(d, s, t)
      BY <1>1, <1>3
    <3> QED BY <1>3, <3>1
  <2>3. PICK w \in Nat : w = Window
    BY QuotaAssumption
  <2>4. Grants(d, s - Window + 1, s - 1)' <= Grants(d, s - Window + 1, s - 1)
    BY <1>3, <2>3
  <2>5. Grants(d, s, u)' <= n /\ Grants(d, s, u)' <= Limit
    BY <1>3, <2>1, <2>2, QuotaAssumption
  <2>6. Grants(d, s - Window + 1, s - 1)' <= Limit
    BY <1>3, <2>1, <2>3, <2>4, QuotaAssumption
  <2> QED BY <1>1, <2>1, <2>5, <2>6 DEF Epoch
<1>5. ASSUME NEW d \in Clients PROVE \E s \in Int : WindowKept(d, s)'
  <2>1. PICK s \in Int : WindowKept(d, s)
    BY DEF FixedQuota
  <2>2. PICK n \in Nat, w \in Nat, exp \in Nat :
           n = Count(d) /\ w = Window /\ exp = counter[d].exp
    <3>1. Count(d) \in Nat
      BY HomeServes DEF Count, Sound, TypeOK
    <3>2. counter[d].exp \in Nat
      BY DEF Sound, TypeOK
    <3> QED BY <3>1, <3>2, QuotaAssumption
  <2>3. Shared' <=> Shared
    BY <1>2 DEF Shared
  <2>4. Granted(d, u, u)' = {}
    BY <1>1, <1>3
  <2>5. CASE n = 0
    <3>1. s <= t - w /\ Epoch(d, s, Limit)
      BY <1>1, <2>1, <2>2, <2>5 DEF WindowKept
    <3>2. Epoch(d, s, Limit)' /\ s <= u - w
      BY <1>1, <1>4, <3>1, QuotaAssumption
    <3>3. Count(d)' = 0
      BY <1>2, <2>2, <2>3, <2>5 DEF Count, NoKey
    <3> QED BY <1>1, <2>2, <2>4, <3>2, <3>3 DEF WindowKept
  <2>6. CASE n # 0
    <3>1. /\ Epoch(d, s, n) /\ Epoch(d, s, n)' /\ s <= t
          /\ Shared => exp = 0 \/ exp >= s + w
          /\ ~Shared => s = window[Home][d].start /\ Granted(d, s + w, t) = {}
      BY <1>1, <1>4, <2>1, <2>2, <2>6 DEF WindowKept, Epoch
    <3>2. CASE Shared /\ exp > 0 /\ exp <= u
      <4>1. Count(d)' = 0
        BY <1>2, <2>2, <2>3, <3>2 DEF Count, NoKey
      <4>2. s <= u - w
        BY <1>1, <3>1, <3>2
      <4>3. Epoch(d, s, Limit)'
        BY <3>1 DEF Epoch
      <4> QED BY <1>1, <2>2, <2>4, <4>1, <4>2, <4>3 DEF WindowKept
    <3>3. CASE ~(Shared /\ exp > 0 /\ exp <= u)
      <4>1. Count(d)' = n /\ (Shared => counter'[d] = counter[d])
        BY <1>2, <2>2, <2>3, <3>3 DEF Count
      <4>2. ~Shared => Granted(d, s + w, u)' = {}
        <5>1. ~Shared => Granted(d, s + w, u) = {}
          BY <1>1, <1>3, <3>1
        <5> QED BY <1>3, <5>1
      <4> QED BY <1>1, <1>2, <2>2, <2>3, <2>6, <3>1, <4>1, <4>2 DEF WindowKept
    <3> QED BY <3>2, <3>3
  <2> QED BY <2>5, <2>6
<1>6. ASSUME NEW d \in Clients, NEW from \in Int, NEW to \in Int, from <= to, to < u,
             to - from < Window
      PROVE  Grants(d, from, to)' <= 2 * Limit
  <2>1. Grants(d, from, to) <= 2 * Limit
    <3>1. CASE to < t
      BY <1>1, <1>6, <3>1 DEF FixedQuota
    <3>2. CASE to = t
      <4>1. PICK s \in Int : WindowKept(d, s)
        BY DEF FixedQuota
      <4>2. \E n : Epoch(d, s, n)
        BY <4>1 DEF WindowKept
      <4> QED BY <1>1, <1>6, <3>2, <4>2, TwoEpochs
    <3> QED BY <1>1, <1>6, <3>1, <3>2
  <2> QED BY <1>3, <2>1, QuotaAssumption
<1>7. ASSUME NEW d \in Clients PROVE counter'[d].n = 0 => counter'[d].exp = 0
  BY <1>2 DEF FixedQuota, NoKey
<1> QED BY <1>1, <1>2, <1>5, <1>6, <1>7 DEF FixedQuota

LEMMA FixedNext ==
    ASSUME Sound, Sound', FixedQuota, [Next]_vars
    PROVE  FixedQuota'
<1>1. UNCHANGED conf
  BY DEF Next, vars, AllowInMemory, SharedStep, Incr, Renew, Trim, Card, Add, StartShared,
         Clear, Tick, SwitchRedis, Quiet
<1> SUFFICES ASSUME conf.fixed PROVE FixedQuota'
  BY <1>1 DEF FixedQuota
<1>2. CASE \/ \E p \in Procs, c \in Clients : StartShared(p, c)
           \/ Clear \/ SwitchRedis \/ UNCHANGED vars
  <2>1. PICK t \in Nat : t = now /\ t = now'
    BY <1>2 DEF StartShared, Clear, SwitchRedis, vars, Sound, TypeOK
  <2>2. UNCHANGED <<counter, window>> /\ (Shared' <=> Shared)
    BY <1>1, <1>2 DEF StartShared, Clear, SwitchRedis, vars, stores, Shared
  <2>3. ASSUME NEW d \in Clients
        PROVE  /\ \E s \in Int : WindowKept(d, s)'
               /\ counter'[d].n = 0 => counter'[d].exp = 0
               /\ \A from, to \in Int : from <= to /\ to < t /\ to - from < Window =>
                     Grants(d, from, to)' <= 2 * Limit
    <3>1. PICK s \in Int : WindowKept(d, s)
      BY DEF FixedQuota
    <3>2. GrantsOnly(d, 0, t, FALSE)
      BY <1>2, GrantedAround
    <3>3. Count(d)' = Count(d)
      BY <2>2 DEF Count
    <3>4. /\ \A from, to \in Int : from <= to /\ to < t /\ to - from < Window =>
                Grants(d, from, to)' <= 2 * Limit
          /\ WindowKept(d, s)'
      BY <1>1, <2>1, <2>2, <3>1, <3>2, <3>3, FixedStep
    <3> QED BY <2>2, <3>4 DEF FixedQuota
  <2> QED BY <1>1, <2>1, <2>3 DEF FixedQuota
<1>3. ASSUME NEW c \in Clients, NEW i \in Instances, AllowInMemory(c, i) PROVE FixedQuota'
  BY <1>3, FixedInMemory DEF AllowInMemory
<1> QED BY <1>2, <1>3, FixedInRedis, FixedTick DEF Next, Quiet

LEMMA FixedInit == Init => FixedQuota
<1> SUFFICES ASSUME Init PROVE FixedQuota
  OBVIOUS
<1>1. now = 0 /\ verdicts = {} /\ \A p \in Procs : ~Awaits(p)
  BY DEF Init, Awaits
<1>2. ASSUME NEW c, NEW from, NEW to PROVE Granted(c, from, to) = {} /\ Grants(c, from, to) = 0
  BY <1>1, FS_EmptySet DEF Granted, Admitted, Grants
<1>3. ASSUME NEW c \in Clients PROVE WindowKept(c, -Window)
  <2>1. Count(c) = 0
    BY HomeServes DEF Count, Init, NoKey, NoEntry
  <2>2. Epoch(c, -Window, Limit)
    BY <1>1, <1>2, QuotaAssumption DEF Epoch
  <2> QED BY <1>1, <1>2, <2>1, <2>2, QuotaAssumption DEF WindowKept
<1>4. -Window \in Int
  BY QuotaAssumption
<1> QED BY <1>2, <1>3, <1>4, QuotaAssumption DEF FixedQuota, Init, NoKey

-----------------------------------------------------------------------------
(* The quota of a sliding window. *)

\* What was let through in the last Second is in the sorted set.
SlidingQuota == Shared /\ ~conf.fixed =>
    /\ \A v \in verdicts : v.pass /\ v.at > now - Second =>
          [id |-> v.id, at |-> v.at] \in members[v.client]
    /\ \A c \in Clients, from, to \in Int : to <= now /\ to - from < Second =>
          Grants(c, from, to) < SlidingLimit + Cardinality(Procs)

\* What is granted in the Second is in the sorted set, or under way.
LEMMA UnderWay ==
    ASSUME Sound, SlidingQuota, Shared, ~conf.fixed, IsFiniteSet(Procs), NEW c \in Clients,
           NEW from \in Int, from > now - Second, NEW to, NEW p \in Procs, NEW G,
           \A id \in G : id \in Granted(c, from, to) \/ id = req[p].id
    PROVE  /\ Cardinality(members[c]) \in Nat /\ Cardinality(Procs) \in Nat
           /\ Cardinality(G) \in Nat
           /\ Cardinality(G) <= Cardinality(members[c]) + Cardinality(Procs)
<1> DEFINE M == {m.id : m \in members[c]}
           P == {req[q].id : q \in Procs}
           f == [m \in members[c] |-> m.id]
           g == [q \in Procs |-> req[q].id]
<1>1. ASSUME NEW id \in G PROVE id \in M \cup P
  <2>1. CASE id = req[p].id
    BY <2>1
  <2>2. ASSUME NEW q \in Procs, req[q].id = id PROVE id \in P
    BY <2>2
  <2>3. ASSUME NEW v \in Admitted(c, from, to), v.id = id PROVE id \in M
    <3>1. v \in verdicts /\ v.client = c /\ v.pass /\ v.at \in from..to /\ v.at \in Nat
          /\ now \in Nat
      BY <2>3 DEF Admitted, Sound, TypeOK, Answers
    <3>2. v.at > now - Second
      BY <3>1, QuotaAssumption
    <3>3. [id |-> v.id, at |-> v.at] \in members[c]
      BY <3>1, <3>2 DEF SlidingQuota
    <3> DEFINE m == [id |-> v.id, at |-> v.at]
    <3>4. m \in members[c] /\ m.id = id
      BY <2>3, <3>3
    <3> QED BY <3>4
  <2> QED BY <1>1, <2>1, <2>2, <2>3 DEF Granted
<1>2. IsFiniteSet(members[c]) /\ Cardinality(members[c]) \in Nat /\ Cardinality(Procs) \in Nat
  BY FS_CardinalityType DEF Sound, Entered
<1>3. f \in Surjection(members[c], M) /\ g \in Surjection(Procs, P)
  BY DEF Surjection
<1> HIDE DEF M, P, f, g
<1>4. IsFiniteSet(M) /\ Cardinality(M) <= Cardinality(members[c]) /\ Cardinality(M) \in Nat
  BY <1>2, <1>3, FS_Surjection, FS_CardinalityType
<1>5. IsFiniteSet(P) /\ Cardinality(P) <= Cardinality(Procs) /\ Cardinality(P) \in Nat
  BY <1>3, FS_Surjection, FS_CardinalityType
<1>6. /\ IsFiniteSet(M \cup P) /\ Cardinality(M \cap P) \in Nat /\ Cardinality(M \cup P) \in Nat
      /\ Cardinality(M \cup P) = Cardinality(M) + Cardinality(P) - Cardinality(M \cap P)
  BY <1>4, <1>5, FS_Union, FS_Intersection, FS_CardinalityType
<1>7. G \subseteq M \cup P
  BY <1>1
<1>8. Cardinality(G) <= Cardinality(M \cup P) /\ Cardinality(G) \in Nat
  BY <1>6, <1>7, FS_Subset, FS_CardinalityType
<1> QED BY <1>2, <1>4, <1>5, <1>6, <1>8

LEMMA SlidingInRedis ==
    ASSUME Sound, Sound', SlidingQuota, ~conf.fixed, IsFiniteSet(Procs),
           NEW p \in Procs, SharedStep(p)
    PROVE  SlidingQuota'
<1>1. PICK t \in Nat, c \in Clients :
         t = now /\ t = now' /\ c = req[p].client /\ req[p].at = t /\ req[p].id \in Nat
  BY Commands DEF Sound, TypeOK, Requests, Requested, Working
<1>2. Shared /\ Shared' /\ conf' = conf
  BY Commands DEF Sound, Requested, Working, Shared
<1>3. /\ members \in [Clients -> SUBSET [id : Nat, at : Nat]]
      /\ \A v \in verdicts : v.client \in Clients
  BY DEF Sound, TypeOK, Entered, Answers
<1>4. ASSUME NEW v \in verdicts', v.pass, v.at > t - Second
      PROVE  [id |-> v.id, at |-> v.at] \in members'[v.client]
  <2> DEFINE m == [id |-> v.id, at |-> v.at]
  <2>1. v \in verdicts => m \in members[v.client] /\ v.client \in Clients
    BY <1>1, <1>2, <1>3, <1>4 DEF SlidingQuota
  <2>2. m.at = v.at
    OBVIOUS
  <2>3. CASE verdicts' = verdicts /\ members' = members
    BY <1>4, <2>1, <2>3
  <2>4. CASE /\ verdicts' = verdicts
             /\ members' = [members EXCEPT ![c] = {k \in members[c] : k.at > t - Second}]
    <3> HIDE DEF m
    <3> SUFFICES m \in members'[v.client]
      BY DEF m
    <3> QED BY <1>3, <1>4, <2>1, <2>2, <2>4
  <2>5. ASSUME NEW pass, Verdict(req[p], pass),
               members' = [members EXCEPT ![c] =
                             members[c] \cup {[id |-> req[p].id, at |-> req[p].at]}]
        PROVE  m \in members'[v.client]
    <3>1. PICK new : /\ verdicts' = verdicts \cup {new} /\ new.id = req[p].id
                     /\ new.client = req[p].client /\ new.at = req[p].at
      BY <2>5, VerdictAdds
    <3>2. CASE v = new
      <4>1. m = [id |-> req[p].id, at |-> req[p].at] /\ v.client = c
        BY <1>1, <3>1, <3>2
      <4> QED BY <1>3, <2>5, <4>1
    <3>3. CASE v \in verdicts
      <4> HIDE DEF m
      <4> QED BY <1>3, <2>1, <2>5, <3>3
    <3> QED BY <3>1, <3>2, <3>3
  <2> QED BY <1>1, <1>2, <2>3, <2>4, <2>5, Commands
<1>5. PICK ok : (ok <=> Awaits(p)') /\ GrantsOnly(c, req[p].id, t, ok)
  <2>1. PICK u, ok : u = req'[p].at /\ (ok <=> Awaits(p)') /\ GrantsOnly(c, req[p].id, u, ok)
    BY <1>1, GrantedInRedis
  <2>2. ok => u = t
    BY <1>1, <1>2, <2>1, Commands DEF Awaits
  <2>3. GrantsOnly(c, req[p].id, t, ok)
    BY <2>1, <2>2 DEF GrantsOnly
  <2> QED BY <2>1, <2>3
<1>6. ASSUME NEW d \in Clients, NEW from \in Int, NEW to \in Int, to <= t, to - from < Second
      PROVE  Grants(d, from, to)' < SlidingLimit + Cardinality(Procs)
  <2>1. CASE d # c \/ ~ok \/ t \notin from..to
    <3>1. /\ Grants(d, from, to)' \in Nat /\ Grants(d, from, to) \in Nat
          /\ Grants(d, from, to)' <= Grants(d, from, to)
      BY <1>5, <2>1, GrantsCounted
    <3>2. Grants(d, from, to) < SlidingLimit + Cardinality(Procs)
      BY <1>1, <1>2, <1>6 DEF SlidingQuota
    <3>3. Cardinality(Procs) \in Nat /\ SlidingLimit \in Nat
      BY FS_CardinalityType, Quotients
    <3> QED BY <3>1, <3>2, <3>3
  <2>2. CASE d = c /\ ok /\ t \in from..to
    <3>1. from > t - Second
      BY <1>6, <2>2, QuotaAssumption
    <3>2. \A id \in Granted(d, from, to)' : id \in Granted(d, from, to) \/ id = req[p].id
      BY <1>5 DEF GrantsOnly
    <3>3. /\ Cardinality(members[c]) \in Nat /\ Cardinality(Procs) \in Nat
          /\ Grants(d, from, to)' \in Nat
          /\ Grants(d, from, to)' <= Cardinality(members[c]) + Cardinality(Procs)
      <4> DEFINE G == Granted(d, from, to)'
      <4>1. Grants(d, from, to)' = Cardinality(G)
        BY DEF Grants
      <4>2. \A id \in G : id \in Granted(c, from, to) \/ id = req[p].id
        BY <2>2, <3>2
      <4> HIDE DEF G
      <4>3. from > now - Second
        BY <1>1, <3>1
      <4>4. /\ Cardinality(members[c]) \in Nat /\ Cardinality(Procs) \in Nat
            /\ Cardinality(G) \in Nat
            /\ Cardinality(G) <= Cardinality(members[c]) + Cardinality(Procs)
        BY <1>2, <4>2, <4>3, UnderWay
      <4> QED BY <4>1, <4>4
    <3>4. Cardinality(members[c]) < SlidingLimit
      <4>1. req'[p].n = Cardinality(members[c]) /\ Within(req'[p].n)
        BY <1>1, <1>2, <1>5, <2>2, Commands DEF Awaits, Within
      <4> QED BY <4>1 DEF Within
    <3> QED BY <3>3, <3>4, Quotients
  <2> QED BY <2>1, <2>2
<1> QED BY <1>1, <1>4, <1>6 DEF SlidingQuota

LEMMA SlidingNext ==
    ASSUME Sound, Sound', SlidingQuota, [Next]_vars, IsFiniteSet(Procs)
    PROVE  SlidingQuota'
<1>1. UNCHANGED conf
  BY DEF Next, vars, AllowInMemory, SharedStep, Incr, Renew, Trim, Card, Add, StartShared,
         Clear, Tick, SwitchRedis, Quiet
<1> SUFFICES ASSUME Shared, ~conf.fixed PROVE SlidingQuota'
  BY <1>1 DEF SlidingQuota, Shared
<1>2. CASE \/ \E p \in Procs, c \in Clients : StartShared(p, c)
           \/ Clear \/ Tick \/ SwitchRedis \/ UNCHANGED vars
  <2>1. PICK t \in Nat, u \in Nat :
           t = now /\ u = now' /\ (u = t \/ (u = t + 1 /\ ~\E p \in Procs : pc[p] # "idle"))
    BY <1>2 DEF StartShared, Clear, Tick, SwitchRedis, vars, Sound, TypeOK
  <2>2. UNCHANGED <<members, verdicts>>
    BY <1>2 DEF StartShared, Clear, Tick, SwitchRedis, vars, stores
  <2>3. ASSUME NEW v \in verdicts', v.pass, v.at > u - Second
        PROVE  [id |-> v.id, at |-> v.at] \in members'[v.client]
    <3>1. v.at > t - Second
      <4>1. v.at \in Nat
        BY <2>2 DEF Sound, TypeOK, Answers
      <4> QED BY <2>1, <2>3, <4>1, QuotaAssumption
    <3> QED BY <2>1, <2>2, <2>3, <3>1 DEF SlidingQuota
  <2>4. ASSUME NEW d \in Clients, NEW from \in Int, NEW to \in Int, to <= u, to - from < Second
        PROVE  Grants(d, from, to)' < SlidingLimit + Cardinality(Procs)
    <3>1. /\ Grants(d, from, to)' \in Nat /\ Grants(d, from, to) \in Nat
          /\ Grants(d, from, to)' <= Grants(d, from, to)
      <4> DEFINE ok == FALSE
      <4>1. ~ok /\ GrantsOnly(d, 0, t, ok)
        BY <1>2, GrantedAround
      <4> HIDE DEF ok
      <4> QED BY <4>1, GrantsCounted
    <3>2. Cardinality(Procs) \in Nat /\ SlidingLimit \in Nat
      BY FS_CardinalityType, Quotients
    <3>3. Grants(d, from, to) < SlidingLimit + Cardinality(Procs)
      <4>1. CASE to <= t
        BY <2>1, <2>4, <4>1 DEF SlidingQuota
      <4>2. CASE to > t
        <5>1. Grants(d, from, to) = Grants(d, from, t)
          BY <2>1, <4>2, NothingGrantedAhead
        <5>2. t - from < Second
          BY <2>4, <4>2, QuotaAssumption
        <5>3. Grants(d, from, t) < SlidingLimit + Cardinality(Procs)
          BY <2>1, <5>2 DEF SlidingQuota
        <5> QED BY <5>1, <5>3
      <4> QED BY <4>1, <4>2
    <3> QED BY <3>1, <3>2, <3>3
  <2> QED BY <2>1, <2>3, <2>4 DEF SlidingQuota
<1>3. ASSUME NEW c \in Clients, NEW i \in Instances, AllowInMemory(c, i) PROVE SlidingQuota'
  BY <1>3 DEF AllowInMemory
<1> QED BY <1>2, <1>3, SlidingInRedis DEF Next, Quiet

LEMMA SlidingInit == IsFiniteSet(Procs) /\ Init => SlidingQuota
<1> SUFFICES ASSUME IsFiniteSet(Procs), Init PROVE SlidingQuota
  OBVIOUS
<1>1. verdicts = {} /\ \A p \in Procs : ~Awaits(p)
  BY DEF Init, Awaits
<1>2. ASSUME NEW c, NEW from, NEW to PROVE Grants(c, from, to) = 0
  BY <1>1, FS_EmptySet DEF Granted, Admitted, Grants
<1>3. Cardinality(Procs) \in Nat \ {0} /\ SlidingLimit \in Nat
  BY FS_CardinalityType, FS_EmptySet, Quotients, RateBoundAssumption
<1> QED BY <1>1, <1>2, <1>3 DEF SlidingQuota

-----------------------------------------------------------------------------
(* The quotas. *)

LEMMA QuotasFollow ==
    ASSUME Sound, Distinct, BucketQuota, FixedQuota, SlidingQuota, IsFiniteSet(Procs)
    PROVE  QuotaKept
<1>1. PICK t \in Nat : t = now
  BY DEF Sound, TypeOK
<1> SUFFICES ASSUME NEW c \in Clients, NEW from \in 0..t, NEW to \in from..t
             PROVE  /\ conf.fixed /\ to - from < Window => Passed(c, from, to) <= 2 * Limit
                    /\ Shared /\ ~conf.fixed /\ to - from < Second =>
                           Passed(c, from, to) < SlidingLimit + Cardinality(Procs)
                    /\ ~Shared /\ ~conf.fixed /\ ~cleared =>
                           Passed(c, from, to) * Token <= Burst * Token + Rate * (to - from)
  BY <1>1 DEF QuotaKept
<1>2. from \in Int /\ to \in Int /\ from <= to /\ to <= t
  BY <1>1
<1>3. /\ Passed(c, from, to) <= Grants(c, from, to) /\ Grants(c, from, to) \in Nat
      /\ Passed(c, from, to) \in Nat
  BY PassedGranted, GrantedFinite, AdmittedFacts DEF Sound
<1>4. ASSUME conf.fixed, to - from < Window PROVE Passed(c, from, to) <= 2 * Limit
  <2>1. CASE to < t
    <3>1. Grants(c, from, to) <= 2 * Limit
      BY <1>1, <1>2, <1>4, <2>1 DEF FixedQuota
    <3> QED BY <1>3, <3>1, QuotaAssumption
  <2>2. CASE to = t
    <3>1. PICK s \in Int : WindowKept(c, s)
      BY <1>4 DEF FixedQuota
    <3>2. \E n : Epoch(c, s, n)
      BY <3>1 DEF WindowKept
    <3>3. Grants(c, from, to) <= 2 * Limit
      BY <1>1, <1>2, <1>4, <2>2, <3>2, TwoEpochs
    <3> QED BY <1>3, <3>3, QuotaAssumption
  <2> QED BY <1>2, <2>1, <2>2
<1>5. ASSUME Shared, ~conf.fixed, to - from < Second
      PROVE  Passed(c, from, to) < SlidingLimit + Cardinality(Procs)
  <2>1. Grants(c, from, to) < SlidingLimit + Cardinality(Procs)
    BY <1>1, <1>2, <1>5 DEF SlidingQuota
  <2>2. Cardinality(Procs) \in Nat /\ SlidingLimit \in Nat
    BY FS_CardinalityType, Quotients
  <2> QED BY <1>3, <2>1, <2>2
<1>6. ASSUME ~Shared, ~conf.fixed, ~cleared
      PROVE  Passed(c, from, to) * Token <= Burst * Token + Rate * (to - from)
  BY <1>1, <1>2, <1>6 DEF BucketQuota, Cost, Full, Refill
<1> QED BY <1>4, <1>5, <1>6

\* However requests, instances and outages interleave, a client gets no more than its
\* quota past the limiter.  For the bucket of memoryLimiter this takes a bucket that is
\* full once it was idle for long enough to be dropped, which ratelimit.Validate leaves to
\* the configuration.
THEOREM QuotasKept ==
    ASSUME IsFiniteSet(Procs), Burst * Token <= Rate * (Idle + 1)
    PROVE  Spec => []QuotaKept
<1> DEFINE Inv == Sound /\ Distinct /\ BucketQuota /\ FixedQuota /\ SlidingQuota
<1>1. Init => Inv
  <2>1. Init => Distinct
    BY DEF Init, Distinct
  <2> QED BY <2>1, InitSound, QuotaBucketInit, FixedInit, SlidingInit
<1>2. Inv /\ [Next]_vars => Inv'
  BY NextSound, DistinctNext, QuotaBucketNext, FixedNext, SlidingNext
<1>3. Inv => QuotaKept
  BY QuotasFollow
<1> QED BY <1>1, <1>2, <1>3, PTL DEF Spec
=============================================================================
