----------------------------- MODULE RateLimit -----------------------------
(***************************************************************************)
(* The rate limiters of middleware.NewRateLimiter and the start-up check   *)
(* of package ratelimit.  A configuration yields one of four limiters: a   *)
(* fixed window (routes) or a bucket (global), in memory or in Redis.      *)
(*                                                                         *)
(* A limiter in memory decides under its mutex, in one step.  A limiter in *)
(* Redis sends a pipeline, which is no transaction: each of its commands   *)
(* is a step, and commands of other requests may come between.  Requests   *)
(* are counted by client address and by route, and routes do not interact. *)
(* Time is counted in ticks, Second of them to a second; the instances'    *)
(* clocks agree, and no two requests read the same nanosecond.             *)
(***************************************************************************)
EXTENDS Integers, FiniteSets

CONSTANTS Procs,          \* request goroutines, of any instance
          Clients,        \* client addresses
          Instances,      \* processes of a cluster
          Limit, Window,  \* fixed window: DefaultLimit, DefaultWindow
          Burst,          \* bucket: Burst
          Rate, Token,    \* what flows into a bucket in a tick, in units of
                          \* which Token make a token: RPS is Rate * Second / Token
          Second,         \* ticks in a second
          Idle,           \* the 10 minutes after which an entry may go
          MaxEntries,     \* the 1024 entries that start a clean-up
          MaxTime,        \* bound: last tick modelled
          MaxRequests,    \* bound: requests received
          MaxOutages      \* bound: Redis going down or coming back

ASSUME QuotaAssumption ==
    /\ Limit \in Nat \ {0} /\ Window \in Nat \ {0} /\ Rate \in Nat \ {0}
    /\ Burst \in Nat \ {0} /\ Second \in Nat \ {0} /\ Token \in Nat \ {0}
ASSUME RateBoundAssumption ==
    /\ Idle \in Nat /\ MaxEntries \in Nat /\ Procs # {} /\ Instances # {}
    /\ MaxTime \in Nat /\ MaxRequests \in Nat /\ MaxOutages \in Nat

VARIABLES now,
          conf,       \* the configuration the service started with
          counter,    \* Redis, fixed window: value and expiry (0 = none) by client
          members,    \* Redis, sliding window: the sorted set of each client
          window,     \* memory, fixed window: an entry by instance and client
          bucket,     \* memory, token bucket: an entry by instance and client
          redisUp,
          cleared,    \* Clear has run
          pc, req,    \* where each request is, and its local variables
          last,       \* history: when the last request of a client was answered
          verdicts,   \* history: the answers of the limiter
          used        \* how much of each bound is spent

vars == <<now, conf, counter, members, window, bucket, redisUp, cleared, pc, req,
          last, verdicts, used>>
stores == <<counter, members, window, bucket>>

Configs == [driver : {"memory", "redis", "misspelt"}, fixed : BOOLEAN,
            cluster : BOOLEAN, cache : BOOLEAN]

\* Variant: deploy_mode is not compared with the driver.
ValidateDriver(c) ==
    /\ c.driver \in {"memory", "redis"}
    /\ c.driver = "redis" => c.cache
\* ratelimit.Validate; the service panics on any other configuration.
Validate(c) ==
    /\ c.driver \in {"memory", "redis"}
    /\ c.driver = "redis" => c.cache
    /\ c.cluster => c.driver = "redis"

\* Only "redis" is told apart: NewRateLimiter takes any other driver for memory.
Shared == conf.driver = "redis"

\* redisLimiter takes half as much again as RPS, without its fraction, and ignores
\* Burst: 0 when RPS is below 2/3.
SlidingLimit == (3 * Rate * Second) \div (2 * Token)

NoEntry == [n |-> 0, start |-> 0]
NoBucket == [tokens |-> -1, at |-> 0]
NoKey == [n |-> 0, exp |-> 0]
\* at is the time read from the clock, or that of INCR, and n the count that was
\* read.  quiet is a history variable: the client was silent for a Span before.
NoReq == [id |-> 0, client |-> "none", at |-> 0, n |-> 0, quiet |-> FALSE]

Span == IF conf.fixed THEN Window
        ELSE IF Shared THEN Second
        ELSE (Token + Rate - 1) \div Rate

Init ==
    /\ now = 0
    /\ conf \in {c \in Configs : Validate(c)}
    /\ counter = [c \in Clients |-> NoKey]
    /\ members = [c \in Clients |-> {}]
    /\ window = [i \in Instances |-> [c \in Clients |-> NoEntry]]
    /\ bucket = [i \in Instances |-> [c \in Clients |-> NoBucket]]
    /\ redisUp = TRUE /\ cleared = FALSE
    /\ pc = [p \in Procs |-> "idle"] /\ req = [p \in Procs |-> NoReq]
    /\ last = [c \in Clients |-> -Span] /\ verdicts = {}
    /\ used = [requests |-> 0, outages |-> 0]

-----------------------------------------------------------------------------
(* Answers. *)

Go(p, to, r) == pc' = [pc EXCEPT ![p] = to] /\ req' = [req EXCEPT ![p] = r]

Verdict(r, pass) ==
    verdicts' = verdicts \cup {[id |-> r.id, client |-> r.client, at |-> r.at,
                                pass |-> pass, quiet |-> r.quiet]}

\* The request is let through or answered 429.
Finish(p) ==
    Go(p, "idle", NoReq) /\ last' = [last EXCEPT ![req[p].client] = now]

\* Any Redis error lets the request through unchecked: there is no verdict.
FailOpen(p) ==
    ~redisUp /\ Finish(p) /\ UNCHANGED <<verdicts, stores>>

\* A request arrives; those of its client under way no longer have silence before them.
NewRequest(c) ==
    [id |-> used.requests + 1, client |-> c, at |-> now, n |-> 0,
     quiet |-> now - last[c] >= Span /\ \A p \in Procs : req[p].client # c]

Received(c) ==
    /\ used.requests < MaxRequests
    /\ used' = [used EXCEPT !.requests = @ + 1]

-----------------------------------------------------------------------------
(* The limiters in memory. *)

\* Variant: every request moves the start of the window.
AllowWindowMoving(c, i) ==
    LET e == window[i][c]
        fresh == e.n = 0 \/ now - e.start >= Window
    IN  /\ window' = [window EXCEPT ![i][c] =
              [n |-> IF fresh THEN 1 ELSE e.n + 1, start |-> now]]
        /\ Verdict(NewRequest(c), fresh \/ e.n + 1 <= Limit)
        /\ UNCHANGED bucket

\* fixedWindowMemoryLimiter.Allow.
AllowWindow(c, i) ==
    LET e == window[i][c]
        fresh == e.n = 0 \/ now - e.start >= Window
    IN  /\ window' = [window EXCEPT ![i][c] =
              IF fresh THEN [n |-> 1, start |-> now] ELSE [e EXCEPT !.n = @ + 1]]
        /\ Verdict(NewRequest(c), fresh \/ e.n + 1 <= Limit)
        /\ UNCHANGED bucket

\* rate.Limiter.Allow, in units: what the bucket holds now.
Tokens(b) ==
    LET full == Burst * Token
        refilled == b.tokens + Rate * (now - b.at)
    IN  IF b = NoBucket \/ refilled > full THEN full ELSE refilled

\* Variant: a refused request takes a token all the same.
SpendAlways(tokens) == tokens - Token
\* An admitted request takes one token, a refused one none.
Spend(tokens) == IF tokens >= Token THEN tokens - Token ELSE tokens

\* The entries that stay when the map has outgrown MaxEntries.
Cleaned(entries) ==
    IF Cardinality({c \in Clients : entries[c] # NoBucket}) > MaxEntries
    THEN [c \in Clients |-> IF now - entries[c].at > Idle THEN NoBucket ELSE entries[c]]
    ELSE entries

\* memoryLimiter.Allow.
AllowBucket(c, i) ==
    LET tokens == Tokens(bucket[i][c])
        left == [tokens |-> Spend(tokens), at |-> now]
    IN  /\ bucket' = [bucket EXCEPT ![i] = Cleaned([@ EXCEPT ![c] = left])]
        /\ Verdict(NewRequest(c), tokens >= Token)
        /\ UNCHANGED window

\* The processes that answer requests.
Serving == IF conf.cluster THEN Instances ELSE {CHOOSE i \in Instances : TRUE}

AllowInMemory(c, i) ==
    /\ ~Shared /\ i \in Serving /\ Received(c)
    /\ \/ conf.fixed /\ AllowWindow(c, i)
       \/ ~conf.fixed /\ AllowBucket(c, i)
    /\ last' = [last EXCEPT ![c] = now]
    /\ UNCHANGED <<now, conf, counter, members, redisUp, cleared, pc, req>>

\* App.Close empties the global limiter, before the servers stop serving.
Clear ==
    /\ ~Shared /\ ~conf.fixed /\ ~cleared /\ cleared' = TRUE
    /\ bucket' = [i \in Instances |-> [c \in Clients |-> NoBucket]]
    /\ UNCHANGED <<now, conf, counter, members, window, redisUp, pc, req, last,
                   verdicts, used>>

-----------------------------------------------------------------------------
(* The limiters in Redis. *)

StartShared(p, c) ==
    /\ Shared /\ pc[p] = "idle" /\ Received(c)
    /\ pc' = [pc EXCEPT ![p] = IF conf.fixed THEN "incr" ELSE "trim"]
    /\ req' = [q \in Procs |-> IF q = p THEN NewRequest(c)
                               ELSE [req[q] EXCEPT !.quiet = @ /\ req[q].client # c]]
    /\ UNCHANGED <<now, conf, stores, redisUp, cleared, last, verdicts>>

\* INCR decides, and EXPIRE follows.
Incr(p) ==
    LET r == req[p]
        n == counter[r.client].n + 1
    IN  /\ pc[p] = "incr"
        /\ \/ FailOpen(p)
           \/ /\ redisUp
              /\ counter' = [counter EXCEPT ![r.client].n = n]
              /\ Go(p, "renew", [r EXCEPT !.n = n, !.at = now])
              /\ UNCHANGED <<members, window, bucket, last, verdicts>>
        /\ UNCHANGED <<now, conf, redisUp, cleared, used>>

\* Variant: the expiry is forgotten.
ExpireForgotten(c) == UNCHANGED counter
\* EXPIRE runs for every request, the refused ones included.
Expire(c) ==
    counter' = IF counter[c].n = 0 THEN counter
               ELSE [counter EXCEPT ![c].exp = now + Window]

Renew(p) ==
    LET r == req[p]
    IN  /\ pc[p] = "renew"
        /\ \/ FailOpen(p)
           \/ /\ redisUp /\ Expire(r.client) /\ Finish(p)
              /\ Verdict(r, r.n <= Limit)
              /\ UNCHANGED <<members, window, bucket>>
        /\ UNCHANGED <<now, conf, redisUp, cleared, used>>

\* ZREMRANGEBYSCORE with the second before the clock was read.
Trim(p) ==
    LET r == req[p]
    IN  /\ pc[p] = "trim"
        /\ \/ FailOpen(p)
           \/ /\ redisUp /\ Go(p, "card", r)
              /\ members' = [members EXCEPT ![r.client] =
                               {m \in @ : m.at > r.at - Second}]
              /\ UNCHANGED <<counter, window, bucket, last, verdicts>>
        /\ UNCHANGED <<now, conf, redisUp, cleared, used>>

Within(n) == n < SlidingLimit

\* ZCARD decides.
Card(p) ==
    LET r == req[p]
        n == Cardinality(members[r.client])
    IN  /\ pc[p] = "card"
        /\ \/ FailOpen(p)
           \/ /\ redisUp /\ Go(p, "add", [r EXCEPT !.n = n])
              /\ UNCHANGED <<stores, last, verdicts>>
        /\ UNCHANGED <<now, conf, redisUp, cleared, used>>

\* ZADD runs for every request.  The EXPIRE behind it drops a set whose members
\* the next Trim would drop.
Add(p) ==
    LET r == req[p]
    IN  /\ pc[p] = "add"
        /\ \/ FailOpen(p)
           \/ /\ redisUp /\ Finish(p)
              /\ members' = [members EXCEPT ![r.client] = @ \cup {[id |-> r.id, at |-> r.at]}]
              /\ Verdict(r, Within(r.n))
              /\ UNCHANGED <<counter, window, bucket>>
        /\ UNCHANGED <<now, conf, redisUp, cleared, used>>

-----------------------------------------------------------------------------
(* What happens around the requests. *)

\* A tick passes and Redis drops the counters that reach their expiry.  No
\* pipeline of the sliding window takes longer than the tick it began in.
Tick ==
    /\ now < MaxTime /\ now' = now + 1
    /\ conf.fixed \/ \A p \in Procs : pc[p] = "idle"
    /\ counter' = [c \in Clients |->
          IF counter[c].exp > 0 /\ counter[c].exp <= now' THEN NoKey ELSE counter[c]]
    /\ UNCHANGED <<conf, members, window, bucket, redisUp, cleared, pc, req, last,
                   verdicts, used>>

\* Redis becomes unreachable, or reachable again with the keys it had.
SwitchRedis ==
    /\ Shared /\ used.outages < MaxOutages
    /\ used' = [used EXCEPT !.outages = @ + 1]
    /\ redisUp' = ~redisUp
    /\ UNCHANGED <<now, conf, stores, cleared, pc, req, last, verdicts>>

\* A server with no request left to serve waits.
Quiet ==
    /\ \A p \in Procs : pc[p] = "idle"
    /\ used.requests = MaxRequests
    /\ UNCHANGED vars

SharedStep(p) == Incr(p) \/ Renew(p) \/ Trim(p) \/ Card(p) \/ Add(p)

Next ==
    \/ \E c \in Clients, i \in Instances : AllowInMemory(c, i)
    \/ \E p \in Procs : SharedStep(p) \/ \E c \in Clients : StartShared(p, c)
    \/ Clear \/ Tick \/ SwitchRedis \/ Quiet

Spec == Init /\ [][Next]_vars

-----------------------------------------------------------------------------
(* Properties. *)

Tokened == [tokens : -1..(Burst * Token), at : Nat]
Answers == [id : Nat, client : Clients, at : Nat, pass : BOOLEAN, quiet : BOOLEAN]
Requests == [id : Nat, client : Clients \cup {"none"}, at : Nat, n : Nat, quiet : BOOLEAN]

\* Every variable has its type; in particular no bucket is overdrawn or overfull.
TypeOK ==
    /\ now \in Nat /\ conf \in Configs /\ redisUp \in BOOLEAN /\ cleared \in BOOLEAN
    /\ counter \in [Clients -> [n : Nat, exp : Nat]]
    /\ \A c \in Clients : members[c] \subseteq [id : Nat, at : Nat]
    /\ window \in [Instances -> [Clients -> [n : Nat, start : Nat]]]
    /\ bucket \in [Instances -> [Clients -> Tokened]]
    /\ pc \in [Procs -> {"idle", "incr", "renew", "trim", "card", "add"}]
    /\ req \in [Procs -> Requests]
    /\ last \in [Clients -> Int] /\ verdicts \subseteq Answers
    /\ used \in [requests : Nat, outages : Nat]

\* How many requests of c the limiter let through in the ticks from..to.
Passed(c, from, to) ==
    Cardinality({v \in verdicts : v.client = c /\ v.pass /\ v.at \in from..to})

\* However requests, instances and outages interleave, a client gets no more than
\* its quota past the limiter: two Limits in any Window, which may touch two fixed
\* windows; Burst and the Rate in any span of time, for a bucket that was not
\* cleared; SlidingLimit in a second, and one more for each other request under
\* way, as nothing keeps two pipelines apart.
QuotaKept ==
    \A c \in Clients, from \in 0..now : \A to \in from..now :
        /\ conf.fixed /\ to - from < Window => Passed(c, from, to) <= 2 * Limit
        /\ Shared /\ ~conf.fixed /\ to - from < Second =>
               Passed(c, from, to) < SlidingLimit + Cardinality(Procs)
        /\ ~Shared /\ ~conf.fixed /\ ~cleared =>
               Passed(c, from, to) * Token <= Burst * Token + Rate * (to - from)

\* A request is refused only when its client used up its quota not long before:
\* Limit in the last Window; a Burst while a bucket fills up.
Earned(v) ==
    IF conf.fixed THEN Passed(v.client, v.at - Window + 1, v.at) >= Limit
    ELSE Passed(v.client, v.at - (Burst * Token) \div Rate, v.at) >= Burst

\* It holds in memory: refused requests are not held against a client.
MemoryRefusalsEarned ==
    ~Shared => \A v \in verdicts : v.pass \/ Earned(v)

\* The sliding window of a rate so small that its limit is 0.
RefusesAll == Shared /\ ~conf.fixed /\ SlidingLimit = 0

\* A client that kept silent for long enough is let in, whatever it was refused
\* before, as long as no pipeline broke off between INCR and EXPIRE, and unless
\* RPS is below 2/3 and counted in Redis.
SilenceHelps ==
    used.outages = 0 /\ ~RefusesAll => \A v \in verdicts : v.quiet => v.pass
=============================================================================
