----------------------------- MODULE LoginLock -----------------------------
(***************************************************************************)
(* Brute-force lock of one account: AuthService.Login calling LockService, *)
(* which keeps its state twice, as rows of the login_audits table and as   *)
(* Redis keys.  Every row and key is selected by username, so accounts do  *)
(* not interact and one account is the whole story.                        *)
(*                                                                         *)
(* Procs are the goroutines serving POST /api/auth/login.  Each call of    *)
(* MySQL and each call of Redis is one step, so that requests interleave   *)
(* between any two of them.  now counts seconds (created_at and expires_at *)
(* are unix seconds).  A nil *cache.Client behaves as a Redis that is down *)
(* from the start.                                                         *)
(***************************************************************************)
EXTENDS Integers, Sequences, FiniteSets

CONSTANTS Procs,                          \* request goroutines
          Passwords,                      \* subset of {"right", "wrong"}
          ShortThreshold, LongThreshold,  \* LockPolicy
          ShortDuration, LongDuration,
          Window,                         \* LockPolicy.Window
          Day,                            \* the 24h written into the repository
          HasReplica,                     \* DB.RO() reads from a replica
          RedisStarts,                    \* redisUp when the service starts
          MaxTime,                        \* bound: last second modelled
          MaxAttempts,                    \* bound: logins received
          MaxFlips,                       \* bound: Redis failures and recoveries
          MaxDBErrs,                      \* bound: failed MySQL calls
          MaxAborts                       \* bound: requests that stop half way

\* NewLockService panics on any other policy (service/login_audit.go:67).
ASSUME PolicyAssumption ==
    /\ ShortThreshold \in Nat \ {0} /\ LongThreshold \in Nat
    /\ ShortThreshold < LongThreshold
    /\ ShortDuration \in Nat \ {0} /\ LongDuration \in Nat
    /\ ShortDuration < LongDuration

ASSUME BoundAssumption ==
    /\ Passwords \subseteq {"right", "wrong"}
    /\ Window \in Nat \ {0} /\ Day \in Nat \ {0}
    /\ HasReplica \in BOOLEAN /\ RedisStarts \subseteq BOOLEAN
    /\ MaxTime \in Nat /\ MaxAttempts \in Nat /\ MaxFlips \in Nat
    /\ MaxDBErrs \in Nat /\ MaxAborts \in Nat

VARIABLES now,
          failures,   \* login_audits rows with event_type failure
          locks,      \* login_audits rows lock_short and lock_long, by id
          ro,         \* the rows DB.RO() sees
          rFail,      \* Redis auth:fail:<user>: value and expiry
          rLock,      \* Redis auth:lock:short|long:<user>: expiry, 0 = no key
          redisUp,
          pc, req,    \* where each request is, and its local variables
          used        \* how much of each bound is spent

vars == <<now, failures, locks, ro, rFail, rLock, redisUp, pc, req, used>>
dbVars == <<failures, locks, ro>>
redisVars == <<rFail, rLock, redisUp>>

Levels == {"short", "long"}
NoCount == [n |-> 0, exp |-> 0]
NoLock == [level |-> "none", exp |-> 0]
Primary == [failures |-> failures, locks |-> locks]

Duration(level) == IF level = "long" THEN LongDuration ELSE ShortDuration

\* The switch of RecordFailure.
NewLevel(count) ==
    IF count >= LongThreshold THEN "long"
    ELSE IF count >= ShortThreshold THEN "short"
    ELSE "none"

\* Local variables of a request: caller says which GetLock call is running,
\* gt and t are the s.now() of GetLock and of RecordFailure, seen the result of
\* GetLock, cnt that of RecentFailuresCount, ttl the time.Until before a SetNX.
\* base (lock rows stored when the login began) and checked (when it passed the
\* lock check) are history variables.  A local the code no longer reads is 0.
IdleReq == [pw |-> "wrong", caller |-> "login", gt |-> 0, t |-> 0,
            seen |-> NoLock, cnt |-> 0, ttl |-> 0, base |-> 0, checked |-> 0]

Labels == {"idle", "lockLong", "lockShort", "lockDB", "lockRefill", "checkLock",
           "verify", "fail", "incr", "count", "countDB", "countRefill", "decide",
           "writeLock", "setLock", "clear", "clearKey"}
GetLockLabels == {"lockLong", "lockShort", "lockDB", "lockRefill", "checkLock"}

Init ==
    /\ now = 0
    /\ failures = {} /\ locks = <<>> /\ ro = Primary
    /\ rFail = NoCount /\ rLock = [k \in Levels |-> 0] /\ redisUp \in RedisStarts
    /\ pc = [p \in Procs |-> "idle"] /\ req = [p \in Procs |-> IdleReq]
    /\ used = [attempts |-> 0, flips |-> 0, dbErrs |-> 0, aborts |-> 0]

-----------------------------------------------------------------------------
(* Steps of the stores and of a request. *)

SyncRO == ro' = IF HasReplica THEN ro ELSE Primary'

Step(p, from, to) == pc[p] = from /\ pc' = [pc EXCEPT ![p] = to]

Locals(p, r) == req' = [req EXCEPT ![p] = r]

Finish(p) == pc' = [pc EXCEPT ![p] = "idle"] /\ Locals(p, IdleReq)

\* A call of MySQL that returns an error and leaves the rows alone.
DBError ==
    /\ used.dbErrs < MaxDBErrs
    /\ used' = [used EXCEPT !.dbErrs = @ + 1]
    /\ UNCHANGED dbVars

\* cache.SetNX: an error is only logged by every caller.
SetNX(level, ttl) ==
    rLock' = IF redisUp /\ rLock[level] = 0
             THEN [rLock EXCEPT ![level] = now + ttl] ELSE rLock

-----------------------------------------------------------------------------
(* LockService.GetLock: two Redis reads, then the table, then a refill. *)

\* Login with a username and a password; the lock check starts.
StartLogin(p) ==
    /\ used.attempts < MaxAttempts
    /\ used' = [used EXCEPT !.attempts = @ + 1]
    /\ Step(p, "idle", "lockLong")
    /\ \E pw \in Passwords :
          Locals(p, [IdleReq EXCEPT !.pw = pw, !.gt = now, !.base = Len(locks)])
    /\ UNCHANGED <<now, dbVars, redisVars>>

ReadLockKey(p, level, from, miss) ==
    /\ pc[p] = from
    /\ \/ /\ redisUp /\ rLock[level] > 0
          /\ pc' = [pc EXCEPT ![p] = "checkLock"]
          /\ Locals(p, [req[p] EXCEPT !.seen =
                [level |-> level, exp |-> req[p].gt + (rLock[level] - now)]])
       \/ /\ ~(redisUp /\ rLock[level] > 0)
          /\ pc' = [pc EXCEPT ![p] = miss]
          /\ UNCHANGED req
    /\ UNCHANGED <<now, dbVars, redisVars, used>>

\* Variant: the long key is not looked at.
ReadLongKeySkipped(p) == ReadLockKey(p, "short", "lockLong", "lockShort")
\* Variant: a miss in Redis is taken for "not locked".
ReadShortKeyNoFallback(p) == ReadLockKey(p, "short", "lockShort", "checkLock")

ReadLongKey(p) == ReadLockKey(p, "long", "lockLong", "lockShort")
ReadShortKey(p) == ReadLockKey(p, "short", "lockShort", "lockDB")

ActiveRows(rows, t) == {i \in DOMAIN rows : rows[i].exp > t}

\* ORDER BY created_at DESC with the primary key that First adds.
IsFirst(rows, t, i) ==
    \A j \in ActiveRows(rows, t) :
        rows[j].at < rows[i].at \/ (rows[j].at = rows[i].at /\ i <= j)

QueryLock(p) ==
    LET rows == ro.locks
        active == ActiveRows(rows, req[p].gt)
    IN  /\ pc[p] = "lockDB"
        /\ \/ /\ DBError
              /\ Step(p, "lockDB", "checkLock")
              /\ Locals(p, [req[p] EXCEPT !.seen = NoLock])
           \/ /\ active = {}
              /\ Step(p, "lockDB", "checkLock")
              /\ Locals(p, [req[p] EXCEPT !.seen = NoLock])
              /\ UNCHANGED <<dbVars, used>>
           \/ \E i \in active :
              /\ IsFirst(rows, req[p].gt, i)
              /\ LET ttl == rows[i].exp - now IN
                 /\ Step(p, "lockDB", IF ttl > 0 THEN "lockRefill" ELSE "checkLock")
                 /\ Locals(p, [req[p] EXCEPT
                        !.seen = [level |-> rows[i].level, exp |-> rows[i].exp],
                        !.ttl = IF ttl > 0 THEN ttl ELSE 0])
              /\ UNCHANGED <<dbVars, used>>
        /\ UNCHANGED <<now, redisVars>>

RefillLock(p) ==
    /\ Step(p, "lockRefill", "checkLock")
    /\ SetNX(req[p].seen.level, req[p].ttl)
    /\ Locals(p, [req[p] EXCEPT !.ttl = 0])
    /\ UNCHANGED <<now, dbVars, rFail, redisUp, used>>

\* AccountLock.Active.
LockActive(p) == req[p].seen.level # "none" /\ now <= req[p].seen.exp

-----------------------------------------------------------------------------
(* AuthService.Login after the lock check. *)

\* Variant: a long lock does not stop the login.
PassesUnlessShort(p) == ~(LockActive(p) /\ req[p].seen.level = "short")
Passes(p) == ~LockActive(p)

\* A long lock ends the login, a short one counts it as a failure, none lets
\* it pass on to the password.
CheckLock(p) ==
    /\ pc[p] = "checkLock" /\ req[p].caller = "login"
    /\ \/ /\ Passes(p)
          /\ Step(p, "checkLock", "verify")
          /\ Locals(p, [req[p] EXCEPT !.checked = now])
       \/ /\ LockActive(p) /\ req[p].seen.level = "long"
          /\ Finish(p)
       \/ /\ LockActive(p) /\ req[p].seen.level = "short"
          /\ Step(p, "checkLock", "fail")
          /\ Locals(p, [IdleReq EXCEPT !.t = now])
    /\ UNCHANGED <<now, dbVars, redisVars, used>>

\* FindByUsername and utils.Verify; an unknown user is a wrong password here.
VerifyPassword(p) ==
    /\ pc[p] = "verify"
    /\ \/ DBError /\ Finish(p)
       \/ /\ req[p].pw = "right"
          /\ Step(p, "verify", "clear")
          /\ Locals(p, IdleReq)
          /\ UNCHANGED <<dbVars, used>>
       \/ /\ req[p].pw = "wrong"
          /\ Step(p, "verify", "fail")
          /\ Locals(p, [IdleReq EXCEPT !.t = now])
          /\ UNCHANGED <<dbVars, used>>
    /\ UNCHANGED <<now, redisVars>>

\* ClearFailures: rows first, then the counter.  The token pair issued after
\* it touches none of this state.
ClearRows(p) ==
    /\ pc[p] = "clear"
    /\ \/ DBError /\ Finish(p)
       \/ /\ failures' = {} /\ UNCHANGED <<locks, used>> /\ SyncRO
          /\ Step(p, "clear", "clearKey") /\ UNCHANGED req
    /\ UNCHANGED <<now, redisVars>>

ClearKey(p) ==
    /\ pc[p] = "clearKey" /\ Finish(p)
    /\ rFail' = IF redisUp THEN NoCount ELSE rFail
    /\ UNCHANGED <<now, dbVars, rLock, redisUp, used>>

-----------------------------------------------------------------------------
(* LockService.RecordFailure. *)

\* Rows of one second are told apart by a number, which stands for the id.
NewRow == [at |-> now, nth |-> Cardinality({f \in failures : f.at = now}) + 1]

\* One transaction: insert the row and drop this user's rows older than 24h.
\* When it fails the Redis counter is not touched either.
WriteFailure(p) ==
    /\ pc[p] = "fail"
    /\ \/ DBError /\ Step(p, "fail", "count")
       \/ /\ failures' = {f \in failures : f.at >= req[p].t - Day}
                             \cup {NewRow}
          /\ UNCHANGED <<locks, used>> /\ SyncRO
          /\ Step(p, "fail", "incr")
    /\ UNCHANGED <<now, redisVars, req>>

\* Variant: the expiry is set for a new key only, as IncrWithTTL documents.
IncrementedNX == [n |-> rFail.n + 1, exp |-> IF rFail.n = 0 THEN now + Day ELSE rFail.exp]
\* Variant: the counter runs down.
Decremented == [n |-> rFail.n - 1, exp |-> now + Day]
\* cache.IncrWithTTL: the expiry is set again at every call.
Incremented == [n |-> rFail.n + 1, exp |-> now + Day]

IncrFailures(p) ==
    /\ Step(p, "incr", "count")
    /\ rFail' = IF redisUp THEN Incremented ELSE rFail
    /\ UNCHANGED <<now, dbVars, rLock, redisUp, req, used>>

ReadCount(p) ==
    /\ pc[p] = "count"
    /\ \/ /\ redisUp /\ rFail.n > 0
          /\ Step(p, "count", "decide")
          /\ Locals(p, [req[p] EXCEPT !.cnt = rFail.n])
       \/ /\ ~(redisUp /\ rFail.n > 0)
          /\ Step(p, "count", "countDB") /\ UNCHANGED req
    /\ UNCHANGED <<now, dbVars, redisVars, used>>

InWindow(rows, since) == {f \in rows : f.at >= since}

Counted(rows, since) == Cardinality(InWindow(rows, since))

CountRows(p) ==
    LET n == Counted(ro.failures, req[p].t - Window)
    IN  /\ pc[p] = "countDB"
        /\ \/ /\ DBError
              /\ Step(p, "countDB", "decide")
              /\ Locals(p, [req[p] EXCEPT !.cnt = 0])
           \/ /\ Step(p, "countDB", IF n > 0 THEN "countRefill" ELSE "decide")
              /\ Locals(p, [req[p] EXCEPT !.cnt = n])
              /\ UNCHANGED <<dbVars, used>>
        /\ UNCHANGED <<now, redisVars>>

RefillCount(p) ==
    /\ Step(p, "countRefill", "decide")
    /\ rFail' = IF redisUp THEN [n |-> req[p].cnt, exp |-> now + Day] ELSE rFail
    /\ UNCHANGED <<now, dbVars, rLock, redisUp, req, used>>

\* Below the short threshold the failure is only recorded; otherwise the
\* current lock is read again.
Decide(p) ==
    /\ pc[p] = "decide"
    /\ \/ NewLevel(req[p].cnt) = "none" /\ Finish(p)
       \/ /\ NewLevel(req[p].cnt) # "none"
          /\ Step(p, "decide", "lockLong")
          /\ Locals(p, [IdleReq EXCEPT !.caller = "failure", !.gt = now,
                                       !.t = req[p].t, !.cnt = req[p].cnt])
    /\ UNCHANGED <<now, dbVars, redisVars, used>>

\* Variant: any lock in force stops the write, so nothing is upgraded.
AnyLevel(p) == LockActive(p)
SameLevel(p) == LockActive(p) /\ req[p].seen.level = NewLevel(req[p].cnt)

\* A lock of the same level in force is not written again; a lock of the
\* other level, either way round, does not stop the write.
Recheck(p) ==
    /\ pc[p] = "checkLock" /\ req[p].caller = "failure"
    /\ \/ SameLevel(p) /\ Finish(p)
       \/ /\ ~SameLevel(p) /\ Step(p, "checkLock", "writeLock")
          /\ Locals(p, [IdleReq EXCEPT !.t = req[p].t, !.cnt = req[p].cnt])
    /\ UNCHANGED <<now, dbVars, redisVars, used>>

RowFails(p) == DBError /\ Finish(p)

\* RecordLock: the row, then the key with what is left of the duration.
WriteLock(p) ==
    LET level == NewLevel(req[p].cnt)
        exp == req[p].t + Duration(level)
    IN  /\ pc[p] = "writeLock"
        /\ \/ RowFails(p)
           \/ /\ locks' = Append(locks, [level |-> level, at |-> now, exp |-> exp])
              /\ UNCHANGED <<failures, used>> /\ SyncRO
              /\ \/ exp > now /\ Step(p, "writeLock", "setLock")
                              /\ Locals(p, [IdleReq EXCEPT !.cnt = req[p].cnt,
                                                           !.ttl = exp - now])
                 \/ exp <= now /\ Finish(p)
        /\ UNCHANGED <<now, redisVars>>

\* Variant: every lock goes to the short key.
ShortKey(level) == "short"
LockKey(level) == IF level = "long" THEN "long" ELSE "short"

SetLock(p) ==
    /\ pc[p] = "setLock" /\ Finish(p)
    /\ SetNX(LockKey(NewLevel(req[p].cnt)), req[p].ttl)
    /\ UNCHANGED <<now, dbVars, rFail, redisUp, used>>

-----------------------------------------------------------------------------
(* What happens around the requests. *)

\* A second passes and Redis drops the keys that reach their expiry.
Tick ==
    /\ now < MaxTime /\ now' = now + 1
    /\ rFail' = IF rFail.exp > now' THEN rFail ELSE NoCount
    /\ rLock' = [k \in Levels |-> IF rLock[k] > now' THEN rLock[k] ELSE 0]
    /\ UNCHANGED <<dbVars, redisUp, pc, req, used>>

Flip == used.flips < MaxFlips /\ used' = [used EXCEPT !.flips = @ + 1]

\* Redis becomes unreachable, or reachable again with the keys it had.
SwitchRedis ==
    /\ Flip /\ redisUp' = ~redisUp
    /\ UNCHANGED <<now, dbVars, rFail, rLock, pc, req>>

\* A restart without persistence, or an eviction, loses some keys.
LoseKeys ==
    /\ Flip
    /\ \E lost \in SUBSET {"fail", "short", "long"} :
         /\ rFail' = IF "fail" \in lost THEN NoCount ELSE rFail
         /\ rLock' = [k \in Levels |-> IF k \in lost THEN 0 ELSE rLock[k]]
    /\ UNCHANGED <<now, dbVars, redisUp, pc, req>>

Replicate ==
    /\ HasReplica /\ ro # Primary /\ ro' = Primary
    /\ UNCHANGED <<now, failures, locks, redisVars, pc, req, used>>

\* The process dies, or the client's context is cancelled: what was written
\* stays, what was to come does not happen.
Abort(p) ==
    /\ pc[p] # "idle" /\ used.aborts < MaxAborts
    /\ used' = [used EXCEPT !.aborts = @ + 1]
    /\ Finish(p)
    /\ UNCHANGED <<now, dbVars, redisVars>>

\* A server with no request left to serve waits.
Quiet ==
    /\ \A p \in Procs : pc[p] = "idle"
    /\ used.attempts = MaxAttempts
    /\ UNCHANGED vars

GetLockStep(p) == ReadLongKey(p) \/ ReadShortKey(p) \/ QueryLock(p) \/ RefillLock(p)
LoginStep(p) == CheckLock(p) \/ VerifyPassword(p) \/ ClearRows(p) \/ ClearKey(p)
CountStep(p) == WriteFailure(p) \/ IncrFailures(p) \/ ReadCount(p) \/ CountRows(p)
                    \/ RefillCount(p) \/ Decide(p)
LockStep(p) == Recheck(p) \/ WriteLock(p) \/ SetLock(p)
RequestStep(p) == GetLockStep(p) \/ LoginStep(p) \/ CountStep(p) \/ LockStep(p)

Next ==
    \/ \E p \in Procs : StartLogin(p) \/ RequestStep(p) \/ Abort(p)
    \/ Tick \/ SwitchRedis \/ LoseKeys \/ Replicate \/ Quiet

Spec == Init /\ [][Next]_vars

\* A lock check ends at the latest in the second after the one it began in.
ChecksPrompt ==
    \A p \in Procs : pc[p] \in GetLockLabels => now <= req[p].gt + 1

\* The executions in which every lock check does.  GetLock adds what is left of a key to
\* the time it began (repository/audit.go:177), so that a slower check takes a lock that is
\* nearly over for one that is.
\* Only time can pass beyond it.
PromptTick == Tick /\ ChecksPrompt'

PromptNext ==
    \/ \E p \in Procs : StartLogin(p) \/ RequestStep(p) \/ Abort(p)
    \/ PromptTick \/ SwitchRedis \/ LoseKeys \/ Replicate \/ Quiet

PromptSpec == Init /\ [][PromptNext]_vars

-----------------------------------------------------------------------------
(* Properties. *)

LockRows == [level : Levels, at : Nat, exp : Nat]
Requests == [pw : {"right", "wrong"}, caller : {"login", "failure"},
             gt : Nat, t : Nat, seen : [level : Levels \cup {"none"}, exp : Int],
             cnt : Nat, ttl : Nat, base : Nat, checked : Nat]

DBType ==
    /\ failures \subseteq [at : Nat, nth : Nat] /\ IsFiniteSet(failures)
    /\ ro.failures \subseteq [at : Nat, nth : Nat] /\ IsFiniteSet(ro.failures)
    /\ locks \in Seq(LockRows) /\ ro.locks \in Seq(LockRows)
    /\ ro = [failures |-> ro.failures, locks |-> ro.locks]
RedisType ==
    rFail \in [n : Nat, exp : Nat] /\ rLock \in [Levels -> Nat] /\ redisUp \in BOOLEAN
RequestType == pc \in [Procs -> Labels] /\ req \in [Procs -> Requests]
UsedType == used \in [attempts : Nat, flips : Nat, dbErrs : Nat, aborts : Nat]

\* Every variable has its type.  The failure rows are finitely many, so that
\* counting them yields a number, and the Redis counter never runs below zero.
TypeOK == now \in Nat /\ DBType /\ RedisType /\ RequestType /\ UsedType

\* Nothing has gone wrong so far: no failure of Redis or MySQL, no request that stopped.
Faultless == used.flips = 0 /\ used.dbErrs = 0 /\ used.aborts = 0

Quiescent == \A p \in Procs : pc[p] = "idle"
Alone(p) == pc[p] # "idle" /\ \A q \in Procs \ {p} : pc[q] = "idle"

\* A login whose lock check ran within one second never reaches the password
\* while a lock row stored before it began is in force.  It holds through any
\* loss or outage of Redis, because a missing key falls back to the table.
LockEnforced ==
    \A p \in Procs :
        (pc[p] = "verify" /\ req[p].checked = req[p].gt)
            => \A i \in 1..req[p].base : locks[i].exp <= req[p].gt

\* A lock key of Redis always repeats a lock row of its level that expires no
\* later, and is never set for longer than the policy's duration: Redis cannot
\* lock an account the table never locked, nor go on locking it for more than one
\* duration, however late a SetNX comes after its ttl was computed.
LockKeyBacked ==
    \A k \in Levels : rLock[k] > 0 =>
        /\ \E i \in DOMAIN locks : locks[i].level = k /\ locks[i].exp <= rLock[k]
        /\ rLock[k] - now <= Duration(k)

\* However many wrong passwords arrive at once, when all of them have been
\* answered and the table holds a threshold's worth of failures that are less
\* than a window old, a lock of that level has been written: with Redis, and
\* without it, as long as no call failed that should not and no request stopped
\* half way.  In the second in which a failure is a whole window old its count
\* in Redis may be over, as the window is by default the 24h of the key.
ThresholdEnforced ==
    LET recent == Cardinality(InWindow(failures, now - Window + 1))
    IN  Quiescent /\ Faultless =>
            /\ recent >= ShortThreshold => locks # <<>>
            /\ recent >= LongThreshold => \E i \in DOMAIN locks : locks[i].level = "long"

ReadsCount(p) == pc[p] \in {"count", "countDB"} /\ pc'[p] \in {"countRefill", "decide"}

\* The count a request reads while no other is running covers every failure row still
\* inside the window: as long as nothing went wrong, Redis speeds the count up and
\* forgets nothing that MySQL holds.
CountCoversRows ==
    [][ \A p \in Procs : Faultless' /\ ReadsCount(p) /\ Alone(p) =>
          req'[p].cnt >= Cardinality(InWindow(failures, now - Window + 1)) ]_vars

\* When a long lock row stored before the check is in force, the check does
\* not report a short lock ("long first"), for logins one after the other whose checks
\* are prompt (PromptSpec).  It needs the keys: of two rows of one second the table
\* yields the one stored first, which is the short one.
LongFirst ==
    \A p \in Procs :
        (redisUp /\ pc[p] = "checkLock" /\ req[p].gt = now /\ req[p].seen.level = "short") =>
            \A i \in 1..req[p].base : locks[i].level = "long" => locks[i].exp <= now

\* The lock the rows amount to: of those in force, a long one before a short one.
InForce(level) == {locks[i].exp : i \in {i \in DOMAIN locks :
                                            locks[i].level = level /\ locks[i].exp > now}}
LockedAs == IF InForce("long") # {} THEN "long"
            ELSE IF InForce("short") # {} THEN "short" ELSE "open"
LockedUntil == IF LockedAs = "open" THEN 0
               ELSE CHOOSE exp \in InForce(LockedAs) : \A e \in InForce(LockedAs) : e <= exp

\* The rows that were a lock when they were written.
Effective == {i \in DOMAIN locks : locks[i].exp > locks[i].at}

Account == INSTANCE AccountLock
    WITH level <- LockedAs, until <- LockedUntil, times <- Cardinality(Effective)

\* The rows of the table keep the promise of AccountLock: a lock in force is never
\* followed by one of its level or a lower one, and no lock is ended or shortened
\* (RecordFailure reads the lock and then writes its own).  So it is for logins one after
\* the other whose lock checks are prompt (PromptSpec).
LockPromised == Account!Spec
=============================================================================
