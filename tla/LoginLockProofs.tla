-------------------------- MODULE LoginLockProofs --------------------------
(* What TLAPS proves of LoginLock, for every policy and every bound. *)
EXTENDS LoginLock, FiniteSetTheorems, TLAPS

(***************************************************************************)
(* Inductive invariants.                                                   *)
(***************************************************************************)

\* A request that goes on to write a lock has counted enough failures for one,
\* and the second GetLock is over when it writes.
Escalates ==
    \A p \in Procs :
        /\ (req[p].caller = "failure" \/ pc[p] \in {"writeLock", "setLock"})
              => NewLevel(req[p].cnt) \in Levels
        /\ req[p].caller = "failure" => pc[p] \in GetLockLabels

TypeInv == TypeOK /\ Escalates

-----------------------------------------------------------------------------
(* Lemmas on the operators. *)

LEMMA NewLevelType ==
    ASSUME NEW c \in Nat
    PROVE  NewLevel(c) \in Levels \cup {"none"}
<1>1. CASE c >= LongThreshold
  BY <1>1, PolicyAssumption DEF NewLevel, Levels
<1>2. CASE ~(c >= LongThreshold) /\ c >= ShortThreshold
  BY <1>2, PolicyAssumption DEF NewLevel, Levels
<1>3. CASE ~(c >= LongThreshold) /\ ~(c >= ShortThreshold)
  BY <1>3, PolicyAssumption DEF NewLevel, Levels
<1> QED BY <1>1, <1>2, <1>3

LEMMA DurationType ==
    ASSUME NEW k PROVE Duration(k) \in Nat \ {0}
BY PolicyAssumption DEF Duration

LEMMA IdleReqType == IdleReq \in Requests
BY DEF IdleReq, Requests, NoLock, Levels

LEMMA RequestStepType ==
    ASSUME RequestType, NEW p \in Procs, NEW to \in Labels, NEW r \in Requests,
           pc' = [pc EXCEPT ![p] = to], req' = [req EXCEPT ![p] = r]
    PROVE  RequestType'
BY DEF RequestType

LEMMA CountType ==
    ASSUME NEW S, IsFiniteSet(S), NEW T, T \subseteq S
    PROVE  IsFiniteSet(T) /\ Cardinality(T) \in Nat
BY FS_Subset, FS_CardinalityType

-----------------------------------------------------------------------------
(* Types. *)

LEMMA InitType == Init => TypeInv
<1> SUFFICES ASSUME Init PROVE TypeInv
  OBVIOUS
<1>1. IsFiniteSet({})
  BY FS_EmptySet
<1>2. DBType
  BY <1>1 DEF Init, DBType, Primary, LockRows
<1>3. RedisType
  BY BoundAssumption DEF Init, RedisType, NoCount, Levels
<1>4. RequestType
  BY IdleReqType DEF Init, RequestType, Labels
<1>5. now \in Nat /\ UsedType
  BY DEF Init, UsedType
<1>6. Escalates
  BY DEF Init, Escalates, IdleReq
<1> QED BY <1>2, <1>3, <1>4, <1>5, <1>6 DEF TypeInv, TypeOK

\* A move of one request: its new label and locals have their types, and if it
\* may still write a lock its count allows one.
MovesWell(p, to, r) ==
    /\ pc' = [pc EXCEPT ![p] = to] /\ req' = [req EXCEPT ![p] = r]
    /\ to \in Labels /\ r \in Requests
    /\ (r.caller = "failure" \/ to \in {"writeLock", "setLock"})
           => NewLevel(r.cnt) \in Levels
    /\ r.caller = "failure" => to \in GetLockLabels

LEMMA MoveType ==
    ASSUME TypeInv, NEW p \in Procs, NEW to, NEW r, MovesWell(p, to, r)
    PROVE  RequestType' /\ Escalates'
<1>1. RequestType'
  BY RequestStepType DEF TypeInv, TypeOK, MovesWell
<1>2. Escalates'
  BY DEF TypeInv, TypeOK, RequestType, Escalates, MovesWell
<1> QED BY <1>1, <1>2

LEMMA FinishMoves ==
    ASSUME NEW p \in Procs, Finish(p)
    PROVE  MovesWell(p, "idle", IdleReq)
BY IdleReqType DEF Finish, Locals, MovesWell, Labels, IdleReq, GetLockLabels

LEMMA RequestSame ==
    ASSUME TypeInv, UNCHANGED <<pc, req>>
    PROVE  RequestType' /\ Escalates'
BY DEF TypeInv, TypeOK, RequestType, Escalates

LEMMA DBSame ==
    ASSUME DBType, UNCHANGED dbVars
    PROVE  DBType'
BY DEF DBType, dbVars

LEMMA RedisSame ==
    ASSUME RedisType, UNCHANGED redisVars
    PROVE  RedisType'
BY DEF RedisType, redisVars

\* The tables keep their types through a write to the primary.
LEMMA WriteType ==
    ASSUME DBType, SyncRO,
           failures' \subseteq [at : Nat, nth : Nat], IsFiniteSet(failures'),
           locks' \in Seq(LockRows)
    PROVE  DBType'
<1>1. CASE HasReplica
  BY <1>1 DEF DBType, SyncRO
<1>2. CASE ~HasReplica
  <2>1. ro' = [failures |-> failures', locks |-> locks']
    BY <1>2 DEF SyncRO, Primary
  <2> QED BY <2>1 DEF DBType
<1> QED BY <1>1, <1>2

LEMMA DBErrorType ==
    ASSUME DBType, UsedType, DBError
    PROVE  DBType' /\ UsedType'
<1>1. used' = [used EXCEPT !.dbErrs = used.dbErrs + 1]
  BY DEF DBError
<1>2. UNCHANGED dbVars
  BY DEF DBError
<1> QED BY <1>1, <1>2, DBSame DEF UsedType

LEMMA SetNXType ==
    ASSUME now \in Nat, RedisType, NEW level, NEW ttl \in Nat, SetNX(level, ttl)
    PROVE  rLock' \in [Levels -> Nat]
<1>1. now + ttl \in Nat /\ rLock \in [Levels -> Nat]
  BY DEF RedisType
<1>2. rLock' = rLock \/ rLock' = [rLock EXCEPT ![level] = now + ttl]
  BY DEF SetNX
<1> QED BY <1>1, <1>2

\* A lock row the query returns is a lock row of the table.
LEMMA RowType ==
    ASSUME DBType, NEW t, NEW i \in ActiveRows(ro.locks, t)
    PROVE  /\ i \in 1..Len(ro.locks) /\ ro.locks[i] \in LockRows
           /\ ro.locks[i].exp > t
BY DEF DBType, ActiveRows

LEMMA StoredRowType ==
    ASSUME DBType, NEW i \in 1..Len(locks)
    PROVE  locks[i] \in LockRows /\ locks[i].exp \in Nat /\ locks[i].at \in Nat
<1>1. locks[i] \in LockRows
  BY DEF DBType
<1> QED BY <1>1 DEF LockRows

LEMMA StartLoginType ==
    ASSUME TypeInv, NEW p \in Procs, StartLogin(p)
    PROVE  TypeInv'
<1> USE DEF TypeInv, TypeOK
<1>1. PICK pw \in Passwords :
        Locals(p, [IdleReq EXCEPT !.pw = pw, !.gt = now, !.base = Len(locks)])
  BY DEF StartLogin
<1> DEFINE r == [IdleReq EXCEPT !.pw = pw, !.gt = now, !.base = Len(locks)]
<1>2. r \in Requests /\ r.caller = "login"
  <2>1. Len(locks) \in Nat /\ pw \in {"right", "wrong"}
    BY BoundAssumption DEF DBType
  <2> QED BY <2>1, IdleReqType DEF Requests, IdleReq
<1>3. MovesWell(p, "lockLong", r)
  BY <1>1, <1>2 DEF GetLockLabels, MovesWell, StartLogin, Step, Locals, Labels
<1>4. RequestType' /\ Escalates'
  BY <1>3, MoveType
<1>5. UNCHANGED <<now, dbVars, redisVars>> /\ used' = [used EXCEPT !.attempts = used.attempts + 1]
  BY DEF StartLogin
<1>6. now' \in Nat /\ UsedType'
  BY <1>5 DEF UsedType
<1> QED BY <1>4, <1>5, <1>6, DBSame, RedisSame

\* A step of one request that leaves everything else alone.
LEMMA LocalStepType ==
    ASSUME TypeInv, NEW p \in Procs, NEW to, NEW r, MovesWell(p, to, r),
           UNCHANGED <<now, dbVars, redisVars, used>>
    PROVE  TypeInv'
<1>1. RequestType' /\ Escalates'
  BY MoveType
<1> QED BY <1>1, DBSame, RedisSame DEF TypeInv, TypeOK, UsedType

LEMMA ReadLockKeyType ==
    ASSUME TypeInv, NEW p \in Procs, NEW level \in Levels, NEW from,
           NEW miss \in {"lockShort", "lockDB"}, ReadLockKey(p, level, from, miss)
    PROVE  TypeInv'
<1> USE DEF TypeInv, TypeOK
<1> DEFINE lock == [level |-> level, exp |-> req[p].gt + (rLock[level] - now)]
           hit == [req[p] EXCEPT !.seen = lock]
<1>0. req[p] \in Requests
  BY DEF RequestType
<1>1. hit \in Requests /\ hit.caller = req[p].caller /\ hit.cnt = req[p].cnt
  <2>1. lock \in [level : Levels \cup {"none"}, exp : Int]
    BY <1>0 DEF Requests, RedisType
  <2> QED BY <1>0, <2>1 DEF Requests
<1>2. CASE redisUp /\ rLock[level] > 0
  <2>1. MovesWell(p, "checkLock", hit)
    BY <1>1, <1>2 DEF GetLockLabels, MovesWell, ReadLockKey, Locals, Labels, Escalates
  <2> QED BY <2>1, LocalStepType DEF ReadLockKey
<1>3. CASE ~(redisUp /\ rLock[level] > 0)
  <2>1. MovesWell(p, miss, req[p])
    BY <1>0, <1>3 DEF GetLockLabels, MovesWell, ReadLockKey, Labels, Escalates, RequestType
  <2> QED BY <2>1, LocalStepType DEF ReadLockKey
<1> QED BY <1>2, <1>3

LEMMA QueryLockType ==
    ASSUME TypeInv, NEW p \in Procs, QueryLock(p)
    PROVE  TypeInv'
<1> USE DEF TypeInv, TypeOK
<1> DEFINE none == [req[p] EXCEPT !.seen = NoLock]
<1>0. req[p] \in Requests
  BY DEF RequestType
<1>1. none \in Requests /\ none.caller = req[p].caller /\ none.cnt = req[p].cnt
  BY <1>0 DEF Requests, NoLock
<1>2. MovesWell(p, "checkLock", none)
        \/ \E i \in ActiveRows(ro.locks, req[p].gt) :
              LET ttl == ro.locks[i].exp - now
                  r == [req[p] EXCEPT
                          !.seen = [level |-> ro.locks[i].level, exp |-> ro.locks[i].exp],
                          !.ttl = IF ttl > 0 THEN ttl ELSE 0]
              IN  MovesWell(p, IF ttl > 0 THEN "lockRefill" ELSE "checkLock", r)
  <2>1. CASE Step(p, "lockDB", "checkLock") /\ Locals(p, none)
    BY <1>1, <2>1 DEF GetLockLabels, MovesWell, Step, Locals, Labels, Escalates
  <2>2. ASSUME NEW i \in ActiveRows(ro.locks, req[p].gt),
               LET ttl == ro.locks[i].exp - now IN
                 /\ Step(p, "lockDB", IF ttl > 0 THEN "lockRefill" ELSE "checkLock")
                 /\ Locals(p, [req[p] EXCEPT
                        !.seen = [level |-> ro.locks[i].level, exp |-> ro.locks[i].exp],
                        !.ttl = IF ttl > 0 THEN ttl ELSE 0])
        PROVE <1>2
    <3> DEFINE ttl == ro.locks[i].exp - now
               lock == [level |-> ro.locks[i].level, exp |-> ro.locks[i].exp]
               left == IF ttl > 0 THEN ttl ELSE 0
               r == [req[p] EXCEPT !.seen = lock, !.ttl = left]
    <3>1. ro.locks[i] \in LockRows
      BY RowType
    <3>2. left \in Nat /\ lock \in [level : Levels \cup {"none"}, exp : Int]
      BY <3>1 DEF LockRows
    <3>3. r \in Requests /\ r.caller = req[p].caller /\ r.cnt = req[p].cnt
      BY <1>0, <3>2 DEF Requests
    <3>4. MovesWell(p, IF ttl > 0 THEN "lockRefill" ELSE "checkLock", r)
      BY <2>2, <3>3 DEF GetLockLabels, MovesWell, Step, Locals, Labels, Escalates
    <3> QED BY <3>4
  <2> QED BY <2>1, <2>2 DEF QueryLock
<1>3. RequestType' /\ Escalates'
  BY <1>2, MoveType
<1>4. DBType' /\ UsedType'
  <2>1. DBError \/ UNCHANGED <<dbVars, used>>
    BY DEF QueryLock
  <2> QED BY <2>1, DBErrorType, DBSame DEF UsedType
<1>5. now' \in Nat /\ RedisType'
  BY RedisSame DEF QueryLock
<1> QED BY <1>3, <1>4, <1>5

LEMMA RefillLockType ==
    ASSUME TypeInv, NEW p \in Procs, RefillLock(p)
    PROVE  TypeInv'
<1> USE DEF TypeInv, TypeOK
<1> DEFINE r == [req[p] EXCEPT !.ttl = 0]
<1>0. req[p] \in Requests
  BY DEF RequestType
<1>1. r \in Requests /\ r.caller = req[p].caller /\ r.cnt = req[p].cnt
  BY <1>0 DEF Requests
<1>2. MovesWell(p, "checkLock", r)
  BY <1>1 DEF GetLockLabels, MovesWell, RefillLock, Step, Locals, Labels, Escalates
<1>3. rLock' \in [Levels -> Nat]
  BY <1>0, SetNXType DEF RefillLock, Requests
<1> QED BY <1>2, <1>3, MoveType, DBSame DEF RefillLock, RedisType, UsedType

LEMMA CheckLockType ==
    ASSUME TypeInv, NEW p \in Procs, CheckLock(p)
    PROVE  TypeInv'
<1> USE DEF TypeInv, TypeOK
<1> DEFINE pass == [req[p] EXCEPT !.checked = now]
           count == [IdleReq EXCEPT !.t = now]
<1>0. req[p] \in Requests /\ req[p].caller = "login"
  BY DEF RequestType, CheckLock
<1>1. pass \in Requests /\ pass.caller = "login"
  BY <1>0 DEF Requests
<1>2. count \in Requests /\ count.caller = "login"
  BY IdleReqType DEF Requests, IdleReq
<1>3. CASE Step(p, "checkLock", "verify") /\ Locals(p, pass)
  <2>1. MovesWell(p, "verify", pass)
    BY <1>1, <1>3 DEF GetLockLabels, MovesWell, Step, Locals, Labels
  <2> QED BY <2>1, LocalStepType DEF CheckLock
<1>4. CASE Finish(p)
  BY <1>4, FinishMoves, LocalStepType DEF CheckLock
<1>5. CASE Step(p, "checkLock", "fail") /\ Locals(p, count)
  <2>1. MovesWell(p, "fail", count)
    BY <1>2, <1>5 DEF GetLockLabels, MovesWell, Step, Locals, Labels
  <2> QED BY <2>1, LocalStepType DEF CheckLock
<1> QED BY <1>3, <1>4, <1>5 DEF CheckLock

LEMMA VerifyPasswordType ==
    ASSUME TypeInv, NEW p \in Procs, VerifyPassword(p)
    PROVE  TypeInv'
<1> USE DEF TypeInv, TypeOK
<1> DEFINE count == [IdleReq EXCEPT !.t = now]
<1>1. count \in Requests /\ count.caller = "login" /\ IdleReq.caller = "login"
  BY IdleReqType DEF Requests, IdleReq
<1>2. CASE DBError /\ Finish(p)
  BY <1>2, FinishMoves, MoveType, DBErrorType, RedisSame DEF VerifyPassword
<1>3. CASE Step(p, "verify", "clear") /\ Locals(p, IdleReq) /\ UNCHANGED <<dbVars, used>>
  <2>1. MovesWell(p, "clear", IdleReq)
    BY <1>1, <1>3, IdleReqType DEF GetLockLabels, MovesWell, Step, Locals, Labels
  <2> QED BY <1>3, <2>1, LocalStepType DEF VerifyPassword
<1>4. CASE Step(p, "verify", "fail") /\ Locals(p, count) /\ UNCHANGED <<dbVars, used>>
  <2>1. MovesWell(p, "fail", count)
    BY <1>1, <1>4 DEF GetLockLabels, MovesWell, Step, Locals, Labels
  <2> QED BY <1>4, <2>1, LocalStepType DEF VerifyPassword
<1> QED BY <1>2, <1>3, <1>4 DEF VerifyPassword

LEMMA ClearRowsType ==
    ASSUME TypeInv, NEW p \in Procs, ClearRows(p)
    PROVE  TypeInv'
<1> USE DEF TypeInv, TypeOK
<1>1. CASE DBError /\ Finish(p)
  BY <1>1, FinishMoves, MoveType, DBErrorType, RedisSame DEF ClearRows
<1>2. CASE /\ failures' = {} /\ UNCHANGED <<locks, used>> /\ SyncRO
           /\ Step(p, "clear", "clearKey") /\ UNCHANGED req
  <2>1. MovesWell(p, "clearKey", req[p])
    BY <1>2 DEF GetLockLabels, MovesWell, Step, Labels, Escalates, RequestType
  <2>2. IsFiniteSet(failures') /\ failures' \subseteq [at : Nat, nth : Nat]
    BY <1>2, FS_EmptySet
  <2>3. DBType'
    BY <1>2, <2>2, WriteType DEF DBType
  <2> QED BY <1>2, <2>1, <2>3, MoveType, RedisSame DEF ClearRows, UsedType
<1> QED BY <1>1, <1>2 DEF ClearRows

LEMMA ClearKeyType ==
    ASSUME TypeInv, NEW p \in Procs, ClearKey(p)
    PROVE  TypeInv'
<1> USE DEF TypeInv, TypeOK
<1>1. RequestType' /\ Escalates'
  BY FinishMoves, MoveType DEF ClearKey
<1>2. RedisType'
  BY DEF ClearKey, RedisType, NoCount
<1> QED BY <1>1, <1>2, DBSame DEF ClearKey, UsedType

LEMMA WriteFailureType ==
    ASSUME TypeInv, NEW p \in Procs, WriteFailure(p)
    PROVE  TypeInv'
<1> USE DEF TypeInv, TypeOK
<1>1. ASSUME NEW to \in {"count", "incr"}, Step(p, "fail", to), UNCHANGED req
      PROVE  RequestType' /\ Escalates'
  <2>1. MovesWell(p, to, req[p])
    BY <1>1 DEF GetLockLabels, MovesWell, Step, Labels, Escalates, RequestType
  <2> QED BY <2>1, MoveType
<1>2. CASE DBError /\ Step(p, "fail", "count")
  BY <1>1, <1>2, DBErrorType, RedisSame DEF WriteFailure
<1>3. CASE /\ failures' = {f \in failures : f.at >= req[p].t - Day} \cup {NewRow}
           /\ UNCHANGED <<locks, used>> /\ SyncRO /\ Step(p, "fail", "incr")
  <2> DEFINE kept == {f \in failures : f.at >= req[p].t - Day}
             same == {f \in failures : f.at = now}
  <2>1. IsFiniteSet(kept) /\ Cardinality(same) \in Nat
    <3>1. kept \subseteq failures /\ same \subseteq failures
      OBVIOUS
    <3> QED BY <3>1, CountType DEF DBType
  <2>2. NewRow \in [at : Nat, nth : Nat]
    BY <2>1 DEF NewRow
  <2>3. IsFiniteSet(failures')
    BY <1>3, <2>1, FS_AddElement
  <2>4. failures' \subseteq [at : Nat, nth : Nat]
    BY <1>3, <2>2 DEF DBType
  <2>5. DBType'
    BY <1>3, <2>3, <2>4, WriteType DEF DBType
  <2> QED BY <1>1, <1>3, <2>5, RedisSame DEF WriteFailure, UsedType
<1> QED BY <1>2, <1>3 DEF WriteFailure

LEMMA IncrFailuresType ==
    ASSUME TypeInv, NEW p \in Procs, IncrFailures(p)
    PROVE  TypeInv'
<1> USE DEF TypeInv, TypeOK
<1>1. MovesWell(p, "count", req[p])
  BY DEF GetLockLabels, MovesWell, IncrFailures, Step, Labels, Escalates, RequestType
<1>2. RedisType'
  <2>1. Incremented \in [n : Nat, exp : Nat]
    BY BoundAssumption DEF RedisType, Incremented
  <2> QED BY <2>1 DEF IncrFailures, RedisType
<1> QED BY <1>1, <1>2, MoveType, DBSame DEF IncrFailures, UsedType

LEMMA ReadCountType ==
    ASSUME TypeInv, NEW p \in Procs, ReadCount(p)
    PROVE  TypeInv'
<1> USE DEF TypeInv, TypeOK
<1> DEFINE r == [req[p] EXCEPT !.cnt = rFail.n]
<1>1. req[p] \in Requests /\ req[p].caller # "failure" /\ rFail.n \in Nat
  BY DEF RequestType, RedisType, ReadCount, Escalates, GetLockLabels
<1>2. r \in Requests /\ r.caller # "failure"
  BY <1>1 DEF Requests
<1>3. CASE Step(p, "count", "decide") /\ Locals(p, r)
  <2>1. MovesWell(p, "decide", r)
    BY <1>2, <1>3 DEF MovesWell, Step, Locals, Labels
  <2> QED BY <2>1, LocalStepType DEF ReadCount
<1>4. CASE Step(p, "count", "countDB") /\ UNCHANGED req
  <2>1. MovesWell(p, "countDB", req[p])
    BY <1>1, <1>4 DEF MovesWell, Step, Labels, RequestType
  <2> QED BY <2>1, LocalStepType DEF ReadCount
<1> QED BY <1>3, <1>4 DEF ReadCount

LEMMA CountRowsType ==
    ASSUME TypeInv, NEW p \in Procs, CountRows(p)
    PROVE  TypeInv'
<1> USE DEF TypeInv, TypeOK
<1> DEFINE n == Counted(ro.failures, req[p].t - Window)
           zero == [req[p] EXCEPT !.cnt = 0]
           count == [req[p] EXCEPT !.cnt = n]
<1>1. req[p] \in Requests /\ req[p].caller # "failure"
  BY DEF RequestType, CountRows, Escalates, GetLockLabels
<1>2. n \in Nat
  BY CountType DEF Counted, InWindow, DBType
<1>3. /\ zero \in Requests /\ zero.caller # "failure"
      /\ count \in Requests /\ count.caller # "failure"
  BY <1>1, <1>2 DEF Requests
<1>4. CASE DBError /\ Step(p, "countDB", "decide") /\ Locals(p, zero)
  <2>1. MovesWell(p, "decide", zero)
    BY <1>3, <1>4 DEF MovesWell, Step, Locals, Labels
  <2> QED BY <1>4, <2>1, MoveType, DBErrorType, RedisSame DEF CountRows
<1>5. CASE /\ Step(p, "countDB", IF n > 0 THEN "countRefill" ELSE "decide")
           /\ Locals(p, count) /\ UNCHANGED <<dbVars, used>>
  <2>1. MovesWell(p, IF n > 0 THEN "countRefill" ELSE "decide", count)
    BY <1>3, <1>5 DEF MovesWell, Step, Locals, Labels
  <2> QED BY <1>5, <2>1, LocalStepType DEF CountRows
<1> QED BY <1>4, <1>5 DEF CountRows

LEMMA RefillCountType ==
    ASSUME TypeInv, NEW p \in Procs, RefillCount(p)
    PROVE  TypeInv'
<1> USE DEF TypeInv, TypeOK
<1>1. MovesWell(p, "decide", req[p])
  BY DEF MovesWell, RefillCount, Step, Labels, Escalates, RequestType, GetLockLabels
<1>2. RedisType'
  <2>1. [n |-> req[p].cnt, exp |-> now + Day] \in [n : Nat, exp : Nat]
    BY BoundAssumption DEF RequestType, Requests
  <2> QED BY <2>1 DEF RefillCount, RedisType
<1> QED BY <1>1, <1>2, MoveType, DBSame DEF RefillCount, UsedType

LEMMA DecideType ==
    ASSUME TypeInv, NEW p \in Procs, Decide(p)
    PROVE  TypeInv'
<1> USE DEF TypeInv, TypeOK
<1> DEFINE r == [IdleReq EXCEPT !.caller = "failure", !.gt = now,
                                !.t = req[p].t, !.cnt = req[p].cnt]
<1>1. CASE Finish(p)
  BY <1>1, FinishMoves, LocalStepType DEF Decide
<1>2. CASE NewLevel(req[p].cnt) # "none" /\ Step(p, "decide", "lockLong") /\ Locals(p, r)
  <2>1. req[p].t \in Nat /\ req[p].cnt \in Nat
    BY DEF RequestType, Requests
  <2>2. r \in Requests /\ r.cnt = req[p].cnt
    BY <2>1, IdleReqType DEF Requests, IdleReq
  <2>3. NewLevel(r.cnt) \in Levels
    BY <1>2, <2>1, <2>2, NewLevelType
  <2>4. MovesWell(p, "lockLong", r)
    BY <1>2, <2>2, <2>3 DEF MovesWell, Step, Locals, Labels, GetLockLabels
  <2> QED BY <2>4, LocalStepType DEF Decide
<1> QED BY <1>1, <1>2 DEF Decide

LEMMA RecheckType ==
    ASSUME TypeInv, NEW p \in Procs, Recheck(p)
    PROVE  TypeInv'
<1> USE DEF TypeInv, TypeOK
<1> DEFINE r == [IdleReq EXCEPT !.t = req[p].t, !.cnt = req[p].cnt]
<1>1. CASE Finish(p)
  BY <1>1, FinishMoves, LocalStepType DEF Recheck
<1>2. CASE Step(p, "checkLock", "writeLock") /\ Locals(p, r)
  <2>1. req[p].t \in Nat /\ req[p].cnt \in Nat
    BY DEF RequestType, Requests
  <2>2. r \in Requests /\ r.cnt = req[p].cnt /\ r.caller = "login"
    BY <2>1, IdleReqType DEF Requests, IdleReq
  <2>3. NewLevel(req[p].cnt) \in Levels
    BY DEF Recheck, Escalates
  <2>4. MovesWell(p, "writeLock", r)
    BY <1>2, <2>2, <2>3 DEF MovesWell, Step, Locals, Labels
  <2> QED BY <2>4, LocalStepType DEF Recheck
<1> QED BY <1>1, <1>2 DEF Recheck

LEMMA WriteLockType ==
    ASSUME TypeInv, NEW p \in Procs, WriteLock(p)
    PROVE  TypeInv'
<1> USE DEF TypeInv, TypeOK
<1> DEFINE level == NewLevel(req[p].cnt)
           exp == req[p].t + Duration(level)
           row == [level |-> level, at |-> now, exp |-> exp]
           r == [IdleReq EXCEPT !.cnt = req[p].cnt, !.ttl = exp - now]
<1>1. req[p].t \in Nat /\ req[p].cnt \in Nat /\ level \in Levels /\ exp \in Nat
  BY DurationType DEF RequestType, Requests, WriteLock, Escalates
<1>2. CASE DBError /\ Finish(p)
  BY <1>2, FinishMoves, MoveType, DBErrorType, RedisSame DEF WriteLock
<1>3. CASE locks' = Append(locks, row) /\ UNCHANGED <<failures, used>> /\ SyncRO
  <2>1. row \in LockRows
    BY <1>1 DEF LockRows
  <2>2. DBType'
    BY <1>3, <2>1, WriteType DEF DBType
  <2>3. RequestType' /\ Escalates'
    <3>1. CASE Finish(p)
      BY <3>1, FinishMoves, MoveType
    <3>2. CASE exp > now /\ Step(p, "writeLock", "setLock") /\ Locals(p, r)
      <4>1. exp - now \in Nat
        BY <1>1, <3>2
      <4>2. r \in Requests /\ r.cnt = req[p].cnt /\ r.caller = "login"
        BY <1>1, <4>1, IdleReqType DEF Requests, IdleReq
      <4>3. MovesWell(p, "setLock", r)
        BY <1>1, <3>2, <4>2 DEF MovesWell, Step, Locals, Labels
      <4> QED BY <4>3, MoveType
    <3> QED BY <1>2, <3>1, <3>2 DEF WriteLock, RowFails
  <2> QED BY <1>3, <2>2, <2>3, RedisSame DEF WriteLock, UsedType
<1> QED BY <1>2, <1>3 DEF WriteLock, RowFails

LEMMA SetLockType ==
    ASSUME TypeInv, NEW p \in Procs, SetLock(p)
    PROVE  TypeInv'
<1> USE DEF TypeInv, TypeOK
<1>1. RequestType' /\ Escalates'
  BY FinishMoves, MoveType DEF SetLock
<1>2. rLock' \in [Levels -> Nat]
  <2>1. req[p].ttl \in Nat
    BY DEF RequestType, Requests
  <2> QED BY <2>1, SetNXType DEF SetLock
<1> QED BY <1>1, <1>2, DBSame DEF SetLock, RedisType, UsedType

LEMMA AbortType ==
    ASSUME TypeInv, NEW p \in Procs, Abort(p)
    PROVE  TypeInv'
<1> USE DEF TypeInv, TypeOK
<1>1. used' = [used EXCEPT !.aborts = used.aborts + 1]
  BY DEF Abort
<1> QED BY <1>1, FinishMoves, MoveType, DBSame, RedisSame DEF Abort, UsedType

\* The clock, Redis and the replica leave the requests alone.
LEMMA EnvironmentType ==
    ASSUME TypeInv, Tick \/ SwitchRedis \/ LoseKeys \/ Replicate
    PROVE  TypeInv'
<1> USE DEF TypeInv, TypeOK
<1>1. CASE Tick
  <2>1. RedisType'
    BY <1>1 DEF Tick, RedisType, NoCount
  <2> QED BY <1>1, <2>1, DBSame, RequestSame DEF Tick, UsedType
<1>2. CASE SwitchRedis
  <2>1. used' = [used EXCEPT !.flips = used.flips + 1]
    BY <1>2 DEF SwitchRedis, Flip
  <2> QED BY <1>2, <2>1, DBSame, RequestSame DEF SwitchRedis, RedisType, UsedType
<1>3. CASE LoseKeys
  <2>1. used' = [used EXCEPT !.flips = used.flips + 1]
    BY <1>3 DEF LoseKeys, Flip
  <2>2. RedisType'
    BY <1>3 DEF LoseKeys, RedisType, NoCount
  <2> QED BY <1>3, <2>1, <2>2, DBSame, RequestSame DEF LoseKeys, UsedType
<1>4. CASE Replicate
  <2>1. DBType'
    BY <1>4 DEF Replicate, DBType, Primary
  <2> QED BY <1>4, <2>1, RedisSame, RequestSame DEF Replicate, UsedType
<1> QED BY <1>1, <1>2, <1>3, <1>4

LEMMA NextType == TypeInv /\ [Next]_vars => TypeInv'
<1> SUFFICES ASSUME TypeInv, [Next]_vars PROVE TypeInv'
  OBVIOUS
<1>1. ASSUME NEW p \in Procs, StartLogin(p) \/ RequestStep(p) \/ Abort(p)
      PROVE  TypeInv'
  <2>1. CASE GetLockStep(p)
    BY <2>1, ReadLockKeyType, QueryLockType, RefillLockType
       DEF GetLockStep, ReadLongKey, ReadShortKey, Levels
  <2>2. CASE LoginStep(p)
    BY <2>2, CheckLockType, VerifyPasswordType, ClearRowsType, ClearKeyType DEF LoginStep
  <2>3. CASE CountStep(p)
    BY <2>3, WriteFailureType, IncrFailuresType, ReadCountType, CountRowsType,
       RefillCountType, DecideType DEF CountStep
  <2>4. CASE LockStep(p)
    BY <2>4, RecheckType, WriteLockType, SetLockType DEF LockStep
  <2> QED BY <1>1, <2>1, <2>2, <2>3, <2>4, StartLoginType, AbortType DEF RequestStep
<1>2. CASE UNCHANGED vars
  BY <1>2, DBSame, RedisSame, RequestSame
     DEF vars, dbVars, redisVars, TypeInv, TypeOK, UsedType
<1> QED BY <1>1, <1>2, EnvironmentType DEF Next, Quiet

\* Every variable keeps its type, and a request that goes on to write a lock
\* has counted enough failures for one (the part that makes it inductive:
\* WriteLock appends a row of level NewLevel(cnt)).
THEOREM TypeCorrect == Spec => []TypeOK
<1>1. TypeInv => TypeOK
  BY DEF TypeInv
<1> QED BY InitType, NextType, <1>1, PTL DEF Spec

-----------------------------------------------------------------------------
(* The lock is enforced. *)

\* Lock rows are only ever added.
RowsGrow ==
    /\ Len(locks) <= Len(locks')
    /\ \A i \in 1..Len(locks) : locks'[i] = locks[i]

\* Redis holds no key past its expiry, and none is set for no time at all.
KeysAlive ==
    /\ \A k \in Levels : rLock[k] > 0 => rLock[k] > now
    /\ \A p \in Procs : pc[p] \in {"lockRefill", "setLock"} => req[p].ttl > 0

ReadsPrimary == ro = Primary

\* What the lock check of p has established so far.  The middle conjunct is the
\* point: with a row in force, a check that has not outlived its second has a
\* lock in hand that is still active.
Protected(p) ==
    /\ req[p].base <= Len(locks) /\ req[p].gt <= now
    /\ (/\ pc[p] \in {"lockRefill", "checkLock"} /\ req[p].gt = now
        /\ \E i \in 1..req[p].base : locks[i].exp > req[p].gt)
          => req[p].seen.level # "none" /\ now <= req[p].seen.exp
    /\ (pc[p] = "verify" /\ req[p].checked = req[p].gt)
          => \A i \in 1..req[p].base : locks[i].exp <= req[p].gt

EnforceInv ==
    TypeInv /\ KeysAlive /\ ReadsPrimary /\ \A p \in Procs : Protected(p)

LEMMA RowsStay ==
    ASSUME TypeInv, UNCHANGED dbVars
    PROVE  RowsGrow
BY DEF TypeInv, TypeOK, DBType, dbVars, RowsGrow

\* A request that does not move keeps what its check established.
LEMMA ProtectedFrame ==
    ASSUME TypeInv, RowsGrow, now' = now \/ now' = now + 1,
           NEW p \in Procs, Protected(p), pc'[p] = pc[p], req'[p] = req[p]
    PROVE  Protected(p)'
<1>1. /\ req[p].base \in Nat /\ req[p].gt \in Nat /\ now \in Nat
      /\ Len(locks) \in Nat /\ Len(locks') >= Len(locks)
      /\ \A i \in 1..req[p].base : locks'[i] = locks[i]
  <2>1. req[p].base \in Nat /\ req[p].gt \in Nat /\ now \in Nat /\ Len(locks) \in Nat
    BY DEF TypeInv, TypeOK, RequestType, Requests, DBType
  <2>2. req[p].base <= Len(locks)
    BY DEF Protected
  <2> QED BY <2>1, <2>2 DEF RowsGrow
<1>2. Len(locks') \in Int
  BY <1>1 DEF RowsGrow
<1> QED BY <1>1, <1>2 DEF Protected

\* Away from the end of the lock check there is nothing to establish.
LEMMA Unprotected ==
    ASSUME TypeInv, RowsGrow, now' = now, NEW p \in Procs,
           pc'[p] \notin {"lockRefill", "checkLock", "verify"},
           req'[p].base <= Len(locks), req'[p].gt <= now, req'[p].base \in Nat
    PROVE  Protected(p)'
<1>1. Len(locks) \in Nat /\ Len(locks) <= Len(locks')
  BY DEF TypeInv, TypeOK, DBType, RowsGrow
<1> QED BY <1>1 DEF Protected

LEMMA IdleUnprotected ==
    ASSUME TypeInv, RowsGrow, now' = now, NEW p \in Procs,
           pc'[p] # "verify", req'[p].base = 0, req'[p].gt <= now
    PROVE  Protected(p)'
<1>1. Len(locks') >= 0
  BY DEF TypeInv, TypeOK, DBType, RowsGrow
<1> QED BY <1>1 DEF Protected

LEMMA FinishProtected ==
    ASSUME TypeInv, RowsGrow, now' = now, NEW p \in Procs, Finish(p)
    PROVE  Protected(p)'
<1>1. pc'[p] = "idle" /\ req'[p] = IdleReq
  BY DEF Finish, Locals, TypeInv, TypeOK, RequestType
<1>2. req'[p].base = 0 /\ req'[p].gt = 0 /\ 0 <= now
  BY <1>1 DEF IdleReq, TypeInv, TypeOK
<1> QED BY <1>1, <1>2, IdleUnprotected

LEMMA ReadLockKeyProtected ==
    ASSUME EnforceInv, NEW p \in Procs, NEW level \in Levels, NEW from,
           NEW miss \in {"lockShort", "lockDB"}, ReadLockKey(p, level, from, miss)
    PROVE  Protected(p)'
<1> USE DEF EnforceInv
<1>1. RowsGrow /\ now' = now /\ locks' = locks
  BY RowsStay DEF ReadLockKey, dbVars
<1>2. /\ req[p] \in Requests /\ rLock[level] \in Nat /\ now \in Nat
      /\ req \in [Procs -> Requests] /\ pc \in [Procs -> Labels]
  BY DEF TypeInv, TypeOK, RequestType, RedisType
<1>3. CASE redisUp /\ rLock[level] > 0
  <2> DEFINE lock == [level |-> level, exp |-> req[p].gt + (rLock[level] - now)]
  <2>1. pc'[p] = "checkLock" /\ req'[p] = [req[p] EXCEPT !.seen = lock]
    BY <1>2, <1>3 DEF ReadLockKey, Locals
  <2>2. /\ req'[p].base = req[p].base /\ req'[p].gt = req[p].gt
        /\ req'[p].checked = req[p].checked /\ req'[p].seen = lock
    BY <1>2, <2>1 DEF Requests
  <2>3. level # "none" /\ rLock[level] > now
    BY <1>3 DEF KeysAlive, Levels
  <2>4. req[p].gt = now => lock.level # "none" /\ now <= lock.exp
    BY <1>2, <2>3 DEF Requests
  <2> QED BY <1>1, <2>1, <2>2, <2>4 DEF Protected
<1>4. CASE ~(redisUp /\ rLock[level] > 0)
  <2>1. pc'[p] = miss /\ req' = req
    BY <1>2, <1>4 DEF ReadLockKey
  <2> QED BY <1>1, <1>2, <2>1, Unprotected DEF Protected, Requests
<1> QED BY <1>3, <1>4

LEMMA QueryLockProtected ==
    ASSUME EnforceInv, MaxDBErrs = 0, NEW p \in Procs, QueryLock(p)
    PROVE  Protected(p)' /\ (pc'[p] = "lockRefill" => req'[p].ttl > 0) /\ UNCHANGED dbVars
<1> USE DEF EnforceInv
<1>1. ~DBError
  BY DEF DBError, TypeInv, TypeOK, UsedType
<1>2. UNCHANGED dbVars /\ now' = now
  BY <1>1 DEF QueryLock
<1>3. RowsGrow /\ locks' = locks /\ ro.locks = locks
  BY <1>2, RowsStay DEF dbVars, ReadsPrimary, Primary
<1>4. /\ req[p] \in Requests /\ now \in Nat /\ locks \in Seq(LockRows)
      /\ req \in [Procs -> Requests] /\ pc \in [Procs -> Labels]
  BY DEF TypeInv, TypeOK, RequestType, DBType
<1>5. CASE /\ ActiveRows(ro.locks, req[p].gt) = {} /\ Step(p, "lockDB", "checkLock")
           /\ Locals(p, [req[p] EXCEPT !.seen = NoLock])
  <2>1. pc'[p] = "checkLock" /\ req'[p] = [req[p] EXCEPT !.seen = NoLock]
    BY <1>4, <1>5 DEF Step, Locals
  <2>2. /\ req'[p].base = req[p].base /\ req'[p].gt = req[p].gt
        /\ req'[p].checked = req[p].checked
    BY <1>4, <2>1 DEF Requests
  <2>3. \A i \in 1..req[p].base : ~(locks[i].exp > req[p].gt)
    <3>1. req[p].base <= Len(locks) /\ req[p].base \in Nat
      BY <1>4 DEF Protected, Requests
    <3> QED BY <1>3, <1>4, <1>5, <3>1 DEF ActiveRows
  <2> QED BY <1>2, <1>3, <2>1, <2>2, <2>3 DEF Protected
<1>6. ASSUME NEW i \in ActiveRows(ro.locks, req[p].gt),
             LET ttl == ro.locks[i].exp - now IN
               /\ Step(p, "lockDB", IF ttl > 0 THEN "lockRefill" ELSE "checkLock")
               /\ Locals(p, [req[p] EXCEPT
                      !.seen = [level |-> ro.locks[i].level, exp |-> ro.locks[i].exp],
                      !.ttl = IF ttl > 0 THEN ttl ELSE 0])
      PROVE  Protected(p)' /\ (pc'[p] = "lockRefill" => req'[p].ttl > 0)
  <2> DEFINE ttl == ro.locks[i].exp - now
             lock == [level |-> ro.locks[i].level, exp |-> ro.locks[i].exp]
             left == IF ttl > 0 THEN ttl ELSE 0
  <2>1. /\ pc'[p] = IF ttl > 0 THEN "lockRefill" ELSE "checkLock"
        /\ req'[p] = [req[p] EXCEPT !.seen = lock, !.ttl = left]
    BY <1>4, <1>6 DEF Step, Locals
  <2>2. /\ req'[p].base = req[p].base /\ req'[p].gt = req[p].gt
        /\ req'[p].checked = req[p].checked /\ req'[p].seen = lock /\ req'[p].ttl = left
    BY <1>4, <2>1 DEF Requests
  <2>3. lock.level # "none" /\ lock.exp > req[p].gt /\ lock.exp \in Nat
    BY RowType DEF LockRows, Levels, TypeInv, TypeOK
  <2>4. req[p].gt = now => lock.level # "none" /\ now <= lock.exp
    BY <1>4, <2>3
  <2>5. Protected(p)'
    BY <1>2, <1>3, <2>1, <2>2, <2>4 DEF Protected
  <2>6. pc'[p] = "lockRefill" => req'[p].ttl > 0
    BY <2>1, <2>2
  <2> QED BY <2>5, <2>6
<1>7. Protected(p)' /\ (pc'[p] = "lockRefill" => req'[p].ttl > 0)
  <2>1. CASE \E i \in ActiveRows(ro.locks, req[p].gt) :
               LET ttl == ro.locks[i].exp - now IN
               /\ Step(p, "lockDB", IF ttl > 0 THEN "lockRefill" ELSE "checkLock")
               /\ Locals(p, [req[p] EXCEPT
                      !.seen = [level |-> ro.locks[i].level, exp |-> ro.locks[i].exp],
                      !.ttl = IF ttl > 0 THEN ttl ELSE 0])
    BY <1>6, <2>1
  <2>2. pc'[p] = "checkLock" \/ ~(/\ ActiveRows(ro.locks, req[p].gt) = {}
                                  /\ Step(p, "lockDB", "checkLock"))
    BY <1>4 DEF Step
  <2> QED BY <1>1, <1>5, <2>1, <2>2 DEF QueryLock
<1> QED BY <1>2, <1>7

LEMMA CheckLockProtected ==
    ASSUME EnforceInv, NEW p \in Procs, CheckLock(p)
    PROVE  Protected(p)'
<1> USE DEF EnforceInv
<1>1. RowsGrow /\ now' = now /\ locks' = locks
  BY RowsStay DEF CheckLock, dbVars
<1>2. /\ req[p] \in Requests /\ now \in Nat /\ req \in [Procs -> Requests]
      /\ pc \in [Procs -> Labels]
  BY DEF TypeInv, TypeOK, RequestType
<1>3. CASE Passes(p) /\ Step(p, "checkLock", "verify")
            /\ Locals(p, [req[p] EXCEPT !.checked = now])
  <2>1. pc'[p] = "verify" /\ req'[p] = [req[p] EXCEPT !.checked = now]
    BY <1>2, <1>3 DEF Step, Locals
  <2>2. /\ req'[p].base = req[p].base /\ req'[p].gt = req[p].gt /\ req'[p].checked = now
    BY <1>2, <2>1 DEF Requests
  <2>3. req[p].gt = now => \A i \in 1..req[p].base : ~(locks[i].exp > req[p].gt)
    BY <1>3 DEF Protected, CheckLock, Passes, LockActive
  <2>4. \A i \in 1..req[p].base : locks[i].exp \in Nat
    <3>1. req[p].base <= Len(locks) /\ req[p].base \in Nat
      BY <1>2 DEF Protected, Requests
    <3>2. Len(locks) \in Nat
      BY DEF TypeInv, TypeOK, DBType
    <3> QED BY <3>1, <3>2, StoredRowType DEF TypeInv, TypeOK
  <2>5. req[p].gt \in Nat
    BY <1>2 DEF Requests
  <2> QED BY <1>1, <1>2, <2>1, <2>2, <2>3, <2>4, <2>5 DEF Protected
<1>4. CASE Finish(p)
  BY <1>1, <1>4, FinishProtected
<1>5. CASE Step(p, "checkLock", "fail") /\ Locals(p, [IdleReq EXCEPT !.t = now])
  <2>1. pc'[p] = "fail" /\ req'[p] = [IdleReq EXCEPT !.t = now]
    BY <1>2, <1>5 DEF Step, Locals
  <2>2. req'[p].base = 0 /\ req'[p].gt <= now /\ pc'[p] # "verify"
    BY <1>2, <2>1 DEF IdleReq
  <2> QED BY <1>1, <2>2, IdleUnprotected
<1> QED BY <1>3, <1>4, <1>5 DEF CheckLock

LEMMA RowsStayed ==
    ASSUME TypeInv, UNCHANGED locks
    PROVE  RowsGrow
BY DEF TypeInv, TypeOK, DBType, RowsGrow

LEMMA RowAdded ==
    ASSUME TypeInv, NEW row \in LockRows, locks' = Append(locks, row)
    PROVE  RowsGrow
BY DEF TypeInv, TypeOK, DBType, RowsGrow

\* Every action of a request: the clock stands still, the rows grow, and only
\* this request moves.
OneMoves(p) ==
    /\ now' = now /\ RowsGrow
    /\ \A q \in Procs \ {p} : pc'[q] = pc[q] /\ req'[q] = req[q]

LEMMA StepMovesOne ==
    ASSUME TypeInv, NEW p \in Procs, StartLogin(p) \/ RequestStep(p) \/ Abort(p)
    PROVE  OneMoves(p)
<1>1. now' = now
  BY DEF StartLogin, RequestStep, Abort, GetLockStep, LoginStep, CountStep, LockStep,
         ReadLongKey, ReadShortKey, ReadLockKey, QueryLock, RefillLock, CheckLock,
         VerifyPassword, ClearRows, ClearKey, WriteFailure, IncrFailures, ReadCount,
         CountRows, RefillCount, Decide, Recheck, WriteLock, SetLock
<1>2. \A q \in Procs \ {p} : pc'[q] = pc[q] /\ req'[q] = req[q]
  <2> USE DEF TypeInv, TypeOK, RequestType, Step, Locals, Finish
  <2>1. CASE StartLogin(p) \/ Abort(p) \/ LoginStep(p)
    BY <2>1 DEF StartLogin, Abort, LoginStep, CheckLock, VerifyPassword, ClearRows, ClearKey
  <2>2. CASE GetLockStep(p)
    BY <2>2 DEF GetLockStep, ReadLongKey, ReadShortKey, ReadLockKey, QueryLock, RefillLock
  <2>3. CASE CountStep(p)
    BY <2>3 DEF CountStep, WriteFailure, IncrFailures, ReadCount, CountRows, RefillCount, Decide
  <2>4. CASE LockStep(p)
    BY <2>4 DEF LockStep, Recheck, WriteLock, RowFails, SetLock
  <2> QED BY <2>1, <2>2, <2>3, <2>4 DEF RequestStep
<1>3. RowsGrow
  <2>1. CASE WriteLock(p)
    <3>1. CASE RowFails(p)
      BY <3>1, RowsStay DEF RowFails, DBError
    <3>2. CASE ~RowFails(p)
      <4> DEFINE level == NewLevel(req[p].cnt)
                 row == [level |-> level, at |-> now, exp |-> req[p].t + Duration(level)]
      <4>1. locks' = Append(locks, row)
        BY <2>1, <3>2 DEF WriteLock
      <4>2. req[p].t \in Nat /\ now \in Nat /\ level \in Levels
        BY <2>1 DEF TypeInv, TypeOK, RequestType, Requests, WriteLock, Escalates
      <4>3. row \in LockRows
        BY <4>2, DurationType DEF LockRows
      <4> QED BY <4>1, <4>3, RowAdded
    <3> QED BY <3>1, <3>2
  <2>2. CASE ~WriteLock(p)
    <3>1. UNCHANGED locks
      BY <2>2 DEF StartLogin, RequestStep, Abort, GetLockStep, LoginStep, CountStep, LockStep,
           ReadLongKey, ReadShortKey, ReadLockKey, QueryLock, RefillLock, CheckLock,
           VerifyPassword, ClearRows, ClearKey, WriteFailure, IncrFailures, ReadCount,
           CountRows, RefillCount, Decide, Recheck, SetLock, dbVars, DBError
    <3> QED BY <3>1, RowsStayed
  <2> QED BY <2>1, <2>2
<1> QED BY <1>1, <1>2, <1>3 DEF OneMoves

LEMMA StartLoginProtected ==
    ASSUME EnforceInv, NEW p \in Procs, StartLogin(p), RowsGrow
    PROVE  Protected(p)'
<1> USE DEF EnforceInv
<1>1. PICK pw \in Passwords :
        Locals(p, [IdleReq EXCEPT !.pw = pw, !.gt = now, !.base = Len(locks)])
  BY DEF StartLogin
<1>2. pc'[p] = "lockLong" /\ now' = now /\ now \in Nat /\ Len(locks) \in Nat
  BY DEF StartLogin, Step, TypeInv, TypeOK, RequestType, DBType
<1>3. req'[p] = [IdleReq EXCEPT !.pw = pw, !.gt = now, !.base = Len(locks)]
  BY <1>1 DEF Locals, TypeInv, TypeOK, RequestType
<1>4. req'[p].base = Len(locks) /\ req'[p].gt = now
  BY <1>3 DEF IdleReq
<1> QED BY <1>2, <1>4, Unprotected

LEMMA RefillLockProtected ==
    ASSUME EnforceInv, NEW p \in Procs, RefillLock(p)
    PROVE  Protected(p)'
<1> USE DEF EnforceInv
<1>1. /\ req[p] \in Requests /\ req \in [Procs -> Requests] /\ pc \in [Procs -> Labels]
  BY DEF TypeInv, TypeOK, RequestType
<1>2. /\ pc[p] = "lockRefill" /\ pc'[p] = "checkLock" /\ now' = now /\ locks' = locks
      /\ req'[p] = [req[p] EXCEPT !.ttl = 0]
  BY <1>1 DEF RefillLock, Step, Locals, dbVars
<1>3. /\ req'[p].base = req[p].base /\ req'[p].gt = req[p].gt
      /\ req'[p].seen = req[p].seen
  BY <1>1, <1>2 DEF Requests
<1> QED BY <1>2, <1>3 DEF Protected

\* Every other step starts or continues RecordFailure, ClearFailures or the end
\* of the request, where nothing has to be established.
LEMMA OtherStepProtected ==
    ASSUME EnforceInv, NEW p \in Procs, OneMoves(p),
           VerifyPassword(p) \/ ClearRows(p) \/ ClearKey(p) \/ CountStep(p)
             \/ LockStep(p) \/ Abort(p)
    PROVE  Protected(p)'
<1> USE DEF EnforceInv
<1>0. /\ req[p] \in Requests /\ req \in [Procs -> Requests] /\ pc \in [Procs -> Labels]
      /\ now \in Nat /\ now' = now /\ RowsGrow /\ TypeInv
  BY DEF TypeInv, TypeOK, RequestType, OneMoves
<1>1. CASE Finish(p)
  BY <1>0, <1>1, FinishProtected
<1>2. ASSUME NEW to \in Labels \ {"lockRefill", "checkLock", "verify"},
             pc'[p] = to, req'[p].base = req[p].base, req'[p].gt = req[p].gt
      PROVE  Protected(p)'
  BY <1>0, <1>2, Unprotected DEF Protected, Requests
<1>3. ASSUME pc'[p] # "verify", req'[p].base = 0, req'[p].gt <= now
      PROVE  Protected(p)'
  BY <1>0, <1>3, IdleUnprotected
<1>4. CASE VerifyPassword(p) /\ ~Finish(p)
  <2>1. pc'[p] # "verify" /\ (req'[p] = IdleReq \/ req'[p] = [IdleReq EXCEPT !.t = now])
    BY <1>0, <1>4 DEF VerifyPassword, Step, Locals
  <2> QED BY <1>0, <1>3, <2>1 DEF IdleReq
<1>5. CASE (ClearRows(p) \/ WriteFailure(p) \/ IncrFailures(p) \/ RefillCount(p))
             /\ ~Finish(p)
  <2>1. pc'[p] \in {"clearKey", "count", "incr", "decide"} /\ req'[p] = req[p]
    BY <1>0, <1>5 DEF ClearRows, WriteFailure, IncrFailures, RefillCount, Step
  <2> QED BY <1>2, <2>1 DEF Labels
<1>6. CASE ReadCount(p) \/ CountRows(p)
  <2>1. /\ pc'[p] \in {"decide", "countDB", "countRefill"}
        /\ \/ req'[p] = req[p]
           \/ req'[p] = [req[p] EXCEPT !.cnt = rFail.n]
           \/ req'[p] = [req[p] EXCEPT !.cnt = 0]
           \/ req'[p] = [req[p] EXCEPT !.cnt = Counted(ro.failures, req[p].t - Window)]
    BY <1>0, <1>6 DEF ReadCount, CountRows, Step, Locals
  <2>2. req'[p].base = req[p].base /\ req'[p].gt = req[p].gt
    BY <1>0, <2>1 DEF Requests
  <2> QED BY <1>2, <2>1, <2>2 DEF Labels
<1>7. CASE Decide(p) /\ ~Finish(p)
  <2>1. /\ pc'[p] = "lockLong"
        /\ req'[p] = [IdleReq EXCEPT !.caller = "failure", !.gt = now,
                                     !.t = req[p].t, !.cnt = req[p].cnt]
    BY <1>0, <1>7 DEF Decide, Step, Locals
  <2> QED BY <1>0, <1>3, <2>1 DEF IdleReq
<1>8. CASE Recheck(p) /\ ~Finish(p)
  <2>1. /\ pc'[p] = "writeLock"
        /\ req'[p] = [IdleReq EXCEPT !.t = req[p].t, !.cnt = req[p].cnt]
    BY <1>0, <1>8 DEF Recheck, Step, Locals
  <2> QED BY <1>0, <1>3, <2>1 DEF IdleReq
<1>9. CASE WriteLock(p) /\ ~Finish(p)
  <2> DEFINE level == NewLevel(req[p].cnt)
             exp == req[p].t + Duration(level)
  <2>1. /\ Step(p, "writeLock", "setLock")
        /\ Locals(p, [IdleReq EXCEPT !.cnt = req[p].cnt, !.ttl = exp - now])
    BY <1>9 DEF WriteLock, RowFails
  <2>2. /\ pc'[p] = "setLock"
        /\ req'[p] = [IdleReq EXCEPT !.cnt = req[p].cnt, !.ttl = exp - now]
    BY <1>0, <2>1 DEF Step, Locals
  <2> QED BY <1>0, <1>3, <2>2 DEF IdleReq
<1> QED BY <1>1, <1>4, <1>5, <1>6, <1>7, <1>8, <1>9
      DEF CountStep, LockStep, ClearKey, SetLock, Abort

\* The keys in Redis stay alive, and only a positive ttl is handed to SetNX.
LEMMA SetNXAlive ==
    ASSUME TypeInv, KeysAlive, NEW level, NEW ttl \in Nat, ttl > 0, SetNX(level, ttl),
           now' = now
    PROVE  \A k \in Levels : rLock'[k] > 0 => rLock'[k] > now'
BY DEF TypeInv, TypeOK, RedisType, KeysAlive, SetNX

LEMMA StepAlive ==
    ASSUME EnforceInv, MaxDBErrs = 0, NEW p \in Procs, OneMoves(p),
           StartLogin(p) \/ RequestStep(p) \/ Abort(p)
    PROVE  KeysAlive'
<1> USE DEF EnforceInv
<1>0. /\ req[p] \in Requests /\ req \in [Procs -> Requests] /\ pc \in [Procs -> Labels]
      /\ now \in Nat /\ now' = now /\ TypeInv /\ KeysAlive
  BY DEF TypeInv, TypeOK, RequestType, OneMoves
<1>1. \A k \in Levels : rLock'[k] > 0 => rLock'[k] > now'
  <2>1. CASE RefillLock(p) \/ SetLock(p)
    <3>1. req[p].ttl \in Nat /\ req[p].ttl > 0
      BY <1>0, <2>1 DEF RefillLock, SetLock, Step, KeysAlive, Requests
    <3> QED BY <1>0, <2>1, <3>1, SetNXAlive DEF RefillLock, SetLock
  <2>2. CASE ~(RefillLock(p) \/ SetLock(p))
    <3>1. UNCHANGED rLock
      BY <2>2 DEF StartLogin, RequestStep, Abort, GetLockStep, LoginStep, CountStep, LockStep,
           ReadLongKey, ReadShortKey, ReadLockKey, QueryLock, CheckLock, VerifyPassword,
           ClearRows, ClearKey, WriteFailure, IncrFailures, ReadCount, CountRows,
           RefillCount, Decide, Recheck, WriteLock, redisVars
    <3> QED BY <1>0, <3>1 DEF KeysAlive
  <2> QED BY <2>1, <2>2
<1>2. pc'[p] \in {"lockRefill", "setLock"} => req'[p].ttl > 0
  <2>1. CASE QueryLock(p)
    <3>1. pc'[p] # "setLock"
      BY <1>0, <2>1 DEF QueryLock, Step
    <3> QED BY <2>1, <3>1, QueryLockProtected
  <2>2. CASE WriteLock(p) /\ ~Finish(p)
    <3> DEFINE level == NewLevel(req[p].cnt)
               exp == req[p].t + Duration(level)
    <3>1. exp > now /\ Locals(p, [IdleReq EXCEPT !.cnt = req[p].cnt, !.ttl = exp - now])
      BY <2>2 DEF WriteLock, RowFails
    <3>2. req'[p] = [IdleReq EXCEPT !.cnt = req[p].cnt, !.ttl = exp - now]
      BY <1>0, <3>1 DEF Locals
    <3>3. req[p].t \in Nat /\ Duration(level) \in Nat
      BY <1>0, DurationType DEF Requests
    <3>4. req'[p].ttl = exp - now
      BY <3>2 DEF IdleReq
    <3> QED BY <1>0, <3>1, <3>3, <3>4
  <2>3. CASE Finish(p)
    BY <1>0, <2>3 DEF Finish
  <2>4. CASE ~QueryLock(p) /\ ~WriteLock(p) /\ ~Finish(p)
    <3>1. pc'[p] \notin {"lockRefill", "setLock"}
      BY <1>0, <2>4 DEF StartLogin, RequestStep, Abort, GetLockStep, LoginStep, CountStep,
           LockStep, ReadLongKey, ReadShortKey, ReadLockKey, RefillLock, CheckLock,
           VerifyPassword, ClearRows, ClearKey, WriteFailure, IncrFailures, ReadCount,
           CountRows, RefillCount, Decide, Recheck, SetLock, Step
    <3> QED BY <3>1
  <2> QED BY <2>1, <2>2, <2>3, <2>4
<1> QED BY <1>0, <1>1, <1>2 DEF KeysAlive, OneMoves

LEMMA EnforceStep ==
    ASSUME EnforceInv, ~HasReplica, MaxDBErrs = 0, NEW p \in Procs,
           StartLogin(p) \/ RequestStep(p) \/ Abort(p)
    PROVE  EnforceInv'
<1> USE DEF EnforceInv
<1>1. OneMoves(p) /\ RowsGrow /\ now' = now
  BY StepMovesOne DEF OneMoves
<1>2. TypeInv'
  BY NextType DEF Next
<1>3. KeysAlive'
  BY <1>1, StepAlive
<1>4. ReadsPrimary'
  <2>1. SyncRO \/ UNCHANGED dbVars
    BY DEF StartLogin, RequestStep, Abort, GetLockStep, LoginStep, CountStep, LockStep,
           ReadLongKey, ReadShortKey, ReadLockKey, QueryLock, RefillLock, CheckLock,
           VerifyPassword, ClearRows, ClearKey, WriteFailure, IncrFailures, ReadCount,
           CountRows, RefillCount, Decide, Recheck, WriteLock, RowFails, SetLock, DBError
  <2> QED BY <2>1 DEF SyncRO, ReadsPrimary, Primary, dbVars
<1>5. Protected(p)'
  <2>1. CASE GetLockStep(p)
    BY <2>1, ReadLockKeyProtected, QueryLockProtected, RefillLockProtected
       DEF GetLockStep, ReadLongKey, ReadShortKey, Levels
  <2>2. CASE ~GetLockStep(p)
    BY <1>1, <2>2, StartLoginProtected, CheckLockProtected, OtherStepProtected
       DEF RequestStep, LoginStep
  <2> QED BY <2>1, <2>2
<1>6. ASSUME NEW q \in Procs \ {p} PROVE Protected(q)'
  BY <1>1, ProtectedFrame DEF OneMoves
<1> QED BY <1>2, <1>3, <1>4, <1>5, <1>6

LEMMA EnforceEnvironment ==
    ASSUME EnforceInv, ~HasReplica, [Next]_vars,
           Tick \/ SwitchRedis \/ LoseKeys \/ UNCHANGED vars
    PROVE  EnforceInv'
<1> USE DEF EnforceInv
<1>1. TypeInv'
  BY NextType
<1>2. /\ UNCHANGED <<pc, req, dbVars>> /\ now \in Nat
      /\ now' = now \/ now' = now + 1
  BY DEF Tick, SwitchRedis, LoseKeys, vars, dbVars, TypeInv, TypeOK
<1>3. \A p \in Procs : Protected(p)'
  BY <1>2, ProtectedFrame, RowsStay
<1>4. ReadsPrimary'
  BY <1>2 DEF ReadsPrimary, Primary, dbVars
<1>5. KeysAlive'
  <2>1. CASE Tick
    BY <1>2, <2>1 DEF Tick, KeysAlive
  <2>2. CASE SwitchRedis \/ UNCHANGED vars
    BY <1>2, <2>2 DEF SwitchRedis, vars, KeysAlive
  <2>3. CASE LoseKeys
    BY <1>2, <2>3 DEF LoseKeys, KeysAlive
  <2> QED BY <2>1, <2>2, <2>3
<1> QED BY <1>1, <1>3, <1>4, <1>5

\* With one database and no failing query, a login whose lock check ran within
\* one second never reaches the password while a lock row stored before it began
\* is in force: for any number of concurrent requests, any crash of a request
\* and any outage of Redis or loss of its keys.
THEOREM Enforced ==
    ASSUME ~HasReplica, MaxDBErrs = 0
    PROVE  Spec => []LockEnforced
<1>1. Init => EnforceInv
  <2> SUFFICES ASSUME Init PROVE EnforceInv
    OBVIOUS
  <2>1. TypeInv
    BY InitType
  <2>2. KeysAlive /\ ReadsPrimary
    BY DEF Init, KeysAlive, ReadsPrimary, Levels
  <2>3. ASSUME NEW p \in Procs PROVE Protected(p)
    <3>1. pc[p] = "idle" /\ req[p].base = 0 /\ req[p].gt = 0 /\ now = 0 /\ Len(locks) = 0
      BY DEF Init, IdleReq
    <3> QED BY <3>1 DEF Protected
  <2> QED BY <2>1, <2>2, <2>3 DEF EnforceInv
<1>2. EnforceInv /\ [Next]_vars => EnforceInv'
  <2> SUFFICES ASSUME EnforceInv, [Next]_vars PROVE EnforceInv'
    OBVIOUS
  <2>1. ~Replicate
    BY DEF Replicate
  <2> QED BY <2>1, EnforceStep, EnforceEnvironment DEF Next, Quiet
<1>3. EnforceInv => LockEnforced
  BY DEF EnforceInv, Protected, LockEnforced
<1> QED BY <1>1, <1>2, <1>3, PTL DEF Spec

-----------------------------------------------------------------------------
(***************************************************************************)
(* Every lock key of Redis repeats a row of login_audits.                  *)
(***************************************************************************)

\* A lock row is dated in the past and lasts at most the policy's duration.
RowsDated ==
    /\ \A i \in DOMAIN locks :
          /\ locks[i].at <= now
          /\ locks[i].exp <= locks[i].at + Duration(locks[i].level)
    /\ \A p \in Procs : req[p].t <= now

\* What the replica shows are rows of the primary.
ReplicaPrefix ==
    /\ Len(ro.locks) <= Len(locks)
    /\ \A i \in 1..Len(ro.locks) : ro.locks[i] = locks[i]

\* A key of this level and expiry would repeat a row and last no longer than
\* the policy says.
Backed(level, exp) ==
    /\ \E i \in DOMAIN locks : locks[i].level = level /\ locks[i].exp <= exp
    /\ exp - now <= Duration(level)

\* The key a request is about to set is backed, however long it waits: the ttl
\* was computed before the wait, so the key can only expire later than the row.
Pending(p) ==
    /\ pc[p] = "lockRefill" => Backed(req[p].seen.level, now + req[p].ttl)
    /\ pc[p] = "setLock" => Backed(NewLevel(req[p].cnt), now + req[p].ttl)

KeyInv ==
    TypeInv /\ RowsDated /\ ReplicaPrefix /\ (\A p \in Procs : Pending(p)) /\ LockKeyBacked

-----------------------------------------------------------------------------
\* A key that is backed stays backed as rows are added and time passes.
LEMMA BackedLater ==
    ASSUME TypeInv, TypeInv', RowsGrow, now' = now \/ now' = now + 1,
           NEW level, NEW exp \in Int, Backed(level, exp),
           NEW later \in Int, later >= exp, later - now' <= exp - now
    PROVE  /\ \E i \in DOMAIN locks' : locks'[i].level = level /\ locks'[i].exp <= later
           /\ later - now' <= Duration(level)
<1>1. /\ locks \in Seq(LockRows) /\ now \in Nat /\ DOMAIN locks = 1..Len(locks)
      /\ Len(locks) \in Nat
  BY DEF TypeInv, TypeOK, DBType
<1>2. PICK i \in DOMAIN locks : locks[i].level = level /\ locks[i].exp <= exp
  BY DEF Backed
<1>3. i \in DOMAIN locks'
  <2>1. DOMAIN locks' = 1..Len(locks') /\ Len(locks') \in Nat
    BY DEF TypeInv, TypeOK, DBType
  <2> QED BY <1>1, <1>2, <2>1 DEF RowsGrow
<1>4. locks'[i] = locks[i] /\ locks[i].exp \in Nat
  BY <1>1, <1>2, StoredRowType DEF RowsGrow, TypeInv, TypeOK
<1>5. locks'[i].level = level /\ locks'[i].exp <= later
  BY <1>2, <1>4
<1>6. later - now' <= Duration(level)
  BY <1>1, DurationType DEF Backed
<1> QED BY <1>3, <1>5, <1>6

\* The keys: one is only set by a request whose key is backed.
LEMMA KeysStep ==
    ASSUME KeyInv, TypeInv', RowsGrow, now' = now,
           NEW p \in Procs, StartLogin(p) \/ RequestStep(p) \/ Abort(p)
    PROVE  LockKeyBacked'
<1> USE DEF KeyInv
<1>1. /\ req[p] \in Requests /\ now \in Nat /\ rLock \in [Levels -> Nat]
      /\ rLock' \in [Levels -> Nat]
  BY DEF TypeInv, TypeOK, RequestType, RedisType
<1>2. ASSUME NEW k \in Levels, rLock'[k] > 0
      PROVE  Backed(k, rLock'[k])
  <2>1. CASE rLock'[k] = rLock[k]
    BY <1>1, <1>2, <2>1 DEF LockKeyBacked, Backed
  <2>2. CASE RefillLock(p) /\ rLock'[k] # rLock[k]
    <3>1. k = req[p].seen.level /\ rLock'[k] = now + req[p].ttl /\ pc[p] = "lockRefill"
      BY <1>1, <2>2 DEF RefillLock, SetNX, Step
    <3> QED BY <3>1 DEF Pending
  <2>3. CASE SetLock(p) /\ rLock'[k] # rLock[k]
    <3>1. k = LockKey(NewLevel(req[p].cnt)) /\ rLock'[k] = now + req[p].ttl /\ pc[p] = "setLock"
      BY <1>1, <2>3 DEF SetLock, SetNX
    <3>2. LockKey(NewLevel(req[p].cnt)) = NewLevel(req[p].cnt)
      BY <3>1 DEF TypeInv, Escalates, LockKey, Levels
    <3> QED BY <3>1, <3>2 DEF Pending
  <2>4. CASE ~RefillLock(p) /\ ~SetLock(p)
    <3>1. UNCHANGED rLock
      BY <2>4 DEF StartLogin, RequestStep, Abort, GetLockStep, LoginStep, CountStep, LockStep,
           ReadLongKey, ReadShortKey, ReadLockKey, QueryLock, CheckLock, VerifyPassword,
           ClearRows, ClearKey, WriteFailure, IncrFailures, ReadCount, CountRows,
           RefillCount, Decide, Recheck, WriteLock, redisVars
    <3> QED BY <2>1, <3>1
  <2> QED BY <2>1, <2>2, <2>3, <2>4
<1>3. ASSUME NEW k \in Levels, rLock'[k] > 0
      PROVE  /\ \E i \in DOMAIN locks' : locks'[i].level = k /\ locks'[i].exp <= rLock'[k]
             /\ rLock'[k] - now' <= Duration(k)
  <2>1. rLock'[k] \in Int /\ rLock'[k] - now' <= rLock'[k] - now
    BY <1>1
  <2> QED BY <1>2, <1>3, <1>1, <2>1, BackedLater
<1> QED BY <1>3 DEF LockKeyBacked

\* The row RecordLock inserts: dated now, it lasts from the time the failure was
\* recorded, which is in the past.
LEMMA NewLockRow ==
    ASSUME KeyInv, NEW p \in Procs, WriteLock(p), ~RowFails(p)
    PROVE  LET level == NewLevel(req[p].cnt)
               row == [level |-> level, at |-> now, exp |-> req[p].t + Duration(level)]
           IN  /\ level \in Levels /\ row \in LockRows
               /\ row.exp <= row.at + Duration(row.level)
               /\ locks' = Append(locks, row)
<1> DEFINE level == NewLevel(req[p].cnt)
           row == [level |-> level, at |-> now, exp |-> req[p].t + Duration(level)]
<1>1. locks' = Append(locks, row)
  BY DEF WriteLock
<1>2. /\ req[p].t \in Nat /\ now \in Nat /\ level \in Levels /\ req[p].t <= now
      /\ Duration(level) \in Nat
  BY DurationType DEF KeyInv, RowsDated, TypeInv, TypeOK, RequestType, Requests, WriteLock,
     Escalates
<1>3. row \in LockRows /\ row.exp <= row.at + Duration(row.level)
  BY <1>2 DEF LockRows
<1> QED BY <1>1, <1>2, <1>3

\* The step of a request keeps the rows well dated.
LEMMA DatesStep ==
    ASSUME KeyInv, NEW p \in Procs, TypeInv', OneMoves(p),
           StartLogin(p) \/ RequestStep(p) \/ Abort(p)
    PROVE  RowsDated'
<1> USE DEF KeyInv
<1>1. /\ req[p] \in Requests /\ now \in Nat /\ now' = now /\ locks \in Seq(LockRows)
      /\ req \in [Procs -> Requests] /\ pc \in [Procs -> Labels]
  BY DEF TypeInv, TypeOK, RequestType, DBType, OneMoves
<1>2. ASSUME NEW i \in DOMAIN locks'
      PROVE  locks'[i].at <= now' /\ locks'[i].exp <= locks'[i].at + Duration(locks'[i].level)
  <2>1. CASE locks' = locks
    BY <1>1, <1>2, <2>1 DEF RowsDated
  <2>2. CASE WriteLock(p) /\ ~RowFails(p)
    <3> DEFINE level == NewLevel(req[p].cnt)
               row == [level |-> level, at |-> now, exp |-> req[p].t + Duration(level)]
    <3>1. locks' = Append(locks, row) /\ row.exp <= row.at + Duration(row.level)
      BY <2>2, NewLockRow
    <3>2. locks'[i] = row \/ (i \in DOMAIN locks /\ locks'[i] = locks[i])
      BY <1>1, <1>2, <3>1
    <3>3. row.at <= now'
      BY <1>1
    <3> QED BY <1>1, <3>1, <3>2, <3>3 DEF RowsDated
  <2>3. locks' = locks \/ (WriteLock(p) /\ ~RowFails(p))
    BY DEF StartLogin, RequestStep, Abort, GetLockStep, LoginStep, CountStep, LockStep,
           ReadLongKey, ReadShortKey, ReadLockKey, QueryLock, RefillLock, CheckLock,
           VerifyPassword, ClearRows, ClearKey, WriteFailure, IncrFailures, ReadCount,
           CountRows, RefillCount, Decide, Recheck, SetLock, RowFails, DBError, dbVars
  <2> QED BY <2>1, <2>2, <2>3
<1>3. req'[p].t \in {0, now, req[p].t}
  <2>0. ASSUME NEW r, Locals(p, r) PROVE req'[p] = r
    BY <1>1, <2>0 DEF Locals
  <2>1. CASE Finish(p)
    BY <2>0, <2>1 DEF Finish, IdleReq
  <2>2. CASE StartLogin(p)
    <3>1. \E pw \in Passwords :
             req'[p] = [IdleReq EXCEPT !.pw = pw, !.gt = now, !.base = Len(locks)]
      BY <2>0, <2>2 DEF StartLogin
    <3> QED BY <3>1 DEF IdleReq
  <2>3. CASE GetLockStep(p)
    <3>1. \/ req'[p] = req[p] \/ req'[p] = [req[p] EXCEPT !.ttl = 0]
          \/ \E l : req'[p] = [req[p] EXCEPT !.seen = l]
          \/ \E l, t : req'[p] = [req[p] EXCEPT !.seen = l, !.ttl = t]
      BY <2>0, <2>3 DEF GetLockStep, ReadLongKey, ReadShortKey, ReadLockKey, QueryLock,
                        RefillLock
    <3> QED BY <1>1, <3>1 DEF Requests
  <2>4. CASE (LoginStep(p) \/ Abort(p)) /\ ~Finish(p)
    <3>1. \/ req'[p] = req[p] \/ req'[p] = IdleReq
          \/ req'[p] = [IdleReq EXCEPT !.t = now]
          \/ req'[p] = [req[p] EXCEPT !.checked = now]
      BY <2>0, <2>4 DEF LoginStep, CheckLock, VerifyPassword, ClearRows, ClearKey, Abort
    <3> QED BY <1>1, <3>1 DEF Requests, IdleReq
  <2>5. CASE (CountStep(p) \/ LockStep(p)) /\ ~Finish(p)
    <3>1. \/ req'[p] = req[p] \/ \E n : req'[p] = [req[p] EXCEPT !.cnt = n]
          \/ req'[p] = [IdleReq EXCEPT !.caller = "failure", !.gt = now,
                                       !.t = req[p].t, !.cnt = req[p].cnt]
          \/ req'[p] = [IdleReq EXCEPT !.t = req[p].t, !.cnt = req[p].cnt]
          \/ \E ttl : req'[p] = [IdleReq EXCEPT !.cnt = req[p].cnt, !.ttl = ttl]
      BY <2>0, <2>5 DEF CountStep, WriteFailure, IncrFailures, ReadCount, CountRows,
                        RefillCount, Decide, LockStep, Recheck, WriteLock, RowFails, SetLock
    <3> QED BY <1>1, <3>1 DEF Requests, IdleReq
  <2> QED BY <2>1, <2>2, <2>3, <2>4, <2>5 DEF RequestStep
<1>4. \A q \in Procs : req'[q].t <= now'
  BY <1>1, <1>3 DEF OneMoves, RowsDated
<1> QED BY <1>2, <1>4 DEF RowsDated

\* A write reaches the replica at once, or only the primary grows.
LEMMA ReplicaStep ==
    ASSUME KeyInv, NEW p \in Procs, RowsGrow,
           StartLogin(p) \/ RequestStep(p) \/ Abort(p)
    PROVE  ReplicaPrefix'
<1>1. /\ Len(ro.locks) \in Nat /\ Len(locks) \in Nat
      /\ Len(ro.locks) <= Len(locks) /\ \A i \in 1..Len(ro.locks) : ro.locks[i] = locks[i]
  BY DEF KeyInv, TypeInv, TypeOK, DBType, ReplicaPrefix
<1>2. SyncRO \/ UNCHANGED dbVars
  BY DEF StartLogin, RequestStep, Abort, GetLockStep, LoginStep, CountStep, LockStep,
         ReadLongKey, ReadShortKey, ReadLockKey, QueryLock, RefillLock, CheckLock,
         VerifyPassword, ClearRows, ClearKey, WriteFailure, IncrFailures, ReadCount,
         CountRows, RefillCount, Decide, Recheck, WriteLock, RowFails, SetLock, DBError
<1>3. CASE ro' = ro
  BY <1>1, <1>3 DEF ReplicaPrefix, RowsGrow
<1>4. CASE ro' = Primary'
  BY <1>4 DEF ReplicaPrefix, Primary
<1> QED BY <1>2, <1>3, <1>4 DEF SyncRO, dbVars

\* The row found by LatestActiveLock backs the key it goes on to fill.
LEMMA QueryLockPending ==
    ASSUME KeyInv, NEW p \in Procs, QueryLock(p), pc'[p] = "lockRefill"
    PROVE  Backed(req'[p].seen.level, now + req'[p].ttl)
<1> USE DEF KeyInv
<1>1. /\ req[p] \in Requests /\ now \in Nat /\ locks \in Seq(LockRows) /\ Len(locks) \in Nat
      /\ req \in [Procs -> Requests] /\ pc \in [Procs -> Labels] /\ DBType
  BY DEF TypeInv, TypeOK, RequestType, DBType
<1>2. PICK i \in ActiveRows(ro.locks, req[p].gt) :
        LET ttl == ro.locks[i].exp - now IN
          /\ Step(p, "lockDB", IF ttl > 0 THEN "lockRefill" ELSE "checkLock")
          /\ Locals(p, [req[p] EXCEPT
                 !.seen = [level |-> ro.locks[i].level, exp |-> ro.locks[i].exp],
                 !.ttl = IF ttl > 0 THEN ttl ELSE 0])
  BY <1>1 DEF QueryLock, Step
<1> DEFINE ttl == ro.locks[i].exp - now
           lock == [level |-> ro.locks[i].level, exp |-> ro.locks[i].exp]
           left == IF ttl > 0 THEN ttl ELSE 0
<1>3. ttl > 0
  BY <1>1, <1>2 DEF Step
<1>4. req'[p] = [req[p] EXCEPT !.seen = lock, !.ttl = left]
  BY <1>1, <1>2 DEF Locals
<1>5. req'[p].seen.level = ro.locks[i].level /\ req'[p].ttl = ttl
  BY <1>1, <1>3, <1>4 DEF Requests
<1>6. i \in DOMAIN locks /\ ro.locks[i] = locks[i]
  <2>1. i \in 1..Len(ro.locks)
    BY <1>1, RowType
  <2>2. Len(ro.locks) \in Nat
    BY <1>1 DEF DBType
  <2> QED BY <1>1, <2>1, <2>2 DEF ReplicaPrefix
<1>7. /\ locks[i].exp \in Nat /\ locks[i].at \in Nat
      /\ locks[i].at <= now /\ locks[i].exp <= locks[i].at + Duration(locks[i].level)
  <2>1. i \in 1..Len(locks)
    BY <1>1, <1>6
  <2> QED BY <1>1, <1>6, <2>1, StoredRowType DEF RowsDated
<1>8. now + ttl = locks[i].exp /\ ttl <= Duration(locks[i].level)
  BY <1>1, <1>6, <1>7, DurationType
<1> QED BY <1>1, <1>5, <1>6, <1>7, <1>8 DEF Backed

\* The row RecordLock has inserted backs the key it goes on to set.
LEMMA WriteLockPending ==
    ASSUME KeyInv, NEW p \in Procs, WriteLock(p), pc'[p] = "setLock"
    PROVE  /\ \E i \in DOMAIN locks' : /\ locks'[i].level = NewLevel(req'[p].cnt)
                                       /\ locks'[i].exp <= now + req'[p].ttl
           /\ req'[p].ttl <= Duration(NewLevel(req'[p].cnt))
<1> USE DEF KeyInv
<1> DEFINE level == NewLevel(req[p].cnt)
           exp == req[p].t + Duration(level)
           row == [level |-> level, at |-> now, exp |-> exp]
<1>1. /\ req[p] \in Requests /\ now \in Nat /\ locks \in Seq(LockRows) /\ Len(locks) \in Nat
      /\ req \in [Procs -> Requests] /\ pc \in [Procs -> Labels]
  BY DEF TypeInv, TypeOK, RequestType, DBType
<1>2. ~Finish(p)
  BY <1>1 DEF Finish
<1>3. Locals(p, [IdleReq EXCEPT !.cnt = req[p].cnt, !.ttl = exp - now]) /\ ~RowFails(p)
  BY <1>2 DEF WriteLock, RowFails
<1>4. req'[p] = [IdleReq EXCEPT !.cnt = req[p].cnt, !.ttl = exp - now]
  BY <1>1, <1>3 DEF Locals
<1>5. req'[p].cnt = req[p].cnt /\ req'[p].ttl = exp - now
  BY <1>4 DEF IdleReq
<1>6. locks' = Append(locks, row) /\ row.level = level /\ row.exp = exp
  BY <1>3, NewLockRow
<1>7. Len(locks) + 1 \in DOMAIN locks' /\ locks'[Len(locks) + 1] = row
  BY <1>1, <1>6
<1>8. /\ exp \in Int /\ exp <= now + req'[p].ttl /\ req'[p].ttl <= Duration(level)
  <2>1. req[p].t \in Nat /\ req[p].t <= now /\ Duration(level) \in Nat
    BY <1>1, DurationType DEF Requests, RowsDated
  <2> QED BY <1>1, <1>5, <2>1
<1> QED BY <1>5, <1>6, <1>7, <1>8

\* A request that does not move waits with its key still backed.
LEMMA PendingFrame ==
    ASSUME TypeInv, TypeInv', RowsGrow, now' = now \/ now' = now + 1,
           NEW p \in Procs, Pending(p), pc'[p] = pc[p], req'[p] = req[p]
    PROVE  Pending(p)'
<1>1. req[p].ttl \in Nat /\ now \in Nat
  BY DEF TypeInv, TypeOK, RequestType, Requests
<1>2. ASSUME NEW level, Backed(level, now + req[p].ttl)
      PROVE  /\ \E i \in DOMAIN locks' : /\ locks'[i].level = level
                                         /\ locks'[i].exp <= now' + req[p].ttl
             /\ (now' + req[p].ttl) - now' <= Duration(level)
  <2>1. /\ now + req[p].ttl \in Int /\ now' + req[p].ttl \in Int
        /\ now' + req[p].ttl >= now + req[p].ttl
        /\ (now' + req[p].ttl) - now' <= (now + req[p].ttl) - now
    BY <1>1
  <2> QED BY <1>2, <2>1, BackedLater
<1> QED BY <1>2 DEF Pending, Backed

LEMMA PendingStep ==
    ASSUME KeyInv, NEW p \in Procs, TypeInv', OneMoves(p),
           StartLogin(p) \/ RequestStep(p) \/ Abort(p)
    PROVE  \A q \in Procs : Pending(q)'
<1> USE DEF KeyInv
<1>1. /\ now \in Nat /\ now' = now /\ RowsGrow
      /\ req[p] \in Requests /\ req \in [Procs -> Requests] /\ pc \in [Procs -> Labels]
  BY DEF OneMoves, TypeInv, TypeOK, RequestType
<1>2. ASSUME NEW q \in Procs \ {p} PROVE Pending(q)'
  BY <1>1, PendingFrame DEF OneMoves
<1>3. Pending(p)'
  <2>1. CASE QueryLock(p)
    <3>1. pc'[p] # "setLock" /\ locks' = locks
      BY <1>1, <2>1 DEF QueryLock, Step, DBError, dbVars
    <3> QED BY <1>1, <2>1, <3>1, QueryLockPending DEF Pending, Backed
  <2>2. CASE WriteLock(p)
    <3>1. pc'[p] # "lockRefill"
      BY <1>1, <2>2 DEF WriteLock, RowFails, Step, Finish
    <3>2. req'[p].ttl \in Nat
      BY DEF TypeInv, TypeOK, RequestType, Requests
    <3>3. (now' + req'[p].ttl) - now' = req'[p].ttl
      BY <1>1, <3>2
    <3> QED BY <1>1, <2>2, <3>1, <3>3, WriteLockPending DEF Pending, Backed
  <2>3. CASE ~QueryLock(p) /\ ~WriteLock(p)
    <3>1. pc'[p] \notin {"lockRefill", "setLock"}
      BY <1>1, <2>3 DEF StartLogin, RequestStep, Abort, GetLockStep, LoginStep, CountStep,
           LockStep, ReadLongKey, ReadShortKey, ReadLockKey, RefillLock, CheckLock,
           VerifyPassword, ClearRows, ClearKey, WriteFailure, IncrFailures, ReadCount,
           CountRows, RefillCount, Decide, Recheck, SetLock, Step, Finish
    <3> QED BY <3>1 DEF Pending
  <2> QED BY <2>1, <2>2, <2>3
<1> QED BY <1>2, <1>3

\* Time, Redis and the replica leave the rows alone; a key may only go away.
LEMMA KeyEnvironment ==
    ASSUME KeyInv, TypeInv', Tick \/ SwitchRedis \/ LoseKeys \/ Replicate \/ UNCHANGED vars
    PROVE  KeyInv'
<1> USE DEF KeyInv
<1>1. /\ UNCHANGED <<pc, req, locks>> /\ now \in Nat /\ (now' = now \/ now' = now + 1)
      /\ (ro' = ro \/ ro' = Primary) /\ RowsGrow
  BY RowsStayed DEF Tick, SwitchRedis, LoseKeys, Replicate, vars, dbVars, TypeInv, TypeOK
<1>2. RowsDated'
  <2>1. locks \in Seq(LockRows) /\ req \in [Procs -> Requests]
    BY DEF TypeInv, TypeOK, DBType, RequestType
  <2>2. ASSUME NEW i \in DOMAIN locks PROVE locks[i].at \in Nat
    <3>1. i \in 1..Len(locks)
      BY <2>1, <2>2
    <3> QED BY <3>1, StoredRowType DEF TypeInv, TypeOK
  <2>3. \A p \in Procs : req[p].t \in Nat
    BY <2>1 DEF Requests
  <2>4. \A i \in DOMAIN locks' : locks'[i].at <= now'
    BY <1>1, <2>2 DEF RowsDated
  <2>5. \A p \in Procs : req'[p].t <= now'
    BY <1>1, <2>3 DEF RowsDated
  <2>6. \A i \in DOMAIN locks' : locks'[i].exp <= locks'[i].at + Duration(locks'[i].level)
    BY <1>1 DEF RowsDated
  <2> QED BY <2>4, <2>5, <2>6 DEF RowsDated
<1>3. ReplicaPrefix'
  <2>1. CASE ro' = ro
    BY <1>1, <2>1 DEF ReplicaPrefix
  <2>2. CASE ro' = Primary
    <3>1. ro'.locks = locks'
      BY <1>1, <2>2 DEF Primary
    <3>2. Len(locks) \in Nat
      BY DEF TypeInv, TypeOK, DBType
    <3> QED BY <1>1, <3>1, <3>2 DEF ReplicaPrefix
  <2> QED BY <1>1, <2>1, <2>2
<1>4. ASSUME NEW p \in Procs PROVE Pending(p)'
  BY <1>1, PendingFrame
<1>5. LockKeyBacked'
  <2>1. ASSUME NEW k \in Levels, rLock'[k] > 0
        PROVE  rLock'[k] = rLock[k]
    <3>1. CASE Tick
      BY <2>1, <3>1 DEF Tick
    <3>2. CASE LoseKeys
      BY <2>1, <3>2 DEF LoseKeys
    <3>3. CASE SwitchRedis \/ Replicate \/ UNCHANGED vars
      BY <3>3 DEF SwitchRedis, Replicate, vars, redisVars
    <3> QED BY <3>1, <3>2, <3>3
  <2>2. ASSUME NEW k \in Levels, rLock'[k] > 0
        PROVE  /\ \E i \in DOMAIN locks' : locks'[i].level = k /\ locks'[i].exp <= rLock'[k]
               /\ rLock'[k] - now' <= Duration(k)
    <3>1. rLock'[k] = rLock[k] /\ rLock[k] \in Int
      BY <2>1, <2>2 DEF TypeInv, TypeOK, RedisType
    <3>2. rLock[k] - now' <= rLock[k] - now
      BY <1>1, <3>1
    <3>3. Backed(k, rLock[k])
      BY <2>2, <3>1 DEF LockKeyBacked, Backed
    <3> QED BY <1>1, <3>1, <3>2, <3>3, BackedLater
  <2> QED BY <2>2 DEF LockKeyBacked
<1> QED BY <1>2, <1>3, <1>4, <1>5

LEMMA KeyInit == Init => KeyInv
<1> SUFFICES ASSUME Init PROVE KeyInv
  OBVIOUS
<1>1. TypeInv
  BY InitType
<1>2. RowsDated /\ ReplicaPrefix /\ LockKeyBacked
  BY DEF Init, RowsDated, ReplicaPrefix, LockKeyBacked, Primary, IdleReq, Levels
<1>3. \A p \in Procs : Pending(p)
  BY DEF Init, Pending
<1> QED BY <1>1, <1>2, <1>3 DEF KeyInv

LEMMA KeyNext == KeyInv /\ [Next]_vars => KeyInv'
<1> SUFFICES ASSUME KeyInv, [Next]_vars PROVE KeyInv'
  OBVIOUS
<1>1. TypeInv'
  BY NextType DEF KeyInv
<1>2. ASSUME NEW p \in Procs, StartLogin(p) \/ RequestStep(p) \/ Abort(p)
      PROVE  KeyInv'
  <2>1. OneMoves(p) /\ RowsGrow /\ now' = now
    BY <1>2, StepMovesOne DEF KeyInv, OneMoves
  <2>2. RowsDated'
    BY <1>1, <1>2, <2>1, DatesStep
  <2>3. ReplicaPrefix'
    BY <1>2, <2>1, ReplicaStep
  <2>4. LockKeyBacked'
    BY <1>1, <1>2, <2>1, KeysStep
  <2>5. \A q \in Procs : Pending(q)'
    BY <1>1, <1>2, <2>1, PendingStep
  <2> QED BY <1>1, <2>2, <2>3, <2>4, <2>5 DEF KeyInv
<1> QED BY <1>1, <1>2, KeyEnvironment DEF Next, Quiet

\* A lock key of Redis always repeats a lock row of its level that expires no
\* later and never outlasts the policy's duration: for any number of concurrent
\* requests, with or without a replica that lags, through any failed query,
\* crash of a request and outage of Redis.  The row is written before the key,
\* and the ttl is computed before the wait for the call, never after it.
THEOREM KeysBacked == Spec => []LockKeyBacked
<1>1. KeyInv => LockKeyBacked
  BY DEF KeyInv
<1> QED BY <1>1, KeyInit, KeyNext, PTL DEF Spec
-----------------------------------------------------------------------------
(***************************************************************************)
(* What is counted, and that it leads to a lock.                           *)
(***************************************************************************)

OneAtATime == \A p, q \in Procs : p = q

\* No request waits a day for the count of the failure it has recorded.
CountedInADay == \A p \in Procs : pc[p] = "count" => now < req[p].t + Day

\* Requests whose failure is in the table and not yet in Redis.
Counting == {p \in Procs : pc[p] = "incr"}

Recent == InWindow(failures, now - Window + 1)

\* Failures that a counter with this expiry need not have seen.
Later(exp) == {f \in failures : f.at > exp - Day}

\* The counter lacks at most the failures about to be counted, and lives as long as the
\* failures it has seen are recent.
Backlog ==
    /\ Cardinality(Recent) <= rFail.n + Cardinality(Counting)
    /\ rFail.n > 0 => Cardinality(Later(rFail.exp)) <= Cardinality(Counting)

\* With Redis a request that has counted its failure finds the counter; it never counts rows.
CounterFound(p) ==
    /\ pc[p] = "count" => rFail.n > 0 /\ rFail.exp >= req[p].t + Day
    /\ pc[p] \notin {"countDB", "countRefill"}

\* Only with one request at a time does a right password clear what was counted.
Clearing(p) ==
    /\ pc[p] = "clearKey" => failures = {}
    /\ OneAtATime \/ (pc[p] \notin {"clear", "clearKey"} /\ req[p].pw = "wrong")

\* What GetLock found is a row of the table.
SeenStored(p) ==
    pc[p] \in GetLockLabels /\ req[p].seen.level # "none"
        => \E i \in DOMAIN locks : locks[i].level = req[p].seen.level

CountInv ==
    /\ KeyInv
    /\ rFail.n > 0 => rFail.exp > now
    /\ \A f \in failures : f.at <= now
    /\ ~HasReplica => ro = Primary
    /\ RedisStarts = {TRUE} /\ Faultless => redisUp
    /\ \A p \in Procs : Clearing(p) /\ SeenStored(p)
    /\ Faultless /\ redisUp => Backlog /\ \A p \in Procs : CounterFound(p)


-----------------------------------------------------------------------------
(* Nothing has gone wrong yet. *)

LEMMA CleanKept ==
    ASSUME TypeInv, [Next]_vars, Faultless'
    PROVE  /\ Faultless /\ redisUp' = redisUp /\ ~DBError /\ ~SwitchRedis /\ ~LoseKeys
           /\ \A p \in Procs : ~Abort(p)
<1>1. used \in [attempts : Nat, flips : Nat, dbErrs : Nat, aborts : Nat]
  BY DEF TypeInv, TypeOK, UsedType
<1>2. ASSUME DBError \/ SwitchRedis \/ LoseKeys \/ \E p \in Procs : Abort(p)
      PROVE  FALSE
  <2>1. CASE DBError
    BY <1>1, <2>1 DEF DBError, Faultless
  <2>2. CASE SwitchRedis \/ LoseKeys
    BY <1>1, <2>2 DEF SwitchRedis, LoseKeys, Flip, Faultless
  <2>3. CASE \E p \in Procs : Abort(p)
    BY <1>1, <2>3 DEF Abort, Faultless
  <2> QED BY <1>2, <2>1, <2>2, <2>3
<1>3. ASSUME NEW p \in Procs, StartLogin(p) \/ RequestStep(p)
      PROVE  /\ redisUp' = redisUp
             /\ used' = used \/ used' = [used EXCEPT !.attempts = used.attempts + 1]
  <2>1. redisUp' = redisUp
    BY <1>3 DEF StartLogin, RequestStep, GetLockStep, LoginStep, CountStep, LockStep,
         ReadLongKey, ReadShortKey, ReadLockKey, QueryLock, RefillLock, CheckLock,
         VerifyPassword, ClearRows, ClearKey, WriteFailure, IncrFailures, ReadCount,
         CountRows, RefillCount, Decide, Recheck, WriteLock, SetLock, redisVars
  <2>2. used' = used \/ used' = [used EXCEPT !.attempts = used.attempts + 1]
    BY <1>2, <1>3 DEF StartLogin, RequestStep, GetLockStep, LoginStep, CountStep, LockStep,
         ReadLongKey, ReadShortKey, ReadLockKey, QueryLock, RefillLock, CheckLock,
         VerifyPassword, ClearRows, ClearKey, WriteFailure, IncrFailures, ReadCount,
         CountRows, RefillCount, Decide, Recheck, WriteLock, RowFails, SetLock
  <2> QED BY <2>1, <2>2
<1>4. CASE Tick \/ Replicate \/ UNCHANGED vars
  BY <1>2, <1>4 DEF Tick, Replicate, vars, redisVars, Faultless
<1>5. CASE \E p \in Procs : StartLogin(p) \/ RequestStep(p)
  <2>1. /\ redisUp' = redisUp
        /\ used' = used \/ used' = [used EXCEPT !.attempts = used.attempts + 1]
    BY <1>3, <1>5
  <2> QED BY <1>1, <1>2, <2>1 DEF Faultless
<1> QED BY <1>2, <1>4, <1>5 DEF Next, Quiet

\* Most steps of a request touch neither the failures nor their counter.
LEMMA NothingCounted ==
    ASSUME TypeInv, NEW p \in Procs, StartLogin(p) \/ RequestStep(p), ~DBError,
           ~WriteFailure(p), ~IncrFailures(p), ~ClearRows(p), ~ClearKey(p), ~RefillCount(p)
    PROVE  UNCHANGED <<failures, rFail>> /\ pc[p] # "incr" /\ pc'[p] # "incr"
<1>1. UNCHANGED <<failures, rFail>>
  BY DEF StartLogin, RequestStep, GetLockStep, LoginStep, CountStep, LockStep,
         ReadLongKey, ReadShortKey, ReadLockKey, QueryLock, RefillLock, CheckLock,
         VerifyPassword, ReadCount, CountRows, Decide, Recheck, WriteLock, RowFails, SetLock,
         dbVars, redisVars
<1> USE DEF TypeInv, TypeOK, RequestType, Step, Locals, Finish
<1>2. CASE StartLogin(p) \/ LoginStep(p)
  BY <1>1, <1>2 DEF StartLogin, LoginStep, CheckLock, VerifyPassword
<1>3. CASE GetLockStep(p)
  BY <1>1, <1>3 DEF GetLockStep, ReadLongKey, ReadShortKey, ReadLockKey, QueryLock, RefillLock
<1>4. CASE CountStep(p)
  BY <1>1, <1>4 DEF CountStep, ReadCount, CountRows, Decide
<1>5. CASE LockStep(p)
  BY <1>1, <1>5 DEF LockStep, Recheck, WriteLock, RowFails, SetLock
<1> QED BY <1>2, <1>3, <1>4, <1>5 DEF RequestStep

LEMMA RecentFinite ==
    ASSUME TypeInv, IsFiniteSet(Procs)
    PROVE  /\ IsFiniteSet(failures) /\ IsFiniteSet(Recent) /\ Recent \subseteq failures
           /\ \A exp : IsFiniteSet(Later(exp)) /\ Later(exp) \subseteq failures
           /\ IsFiniteSet(Counting) /\ Counting \subseteq Procs
           /\ Cardinality(Counting) \in Nat /\ Cardinality(Recent) \in Nat
           /\ \A exp : Cardinality(Later(exp)) \in Nat
<1>1. IsFiniteSet(failures)
  BY DEF TypeInv, TypeOK, DBType
<1>2. /\ Recent \subseteq failures /\ Counting \subseteq Procs
      /\ \A exp : Later(exp) \subseteq failures
  BY DEF Recent, InWindow, Counting, Later
<1> QED BY <1>1, <1>2, CountType

\* One more element makes a set at most one larger.
LEMMA AtMostOneMore ==
    ASSUME NEW S, IsFiniteSet(S), NEW x, NEW T, T \subseteq S \cup {x}
    PROVE  IsFiniteSet(T) /\ Cardinality(T) \in Nat /\ Cardinality(T) <= Cardinality(S) + 1
<1>1. IsFiniteSet(S \cup {x}) /\ Cardinality(S) \in Nat
  BY FS_AddElement, FS_CardinalityType
<1>2. Cardinality(S \cup {x}) <= Cardinality(S) + 1
  BY <1>1, FS_AddElement
<1>3. Cardinality(T) <= Cardinality(S \cup {x}) /\ IsFiniteSet(T) /\ Cardinality(T) \in Nat
  BY <1>1, FS_Subset, FS_CardinalityType
<1>4. Cardinality(S \cup {x}) \in Nat
  BY <1>1, FS_CardinalityType
<1> QED BY <1>1, <1>2, <1>3, <1>4

-----------------------------------------------------------------------------
(* The counter keeps up with the rows. *)

\* Who counts, before and after a step of p.
LEMMA CountingStep ==
    ASSUME TypeInv, IsFiniteSet(Procs), NEW p \in Procs, NEW to,
           pc' = [pc EXCEPT ![p] = to]
    PROVE  /\ Cardinality(Counting') \in Nat
           /\ pc[p] # "incr" /\ to # "incr" => Counting' = Counting
           /\ pc[p] # "incr" /\ to = "incr" =>
                 Cardinality(Counting') = Cardinality(Counting) + 1
           /\ pc[p] = "incr" /\ to # "incr" =>
                 Cardinality(Counting') = Cardinality(Counting) - 1
<1>1. pc \in [Procs -> Labels] /\ IsFiniteSet(Counting)
  BY RecentFinite DEF TypeInv, TypeOK, RequestType
<1>2. Cardinality(Counting') \in Nat
  <2>1. Counting' \subseteq Procs
    BY DEF Counting
  <2> QED BY <2>1, CountType
<1>3. CASE pc[p] # "incr" /\ to # "incr"
  BY <1>1, <1>2, <1>3 DEF Counting
<1>4. CASE pc[p] # "incr" /\ to = "incr"
  <2>1. Counting' = Counting \cup {p} /\ p \notin Counting
    BY <1>1, <1>4 DEF Counting
  <2> QED BY <1>1, <1>2, <1>4, <2>1, FS_AddElement
<1>5. CASE pc[p] = "incr" /\ to # "incr"
  <2>1. Counting' = Counting \ {p} /\ p \in Counting
    BY <1>1, <1>5 DEF Counting
  <2>2. Cardinality(Counting \ {p}) = Cardinality(Counting) - 1
    BY <1>1, <2>1, FS_RemoveElement
  <2>3. Cardinality(Counting') = Cardinality(Counting) - 1
    BY <2>1, <2>2
  <2> QED BY <1>2, <1>5, <2>3
<1> QED BY <1>2, <1>3, <1>4, <1>5

LEMMA BacklogStep ==
    ASSUME CountInv, TypeInv', IsFiniteSet(Procs), NEW p \in Procs,
           StartLogin(p) \/ RequestStep(p), Faultless, redisUp, ~DBError
    PROVE  Backlog'
<1> USE DEF CountInv, KeyInv
<1>1. Backlog /\ CounterFound(p) /\ Clearing(p) /\ now' = now
  BY StepMovesOne DEF OneMoves
<1>2. /\ rFail.n \in Nat /\ rFail.exp \in Nat /\ now \in Nat /\ Day \in Nat \ {0}
      /\ pc \in [Procs -> Labels] /\ rFail \in [n : Nat, exp : Nat]
  BY BoundAssumption DEF TypeInv, TypeOK, RedisType, RequestType
<1>3. PICK c \in Nat : c = Cardinality(Counting)
  BY RecentFinite
<1>4. PICK m \in Nat : m = Cardinality(Recent) /\ m <= rFail.n + c
  BY <1>1, <1>3, RecentFinite DEF Backlog
<1>5. CASE WriteFailure(p)
  <2>1. /\ failures' = {f \in failures : f.at >= req[p].t - Day} \cup {NewRow}
        /\ pc[p] = "fail" /\ pc' = [pc EXCEPT ![p] = "incr"] /\ rFail' = rFail
    BY <1>5 DEF WriteFailure, Step, redisVars
  <2>2. Cardinality(Counting') = c + 1
    BY <1>3, <2>1, CountingStep
  <2>3. Recent' \subseteq Recent \cup {NewRow}
    BY <1>1, <2>1 DEF Recent, InWindow
  <2>4. Cardinality(Recent') \in Nat /\ Cardinality(Recent') <= m + 1
    BY <1>4, <2>3, RecentFinite, AtMostOneMore
  <2>5. ASSUME rFail.n > 0 PROVE Cardinality(Later(rFail.exp)') <= c + 1
    <3>1. Later(rFail.exp)' \subseteq Later(rFail.exp) \cup {NewRow}
      BY <2>1 DEF Later
    <3>2. PICK k \in Nat : k = Cardinality(Later(rFail.exp)) /\ k <= c
      BY <1>1, <1>3, <2>5, RecentFinite DEF Backlog
    <3>3. /\ Cardinality(Later(rFail.exp)') <= k + 1
          /\ Cardinality(Later(rFail.exp)') \in Nat
      BY <3>1, <3>2, RecentFinite, AtMostOneMore
    <3> QED BY <3>2, <3>3
  <2> QED BY <1>2, <1>4, <2>1, <2>2, <2>4, <2>5 DEF Backlog, Later
<1>6. CASE IncrFailures(p)
  <2>1. /\ failures' = failures /\ rFail' = Incremented
        /\ pc[p] = "incr" /\ pc' = [pc EXCEPT ![p] = "count"]
    BY <1>6 DEF IncrFailures, Step, dbVars
  <2>2. Cardinality(Counting') = c - 1 /\ c - 1 \in Nat
    <3>1. /\ Cardinality(Counting') = Cardinality(Counting) - 1
          /\ Cardinality(Counting') \in Nat
      <4>1. PICK to : to # "incr" /\ pc' = [pc EXCEPT ![p] = to]
        BY <2>1
      <4> QED BY <2>1, <4>1, CountingStep
    <3> QED BY <1>3, <3>1
  <2>3. rFail'.n = rFail.n + 1 /\ rFail'.exp = now + Day
    BY <2>1 DEF Incremented
  <2>4. Recent' = Recent
    BY <1>1, <2>1 DEF Recent, InWindow
  <2>5. \A f \in failures : ~(f.at > rFail'.exp - Day)
    <3>1. \A f \in failures : f.at \in Nat /\ f.at <= now
      BY DEF TypeInv, TypeOK, DBType
    <3> QED BY <1>2, <2>3, <3>1
  <2>6. Later(rFail.exp)' = {}
    BY <2>1, <2>5 DEF Later
  <2>7. Cardinality(Recent') <= rFail'.n + Cardinality(Counting')
    BY <1>2, <1>4, <2>2, <2>3, <2>4
  <2>8. Cardinality(Later(rFail.exp)') = 0
    BY <2>6, FS_EmptySet
  <2> QED BY <2>2, <2>7, <2>8 DEF Backlog
<1>7. CASE ClearRows(p) \/ ClearKey(p)
  <2>1. failures' = {} /\ rFail'.n \in Nat
    <3>1. CASE ClearRows(p)
      BY <1>2, <3>1 DEF ClearRows, redisVars
    <3>2. CASE ClearKey(p)
      BY <1>1, <1>2, <3>2 DEF ClearKey, Clearing, dbVars, NoCount
    <3> QED BY <1>7, <3>1, <3>2
  <2>2. Recent' = {} /\ \A exp : Later(exp)' = {}
    BY <2>1 DEF Recent, InWindow, Later
  <2>3. Cardinality(Counting') \in Nat /\ Cardinality({}) = 0
    BY <1>7, CountingStep, FS_EmptySet DEF ClearRows, ClearKey, DBError, Step, Finish
  <2>4. Later(rFail.exp)' = {}
    BY <2>1 DEF Later
  <2> QED BY <2>1, <2>2, <2>3, <2>4 DEF Backlog
<1>8. CASE RefillCount(p)
  BY <1>1, <1>8 DEF RefillCount, Step, CounterFound
<1>9. CASE ~(\/ WriteFailure(p) \/ IncrFailures(p) \/ ClearRows(p) \/ ClearKey(p)
             \/ RefillCount(p))
  <2>1. UNCHANGED <<failures, rFail>> /\ pc[p] # "incr" /\ pc'[p] # "incr"
    BY <1>9, NothingCounted
  <2>2. Counting' = Counting
    BY <2>1, StepMovesOne DEF Counting, OneMoves
  <2>3. Recent' = Recent /\ Later(rFail.exp)' = Later(rFail.exp)
    BY <1>1, <2>1 DEF Recent, InWindow, Later
  <2> QED BY <1>1, <2>1, <2>2, <2>3 DEF Backlog
<1> QED BY <1>5, <1>6, <1>7, <1>8, <1>9

LEMMA BacklogTick ==
    ASSUME CountInv, TypeInv', IsFiniteSet(Procs), Window <= Day, Tick, Faultless, redisUp
    PROVE  Backlog'
<1> USE DEF CountInv, KeyInv
<1>1. /\ rFail.n \in Nat /\ rFail.exp \in Nat /\ now \in Nat /\ Day \in Nat /\ Window \in Nat
      /\ rFail \in [n : Nat, exp : Nat] /\ \A f \in failures : f.at \in Nat
  BY BoundAssumption DEF TypeInv, TypeOK, RedisType, DBType
<1>2. /\ now' = now + 1 /\ failures' = failures /\ Counting' = Counting
      /\ rFail' = IF rFail.exp > now + 1 THEN rFail ELSE NoCount
  BY DEF Tick, dbVars, Counting
<1>3. PICK c \in Nat : c = Cardinality(Counting)
  BY RecentFinite
<1>4. Recent' \subseteq Recent
  BY <1>1, <1>2 DEF Recent, InWindow
<1>5. Cardinality(Recent') \in Nat /\ Cardinality(Recent') <= Cardinality(Recent)
  BY <1>4, RecentFinite, FS_Subset, FS_CardinalityType
<1>6. PICK m \in Nat, k \in Nat : m = Cardinality(Recent) /\ k = Cardinality(Recent')
  BY <1>5, RecentFinite
<1>7. k <= m /\ m <= rFail.n + c
  BY <1>3, <1>5, <1>6 DEF Backlog
<1>8. CASE rFail.n > 0 /\ ~(rFail.exp > now + 1)
  <2>1. Recent' \subseteq Later(rFail.exp)
    BY <1>1, <1>2, <1>8 DEF Recent, InWindow, Later
  <2>2. Cardinality(Recent') <= Cardinality(Later(rFail.exp))
    BY <2>1, RecentFinite, FS_Subset
  <2>3. k <= c
    BY <1>3, <1>6, <1>8, <2>2, RecentFinite DEF Backlog
  <2>4. rFail'.n = 0
    BY <1>2, <1>8 DEF NoCount
  <2> QED BY <1>2, <1>3, <1>6, <2>3, <2>4 DEF Backlog
<1>9. CASE ~(rFail.n > 0)
  <2>1. rFail'.n = 0 /\ rFail.n = 0
    BY <1>1, <1>2, <1>9 DEF NoCount
  <2> QED BY <1>2, <1>3, <1>6, <1>7, <2>1 DEF Backlog
<1>10. CASE rFail.exp > now + 1
  <2>1. rFail' = rFail /\ Later(rFail.exp)' = Later(rFail.exp)
    BY <1>2, <1>10 DEF Later
  <2> QED BY <1>1, <1>2, <1>3, <1>6, <1>7, <2>1 DEF Backlog
<1> QED BY <1>8, <1>9, <1>10

\* Only the steps of RecordFailure lead to where failures are counted.
LEMMA CountLabels ==
    ASSUME TypeInv, NEW p \in Procs, StartLogin(p) \/ RequestStep(p), ~DBError,
           ~IncrFailures(p), ~ReadCount(p), ~CountRows(p)
    PROVE  pc'[p] \notin {"count", "countDB", "countRefill"}
<1> USE DEF TypeInv, TypeOK, RequestType, Step, Locals, Finish
<1>1. CASE StartLogin(p) \/ LoginStep(p)
  BY <1>1 DEF StartLogin, LoginStep, CheckLock, VerifyPassword, ClearRows, ClearKey
<1>2. CASE GetLockStep(p)
  BY <1>2 DEF GetLockStep, ReadLongKey, ReadShortKey, ReadLockKey, QueryLock, RefillLock
<1>3. CASE CountStep(p)
  BY <1>3 DEF CountStep, WriteFailure, RefillCount, Decide
<1>4. CASE LockStep(p)
  BY <1>4 DEF LockStep, Recheck, WriteLock, RowFails, SetLock
<1> QED BY <1>1, <1>2, <1>3, <1>4 DEF RequestStep

LEMMA CounterStep ==
    ASSUME CountInv, NEW p \in Procs, StartLogin(p) \/ RequestStep(p),
           Faultless, redisUp, ~DBError
    PROVE  \A q \in Procs : CounterFound(q)'
<1> USE DEF CountInv, KeyInv
<1>1. /\ CounterFound(p) /\ Clearing(p) /\ OneMoves(p)
      /\ \A q \in Procs : CounterFound(q) /\ Clearing(q) /\ req[q].t <= now
  BY StepMovesOne DEF RowsDated
<1>2. /\ rFail \in [n : Nat, exp : Nat] /\ rFail.n \in Nat /\ rFail.exp \in Nat
      /\ now \in Nat /\ Day \in Nat /\ \A q \in Procs : req[q].t \in Nat
      /\ pc \in [Procs -> Labels]
  BY BoundAssumption DEF TypeInv, TypeOK, RedisType, RequestType, Requests
<1>3. ~CountRows(p) /\ ~RefillCount(p)
  BY <1>1 DEF CounterFound, CountRows, RefillCount, Step
<1>4. \/ rFail' = rFail
      \/ rFail'.n = rFail.n + 1 /\ rFail'.exp = now + Day
      \/ \A q \in Procs : q = p
  <2>1. CASE IncrFailures(p)
    BY <2>1 DEF IncrFailures, Incremented
  <2>2. CASE ClearKey(p)
    BY <1>1, <2>2 DEF ClearKey, Clearing, OneAtATime
  <2>3. CASE WriteFailure(p) \/ ClearRows(p)
    BY <2>3 DEF WriteFailure, ClearRows, redisVars
  <2> QED BY <1>3, <2>1, <2>2, <2>3, NothingCounted
<1>5. ASSUME NEW q \in Procs \ {p} PROVE CounterFound(q)'
  <2>1. pc'[q] = pc[q] /\ req'[q] = req[q] /\ CounterFound(q) /\ req[q].t <= now
    BY <1>1 DEF OneMoves
  <2> QED BY <1>2, <1>4, <2>1 DEF CounterFound
<1>6. CounterFound(p)'
  <2>1. CASE IncrFailures(p)
    <3>1. /\ pc'[p] = "count" /\ req'[p] = req[p]
          /\ rFail'.n = rFail.n + 1 /\ rFail'.exp = now + Day
      BY <1>2, <2>1 DEF IncrFailures, Step, Incremented
    <3> QED BY <1>1, <1>2, <3>1 DEF CounterFound
  <2>2. CASE ReadCount(p)
    <3>1. pc'[p] = "decide"
      BY <1>1, <1>2, <2>2 DEF ReadCount, CounterFound, Step
    <3> QED BY <3>1 DEF CounterFound
  <2>3. CASE ~IncrFailures(p) /\ ~ReadCount(p)
    BY <1>3, <2>3, CountLabels DEF CounterFound
  <2> QED BY <2>1, <2>2, <2>3
<1> QED BY <1>5, <1>6

-----------------------------------------------------------------------------
(* What each step does to the request. *)

SameRequest(p) ==
    /\ req'[p].pw = req[p].pw /\ req'[p].caller = req[p].caller /\ req'[p].gt = req[p].gt
    /\ req'[p].t = req[p].t /\ req'[p].cnt = req[p].cnt /\ req'[p].base = req[p].base

\* The request that is idle, or has just failed, or sees to a lock.
Fresh(p, t, cnt) ==
    /\ req'[p].pw = "wrong" /\ req'[p].caller = "login" /\ req'[p].gt = 0
    /\ req'[p].t = t /\ req'[p].cnt = cnt /\ req'[p].seen = NoLock /\ req'[p].base = 0

LEMMA OneRequest ==
    ASSUME TypeInv, NEW p \in Procs
    PROVE  /\ req[p] \in Requests /\ pc[p] \in Labels
           /\ \A r : Locals(p, r) => req'[p] = r
           /\ \A from, to : Step(p, from, to) => pc[p] = from /\ pc'[p] = to
           /\ Finish(p) => pc'[p] = "idle" /\ req'[p] = IdleReq /\ Fresh(p, 0, 0)
<1> USE DEF TypeInv, TypeOK, RequestType
<1>1. \A r : Locals(p, r) => req'[p] = r
  BY DEF Locals
<1>2. Finish(p) => pc'[p] = "idle" /\ req'[p] = IdleReq
  BY <1>1 DEF Finish
<1>3. Finish(p) => Fresh(p, 0, 0)
  BY <1>2 DEF Fresh, IdleReq
<1> QED BY <1>1, <1>2, <1>3 DEF Step

LEMMA StartFields ==
    ASSUME TypeInv, NEW p \in Procs, StartLogin(p)
    PROVE  /\ pc[p] = "idle" /\ pc'[p] = "lockLong" /\ req'[p].pw \in Passwords
           /\ req'[p].caller = "login" /\ req'[p].gt = now /\ req'[p].seen = NoLock
           /\ req'[p].cnt = 0 /\ req'[p].base = Len(locks)
<1>1. PICK pw \in Passwords :
        req'[p] = [IdleReq EXCEPT !.pw = pw, !.gt = now, !.base = Len(locks)]
  BY OneRequest DEF StartLogin
<1>2. pc[p] = "idle" /\ pc'[p] = "lockLong"
  BY OneRequest DEF StartLogin
<1> QED BY <1>1, <1>2 DEF IdleReq

LEMMA ReadKeyFields ==
    ASSUME TypeInv, NEW p \in Procs, NEW level, NEW from, NEW miss,
           ReadLockKey(p, level, from, miss)
    PROVE  /\ SameRequest(p) /\ pc[p] = from
           /\ \/ /\ redisUp /\ rLock[level] > 0 /\ pc'[p] = "checkLock"
                 /\ req'[p].seen.level = level
                 /\ req'[p].seen.exp = req[p].gt + (rLock[level] - now)
              \/ /\ ~(redisUp /\ rLock[level] > 0) /\ pc'[p] = miss
                 /\ req'[p] = req[p]
<1> DEFINE lock == [level |-> level, exp |-> req[p].gt + (rLock[level] - now)]
<1>1. req[p] \in Requests /\ pc \in [Procs -> Labels] /\ pc[p] = from
  BY OneRequest DEF ReadLockKey, TypeInv, TypeOK, RequestType
<1>2. CASE redisUp /\ rLock[level] > 0
  <2>1. pc'[p] = "checkLock" /\ req'[p] = [req[p] EXCEPT !.seen = lock]
    BY <1>1, <1>2, OneRequest DEF ReadLockKey
  <2>2. SameRequest(p) /\ req'[p].seen = lock
    BY <1>1, <2>1 DEF Requests, SameRequest
  <2> QED BY <1>1, <1>2, <2>1, <2>2
<1>3. CASE ~(redisUp /\ rLock[level] > 0)
  BY <1>1, <1>3 DEF ReadLockKey, SameRequest
<1> QED BY <1>2, <1>3

LEMMA QueryFields ==
    ASSUME TypeInv, NEW p \in Procs, QueryLock(p)
    PROVE  /\ SameRequest(p) /\ pc[p] = "lockDB"
           /\ \/ pc'[p] = "checkLock" /\ req'[p].seen = NoLock
              \/ \E i \in ActiveRows(ro.locks, req[p].gt) :
                    /\ req'[p].seen.level = ro.locks[i].level
                    /\ req'[p].seen.exp = ro.locks[i].exp
                    /\ pc'[p] = IF ro.locks[i].exp - now > 0 THEN "lockRefill" ELSE "checkLock"
<1>1. req[p] \in Requests /\ pc[p] = "lockDB"
  BY OneRequest DEF QueryLock
<1>2. CASE Step(p, "lockDB", "checkLock") /\ Locals(p, [req[p] EXCEPT !.seen = NoLock])
  <2>1. pc'[p] = "checkLock" /\ req'[p] = [req[p] EXCEPT !.seen = NoLock]
    BY <1>2, OneRequest
  <2> QED BY <1>1, <2>1 DEF Requests, SameRequest
<1>3. ASSUME NEW i \in ActiveRows(ro.locks, req[p].gt),
             LET ttl == ro.locks[i].exp - now IN
               /\ Step(p, "lockDB", IF ttl > 0 THEN "lockRefill" ELSE "checkLock")
               /\ Locals(p, [req[p] EXCEPT
                      !.seen = [level |-> ro.locks[i].level, exp |-> ro.locks[i].exp],
                      !.ttl = IF ttl > 0 THEN ttl ELSE 0])
      PROVE  /\ SameRequest(p) /\ req'[p].seen.level = ro.locks[i].level
             /\ req'[p].seen.exp = ro.locks[i].exp
             /\ pc'[p] = IF ro.locks[i].exp - now > 0 THEN "lockRefill" ELSE "checkLock"
  <2> DEFINE ttl == ro.locks[i].exp - now
             lock == [level |-> ro.locks[i].level, exp |-> ro.locks[i].exp]
             left == IF ttl > 0 THEN ttl ELSE 0
  <2>1. pc'[p] = IF ttl > 0 THEN "lockRefill" ELSE "checkLock"
    BY <1>3, OneRequest
  <2>2. req'[p] = [req[p] EXCEPT !.seen = lock, !.ttl = left]
    BY <1>3, OneRequest
  <2>3. SameRequest(p) /\ req'[p].seen = lock
    BY <1>1, <2>2 DEF Requests, SameRequest
  <2> QED BY <2>1, <2>3
<1> QED BY <1>1, <1>2, <1>3 DEF QueryLock

LEMMA RefillFields ==
    ASSUME TypeInv, NEW p \in Procs, RefillLock(p)
    PROVE  /\ SameRequest(p) /\ req'[p].seen = req[p].seen
           /\ pc[p] = "lockRefill" /\ pc'[p] = "checkLock"
<1>1. /\ req[p] \in Requests /\ req'[p] = [req[p] EXCEPT !.ttl = 0]
      /\ pc[p] = "lockRefill" /\ pc'[p] = "checkLock"
  BY OneRequest DEF RefillLock
<1> QED BY <1>1 DEF Requests, SameRequest

LEMMA CheckFields ==
    ASSUME TypeInv, NEW p \in Procs, CheckLock(p)
    PROVE  /\ pc[p] = "checkLock" /\ req[p].caller = "login"
           /\ \/ Passes(p) /\ pc'[p] = "verify" /\ SameRequest(p)
              \/ Fresh(p, 0, 0) /\ pc'[p] = "idle"
              \/ /\ Fresh(p, now, 0) /\ pc'[p] = "fail"
                 /\ LockActive(p) /\ req[p].seen.level = "short"
<1>1. req[p] \in Requests /\ pc[p] = "checkLock" /\ req[p].caller = "login"
  BY OneRequest DEF CheckLock
<1>2. CASE Passes(p) /\ Step(p, "checkLock", "verify")
           /\ Locals(p, [req[p] EXCEPT !.checked = now])
  <2>1. req'[p] = [req[p] EXCEPT !.checked = now] /\ pc'[p] = "verify"
    BY <1>2, OneRequest
  <2> QED BY <1>1, <1>2, <2>1 DEF Requests, SameRequest
<1>3. CASE Finish(p)
  BY <1>1, <1>3, OneRequest
<1>4. CASE /\ LockActive(p) /\ req[p].seen.level = "short" /\ Step(p, "checkLock", "fail")
           /\ Locals(p, [IdleReq EXCEPT !.t = now])
  <2>1. req'[p] = [IdleReq EXCEPT !.t = now] /\ pc'[p] = "fail"
    BY <1>4, OneRequest
  <2> QED BY <1>1, <1>4, <2>1 DEF IdleReq, Fresh
<1> QED BY <1>2, <1>3, <1>4 DEF CheckLock

LEMMA VerifyFields ==
    ASSUME TypeInv, NEW p \in Procs, VerifyPassword(p)
    PROVE  /\ pc[p] = "verify"
           /\ \/ Fresh(p, 0, 0) /\ pc'[p] = "idle"
              \/ Fresh(p, 0, 0) /\ pc'[p] = "clear" /\ req[p].pw = "right"
              \/ Fresh(p, now, 0) /\ pc'[p] = "fail"
<1>1. pc[p] = "verify"
  BY DEF VerifyPassword
<1>2. CASE Finish(p)
  BY <1>1, <1>2, OneRequest
<1>3. CASE req[p].pw = "right" /\ Step(p, "verify", "clear") /\ Locals(p, IdleReq)
  <2>1. req'[p] = IdleReq /\ pc'[p] = "clear"
    BY <1>3, OneRequest
  <2> QED BY <1>1, <1>3, <2>1 DEF IdleReq, Fresh
<1>4. CASE Step(p, "verify", "fail") /\ Locals(p, [IdleReq EXCEPT !.t = now])
  <2>1. req'[p] = [IdleReq EXCEPT !.t = now] /\ pc'[p] = "fail"
    BY <1>4, OneRequest
  <2> QED BY <1>1, <2>1 DEF IdleReq, Fresh
<1> QED BY <1>2, <1>3, <1>4 DEF VerifyPassword

LEMMA ReadCountFields ==
    ASSUME TypeInv, NEW p \in Procs, ReadCount(p)
    PROVE  /\ pc[p] = "count" /\ req'[p].pw = req[p].pw /\ req'[p].caller = req[p].caller
           /\ req'[p].t = req[p].t /\ req'[p].gt = req[p].gt /\ req'[p].base = req[p].base
           /\ \/ redisUp /\ rFail.n > 0 /\ pc'[p] = "decide" /\ req'[p].cnt = rFail.n
              \/ ~(redisUp /\ rFail.n > 0) /\ pc'[p] = "countDB" /\ req'[p] = req[p]
<1>1. req[p] \in Requests /\ pc[p] = "count"
  BY OneRequest DEF ReadCount
<1>2. CASE redisUp /\ rFail.n > 0
  <2>1. req'[p] = [req[p] EXCEPT !.cnt = rFail.n] /\ pc'[p] = "decide"
    BY <1>2, OneRequest DEF ReadCount
  <2> QED BY <1>1, <1>2, <2>1 DEF Requests
<1>3. CASE ~(redisUp /\ rFail.n > 0)
  BY <1>1, <1>3, OneRequest DEF ReadCount
<1> QED BY <1>2, <1>3

LEMMA CountRowsFields ==
    ASSUME TypeInv, NEW p \in Procs, CountRows(p)
    PROVE  /\ pc[p] = "countDB" /\ req'[p].pw = req[p].pw /\ req'[p].caller = req[p].caller
           /\ req'[p].t = req[p].t /\ req'[p].gt = req[p].gt /\ req'[p].base = req[p].base
           /\ \/ DBError /\ pc'[p] = "decide" /\ req'[p].cnt = 0
              \/ /\ req'[p].cnt = Counted(ro.failures, req[p].t - Window)
                 /\ pc'[p] = IF req'[p].cnt > 0 THEN "countRefill" ELSE "decide"
<1> DEFINE n == Counted(ro.failures, req[p].t - Window)
<1>1. req[p] \in Requests /\ pc[p] = "countDB"
  BY OneRequest DEF CountRows
<1>2. CASE DBError /\ Step(p, "countDB", "decide") /\ Locals(p, [req[p] EXCEPT !.cnt = 0])
  <2>1. req'[p] = [req[p] EXCEPT !.cnt = 0] /\ pc'[p] = "decide"
    BY <1>2, OneRequest
  <2> QED BY <1>1, <1>2, <2>1 DEF Requests
<1>3. CASE Step(p, "countDB", IF n > 0 THEN "countRefill" ELSE "decide")
           /\ Locals(p, [req[p] EXCEPT !.cnt = n])
  <2>1. req'[p] = [req[p] EXCEPT !.cnt = n]
    BY <1>3, OneRequest
  <2>2. pc'[p] = IF n > 0 THEN "countRefill" ELSE "decide"
    BY <1>3, OneRequest
  <2> HIDE DEF n
  <2>3. req'[p].cnt = n
    BY <1>1, <2>1 DEF Requests
  <2>4. /\ req'[p].pw = req[p].pw /\ req'[p].caller = req[p].caller
        /\ req'[p].t = req[p].t /\ req'[p].gt = req[p].gt /\ req'[p].base = req[p].base
    BY <1>1, <2>1 DEF Requests
  <2> QED BY <1>1, <2>2, <2>3, <2>4 DEF n
<1> QED BY <1>2, <1>3 DEF CountRows

LEMMA DecideFields ==
    ASSUME TypeInv, NEW p \in Procs, Decide(p)
    PROVE  /\ pc[p] = "decide"
           /\ \/ NewLevel(req[p].cnt) = "none" /\ pc'[p] = "idle" /\ Fresh(p, 0, 0)
              \/ /\ NewLevel(req[p].cnt) # "none" /\ pc'[p] = "lockLong"
                 /\ req'[p].pw = "wrong" /\ req'[p].caller = "failure" /\ req'[p].gt = now
                 /\ req'[p].t = req[p].t /\ req'[p].cnt = req[p].cnt
                 /\ req'[p].seen = NoLock /\ req'[p].base = 0
<1>1. pc[p] = "decide"
  BY DEF Decide
<1>2. CASE NewLevel(req[p].cnt) = "none" /\ Finish(p)
  BY <1>1, <1>2, OneRequest
<1>3. CASE /\ NewLevel(req[p].cnt) # "none" /\ Step(p, "decide", "lockLong")
           /\ Locals(p, [IdleReq EXCEPT !.caller = "failure", !.gt = now,
                                        !.t = req[p].t, !.cnt = req[p].cnt])
  <2>1. /\ req'[p] = [IdleReq EXCEPT !.caller = "failure", !.gt = now,
                                     !.t = req[p].t, !.cnt = req[p].cnt]
        /\ pc'[p] = "lockLong"
    BY <1>3, OneRequest
  <2> QED BY <1>1, <1>3, <2>1 DEF IdleReq
<1> QED BY <1>2, <1>3 DEF Decide

LEMMA RecheckFields ==
    ASSUME TypeInv, NEW p \in Procs, Recheck(p)
    PROVE  /\ pc[p] = "checkLock" /\ req[p].caller = "failure"
           /\ \/ SameLevel(p) /\ pc'[p] = "idle" /\ Fresh(p, 0, 0)
              \/ /\ ~SameLevel(p) /\ pc'[p] = "writeLock"
                 /\ Fresh(p, req[p].t, req[p].cnt)
<1>1. pc[p] = "checkLock" /\ req[p].caller = "failure"
  BY DEF Recheck
<1>2. CASE SameLevel(p) /\ Finish(p)
  BY <1>1, <1>2, OneRequest
<1>3. CASE /\ ~SameLevel(p) /\ Step(p, "checkLock", "writeLock")
           /\ Locals(p, [IdleReq EXCEPT !.t = req[p].t, !.cnt = req[p].cnt])
  <2>1. /\ req'[p] = [IdleReq EXCEPT !.t = req[p].t, !.cnt = req[p].cnt]
        /\ pc'[p] = "writeLock"
    BY <1>3, OneRequest
  <2> QED BY <1>1, <1>3, <2>1 DEF IdleReq, Fresh
<1> QED BY <1>2, <1>3 DEF Recheck

LEMMA WriteLockFields ==
    ASSUME TypeInv, NEW p \in Procs, WriteLock(p)
    PROVE  LET level == NewLevel(req[p].cnt)
               exp == req[p].t + Duration(level)
           IN  /\ pc[p] = "writeLock" /\ req'[p].pw = "wrong" /\ req'[p].caller = "login"
               /\ req'[p].gt = 0 /\ req'[p].base = 0
               /\ \/ DBError /\ pc'[p] = "idle"
                  \/ /\ locks' = Append(locks, [level |-> level, at |-> now, exp |-> exp])
                     /\ \/ /\ exp > now /\ pc'[p] = "setLock"
                           /\ req'[p].cnt = req[p].cnt /\ req'[p].ttl = exp - now
                        \/ exp <= now /\ pc'[p] = "idle"
<1> DEFINE level == NewLevel(req[p].cnt)
           exp == req[p].t + Duration(level)
           row == [level |-> level, at |-> now, exp |-> exp]
<1>1. pc[p] = "writeLock"
  BY DEF WriteLock
<1>2. CASE RowFails(p)
  BY <1>1, <1>2, OneRequest DEF RowFails, Fresh
<1>3. CASE locks' = Append(locks, row) /\ exp <= now /\ Finish(p)
  BY <1>1, <1>3, OneRequest DEF Fresh
<1>4. CASE /\ locks' = Append(locks, row) /\ exp > now /\ Step(p, "writeLock", "setLock")
           /\ Locals(p, [IdleReq EXCEPT !.cnt = req[p].cnt, !.ttl = exp - now])
  <2>1. /\ req'[p] = [IdleReq EXCEPT !.cnt = req[p].cnt, !.ttl = exp - now]
        /\ pc'[p] = "setLock"
    BY <1>4, OneRequest
  <2>2. /\ req'[p].pw = "wrong" /\ req'[p].caller = "login" /\ req'[p].gt = 0 /\ req'[p].base = 0
        /\ req'[p].cnt = req[p].cnt /\ req'[p].ttl = exp - now
    BY <2>1 DEF IdleReq
  <2> QED BY <1>1, <1>4, <2>1, <2>2
<1> QED BY <1>2, <1>3, <1>4 DEF WriteLock

\* The other steps keep the request's locals, or end the request.
LEMMA OtherFields ==
    ASSUME TypeInv, NEW p \in Procs
    PROVE  /\ WriteFailure(p) => /\ pc[p] = "fail" /\ req'[p] = req[p]
                                 /\ pc'[p] = "incr" \/ (DBError /\ pc'[p] = "count")
           /\ IncrFailures(p) => pc[p] = "incr" /\ pc'[p] = "count" /\ req'[p] = req[p]
           /\ RefillCount(p) => pc[p] = "countRefill" /\ pc'[p] = "decide" /\ req'[p] = req[p]
           /\ ClearRows(p) =>
                 /\ pc[p] = "clear"
                 /\ \/ DBError /\ pc'[p] = "idle" /\ Fresh(p, 0, 0)
                    \/ failures' = {} /\ pc'[p] = "clearKey" /\ req'[p] = req[p]
           /\ ClearKey(p) => pc[p] = "clearKey" /\ pc'[p] = "idle" /\ Fresh(p, 0, 0)
           /\ SetLock(p) => pc[p] = "setLock" /\ pc'[p] = "idle" /\ Fresh(p, 0, 0)
           /\ Abort(p) => pc'[p] = "idle" /\ Fresh(p, 0, 0)
BY OneRequest DEF WriteFailure, IncrFailures, RefillCount, ClearRows, ClearKey, SetLock, Abort

\* The password of a request stays what it was, or is forgotten.
LEMMA PasswordStays ==
    ASSUME TypeInv, NEW p \in Procs, StartLogin(p) \/ RequestStep(p) \/ Abort(p)
    PROVE  \/ req'[p].pw \in {req[p].pw, "wrong"}
           \/ req'[p].pw \in Passwords
<1> USE DEF SameRequest, Fresh
<1>1. CASE StartLogin(p) \/ Abort(p)
  BY <1>1, StartFields, OtherFields
<1>2. CASE GetLockStep(p)
  BY <1>2, ReadKeyFields, QueryFields, RefillFields DEF GetLockStep, ReadLongKey, ReadShortKey
<1>3. CASE LoginStep(p)
  BY <1>3, CheckFields, VerifyFields, OtherFields DEF LoginStep
<1>4. CASE CountStep(p)
  BY <1>4, OtherFields, ReadCountFields, CountRowsFields, DecideFields DEF CountStep
<1>5. CASE LockStep(p)
  BY <1>5, RecheckFields, WriteLockFields, OtherFields DEF LockStep
<1> QED BY <1>1, <1>2, <1>3, <1>4, <1>5 DEF RequestStep

LEMMA ClearLabels ==
    ASSUME TypeInv, NEW p \in Procs, StartLogin(p) \/ RequestStep(p) \/ Abort(p)
    PROVE  /\ pc'[p] = "clear" => req[p].pw = "right"
           /\ pc'[p] = "clearKey" => pc[p] = "clear" /\ failures' = {}
<1> USE DEF TypeInv, TypeOK, RequestType, Step, Locals, Finish
<1>1. CASE StartLogin(p) \/ Abort(p)
  BY <1>1 DEF StartLogin, Abort
<1>2. CASE LoginStep(p)
  BY <1>2 DEF LoginStep, CheckLock, VerifyPassword, ClearRows, ClearKey
<1>3. CASE GetLockStep(p)
  BY <1>3 DEF GetLockStep, ReadLongKey, ReadShortKey, ReadLockKey, QueryLock, RefillLock
<1>4. CASE CountStep(p)
  BY <1>4 DEF CountStep, WriteFailure, IncrFailures, ReadCount, CountRows, RefillCount, Decide
<1>5. CASE LockStep(p)
  BY <1>5 DEF LockStep, Recheck, WriteLock, RowFails, SetLock
<1> QED BY <1>1, <1>2, <1>3, <1>4, <1>5 DEF RequestStep

LEMMA ClearingStep ==
    ASSUME CountInv, OneAtATime \/ "right" \notin Passwords,
           NEW p \in Procs, StartLogin(p) \/ RequestStep(p) \/ Abort(p)
    PROVE  \A q \in Procs : Clearing(q)'
<1> USE DEF CountInv, KeyInv
<1>1. OneMoves(p) /\ Clearing(p)
  BY StepMovesOne
<1>2. ASSUME NEW q \in Procs \ {p} PROVE Clearing(q)'
  BY <1>1, <1>2 DEF OneMoves, Clearing, OneAtATime
<1>3. Clearing(p)'
  <2>1. /\ pc'[p] = "clear" => req[p].pw = "right"
        /\ pc'[p] = "clearKey" => pc[p] = "clear" /\ failures' = {}
    BY ClearLabels
  <2>2. req'[p].pw \in {req[p].pw, "wrong"} \/ req'[p].pw \in Passwords
    BY PasswordStays
  <2> QED BY <1>1, <2>1, <2>2, BoundAssumption DEF Clearing, OneAtATime
<1> QED BY <1>2, <1>3

\* What GetLock has found.
LEMMA SeenStep ==
    ASSUME CountInv, NEW p \in Procs, StartLogin(p) \/ RequestStep(p) \/ Abort(p)
    PROVE  \A q \in Procs : SeenStored(q)'
<1> USE DEF CountInv, KeyInv
<1>1. OneMoves(p) /\ SeenStored(p) /\ locks \in Seq(LockRows)
  BY StepMovesOne DEF TypeInv, TypeOK, DBType
<1>2. ASSUME NEW level, \E i \in DOMAIN locks : locks[i].level = level
      PROVE  \E i \in DOMAIN locks' : locks'[i].level = level
  <2>1. PICK i \in 1..Len(locks) : locks[i].level = level
    BY <1>1, <1>2
  <2>2. i \in DOMAIN locks' /\ locks'[i] = locks[i]
    <3>1. i \in 1..Len(locks') /\ locks'[i] = locks[i]
      BY <1>1 DEF OneMoves, RowsGrow
    <3>2. locks' \in Seq(LockRows)
      BY NextType DEF Next, TypeInv, TypeOK, DBType
    <3> QED BY <3>1, <3>2
  <2> QED BY <2>1, <2>2
<1>3. ASSUME NEW q \in Procs, pc'[q] \in GetLockLabels,
             \/ pc[q] \in GetLockLabels /\ req'[q].seen.level = req[q].seen.level
             \/ req'[q].seen = NoLock
             \/ \E i \in DOMAIN locks : locks[i].level = req'[q].seen.level
      PROVE  SeenStored(q)'
  <2>1. PICK level : level = req'[q].seen.level
    OBVIOUS
  <2>2. level = "none" \/ \E i \in DOMAIN locks : locks[i].level = level
    BY <1>3, <2>1 DEF SeenStored, NoLock
  <2> QED BY <1>2, <2>1, <2>2 DEF SeenStored
<1>4. ASSUME NEW q \in Procs \ {p} PROVE SeenStored(q)'
  BY <1>1, <1>3 DEF OneMoves, SeenStored
<1> SUFFICES SeenStored(p)'
  BY <1>4
<1>5. ASSUME NEW level \in Levels, NEW from \in GetLockLabels, NEW miss,
             ReadLockKey(p, level, from, miss)
      PROVE  SeenStored(p)'
  <2>1. rLock[level] > 0 => \E i \in DOMAIN locks : locks[i].level = level
    BY DEF LockKeyBacked
  <2> QED BY <1>3, <1>5, <2>1, ReadKeyFields DEF SeenStored
<1>6. CASE QueryLock(p)
  <2>1. \A i \in ActiveRows(ro.locks, req[p].gt) : i \in DOMAIN locks /\ ro.locks[i] = locks[i]
    <3>1. ro.locks \in Seq(LockRows) /\ Len(ro.locks) <= Len(locks)
      BY DEF TypeInv, TypeOK, DBType, ReplicaPrefix
    <3> QED BY <1>1, <3>1 DEF ActiveRows, ReplicaPrefix
  <2>2. /\ pc[p] = "lockDB"
        /\ req'[p].seen = NoLock \/ \E i \in DOMAIN locks : locks[i].level = req'[p].seen.level
    BY <1>6, <2>1, QueryFields
  <2> QED BY <1>3, <2>2 DEF SeenStored
<1>7. CASE GetLockStep(p)
  <2>1. CASE ReadLongKey(p) \/ ReadShortKey(p)
    BY <1>5, <2>1 DEF ReadLongKey, ReadShortKey, Levels, GetLockLabels
  <2>2. CASE RefillLock(p)
    BY <1>3, <2>2, RefillFields DEF GetLockLabels
  <2> QED BY <1>6, <1>7, <2>1, <2>2 DEF GetLockStep
<1>8. CASE StartLogin(p) \/ Abort(p) \/ LoginStep(p) \/ CountStep(p) \/ LockStep(p)
  <2>1. pc'[p] \notin GetLockLabels \/ req'[p].seen = NoLock
    <3>1. CASE StartLogin(p) \/ Abort(p)
      BY <3>1, StartFields, OtherFields DEF GetLockLabels
    <3>2. CASE LoginStep(p)
      BY <3>2, CheckFields, VerifyFields, OtherFields DEF LoginStep, GetLockLabels
    <3>3. CASE CountStep(p)
      BY <3>3, OtherFields, ReadCountFields, CountRowsFields, DecideFields
         DEF CountStep, GetLockLabels
    <3>4. CASE LockStep(p)
      BY <3>4, RecheckFields, WriteLockFields, OtherFields DEF LockStep, GetLockLabels
    <3> QED BY <1>8, <3>1, <3>2, <3>3, <3>4
  <2> QED BY <1>3, <2>1 DEF SeenStored
<1> QED BY <1>7, <1>8 DEF RequestStep

\* The parts of CountInv that hold whatever has gone wrong.
LEMMA DatedStep ==
    ASSUME CountInv, NEW p \in Procs, StartLogin(p) \/ RequestStep(p) \/ Abort(p)
    PROVE  /\ rFail'.n > 0 => rFail'.exp > now'
           /\ \A f \in failures' : f.at <= now'
           /\ ~HasReplica => ro' = Primary'
<1> USE DEF CountInv, KeyInv
<1>1. now' = now /\ now \in Nat /\ Day \in Nat \ {0}
  BY StepMovesOne, BoundAssumption DEF OneMoves, TypeInv, TypeOK
<1>2. SyncRO \/ UNCHANGED dbVars
  BY DEF StartLogin, RequestStep, Abort, GetLockStep, LoginStep, CountStep, LockStep,
         ReadLongKey, ReadShortKey, ReadLockKey, QueryLock, RefillLock, CheckLock,
         VerifyPassword, ClearRows, ClearKey, WriteFailure, IncrFailures, ReadCount,
         CountRows, RefillCount, Decide, Recheck, WriteLock, RowFails, SetLock, DBError
<1>3. ~HasReplica => ro' = Primary'
  BY <1>2 DEF SyncRO, dbVars, Primary
<1>4. /\ rFail' \in {rFail, NoCount, Incremented, [n |-> req[p].cnt, exp |-> now + Day]}
      /\ failures' \subseteq failures \cup {NewRow}
  <2>1. CASE StartLogin(p) \/ Abort(p) \/ LoginStep(p)
    BY <2>1 DEF StartLogin, Abort, LoginStep, CheckLock, VerifyPassword, ClearRows, ClearKey,
         dbVars, redisVars, DBError
  <2>2. CASE GetLockStep(p)
    BY <2>2 DEF GetLockStep, ReadLongKey, ReadShortKey, ReadLockKey, QueryLock, RefillLock,
         dbVars, redisVars, DBError
  <2>3. CASE CountStep(p)
    BY <2>3 DEF CountStep, WriteFailure, IncrFailures, ReadCount, CountRows, RefillCount, Decide,
         dbVars, redisVars, DBError
  <2>4. CASE LockStep(p)
    BY <2>4 DEF LockStep, Recheck, WriteLock, RowFails, SetLock, dbVars, redisVars, DBError
  <2> QED BY <2>1, <2>2, <2>3, <2>4 DEF RequestStep
<1>5. rFail'.n > 0 => rFail'.exp > now'
  BY <1>1, <1>4 DEF NoCount, Incremented
<1>6. NewRow.at = now
  BY DEF NewRow
<1> QED BY <1>1, <1>3, <1>4, <1>5, <1>6

LEMMA CountInit == ASSUME IsFiniteSet(Procs), Init PROVE CountInv
<1>1. KeyInv /\ rFail = NoCount /\ failures = {} /\ ro = Primary
  BY KeyInit DEF Init
<1>2. \A p \in Procs : Clearing(p) /\ SeenStored(p) /\ CounterFound(p)
  BY DEF Init, Clearing, SeenStored, CounterFound, IdleReq, NoLock
<1>3. Recent = {} /\ rFail.n = 0 /\ Cardinality(Counting) \in Nat
  BY <1>1, RecentFinite DEF Recent, InWindow, NoCount, KeyInv
<1>4. Backlog
  BY <1>3, FS_EmptySet DEF Backlog
<1>5. RedisStarts = {TRUE} => redisUp
  BY DEF Init
<1>6. /\ rFail.n > 0 => rFail.exp > now
      /\ \A f \in failures : f.at <= now
      /\ ~HasReplica => ro = Primary
  BY <1>1, <1>3
<1>7. \A p \in Procs : Clearing(p) /\ SeenStored(p)
  BY <1>2
<1>8. Faultless /\ redisUp => Backlog /\ \A p \in Procs : CounterFound(p)
  BY <1>2, <1>4
<1> QED BY <1>1, <1>5, <1>6, <1>7, <1>8 DEF CountInv

LEMMA CountStepKept ==
    ASSUME CountInv, IsFiniteSet(Procs), OneAtATime \/ "right" \notin Passwords,
           NEW p \in Procs, StartLogin(p) \/ RequestStep(p) \/ Abort(p), [Next]_vars
    PROVE  CountInv'
<1>1. KeyInv' /\ TypeInv /\ TypeInv'
  BY KeyNext DEF CountInv, KeyInv
<1>2. /\ rFail'.n > 0 => rFail'.exp > now'
      /\ \A f \in failures' : f.at <= now'
      /\ ~HasReplica => ro' = Primary'
  BY DatedStep
<1>3. \A q \in Procs : Clearing(q)' /\ SeenStored(q)'
  BY ClearingStep, SeenStep
<1>4. Faultless' => Faultless /\ redisUp' = redisUp /\ ~DBError /\ ~Abort(p)
  BY <1>1, CleanKept
<1>5. Faultless' /\ redisUp' => Backlog' /\ \A q \in Procs : CounterFound(q)'
  BY <1>1, <1>4, BacklogStep, CounterStep
<1> QED BY <1>1, <1>2, <1>3, <1>4, <1>5 DEF CountInv

LEMMA CountEnvironment ==
    ASSUME CountInv, IsFiniteSet(Procs), Window <= Day, CountedInADay', [Next]_vars,
           Tick \/ SwitchRedis \/ LoseKeys \/ Replicate \/ UNCHANGED vars
    PROVE  CountInv'
<1>1. KeyInv' /\ TypeInv /\ TypeInv'
  BY KeyNext DEF CountInv, KeyInv
<1>2. /\ now \in Nat /\ rFail \in [n : Nat, exp : Nat]
      /\ \A f \in failures : f.at \in Nat /\ f.at <= now
  BY <1>1 DEF TypeInv, TypeOK, RedisType, DBType, CountInv
<1>3. /\ UNCHANGED <<failures, locks, pc, req>> /\ (now' = now \/ now' = now + 1)
      /\ ro' = ro \/ ro' = Primary
  BY DEF Tick, SwitchRedis, LoseKeys, Replicate, vars, dbVars
<1>4. rFail'.n > 0 => rFail'.exp > now'
  BY <1>2 DEF CountInv, Tick, SwitchRedis, LoseKeys, Replicate, vars, redisVars, NoCount
<1>5. /\ \A f \in failures' : f.at <= now'
      /\ ~HasReplica => ro' = Primary'
  BY <1>2, <1>3 DEF CountInv, Primary
<1>6. \A q \in Procs : Clearing(q)' /\ SeenStored(q)'
  BY <1>3 DEF CountInv, Clearing, SeenStored
<1>7. Faultless' => /\ Faultless /\ redisUp' = redisUp
                /\ (Tick \/ UNCHANGED <<now, failures, rFail, pc, req>>)
  <2>1. Faultless' => Faultless /\ redisUp' = redisUp /\ ~SwitchRedis /\ ~LoseKeys
    BY <1>1, CleanKept
  <2> QED BY <2>1 DEF Replicate, vars, redisVars
<1>8. ASSUME Faultless', redisUp'
      PROVE  Backlog' /\ \A q \in Procs : CounterFound(q)'
  <2>1. Faultless /\ redisUp /\ (Tick \/ UNCHANGED <<now, failures, rFail, pc, req>>)
    BY <1>7, <1>8
  <2>2. CASE Tick
    <3>1. Backlog'
      BY <1>1, <2>1, <2>2, BacklogTick
    <3>2. ASSUME NEW q \in Procs PROVE CounterFound(q)'
      <4>1. CounterFound(q) /\ pc' = pc /\ req' = req
        BY <1>3, <2>1 DEF CountInv
      <4>2. req[q].t \in Nat /\ Day \in Nat /\ now' \in Nat
        BY <1>1, BoundAssumption DEF TypeInv, TypeOK, RequestType, Requests
      <4>3. pc[q] = "count" => now' < req[q].t + Day
        BY <4>1 DEF CountedInADay
      <4>4. pc[q] = "count" => rFail' = rFail
        BY <1>2, <2>2, <4>1, <4>2, <4>3 DEF Tick, CounterFound
      <4> QED BY <4>1, <4>4 DEF CounterFound
    <3> QED BY <3>1, <3>2
  <2>3. CASE UNCHANGED <<now, failures, rFail, pc, req>>
    BY <2>1, <2>3 DEF CountInv, Backlog, Recent, InWindow, Later, Counting, CounterFound
  <2> QED BY <2>1, <2>2, <2>3
<1> QED BY <1>1, <1>4, <1>5, <1>6, <1>7, <1>8 DEF CountInv

LEMMA CountNext ==
    ASSUME CountInv, [Next]_vars, CountedInADay', IsFiniteSet(Procs), Window <= Day,
           OneAtATime \/ "right" \notin Passwords
    PROVE  CountInv'
BY CountStepKept, CountEnvironment DEF Next, Quiet

-----------------------------------------------------------------------------
(* Enough failures lead to a lock. *)

Enough(level) == IF level = "long" THEN LongThreshold ELSE ShortThreshold

\* A lock of this level, or a higher one, was written.
Written(level) == \E i \in DOMAIN locks : level = "long" => locks[i].level = "long"

\* A request that has still to count, or has counted enough and will see to the lock.
Heading(p, level) ==
    \/ pc[p] \in {"incr", "count", "countDB"}
    \/ /\ req[p].cnt >= Enough(level)
       /\ \/ pc[p] \in {"countRefill", "decide", "writeLock"}
          \/ pc[p] \in GetLockLabels /\ req[p].caller = "failure"

Followed(level) ==
    Cardinality(Recent) >= Enough(level) =>
        Written(level) \/ \E p \in Procs : Heading(p, level)

ThresholdInv == CountInv /\ (Faultless => \A level \in Levels : Followed(level))

LEMMA EnoughType ==
    ASSUME NEW level \in Levels
    PROVE  /\ Enough(level) \in Nat \ {0}
           /\ \A c \in Nat : c >= Enough(level) =>
                 /\ NewLevel(c) \in Levels
                 /\ level = "long" => NewLevel(c) = "long"
BY PolicyAssumption DEF Enough, NewLevel, Levels

\* Only a failed login adds a failure row.
LEMMA RecentStep ==
    ASSUME TypeInv, TypeInv', IsFiniteSet(Procs), NEW p \in Procs,
           StartLogin(p) \/ RequestStep(p), ~DBError, ~WriteFailure(p)
    PROVE  /\ Recent' \subseteq Recent
           /\ Cardinality(Recent') \in Nat /\ Cardinality(Recent') <= Cardinality(Recent)
<1>1. failures' \subseteq failures
  <2>1. CASE IncrFailures(p) \/ ClearRows(p) \/ ClearKey(p) \/ RefillCount(p)
    BY <2>1 DEF IncrFailures, ClearRows, ClearKey, RefillCount, dbVars
  <2> QED BY <2>1, NothingCounted
<1>2. now' = now
  BY DEF StartLogin, RequestStep, GetLockStep, LoginStep, CountStep, LockStep,
         ReadLongKey, ReadShortKey, ReadLockKey, QueryLock, RefillLock, CheckLock,
         VerifyPassword, ClearRows, ClearKey, WriteFailure, IncrFailures, ReadCount,
         CountRows, RefillCount, Decide, Recheck, WriteLock, RowFails, SetLock
<1>3. Recent' \subseteq Recent
  BY <1>1, <1>2 DEF Recent, InWindow
<1> QED BY <1>3, RecentFinite, FS_Subset, FS_CardinalityType

\* A lock of a level stays written.
LEMMA WrittenStays ==
    ASSUME TypeInv, TypeInv', RowsGrow, NEW level, Written(level)
    PROVE  Written(level)'
<1>1. locks \in Seq(LockRows) /\ locks' \in Seq(LockRows)
  BY DEF TypeInv, TypeOK, DBType
<1>2. PICK i \in 1..Len(locks) : level = "long" => locks[i].level = "long"
  BY <1>1 DEF Written
<1>3. i \in DOMAIN locks' /\ locks'[i] = locks[i]
  <2>1. i \in 1..Len(locks') /\ locks'[i] = locks[i]
    BY <1>1 DEF RowsGrow
  <2> QED BY <1>1, <2>1
<1> QED BY <1>2, <1>3 DEF Written

\* A request that saw to a lock goes on doing so, or the lock is written.
LEMMA HeadingStep ==
    ASSUME CountInv, TypeInv', NEW p \in Procs, StartLogin(p) \/ RequestStep(p), ~DBError,
           NEW level \in Levels, Heading(p, level), ~ReadCount(p), ~CountRows(p)
    PROVE  Heading(p, level)' \/ Written(level)'
<1> USE DEF CountInv, KeyInv
<1>1. req[p].cnt \in Nat /\ req[p] \in Requests
  BY OneRequest DEF Requests
<1>2. req[p].cnt >= Enough(level) =>
        /\ NewLevel(req[p].cnt) \in Levels
        /\ level = "long" => NewLevel(req[p].cnt) = "long"
  BY <1>1, EnoughType
<1>3. CASE WriteFailure(p) \/ IncrFailures(p) \/ RefillCount(p)
  BY <1>3, OtherFields DEF Heading
<1>4. CASE Decide(p)
  BY <1>2, <1>4, DecideFields DEF Heading, GetLockLabels, Levels
<1>5. CASE GetLockStep(p)
  <2>1. CASE ReadLongKey(p)
    BY <2>1, ReadKeyFields DEF ReadLongKey, Heading, SameRequest, GetLockLabels
  <2>2. CASE ReadShortKey(p)
    BY <2>2, ReadKeyFields DEF ReadShortKey, Heading, SameRequest, GetLockLabels
  <2>3. CASE QueryLock(p)
    BY <2>3, QueryFields DEF Heading, SameRequest, GetLockLabels
  <2>4. CASE RefillLock(p)
    BY <2>4, RefillFields DEF Heading, SameRequest, GetLockLabels
  <2> QED BY <1>5, <2>1, <2>2, <2>3, <2>4 DEF GetLockStep
<1>6. CASE Recheck(p)
  <2>1. /\ pc[p] = "checkLock" /\ req[p].cnt >= Enough(level)
        /\ SameLevel(p) \/ (pc'[p] = "writeLock" /\ Fresh(p, req[p].t, req[p].cnt))
    BY <1>6, RecheckFields DEF Heading
  <2>2. ASSUME SameLevel(p) PROVE Written(level)
    <3>1. req[p].seen.level = NewLevel(req[p].cnt) /\ req[p].seen.level # "none"
      BY <1>2, <2>1, <2>2 DEF SameLevel, Levels
    <3>2. PICK i \in DOMAIN locks : locks[i].level = NewLevel(req[p].cnt)
      BY <2>1, <3>1 DEF SeenStored, GetLockLabels
    <3> QED BY <1>2, <2>1, <3>2 DEF Written
  <2>3. RowsGrow
    BY StepMovesOne DEF OneMoves
  <2> QED BY <2>1, <2>2, <2>3, WrittenStays DEF Heading, Fresh
<1>7. CASE WriteLock(p)
  <2>1. pc[p] = "writeLock" /\ req[p].cnt >= Enough(level)
    BY <1>7, WriteLockFields DEF Heading, GetLockLabels
  <2> DEFINE row == [level |-> NewLevel(req[p].cnt), at |-> now,
                     exp |-> req[p].t + Duration(NewLevel(req[p].cnt))]
  <2>2. locks' = Append(locks, row) /\ row.level = NewLevel(req[p].cnt)
    BY <1>7, WriteLockFields
  <2>3. locks \in Seq(LockRows) /\ locks' \in Seq(LockRows)
    BY DEF TypeInv, TypeOK, DBType
  <2>4. Len(locks) + 1 \in DOMAIN locks' /\ locks'[Len(locks) + 1] = row
    BY <2>2, <2>3
  <2> QED BY <1>2, <2>1, <2>2, <2>4 DEF Written
<1>8. CASE StartLogin(p) \/ LoginStep(p) \/ SetLock(p)
  <2>1. ~Heading(p, level)
    BY <1>8, StartFields, CheckFields, VerifyFields, OtherFields
       DEF LoginStep, Heading, GetLockLabels
  <2> QED BY <2>1
<1> QED BY <1>3, <1>4, <1>5, <1>6, <1>7, <1>8 DEF RequestStep, CountStep, LockStep

\* The count a request reads is enough, unless another has still to count its failure.
LEMMA EnoughRead ==
    ASSUME CountInv, IsFiniteSet(Procs), ~HasReplica \/ RedisStarts = {TRUE}, Faultless,
           NEW p \in Procs, ReadCount(p) \/ (CountRows(p) /\ ~DBError), Counting = {}
    PROVE  pc'[p] = "countDB" \/ req'[p].cnt >= Cardinality(Recent)
<1> USE DEF CountInv, KeyInv
<1>1. now \in Nat /\ req[p].t \in Nat /\ req[p].t <= now /\ Window \in Nat
  BY OneRequest, BoundAssumption DEF TypeInv, TypeOK, Requests, RowsDated
<1>2. CASE ReadCount(p)
  <2>1. ASSUME redisUp PROVE rFail.n >= Cardinality(Recent)
    <3>1. Cardinality(Counting) = 0 /\ Cardinality(Recent) <= rFail.n + Cardinality(Counting)
      BY <2>1, FS_EmptySet DEF Backlog
    <3>2. rFail.n \in Nat /\ Cardinality(Recent) \in Nat
      BY RecentFinite DEF TypeInv, TypeOK, RedisType
    <3> QED BY <3>1, <3>2
  <2> QED BY <1>2, <2>1, ReadCountFields
<1>3. CASE CountRows(p) /\ ~DBError
  <2>1. pc[p] = "countDB" /\ req'[p].cnt = Cardinality(InWindow(ro.failures, req[p].t - Window))
    BY <1>3, CountRowsFields DEF Counted
  <2>2. ro.failures = failures
    <3>1. ~redisUp
      BY <2>1 DEF CounterFound
    <3>2. ro = Primary
      BY <3>1
    <3> QED BY <3>2 DEF Primary
  <2>3. Recent \subseteq InWindow(failures, req[p].t - Window)
    <3>1. \A f \in failures : f.at \in Nat
      BY DEF TypeInv, TypeOK, DBType
    <3> QED BY <1>1, <3>1 DEF Recent, InWindow
  <2>4. IsFiniteSet(InWindow(failures, req[p].t - Window))
    <3>1. InWindow(failures, req[p].t - Window) \subseteq failures
      BY DEF InWindow
    <3> QED BY <3>1, RecentFinite, CountType
  <2>5. Cardinality(Recent) <= Cardinality(InWindow(failures, req[p].t - Window))
    BY <2>3, <2>4, FS_Subset
  <2>6. Cardinality(InWindow(failures, req[p].t - Window)) \in Nat
    BY <2>4, FS_CardinalityType
  <2> QED BY <2>1, <2>2, <2>5, <2>6, RecentFinite
<1> QED BY <1>2, <1>3

LEMMA FollowedStep ==
    ASSUME CountInv, CountInv', IsFiniteSet(Procs), ~HasReplica \/ RedisStarts = {TRUE},
           Faultless, ~DBError, NEW p \in Procs, StartLogin(p) \/ RequestStep(p),
           NEW level \in Levels, Followed(level)
    PROVE  Followed(level)'
<1> USE DEF CountInv, KeyInv
<1> SUFFICES ASSUME Cardinality(Recent') >= Enough(level), ~Written(level)'
             PROVE  \E q \in Procs : Heading(q, level)'
  BY DEF Followed, Enough
<1>1. OneMoves(p) /\ ~Written(level)
  BY StepMovesOne, WrittenStays DEF OneMoves
<1>2. \A q \in Procs \ {p} : Heading(q, level) => Heading(q, level)'
  BY <1>1 DEF OneMoves, Heading, Enough
<1>3. CASE WriteFailure(p)
  BY <1>3, OtherFields DEF Heading
<1>4. CASE ~WriteFailure(p)
  <2>1. PICK m \in Nat, k \in Nat : m = Cardinality(Recent) /\ k = Cardinality(Recent')
    BY <1>4, RecentFinite, RecentStep
  <2>2. k <= m /\ k >= Enough(level) /\ Enough(level) \in Nat
    BY <1>4, <2>1, RecentStep, EnoughType
  <2>3. PICK q \in Procs : Heading(q, level)
    BY <1>1, <2>1, <2>2 DEF Followed
  <2>4. CASE ~ReadCount(p) /\ ~CountRows(p)
    BY <1>2, <2>3, <2>4, HeadingStep
  <2>5. CASE ReadCount(p) \/ CountRows(p)
    <3>1. CASE \E other \in Procs \ {p} : pc[other] = "incr"
      BY <1>2, <3>1 DEF Heading
    <3>2. CASE ~\E other \in Procs \ {p} : pc[other] = "incr"
      <4>1. pc[p] # "incr" /\ pc'[p] \in {"countDB", "countRefill", "decide"}
        BY <2>5, ReadCountFields, CountRowsFields
      <4>2. Counting = {}
        BY <3>2, <4>1 DEF Counting
      <4>3. pc'[p] = "countDB" \/ req'[p].cnt >= Cardinality(Recent)
        BY <2>5, <4>2, EnoughRead
      <4>4. req'[p].cnt \in Nat
        BY OneRequest DEF TypeInv, TypeOK, RequestType, Requests
      <4>5. pc'[p] = "countDB" \/ req'[p].cnt >= Enough(level)
        BY <2>1, <2>2, <4>3, <4>4
      <4> QED BY <4>1, <4>5 DEF Heading, Enough
    <3> QED BY <3>1, <3>2
  <2> QED BY <2>4, <2>5
<1> QED BY <1>3, <1>4

LEMMA FollowedInit ==
    ASSUME CountInv, IsFiniteSet(Procs), Init, NEW level \in Levels PROVE Followed(level)
<1>1. Recent = {}
  BY DEF Init, Recent, InWindow
<1> QED BY <1>1, FS_EmptySet, EnoughType DEF Followed

LEMMA FollowedEnvironment ==
    ASSUME CountInv, CountInv', IsFiniteSet(Procs), NEW level \in Levels, Followed(level),
           Tick \/ Replicate \/ UNCHANGED vars
    PROVE  Followed(level)'
<1> USE DEF CountInv, KeyInv
<1>1. /\ UNCHANGED <<failures, locks, pc, req>> /\ (now' = now \/ now' = now + 1)
  BY DEF Tick, Replicate, vars, dbVars
<1>2. Recent' \subseteq Recent
  <2>1. now \in Nat /\ Window \in Nat /\ \A f \in failures : f.at \in Nat
    BY BoundAssumption DEF TypeInv, TypeOK, DBType
  <2> QED BY <1>1, <2>1 DEF Recent, InWindow
<1>3. Cardinality(Recent') <= Cardinality(Recent) /\ Cardinality(Recent') \in Nat
  BY <1>2, RecentFinite, FS_Subset, FS_CardinalityType
<1>4. PICK m \in Nat, k \in Nat : m = Cardinality(Recent) /\ k = Cardinality(Recent')
  BY <1>3, RecentFinite
<1>5. k >= Enough(level) => Written(level) \/ \E q \in Procs : Heading(q, level)
  BY <1>3, <1>4, EnoughType DEF Followed
<1>6. Written(level)' <=> Written(level)
  BY <1>1 DEF Written
<1>7. \A q \in Procs : Heading(q, level)' <=> Heading(q, level)
  BY <1>1 DEF Heading, Enough
<1> QED BY <1>4, <1>5, <1>6, <1>7 DEF Followed, Enough

LEMMA ThresholdNext ==
    ASSUME ThresholdInv, [Next]_vars, CountedInADay', IsFiniteSet(Procs), Window <= Day,
           OneAtATime \/ "right" \notin Passwords, ~HasReplica \/ RedisStarts = {TRUE}
    PROVE  ThresholdInv'
<1>1. CountInv /\ CountInv' /\ TypeInv
  BY CountNext DEF ThresholdInv, CountInv, KeyInv
<1>2. ASSUME Faultless', NEW level \in Levels PROVE Followed(level)'
  <2>1. /\ Faultless /\ ~DBError /\ ~SwitchRedis /\ ~LoseKeys
        /\ \A p \in Procs : ~Abort(p)
    BY <1>1, <1>2, CleanKept
  <2>2. Followed(level)
    BY <2>1 DEF ThresholdInv
  <2>3. CASE \E p \in Procs : StartLogin(p) \/ RequestStep(p)
    BY <1>1, <2>1, <2>2, <2>3, FollowedStep
  <2>4. CASE Tick \/ Replicate \/ UNCHANGED vars
    BY <1>1, <2>2, <2>4, FollowedEnvironment
  <2> QED BY <2>1, <2>3, <2>4 DEF Next, Quiet
<1> QED BY <1>1, <1>2 DEF ThresholdInv

LEMMA ThresholdMeans ==
    ASSUME ThresholdInv, IsFiniteSet(Procs)
    PROVE  ThresholdEnforced
<1>1. ASSUME Quiescent, Faultless, NEW level \in Levels, Cardinality(Recent) >= Enough(level)
      PROVE  Written(level)
  BY <1>1 DEF ThresholdInv, Followed, Heading, Quiescent, GetLockLabels
<1>2. Written("short") => locks # <<>>
  BY DEF Written
<1>3. Written("long") => \E i \in DOMAIN locks : locks[i].level = "long"
  BY DEF Written
<1> QED BY <1>1, <1>2, <1>3 DEF ThresholdEnforced, Faultless, Recent, Enough, Levels

\* For every number of concurrent requests and every policy whose window the 24 hours of
\* the counter cover: when no call fails and no request stops half way, a threshold's worth
\* of failures inside the window has a lock of that level written by the time the requests
\* are answered.  It is proved for wrong passwords, where no login clears the failures,
\* and for any passwords that come one login at a time.
THEOREM ThresholdsLock ==
    ASSUME IsFiniteSet(Procs), Window <= Day,
           OneAtATime \/ "right" \notin Passwords, ~HasReplica \/ RedisStarts = {TRUE}
    PROVE  Spec /\ []CountedInADay => []ThresholdEnforced
<1>1. Init => ThresholdInv
  BY CountInit, FollowedInit DEF ThresholdInv
<1>2. ThresholdInv /\ [Next]_vars /\ CountedInADay' => ThresholdInv'
  BY ThresholdNext
<1>3. ThresholdInv => ThresholdEnforced
  BY ThresholdMeans
<1> QED BY <1>1, <1>2, <1>3, PTL DEF Spec

-----------------------------------------------------------------------------
(* What a request counts. *)

LEMMA CoverStep ==
    ASSUME CountInv, Faultless, ~DBError, [Next]_vars, IsFiniteSet(Procs),
           ~HasReplica \/ RedisStarts = {TRUE}, NEW p \in Procs, ReadsCount(p), Alone(p)
    PROVE  req'[p].cnt >= Cardinality(Recent)
<1> USE DEF CountInv, KeyInv
<1>1. /\ pc[p] \in {"count", "countDB"} /\ pc'[p] \in {"countRefill", "decide"}
      /\ Counting = {}
  BY DEF ReadsCount, Alone, Counting
<1>2. ReadCount(p) \/ CountRows(p)
  <2>1. ASSUME NEW q \in Procs, StartLogin(q) \/ RequestStep(q) \/ Abort(q) PROVE q = p
    BY <1>1, <2>1, StepMovesOne DEF OneMoves
  <2>2. ~(Tick \/ SwitchRedis \/ LoseKeys \/ Replicate \/ Quiet \/ UNCHANGED vars)
    BY <1>1 DEF Tick, SwitchRedis, LoseKeys, Replicate, Quiet, vars
  <2>3. StartLogin(p) \/ RequestStep(p) \/ Abort(p)
    BY <2>1, <2>2 DEF Next
  <2>4. ~StartLogin(p) /\ ~Abort(p) /\ ~GetLockStep(p) /\ ~LoginStep(p) /\ ~LockStep(p)
    <3>1. ~StartLogin(p) /\ ~Abort(p)
      BY <1>1, StartFields, OtherFields
    <3>2. ~GetLockStep(p)
      BY <1>1, ReadKeyFields, QueryFields, RefillFields
         DEF GetLockStep, ReadLongKey, ReadShortKey
    <3>3. ~LoginStep(p)
      BY <1>1, CheckFields, VerifyFields, OtherFields DEF LoginStep
    <3>4. ~LockStep(p)
      BY <1>1, RecheckFields, WriteLockFields, OtherFields DEF LockStep
    <3> QED BY <3>1, <3>2, <3>3, <3>4
  <2>5. ~WriteFailure(p) /\ ~IncrFailures(p) /\ ~RefillCount(p) /\ ~Decide(p)
    BY <1>1, OtherFields, DecideFields
  <2> QED BY <2>3, <2>4, <2>5 DEF RequestStep, CountStep
<1> QED BY <1>1, <1>2, EnoughRead

\* For every policy whose window the 24 hours of the counter cover: as long as nothing went
\* wrong, a request that counts alone counts at least the failure rows inside the window,
\* whether the count comes from Redis or from the table.
THEOREM CountsCover ==
    ASSUME IsFiniteSet(Procs), Window <= Day, OneAtATime \/ "right" \notin Passwords,
           ~HasReplica \/ RedisStarts = {TRUE}
    PROVE  Spec /\ []CountedInADay => CountCoversRows
<1>1. Init => CountInv
  BY CountInit
<1>2. CountInv /\ [Next]_vars /\ CountedInADay' => CountInv'
  BY CountNext
<1>3. CountInv /\ [Next]_vars =>
        [ \A p \in Procs : Faultless' /\ ReadsCount(p) /\ Alone(p) =>
            req'[p].cnt >= Cardinality(InWindow(failures, now - Window + 1)) ]_vars
  BY CoverStep, CleanKept DEF CountInv, KeyInv, Recent
<1> QED BY <1>1, <1>2, <1>3, PTL DEF Spec, CountCoversRows

-----------------------------------------------------------------------------
(***************************************************************************)
(* One login after the other: no lock is written over another.             *)
(***************************************************************************)

\* Where a request has found no long key, and where it has found no short one either.
LongMissed(p) ==
    \/ pc[p] \in {"lockShort", "lockDB", "verify", "fail", "incr", "count", "countDB",
                  "countRefill", "decide", "writeLock", "setLock", "clear", "clearKey"}
    \/ pc[p] = "lockLong" /\ req[p].caller = "failure"
    \/ pc[p] = "checkLock" /\ (req[p].caller = "failure" \/ req[p].seen.level # "long")

ShortMissed(p) ==
    \/ pc[p] = "lockDB"
    \/ pc[p] = "checkLock" /\ req[p].caller = "failure" /\ req[p].seen.level # "short"
    \/ pc[p] \in {"writeLock", "setLock"} /\ NewLevel(req[p].cnt) = "short"

\* Where the time of the failure is at hand.
Dated(p) ==
    \/ pc[p] \in {"fail", "incr", "count", "countDB", "countRefill", "decide", "writeLock"}
    \/ req[p].caller = "failure"

\* What one request knows as long as no other runs: a key it missed is still missing, and
\* what its check saw was still a lock a second after the check began.
Alert(p) ==
    /\ pc[p] # "lockRefill"
    /\ LongMissed(p) => rLock["long"] = 0
    /\ ShortMissed(p) => rLock["short"] = 0
    /\ pc[p] = "checkLock" /\ req[p].seen.level # "none" => req[p].seen.exp > req[p].gt
    /\ pc[p] = "setLock" => req[p].ttl > 0
    /\ req[p].base <= Len(locks)
    /\ Dated(p) => \A i \in DOMAIN locks : locks[i].exp <= req[p].t + Duration(locks[i].level)

\* The key of a row in force lasts as long as the row, or is just being set.
Covered ==
    \A i \in DOMAIN locks : locks[i].exp > now =>
        \/ rLock[locks[i].level] >= locks[i].exp
        \/ \E p \in Procs : /\ pc[p] = "setLock" /\ NewLevel(req[p].cnt) = locks[i].level
                            /\ now + req[p].ttl >= locks[i].exp

\* At most one row of a level is in force, and no short one outlasts a long one.
OneRow ==
    \A i, j \in DOMAIN locks :
        locks[i].exp > now /\ locks[j].exp > now =>
            /\ locks[i].level = locks[j].level => i = j
            /\ locks[i].level = "long" => locks[j].exp <= locks[i].exp

SeqInv ==
    /\ KeyInv /\ redisUp
    /\ \A k \in Levels : rLock[k] > 0 => rLock[k] > now
    /\ \A p \in Procs : Alert(p)
    /\ Covered /\ OneRow

LEMMA LockRowsType ==
    ASSUME TypeInv
    PROVE  \A i \in DOMAIN locks : /\ locks[i].level \in Levels /\ locks[i].at \in Nat
                                   /\ locks[i].exp \in Nat
<1>1. ASSUME NEW i \in DOMAIN locks
      PROVE  locks[i].level \in Levels /\ locks[i].at \in Nat /\ locks[i].exp \in Nat
  <2>1. locks \in Seq(LockRows)
    BY DEF TypeInv, TypeOK, DBType
  <2>2. locks[i] \in LockRows
    BY <2>1
  <2> QED BY <2>2 DEF LockRows
<1> QED BY <1>1

\* What a row in force says of its key.
LEMMA NoneInForce ==
    ASSUME SeqInv, NEW k \in Levels, rLock[k] = 0, \A p \in Procs : pc[p] # "setLock"
    PROVE  \A i \in DOMAIN locks : locks[i].level = k => locks[i].exp <= now
<1>1. \A i \in DOMAIN locks : locks[i].exp \in Nat /\ locks[i].level \in Levels
  BY LockRowsType DEF SeqInv, KeyInv
<1>2. now \in Nat
  BY DEF SeqInv, KeyInv, TypeInv, TypeOK
<1> QED BY <1>1, <1>2 DEF SeqInv, Covered

\* A lock key misses only where there is none, and a hit sees a lock that lives.
LEMMA ReadKeySeq ==
    ASSUME SeqInv, NEW p \in Procs, NEW level \in Levels, NEW from, NEW miss,
           ReadLockKey(p, level, from, miss)
    PROVE  /\ SameRequest(p) /\ pc[p] = from
           /\ \/ /\ rLock[level] > 0 /\ pc'[p] = "checkLock"
                 /\ req'[p].seen.level = level /\ req'[p].seen.exp > req[p].gt
              \/ rLock[level] = 0 /\ pc'[p] = miss
<1> USE DEF SeqInv, KeyInv
<1>1. req[p].gt \in Nat /\ now \in Nat /\ rLock[level] \in Nat
  BY OneRequest DEF TypeInv, TypeOK, Requests, RedisType
<1>2. rLock[level] > 0 => rLock[level] > now
  OBVIOUS
<1> QED BY <1>1, <1>2, ReadKeyFields

\* With both keys missed the table shows at most a lock that is just over.
LEMMA QuerySeq ==
    ASSUME SeqInv, OneAtATime, NEW p \in Procs, QueryLock(p)
    PROVE  /\ SameRequest(p) /\ pc[p] = "lockDB" /\ pc'[p] = "checkLock"
           /\ req'[p].seen.level # "none" => req'[p].seen.exp > req[p].gt
<1> USE DEF SeqInv, KeyInv
<1>1. pc[p] = "lockDB" /\ rLock["long"] = 0 /\ rLock["short"] = 0
  BY QueryFields DEF Alert, LongMissed, ShortMissed
<1>2. \A k \in Levels, i \in DOMAIN locks : locks[i].level = k => locks[i].exp <= now
  BY <1>1, NoneInForce DEF OneAtATime, Levels
<1>3. now \in Nat /\ locks \in Seq(LockRows) /\ ro.locks \in Seq(LockRows)
  BY DEF TypeInv, TypeOK, DBType
<1>4. ASSUME NEW i \in ActiveRows(ro.locks, req[p].gt)
      PROVE  ~(ro.locks[i].exp - now > 0) /\ ro.locks[i].exp > req[p].gt
  <2>1. i \in DOMAIN locks /\ ro.locks[i] = locks[i]
    BY <1>3 DEF ActiveRows, ReplicaPrefix
  <2>2. locks[i].exp \in Nat /\ locks[i].level \in Levels
    BY <2>1, LockRowsType
  <2>3. locks[i].exp <= now
    BY <1>2, <2>1, <2>2
  <2> QED BY <1>3, <2>1, <2>2, <2>3 DEF ActiveRows
<1> QED BY <1>1, <1>4, QueryFields DEF NoLock

\* A lock check that ends in time takes no lock for one that is over.
LEMMA CheckSeq ==
    ASSUME SeqInv, ChecksPrompt, NEW p \in Procs, pc[p] = "checkLock"
    PROVE  req[p].seen.level # "none" => LockActive(p)
<1>1. now \in Nat /\ req[p].gt \in Nat /\ req[p].seen.exp \in Int /\ now <= req[p].gt + 1
  BY OneRequest DEF SeqInv, KeyInv, TypeInv, TypeOK, Requests, ChecksPrompt, GetLockLabels
<1> QED BY <1>1 DEF SeqInv, Alert, LockActive

\* Every row in force lasts from now at most the policy's duration.
LEMMA RowsLast ==
    ASSUME SeqInv
    PROVE  \A i \in DOMAIN locks : locks[i].exp <= now + Duration(locks[i].level)
<1>1. ASSUME NEW i \in DOMAIN locks
      PROVE  locks[i].exp \in Nat /\ locks[i].at \in Nat /\ locks[i].level \in Levels
  BY LockRowsType DEF SeqInv, KeyInv
<1>2. ASSUME NEW i \in DOMAIN locks PROVE locks[i].exp <= now + Duration(locks[i].level)
  <2>1. PICK d \in Nat : d = Duration(locks[i].level)
    BY DurationType
  <2>2. locks[i].at <= now /\ locks[i].exp <= locks[i].at + d /\ now \in Nat
    BY <2>1 DEF SeqInv, KeyInv, RowsDated, TypeInv, TypeOK
  <2>3. locks[i].exp <= now + d
    BY <1>1, <2>2
  <2> QED BY <2>1, <2>3
<1> QED BY <1>2

-----------------------------------------------------------------------------
(* What the request knows, step by step. *)

\* Where the locks and their keys stay as they are, only the request's own place counts.
LEMMA AlertMoves ==
    ASSUME SeqInv, NEW p \in Procs, UNCHANGED <<locks, rLock>>, now' = now,
           pc'[p] \notin {"lockRefill", "setLock"},
           LongMissed(p)' => rLock["long"] = 0, ShortMissed(p)' => rLock["short"] = 0,
           pc'[p] = "checkLock" /\ req'[p].seen.level # "none"
               => req'[p].seen.exp > req'[p].gt,
           req'[p].base \in {req[p].base, 0, Len(locks)},
           Dated(p)' => (Dated(p) /\ req'[p].t = req[p].t) \/ req'[p].t = now
    PROVE  Alert(p)'
<1>1. locks \in Seq(LockRows) /\ Len(locks) \in Nat
  BY DEF SeqInv, KeyInv, TypeInv, TypeOK, DBType
<1>2. req'[p].base <= Len(locks)
  BY <1>1 DEF SeqInv, Alert
<1>3. Dated(p)' => \A i \in DOMAIN locks :
                     locks[i].exp <= req'[p].t + Duration(locks[i].level)
  BY RowsLast DEF SeqInv, Alert
<1> QED BY <1>2, <1>3 DEF Alert, Duration

LEMMA AlertGetLock ==
    ASSUME SeqInv, OneAtATime, NEW p \in Procs, GetLockStep(p)
    PROVE  Alert(p)'
<1> USE DEF SeqInv, KeyInv
<1>1. ~RefillLock(p)
  BY RefillFields DEF Alert
<1>2. UNCHANGED <<locks, rLock>> /\ now' = now
  BY <1>1 DEF GetLockStep, ReadLongKey, ReadShortKey, ReadLockKey, QueryLock, dbVars, redisVars,
     DBError
<1>3. Alert(p) /\ (Dated(p)' => Dated(p)) /\ SameRequest(p)
  <2>1. SameRequest(p) /\ pc'[p] \in GetLockLabels
    BY <1>1, ReadKeyFields, QueryFields
       DEF GetLockStep, ReadLongKey, ReadShortKey, GetLockLabels
  <2> QED BY <2>1 DEF SameRequest, Dated, GetLockLabels
<1>4. CASE ReadLongKey(p)
  <2>1. /\ pc[p] = "lockLong"
        /\ \/ rLock["long"] > 0 /\ pc'[p] = "checkLock"
              /\ req'[p].seen.level = "long" /\ req'[p].seen.exp > req[p].gt
           \/ rLock["long"] = 0 /\ pc'[p] = "lockShort"
    BY <1>4, ReadKeySeq DEF ReadLongKey, Levels
  <2>2. req[p].caller = "failure" => rLock["long"] = 0
    BY <1>3, <2>1 DEF Alert, LongMissed
  <2>3. /\ pc'[p] \notin {"lockRefill", "setLock"}
        /\ LongMissed(p)' => rLock["long"] = 0
        /\ ~ShortMissed(p)'
        /\ pc'[p] = "checkLock" /\ req'[p].seen.level # "none"
               => req'[p].seen.exp > req'[p].gt
    BY <1>3, <2>1, <2>2 DEF SameRequest, LongMissed, ShortMissed
  <2> QED BY <1>2, <1>3, <2>3, AlertMoves DEF SameRequest
<1>5. CASE ReadShortKey(p)
  <2>1. /\ pc[p] = "lockShort"
        /\ \/ rLock["short"] > 0 /\ pc'[p] = "checkLock"
              /\ req'[p].seen.level = "short" /\ req'[p].seen.exp > req[p].gt
           \/ rLock["short"] = 0 /\ pc'[p] = "lockDB"
    BY <1>5, ReadKeySeq DEF ReadShortKey, Levels
  <2>2. rLock["long"] = 0
    BY <1>3, <2>1 DEF Alert, LongMissed
  <2>3. /\ pc'[p] \notin {"lockRefill", "setLock"}
        /\ ShortMissed(p)' => rLock["short"] = 0
        /\ pc'[p] = "checkLock" /\ req'[p].seen.level # "none"
               => req'[p].seen.exp > req'[p].gt
    BY <1>3, <2>1 DEF SameRequest, ShortMissed
  <2> QED BY <1>2, <1>3, <2>2, <2>3, AlertMoves DEF SameRequest
<1>6. CASE QueryLock(p)
  <2>1. /\ pc[p] = "lockDB" /\ pc'[p] = "checkLock"
        /\ req'[p].seen.level # "none" => req'[p].seen.exp > req'[p].gt
    BY <1>3, <1>6, QuerySeq DEF SameRequest
  <2>2. rLock["long"] = 0 /\ rLock["short"] = 0
    BY <1>3, <2>1 DEF Alert, LongMissed, ShortMissed
  <2> QED BY <1>2, <1>3, <2>1, <2>2, AlertMoves DEF SameRequest
<1> QED BY <1>1, <1>4, <1>5, <1>6 DEF GetLockStep

LEMMA AlertLogin ==
    ASSUME SeqInv, ChecksPrompt, NEW p \in Procs, StartLogin(p) \/ LoginStep(p)
    PROVE  Alert(p)'
<1> USE DEF SeqInv, KeyInv
<1>1. UNCHANGED <<locks, rLock>> /\ now' = now
  BY DEF StartLogin, LoginStep, CheckLock, VerifyPassword, ClearRows, ClearKey, dbVars, redisVars,
     DBError
<1>2. CASE StartLogin(p)
  <2>1. /\ pc'[p] = "lockLong" /\ req'[p].caller = "login" /\ req'[p].base = Len(locks)
        /\ req'[p].seen.level = "none"
    BY <1>2, StartFields DEF NoLock
  <2> QED BY <1>1, <2>1, AlertMoves DEF LongMissed, ShortMissed, Dated
<1>3. ASSUME Fresh(p, 0, 0), pc'[p] = "idle" PROVE Alert(p)'
  BY <1>1, <1>3, AlertMoves DEF Fresh, LongMissed, ShortMissed, Dated
<1>4. ASSUME Fresh(p, now, 0), pc'[p] = "fail", rLock["long"] = 0 PROVE Alert(p)'
  BY <1>1, <1>4, AlertMoves DEF Fresh, LongMissed, ShortMissed, Dated
<1>5. CASE CheckLock(p)
  <2>1. pc[p] = "checkLock" /\ req[p].caller = "login"
    BY <1>5, CheckFields
  <2>2. Passes(p) \/ req[p].seen.level = "short" => rLock["long"] = 0
    BY <2>1, CheckSeq DEF Passes, Alert, LongMissed
  <2>3. ASSUME Passes(p), pc'[p] = "verify", SameRequest(p) PROVE Alert(p)'
    BY <1>1, <2>1, <2>2, <2>3, AlertMoves DEF SameRequest, LongMissed, ShortMissed, Dated
  <2> QED BY <1>3, <1>4, <1>5, <2>2, <2>3, CheckFields
<1>6. CASE VerifyPassword(p)
  <2>1. pc[p] = "verify" /\ rLock["long"] = 0
    BY <1>6, VerifyFields DEF Alert, LongMissed
  <2>2. ASSUME Fresh(p, 0, 0), pc'[p] = "clear" PROVE Alert(p)'
    BY <1>1, <2>1, <2>2, AlertMoves DEF Fresh, LongMissed, ShortMissed, Dated
  <2> QED BY <1>3, <1>4, <1>6, <2>1, <2>2, VerifyFields
<1>7. CASE ClearRows(p)
  <2>1. pc[p] = "clear" /\ rLock["long"] = 0
    BY <1>7, OtherFields DEF Alert, LongMissed
  <2>2. ASSUME pc'[p] = "clearKey", req'[p] = req[p] PROVE Alert(p)'
    BY <1>1, <2>1, <2>2, AlertMoves DEF LongMissed, ShortMissed, Dated
  <2> QED BY <1>3, <1>7, <2>2, OtherFields
<1>8. CASE ClearKey(p)
  BY <1>3, <1>8, OtherFields
<1> QED BY <1>2, <1>5, <1>6, <1>7, <1>8 DEF LoginStep

LEMMA AlertCount ==
    ASSUME SeqInv, NEW p \in Procs, CountStep(p)
    PROVE  Alert(p)'
<1> USE DEF SeqInv, KeyInv
<1>1. UNCHANGED <<locks, rLock>> /\ now' = now
  BY DEF CountStep, WriteFailure, IncrFailures, ReadCount, CountRows, RefillCount, Decide,
     dbVars, redisVars, DBError
<1>2. /\ pc[p] \in {"fail", "incr", "count", "countDB", "countRefill", "decide"}
      /\ \/ Fresh(p, 0, 0) /\ pc'[p] = "idle"
         \/ /\ pc'[p] \in {"incr", "count", "countDB", "countRefill", "decide"}
            /\ req'[p].t = req[p].t /\ req'[p].base = req[p].base
         \/ /\ pc'[p] = "lockLong" /\ req'[p].t = req[p].t /\ req'[p].base = 0
  <2>1. CASE ReadCount(p) \/ CountRows(p)
    BY <2>1, ReadCountFields, CountRowsFields
  <2>2. CASE Decide(p)
    BY <2>2, DecideFields
  <2>3. CASE WriteFailure(p) \/ IncrFailures(p) \/ RefillCount(p)
    BY <2>3, OtherFields
  <2> QED BY <2>1, <2>2, <2>3 DEF CountStep
<1>3. rLock["long"] = 0 /\ Dated(p)
  BY <1>2 DEF Alert, LongMissed, Dated
<1>4. CASE Fresh(p, 0, 0) /\ pc'[p] = "idle"
  BY <1>1, <1>4, AlertMoves DEF Fresh, LongMissed, ShortMissed, Dated
<1>5. CASE pc'[p] \in {"incr", "count", "countDB", "countRefill", "decide", "lockLong"}
  <2>1. ~ShortMissed(p)' /\ req'[p].base \in {req[p].base, 0, Len(locks)} /\ req'[p].t = req[p].t
    BY <1>2, <1>5 DEF ShortMissed
  <2> QED BY <1>1, <1>3, <1>5, <2>1, AlertMoves
<1> QED BY <1>2, <1>4, <1>5

LEMMA AlertLock ==
    ASSUME SeqInv, ChecksPrompt, NEW p \in Procs, Recheck(p) \/ SetLock(p)
    PROVE  Alert(p)'
<1> USE DEF SeqInv, KeyInv
<1>1. CASE Recheck(p)
  <2>1. UNCHANGED <<locks, rLock>> /\ now' = now
    BY <1>1 DEF Recheck, dbVars, redisVars
  <2>2. pc[p] = "checkLock" /\ req[p].caller = "failure" /\ rLock["long"] = 0 /\ Dated(p)
    BY <1>1, RecheckFields DEF Alert, LongMissed, Dated
  <2>3. CASE SameLevel(p) /\ pc'[p] = "idle" /\ Fresh(p, 0, 0)
    BY <2>1, <2>3, AlertMoves DEF Fresh, LongMissed, ShortMissed, Dated
  <2>4. CASE ~SameLevel(p) /\ pc'[p] = "writeLock" /\ Fresh(p, req[p].t, req[p].cnt)
    <3>1. NewLevel(req[p].cnt) = "short" => req[p].seen.level # "short"
      BY <2>2, <2>4, CheckSeq DEF SameLevel
    <3>2. NewLevel(req[p].cnt) = "short" => rLock["short"] = 0
      BY <2>2, <3>1 DEF Alert, ShortMissed
    <3>3. req'[p].cnt = req[p].cnt /\ req'[p].t = req[p].t /\ req'[p].base = 0
      BY <2>4 DEF Fresh
    <3>4. ShortMissed(p)' => NewLevel(req[p].cnt) = "short"
      BY <2>4, <3>3 DEF ShortMissed, NewLevel
    <3> QED BY <2>1, <2>2, <2>4, <3>2, <3>3, <3>4, AlertMoves
  <2> QED BY <1>1, <2>3, <2>4, RecheckFields
<1>2. CASE SetLock(p)
  <2>1. pc'[p] = "idle" /\ Fresh(p, 0, 0) /\ locks' = locks
    BY <1>2, OtherFields DEF SetLock, dbVars
  <2>2. locks \in Seq(LockRows)
    BY DEF TypeInv, TypeOK, DBType
  <2> QED BY <2>1, <2>2 DEF Fresh, Alert, LongMissed, ShortMissed, Dated
<1> QED BY <1>1, <1>2

-----------------------------------------------------------------------------
(* The rows and their keys, step by step. *)

RowsKept == Covered /\ OneRow /\ \A k \in Levels : rLock[k] > 0 => rLock[k] > now

\* While one request runs, a step that writes no lock leaves the rows covered.
LEMMA RowsSame ==
    ASSUME SeqInv, OneAtATime, NEW p \in Procs, UNCHANGED <<locks, rLock>>, now' = now,
           pc[p] # "setLock"
    PROVE  RowsKept'
<1>1. \A q \in Procs : pc[q] # "setLock"
  BY DEF OneAtATime
<1>2. Covered'
  BY <1>1 DEF SeqInv, Covered
<1>3. OneRow'
  BY DEF SeqInv, OneRow
<1> QED BY <1>2, <1>3 DEF SeqInv, RowsKept

\* RecordLock writes its row when none of its level, and no long one, is in force.
LEMMA WriteLockSeq ==
    ASSUME SeqInv, OneAtATime, NEW p \in Procs, WriteLock(p), ~RowFails(p)
    PROVE  LET level == NewLevel(req[p].cnt)
               exp == req[p].t + Duration(level)
           IN  /\ level \in Levels /\ exp \in Nat /\ exp <= now + Duration(level)
               /\ locks' = Append(locks, [level |-> level, at |-> now, exp |-> exp])
               /\ \A i \in DOMAIN locks :
                     /\ locks[i].level \in {"long", level} => locks[i].exp <= now
                     /\ level = "long" /\ locks[i].exp > now => locks[i].exp < exp
               /\ \/ exp <= now /\ pc'[p] = "idle"
                  \/ /\ exp > now /\ pc'[p] = "setLock" /\ req'[p].ttl = exp - now
                     /\ req'[p].cnt = req[p].cnt
<1> DEFINE level == NewLevel(req[p].cnt)
           exp == req[p].t + Duration(level)
<1> USE DEF SeqInv, KeyInv
<1>1. pc[p] = "writeLock"
  BY DEF WriteLock
<1>2. /\ level \in Levels
      /\ locks' = Append(locks, [level |-> level, at |-> now, exp |-> exp])
  BY NewLockRow
<1>3. req[p].t \in Nat /\ now \in Nat /\ req[p].t <= now /\ Duration(level) \in Nat
  BY OneRequest, DurationType DEF TypeInv, TypeOK, Requests, RowsDated
<1>4. rLock["long"] = 0 /\ rLock[level] = 0
  BY <1>1, <1>2 DEF Alert, LongMissed, ShortMissed, Levels
<1>5. \A q \in Procs : pc[q] # "setLock"
  BY <1>1 DEF OneAtATime
<1>6. \A i \in DOMAIN locks : locks[i].level \in {"long", level} => locks[i].exp <= now
  BY <1>2, <1>4, <1>5, NoneInForce DEF Levels
<1>7. ASSUME level = "long", NEW i \in DOMAIN locks, locks[i].exp > now
      PROVE  locks[i].exp < exp
  <2>1. locks[i].exp <= req[p].t + Duration(locks[i].level)
    BY <1>1 DEF Alert, Dated
  <2>2. locks[i].level \in Levels /\ locks[i].exp \in Nat
    BY LockRowsType
  <2>3. CASE locks[i].level = "short"
    BY <1>3, <1>7, <2>1, <2>2, <2>3, PolicyAssumption DEF Duration
  <2>4. CASE locks[i].level = "long"
    BY <1>3, <1>6, <1>7, <2>2, <2>4
  <2> QED BY <2>2, <2>3, <2>4 DEF Levels
<1>8. \/ exp <= now /\ pc'[p] = "idle"
      \/ /\ exp > now /\ pc'[p] = "setLock" /\ req'[p].ttl = exp - now
         /\ req'[p].cnt = req[p].cnt
  <2>1. locks \in Seq(LockRows) /\ Len(locks') = Len(locks) + 1
    BY <1>2 DEF TypeInv, TypeOK, DBType
  <2>2. ~DBError
    BY <2>1 DEF DBError, dbVars
  <2> QED BY <2>2, WriteLockFields
<1> QED BY <1>2, <1>3, <1>6, <1>7, <1>8

LEMMA RowsWriteLock ==
    ASSUME SeqInv, OneAtATime, NEW p \in Procs, WriteLock(p)
    PROVE  RowsKept' /\ Alert(p)'
<1> USE DEF SeqInv, KeyInv
<1>1. pc[p] = "writeLock" /\ rLock["long"] = 0 /\ rLock' = rLock /\ now' = now
  BY DEF WriteLock, Alert, LongMissed, redisVars
<1>2. locks \in Seq(LockRows) /\ Len(locks) \in Nat /\ now \in Nat /\ rLock \in [Levels -> Nat]
  BY DEF TypeInv, TypeOK, DBType, RedisType
<1>3. CASE RowFails(p)
  <2>1. pc'[p] = "idle" /\ Fresh(p, 0, 0) /\ locks' = locks
    BY <1>3, OneRequest DEF RowFails, DBError, dbVars
  <2>2. Alert(p)'
    BY <1>1, <2>1, AlertMoves DEF Fresh, LongMissed, ShortMissed, Dated
  <2> QED BY <1>1, <2>1, <2>2, RowsSame
<1>4. CASE ~RowFails(p)
  <2> DEFINE level == NewLevel(req[p].cnt)
             exp == req[p].t + Duration(level)
             row == [level |-> level, at |-> now, exp |-> exp]
             new == Len(locks) + 1
  <2>1. /\ level \in Levels /\ exp \in Nat /\ locks' = Append(locks, row)
        /\ \A i \in DOMAIN locks :
              /\ locks[i].level \in {"long", level} => locks[i].exp <= now
              /\ level = "long" /\ locks[i].exp > now => locks[i].exp < exp
        /\ \/ exp <= now /\ pc'[p] = "idle"
           \/ /\ exp > now /\ pc'[p] = "setLock" /\ req'[p].ttl = exp - now
              /\ req'[p].cnt = req[p].cnt
    BY <1>4, WriteLockSeq
  <2>2. /\ DOMAIN locks' = DOMAIN locks \cup {new} /\ new \notin DOMAIN locks
        /\ \A i \in DOMAIN locks : locks'[i] = locks[i]
        /\ locks'[new].level = level /\ locks'[new].exp = exp
        /\ Len(locks') \in Nat /\ Len(locks') > Len(locks)
    <3>1. DOMAIN locks = 1..Len(locks) /\ Len(locks') = new /\ DOMAIN locks' = 1..new
      BY <1>2, <2>1
    <3>2. locks'[new] = row /\ \A i \in 1..Len(locks) : locks'[i] = locks[i]
      BY <1>2, <2>1
    <3> QED BY <1>2, <3>1, <3>2
  <2> HIDE DEF level, exp, new
  <2>3. \A i \in DOMAIN locks : locks[i].exp \in Nat /\ locks[i].level \in Levels
    BY LockRowsType
  <2>4. Covered'
    <3>1. ASSUME NEW i \in DOMAIN locks, locks[i].exp > now
          PROVE  rLock[locks[i].level] >= locks[i].exp
      BY <1>1, <3>1 DEF Covered, OneAtATime
    <3>2. exp > now => pc'[p] = "setLock" /\ req'[p].ttl = exp - now
                       /\ NewLevel(req'[p].cnt) = level
      BY <1>2, <2>1 DEF level
    <3>3. exp > now => /\ pc'[p] = "setLock" /\ NewLevel(req[p].cnt)' = level
                       /\ now' + req'[p].ttl >= exp
      BY <1>1, <1>2, <2>1, <3>2 DEF NewLevel
    <3> QED BY <1>1, <2>2, <3>1, <3>3 DEF Covered
  <2>5. OneRow'
    <3>1. ASSUME NEW i \in DOMAIN locks', NEW j \in DOMAIN locks',
                 locks'[i].exp > now, locks'[j].exp > now
          PROVE  /\ locks'[i].level = locks'[j].level => i = j
                 /\ locks'[i].level = "long" => locks'[j].exp <= locks'[i].exp
      <4>1. CASE i \in DOMAIN locks /\ j \in DOMAIN locks
        BY <2>2, <3>1, <4>1 DEF OneRow
      <4>2. CASE i = new /\ j \in DOMAIN locks
        BY <1>2, <2>1, <2>2, <2>3, <3>1, <4>2
      <4>3. CASE i \in DOMAIN locks /\ j = new
        BY <1>2, <2>1, <2>2, <2>3, <3>1, <4>3
      <4>4. CASE i = new /\ j = new
        BY <2>1, <2>2, <4>4
      <4> QED BY <2>2, <4>1, <4>2, <4>3, <4>4
    <3> QED BY <1>1, <3>1 DEF OneRow
  <2>6. Alert(p)'
    <3>1. req'[p].base = 0 /\ req'[p].caller = "login"
      BY <1>4, WriteLockFields
    <3>2. ShortMissed(p)' => NewLevel(req[p].cnt) = "short"
      BY <2>1 DEF ShortMissed, NewLevel
    <3>3. ShortMissed(p)' => rLock["short"] = 0
      BY <1>1, <3>2 DEF Alert, ShortMissed
    <3>4. pc'[p] = "setLock" => req'[p].ttl > 0
      BY <1>2, <2>1
    <3>5. pc'[p] \in {"idle", "setLock"}
      BY <2>1
    <3>6. ~Dated(p)' /\ req'[p].base <= Len(locks')
      BY <1>2, <2>2, <3>1, <3>5 DEF Dated
    <3> QED BY <1>1, <3>3, <3>4, <3>5, <3>6 DEF Alert
  <2>7. \A k \in Levels : rLock'[k] > 0 => rLock'[k] > now'
    BY <1>1
  <2> QED BY <2>4, <2>5, <2>6, <2>7 DEF RowsKept
<1> QED BY <1>3, <1>4

LEMMA RowsSetLock ==
    ASSUME SeqInv, OneAtATime, NEW p \in Procs, SetLock(p)
    PROVE  RowsKept'
<1> USE DEF SeqInv, KeyInv
<1> DEFINE level == NewLevel(req[p].cnt)
<1>1. /\ pc[p] = "setLock" /\ level \in Levels /\ req[p].ttl \in Nat /\ req[p].ttl > 0
      /\ now \in Nat /\ rLock \in [Levels -> Nat]
  BY OneRequest DEF SetLock, Alert, TypeInv, TypeOK, Escalates, Requests, RedisType
<1>2. LockKey(level) = level /\ rLock[level] = 0
  BY <1>1 DEF LockKey, Levels, Alert, LongMissed, ShortMissed
<1>3. rLock' = [rLock EXCEPT ![level] = now + req[p].ttl] /\ now' = now /\ locks' = locks
  BY <1>2 DEF SetLock, SetNX, dbVars
<1> HIDE DEF level
<1>4. \A k \in Levels : rLock'[k] > 0 => rLock'[k] > now'
  BY <1>1, <1>3
<1>5. Covered'
  <2>1. ASSUME NEW i \in DOMAIN locks, locks[i].exp > now
        PROVE  rLock'[locks[i].level] >= locks[i].exp
    <3>1. locks[i].level \in Levels /\ locks[i].exp \in Nat
      BY LockRowsType
    <3>2. \/ rLock[locks[i].level] >= locks[i].exp
          \/ level = locks[i].level /\ now + req[p].ttl >= locks[i].exp
      BY <2>1 DEF Covered, OneAtATime, level
    <3> QED BY <1>1, <1>2, <1>3, <2>1, <3>1, <3>2
  <2> QED BY <1>3, <2>1 DEF Covered
<1>6. OneRow'
  BY <1>3 DEF OneRow
<1> QED BY <1>4, <1>5, <1>6 DEF RowsKept

\* As time passes rows and keys run out, the rows first.
LEMMA SeqTick ==
    ASSUME SeqInv, Tick
    PROVE  RowsKept' /\ \A p \in Procs : Alert(p)'
<1> USE DEF SeqInv, KeyInv
<1>1. /\ now' = now + 1 /\ UNCHANGED <<locks, pc, req>> /\ now \in Nat
      /\ rLock \in [Levels -> Nat]
      /\ rLock' = [k \in Levels |-> IF rLock[k] > now + 1 THEN rLock[k] ELSE 0]
  BY DEF Tick, dbVars, TypeInv, TypeOK, RedisType
<1>2. \A i \in DOMAIN locks : locks[i].exp \in Nat /\ locks[i].level \in Levels
  BY LockRowsType
<1>3. Covered'
  <2>1. ASSUME NEW i \in DOMAIN locks, locks[i].exp > now + 1
        PROVE  \/ rLock'[locks[i].level] >= locks[i].exp
               \/ \E p \in Procs : /\ pc[p] = "setLock"
                                   /\ NewLevel(req[p].cnt) = locks[i].level
                                   /\ now + 1 + req[p].ttl >= locks[i].exp
    <3>1. locks[i].exp > now
      BY <1>1, <1>2, <2>1
    <3>2. CASE rLock[locks[i].level] >= locks[i].exp
      BY <1>1, <1>2, <2>1, <3>2
    <3>3. ASSUME NEW p \in Procs, pc[p] = "setLock", NewLevel(req[p].cnt) = locks[i].level,
                 now + req[p].ttl >= locks[i].exp
          PROVE  now + 1 + req[p].ttl >= locks[i].exp
      <4>1. req[p].ttl \in Nat
        BY OneRequest DEF Requests
      <4> QED BY <1>1, <1>2, <3>3, <4>1
    <3> QED BY <3>1, <3>2, <3>3 DEF Covered
  <2> QED BY <1>1, <2>1 DEF Covered, NewLevel
<1>4. OneRow'
  <2>1. \A i \in DOMAIN locks : locks[i].exp > now + 1 => locks[i].exp > now
    BY <1>1, <1>2
  <2> QED BY <1>1, <2>1 DEF OneRow
<1>5. \A k \in Levels : rLock'[k] > 0 => rLock'[k] > now'
  BY <1>1
<1>6. ASSUME NEW p \in Procs PROVE Alert(p)'
  <2>1. \A k \in Levels : rLock[k] = 0 => rLock'[k] = 0
    BY <1>1
  <2>2. /\ LongMissed(p)' <=> LongMissed(p)
        /\ ShortMissed(p)' <=> ShortMissed(p)
        /\ Dated(p)' <=> Dated(p)
    BY <1>1 DEF LongMissed, ShortMissed, Dated, NewLevel
  <2> QED BY <1>1, <2>1, <2>2 DEF Alert, Levels, Duration
<1> QED BY <1>3, <1>4, <1>5, <1>6 DEF RowsKept

LEMMA SeqInit == ASSUME Init, RedisStarts = {TRUE} PROVE SeqInv
<1>1. KeyInv /\ redisUp /\ locks = <<>> /\ \A k \in Levels : rLock[k] = 0
  BY KeyInit DEF Init
<1>2. \A p \in Procs : Alert(p)
  BY <1>1 DEF Init, Alert, LongMissed, ShortMissed, Dated, IdleReq
<1>3. Covered /\ OneRow
  BY <1>1 DEF Covered, OneRow
<1> QED BY <1>1, <1>2, <1>3 DEF SeqInv

LEMMA SeqNext ==
    ASSUME SeqInv, ChecksPrompt, [Next]_vars, OneAtATime, MaxFlips = 0, MaxAborts = 0
    PROVE  SeqInv'
<1>1. KeyInv' /\ TypeInv
  BY KeyNext DEF SeqInv, KeyInv
<1>2. ~Flip /\ \A p \in Procs : ~Abort(p)
  BY <1>1 DEF Flip, Abort, TypeInv, TypeOK, UsedType
<1>3. redisUp'
  BY <1>2 DEF SeqInv, Next, StartLogin, RequestStep, GetLockStep, LoginStep, CountStep, LockStep,
       ReadLongKey, ReadShortKey, ReadLockKey, QueryLock, RefillLock, CheckLock,
       VerifyPassword, ClearRows, ClearKey, WriteFailure, IncrFailures, ReadCount,
       CountRows, RefillCount, Decide, Recheck, WriteLock, SetLock, redisVars,
       Tick, SwitchRedis, LoseKeys, Replicate, Quiet, vars
<1>4. ASSUME NEW p \in Procs, StartLogin(p) \/ RequestStep(p)
      PROVE  RowsKept' /\ Alert(p)'
  <2>1. CASE WriteLock(p)
    BY <2>1, RowsWriteLock
  <2>2. CASE SetLock(p)
    BY <2>2, RowsSetLock, AlertLock
  <2>3. CASE ~WriteLock(p) /\ ~SetLock(p)
    <3>1. Alert(p)'
      BY <1>4, <2>3, AlertGetLock, AlertLogin, AlertCount, AlertLock DEF RequestStep, LockStep
    <3>2. ~RefillLock(p)
      BY <1>1, RefillFields DEF SeqInv, Alert
    <3>3. UNCHANGED <<locks, rLock>> /\ now' = now
      BY <1>4, <2>3, <3>2 DEF StartLogin, RequestStep, GetLockStep, LoginStep, CountStep,
           LockStep, ReadLongKey, ReadShortKey, ReadLockKey, QueryLock, CheckLock,
           VerifyPassword, ClearRows, ClearKey, WriteFailure, IncrFailures, ReadCount,
           CountRows, RefillCount, Decide, Recheck, dbVars, redisVars, DBError
    <3>4. pc[p] # "setLock"
      <4>1. ~(StartLogin(p) /\ pc[p] = "setLock") /\ ~(GetLockStep(p) /\ pc[p] = "setLock")
        BY <1>1, StartFields DEF GetLockStep, ReadLongKey, ReadShortKey, ReadLockKey,
           QueryLock, RefillLock, Step
      <4>2. ~(LoginStep(p) /\ pc[p] = "setLock")
        BY DEF LoginStep, CheckLock, VerifyPassword, ClearRows, ClearKey
      <4>3. ~(CountStep(p) /\ pc[p] = "setLock") /\ ~(Recheck(p) /\ pc[p] = "setLock")
        BY DEF CountStep, WriteFailure, IncrFailures, ReadCount, CountRows, RefillCount,
           Decide, Step, Recheck
      <4> QED BY <1>4, <2>3, <4>1, <4>2, <4>3 DEF RequestStep, LockStep
    <3> QED BY <3>1, <3>3, <3>4, RowsSame
  <2> QED BY <2>1, <2>2, <2>3
<1>5. CASE \E p \in Procs : StartLogin(p) \/ RequestStep(p)
  <2>1. RowsKept' /\ \A p \in Procs : Alert(p)'
    BY <1>4, <1>5 DEF OneAtATime
  <2> QED BY <1>1, <1>3, <2>1 DEF SeqInv, RowsKept
<1>6. CASE Tick
  BY <1>1, <1>3, <1>6, SeqTick DEF SeqInv, RowsKept
<1>7. CASE Replicate \/ UNCHANGED vars
  <2>1. UNCHANGED <<now, locks, rLock, pc, req>>
    BY <1>7 DEF Replicate, vars, redisVars
  <2>2. Covered' /\ OneRow' /\ \A k \in Levels : rLock'[k] > 0 => rLock'[k] > now'
    BY <2>1 DEF SeqInv, Covered, OneRow, NewLevel
  <2>3. ASSUME NEW p \in Procs PROVE Alert(p)'
    BY <2>1 DEF SeqInv, Alert, LongMissed, ShortMissed, Dated, NewLevel, Duration
  <2> QED BY <1>1, <1>3, <2>2, <2>3 DEF SeqInv
<1> QED BY <1>2, <1>5, <1>6, <1>7 DEF Next, SwitchRedis, LoseKeys, Quiet

LEMMA PromptInit == Init => ChecksPrompt
BY DEF Init, ChecksPrompt, GetLockLabels

\* A request's own steps keep its lock check prompt: GetLock begins now, or goes on.
LEMMA PromptStep ==
    ASSUME TypeInv, ChecksPrompt, NEW p \in Procs,
           StartLogin(p) \/ RequestStep(p) \/ Abort(p)
    PROVE  ChecksPrompt'
<1>1. now' = now /\ now \in Nat /\ \A q \in Procs \ {p} : pc'[q] = pc[q] /\ req'[q] = req[q]
  BY StepMovesOne DEF OneMoves, TypeInv, TypeOK
<1>2. ASSUME pc'[p] \in GetLockLabels PROVE now <= req'[p].gt + 1
  <2>1. CASE StartLogin(p)
    BY <1>1, <2>1, StartFields
  <2>2. CASE Abort(p)
    BY <1>2, <2>2, OtherFields DEF GetLockLabels
  <2>3. CASE GetLockStep(p)
    <3>1. req'[p].gt = req[p].gt /\ pc[p] \in GetLockLabels
      BY <2>3, ReadKeyFields, QueryFields, RefillFields
         DEF GetLockStep, ReadLongKey, ReadShortKey, SameRequest, GetLockLabels
    <3> QED BY <3>1 DEF ChecksPrompt
  <2>4. CASE LoginStep(p)
    BY <1>2, <2>4, CheckFields, VerifyFields, OtherFields DEF LoginStep, GetLockLabels
  <2>5. CASE CountStep(p)
    <3>1. Decide(p)
      BY <1>2, <2>5, OtherFields, ReadCountFields, CountRowsFields DEF CountStep, GetLockLabels
    <3>2. req'[p].gt = now
      BY <1>2, <3>1, DecideFields DEF GetLockLabels
    <3> QED BY <1>1, <3>2
  <2>6. CASE LockStep(p)
    BY <1>2, <2>6, RecheckFields, WriteLockFields, OtherFields DEF LockStep, GetLockLabels
  <2> QED BY <2>1, <2>2, <2>3, <2>4, <2>5, <2>6 DEF RequestStep
<1>3. ASSUME NEW q \in Procs, pc'[q] \in GetLockLabels PROVE now' <= req'[q].gt + 1
  BY <1>1, <1>2, <1>3 DEF ChecksPrompt
<1> QED BY <1>3 DEF ChecksPrompt

LEMMA PromptIsNext == [PromptNext]_vars => [Next]_vars
BY DEF PromptNext, PromptTick, Next

LEMMA PromptKept ==
    ASSUME SeqInv, ChecksPrompt, [PromptNext]_vars,
           OneAtATime, MaxFlips = 0, MaxAborts = 0
    PROVE  SeqInv' /\ ChecksPrompt'
<1>1. [Next]_vars
  BY PromptIsNext
<1>2. CASE \E p \in Procs : StartLogin(p) \/ RequestStep(p) \/ Abort(p)
  <2>1. TypeInv
    BY DEF SeqInv, KeyInv
  <2> QED BY <1>1, <1>2, <2>1, PromptStep, SeqNext
<1>3. CASE PromptTick
  BY <1>1, <1>3, SeqNext DEF PromptTick
<1>4. CASE SwitchRedis \/ LoseKeys \/ Replicate \/ UNCHANGED vars
  <2>1. UNCHANGED <<now, pc, req>>
    BY <1>4 DEF SwitchRedis, LoseKeys, Replicate, vars
  <2>2. ChecksPrompt'
    BY <2>1 DEF ChecksPrompt
  <2> QED BY <1>1, <2>2, SeqNext
<1> QED BY <1>2, <1>3, <1>4 DEF PromptNext, Quiet

LEMMA LongFirstHolds == ASSUME SeqInv, OneAtATime PROVE LongFirst
<1> SUFFICES ASSUME NEW p \in Procs, pc[p] = "checkLock", req[p].seen.level = "short",
                    NEW i \in 1..req[p].base, locks[i].level = "long"
             PROVE  locks[i].exp <= now
  BY DEF LongFirst
<1>1. rLock["long"] = 0 /\ req[p].base <= Len(locks) /\ \A q \in Procs : pc[q] # "setLock"
  BY DEF SeqInv, Alert, LongMissed, OneAtATime
<1>2. i \in DOMAIN locks
  <2>1. locks \in Seq(LockRows) /\ Len(locks) \in Nat /\ req[p].base \in Nat
    BY OneRequest DEF SeqInv, KeyInv, TypeInv, TypeOK, DBType, Requests
  <2> QED BY <1>1, <2>1
<1> QED BY <1>1, <1>2, NoneInForce DEF Levels

\* For every policy, and through any failed query: where logins come one after the other,
\* Redis stays up and a lock check ends in time, the check reports a long lock in force
\* rather than a short one, for the long key is looked at first and is always there.
THEOREM LongBeforeShort ==
    ASSUME OneAtATime, RedisStarts = {TRUE}, MaxFlips = 0, MaxAborts = 0
    PROVE  PromptSpec => []LongFirst
<1>1. Init => SeqInv /\ ChecksPrompt
  BY SeqInit, PromptInit
<1>2. SeqInv /\ ChecksPrompt /\ [PromptNext]_vars => SeqInv' /\ ChecksPrompt'
  BY PromptKept
<1>3. SeqInv => LongFirst
  BY LongFirstHolds
<1> QED BY <1>1, <1>2, <1>3, PTL DEF PromptSpec

-----------------------------------------------------------------------------
(* The rows implement AccountLock. *)

\* The lock the rows amount to, and when it ends: each level has at most one row in force.
Standing(level, until) ==
    \/ level = "open" /\ until = 0 /\ InForce("long") = {} /\ InForce("short") = {}
    \/ level = "short" /\ InForce("long") = {} /\ InForce("short") = {until}
    \/ level = "long" /\ InForce("long") = {until}

LEMMA StandingMeans ==
    ASSUME NEW level, NEW until \in Nat
    PROVE  /\ Standing(level, until) => LockedAs = level /\ LockedUntil = until
           /\ Standing(level, until)' => LockedAs' = level /\ LockedUntil' = until
<1>1. ASSUME NEW S, S = {until}
      PROVE  S # {} /\ until = CHOOSE exp \in S : \A e \in S : e <= exp
  BY <1>1
<1>2. Standing(level, until) => LockedAs = level /\ LockedUntil = until
  <2>1. Standing(level, until) => LockedAs = level
    BY <1>1 DEF Standing, LockedAs
  <2>2. Standing(level, until) /\ level # "open" => InForce(level) = {until}
    BY DEF Standing
  <2>3. Standing(level, until) /\ level = "open" => LockedUntil = 0 /\ until = 0
    BY <2>1 DEF Standing, LockedUntil
  <2> QED BY <1>1, <2>1, <2>2, <2>3 DEF LockedUntil
<1>3. Standing(level, until)' => LockedAs' = level /\ LockedUntil' = until
  <2>1. Standing(level, until)' => LockedAs' = level
    BY <1>1 DEF Standing, LockedAs
  <2>2. Standing(level, until)' /\ level # "open" => InForce(level)' = {until}
    BY DEF Standing, InForce
  <2>3. Standing(level, until)' /\ level = "open" => LockedUntil' = 0 /\ until = 0
    BY <2>1 DEF Standing, LockedUntil
  <2> QED BY <1>1, <2>1, <2>2, <2>3 DEF LockedUntil
<1> QED BY <1>2, <1>3

LEMMA OneInForce ==
    ASSUME SeqInv, NEW i \in DOMAIN locks, locks[i].exp > now
    PROVE  InForce(locks[i].level) = {locks[i].exp}
BY DEF SeqInv, OneRow, InForce

LEMMA SomeStanding ==
    ASSUME SeqInv
    PROVE  \E level \in Levels \cup {"open"}, until \in Nat :
              /\ Standing(level, until)
              /\ level # "open" => until > now /\ \E i \in DOMAIN locks :
                    locks[i].level = level /\ locks[i].exp = until
<1>1. \A i \in DOMAIN locks : locks[i].exp \in Nat
  BY LockRowsType DEF SeqInv, KeyInv
<1>2. CASE \E i \in DOMAIN locks : locks[i].exp > now /\ locks[i].level = "long"
  <2>1. PICK i \in DOMAIN locks : locks[i].exp > now /\ locks[i].level = "long"
    BY <1>2
  <2>2. Standing("long", locks[i].exp)
    BY <2>1, OneInForce DEF Standing
  <2> QED BY <1>1, <2>1, <2>2 DEF Levels
<1>3. CASE /\ ~\E i \in DOMAIN locks : locks[i].exp > now /\ locks[i].level = "long"
           /\ \E i \in DOMAIN locks : locks[i].exp > now /\ locks[i].level = "short"
  <2>1. PICK i \in DOMAIN locks : locks[i].exp > now /\ locks[i].level = "short"
    BY <1>3
  <2>2. InForce("long") = {}
    BY <1>3 DEF InForce
  <2>3. InForce("short") = {locks[i].exp}
    BY <2>1, OneInForce
  <2>4. Standing("short", locks[i].exp)
    BY <2>2, <2>3 DEF Standing
  <2> QED BY <1>1, <2>1, <2>4 DEF Levels
<1>4. CASE /\ ~\E i \in DOMAIN locks : locks[i].exp > now /\ locks[i].level = "long"
           /\ ~\E i \in DOMAIN locks : locks[i].exp > now /\ locks[i].level = "short"
  <2>1. InForce("long") = {} /\ InForce("short") = {}
    BY <1>4 DEF InForce
  <2> QED BY <2>1 DEF Standing
<1> QED BY <1>2, <1>3, <1>4

LEMMA PromiseInit == ASSUME Init PROVE Account!Init
<1>1. now = 0 /\ locks = <<>>
  BY DEF Init
<1>2. InForce("long") = {} /\ InForce("short") = {} /\ Effective = {}
  BY <1>1 DEF InForce, Effective
<1>3. LockedAs = "open" /\ LockedUntil = 0
  BY <1>2, StandingMeans DEF Standing
<1> QED BY <1>1, <1>2, <1>3, FS_EmptySet DEF Account!Init

\* Steps that write no row, and take no time, change nothing of the promise.
LEMMA PromiseSame ==
    ASSUME locks' = locks, now' = now
    PROVE  UNCHANGED Account!vars
<1>1. \A level : InForce(level)' = InForce(level)
  BY DEF InForce
<1>2. LockedAs' = LockedAs /\ LockedUntil' = LockedUntil /\ Effective' = Effective
  BY <1>1 DEF LockedAs, LockedUntil, Effective, InForce
<1> QED BY <1>2 DEF Account!vars

\* A row of a level that is not in force, nor a long one, is a lock or over already.
LEMMA PromiseRow ==
    ASSUME SeqInv, NEW level \in Levels, NEW exp \in Nat, exp <= now + Duration(level),
           locks' = Append(locks, [level |-> level, at |-> now, exp |-> exp]), now' = now,
           \A i \in DOMAIN locks :
              /\ locks[i].level \in {"long", level} => locks[i].exp <= now
              /\ level = "long" /\ locks[i].exp > now => locks[i].exp < exp
    PROVE  [Account!Next]_(Account!vars)
<1> DEFINE row == [level |-> level, at |-> now, exp |-> exp]
           new == Len(locks) + 1
<1>1. /\ locks' = Append(locks, row) /\ level \in Levels
      /\ \A i \in DOMAIN locks :
            /\ locks[i].level \in {"long", level} => locks[i].exp <= now
            /\ level = "long" /\ locks[i].exp > now => locks[i].exp < exp
  OBVIOUS
<1>2. /\ now' = now /\ now \in Nat /\ locks \in Seq(LockRows) /\ Duration(level) \in Nat
  BY DurationType DEF SeqInv, KeyInv, TypeInv, TypeOK, DBType
<1>3. /\ DOMAIN locks' = DOMAIN locks \cup {new} /\ new \notin DOMAIN locks
      /\ \A i \in DOMAIN locks : locks'[i] = locks[i]
      /\ locks'[new].level = level /\ locks'[new].at = now /\ locks'[new].exp = exp
      /\ DOMAIN locks = 1..Len(locks) /\ Len(locks) \in Nat
  <2>1. DOMAIN locks = 1..Len(locks) /\ Len(locks') = new /\ DOMAIN locks' = 1..new
    BY <1>1, <1>2
  <2>2. locks'[new] = row /\ \A i \in 1..Len(locks) : locks'[i] = locks[i]
    BY <1>1, <1>2
  <2> QED BY <1>2, <2>1, <2>2
<1>4. Effective \subseteq 1..Len(locks) /\ IsFiniteSet(Effective)
  <2>1. Effective \subseteq 1..Len(locks)
    BY <1>3 DEF Effective
  <2>2. IsFiniteSet(1..Len(locks))
    BY <1>3, FS_Interval
  <2> QED BY <2>1, <2>2, FS_Subset
<1> HIDE DEF new
<1>5. \A i \in DOMAIN locks : locks[i].exp \in Nat /\ locks[i].level \in Levels
  BY LockRowsType DEF SeqInv, KeyInv
<1>6. InForce("long") = {}
  BY <1>1, <1>2, <1>5 DEF InForce
<1>7. CASE exp <= now
  <2>1. Effective' = Effective
    BY <1>1, <1>2, <1>3, <1>7 DEF Effective
  <2>2. \A k \in Levels : InForce(k)' = InForce(k)
    BY <1>1, <1>2, <1>3, <1>7 DEF InForce
  <2>3. LockedAs' = LockedAs /\ LockedUntil' = LockedUntil
    <3>1. PICK old \in Levels \cup {"open"}, until \in Nat : Standing(old, until)
      BY SomeStanding
    <3>2. Standing(old, until)'
      BY <2>2, <3>1 DEF Standing, Levels
    <3> QED BY <3>1, <3>2, StandingMeans
  <2> QED BY <1>2, <2>1, <2>3 DEF Account!vars
<1>8. CASE exp > now
  <2>1. Cardinality(Effective)' = Cardinality(Effective) + 1
    <3>1. Effective' = Effective \cup {new} /\ new \notin Effective
      BY <1>2, <1>3, <1>8 DEF Effective
    <3> QED BY <1>4, <3>1, FS_AddElement
  <2>2. InForce(level)' = {exp} /\ (level = "short" => InForce("long")' = {})
    <3>1. InForce(level) = {}
      BY <1>1, <1>2, <1>5 DEF InForce
    <3>2. InForce(level)' = InForce(level) \cup {exp}
      BY <1>2, <1>3, <1>8 DEF InForce
    <3>3. level = "short" => InForce("long")' = InForce("long")
      BY <1>2, <1>3, <1>8 DEF InForce
    <3> QED BY <1>6, <3>1, <3>2, <3>3
  <2>3. LockedAs' = level /\ LockedUntil' = exp
    <3>1. Standing(level, exp)'
      BY <1>1, <2>2 DEF Standing, Levels, InForce
    <3> QED BY <1>1, <3>1, StandingMeans
  <2>4. \/ LockedAs = "open" /\ LockedUntil = 0
        \/ LockedAs = "short" /\ level = "long" /\ LockedUntil < exp
    <3>1. PICK old \in Levels \cup {"open"}, until \in Nat :
              /\ Standing(old, until)
              /\ old # "open" => until > now /\ \E i \in DOMAIN locks :
                    locks[i].level = old /\ locks[i].exp = until
      BY SomeStanding
    <3>2. LockedAs = old /\ LockedUntil = until
      BY <3>1, StandingMeans
    <3>3. CASE old = "open"
      BY <3>1, <3>2, <3>3 DEF Standing
    <3>4. CASE old # "open"
      <4>1. PICK i \in DOMAIN locks : locks[i].level = old /\ locks[i].exp = until
        BY <3>1, <3>4
      <4>2. until > now
        BY <3>1, <3>4
      <4>3. old = "short" /\ level = "long" /\ until < exp
        BY <1>1, <1>2, <3>1, <3>4, <4>1, <4>2 DEF Levels
      <4> QED BY <3>2, <4>3
    <3> QED BY <3>3, <3>4
  <2>5. Account!Lock(level)
    <3>1. Account!Rank(level) > Account!Rank(LockedAs)
      BY <1>1, <2>4 DEF Levels, Account!Rank
    <3>2. Account!Duration(level) = Duration(level)
      BY DEF Account!Duration, Duration
    <3>3. exp \in (now + 1)..(now + Duration(level)) /\ exp > LockedUntil
      BY <1>1, <1>2, <1>8, <2>4
    <3> QED BY <1>2, <2>1, <2>3, <3>1, <3>2, <3>3 DEF Account!Lock
  <2> QED BY <1>1, <2>5 DEF Account!Next, Levels
<1> QED BY <1>1, <1>2, <1>7, <1>8

LEMMA PromiseWrite ==
    ASSUME SeqInv, OneAtATime, NEW p \in Procs, WriteLock(p), ~RowFails(p)
    PROVE  [Account!Next]_(Account!vars)
<1> DEFINE to == NewLevel(req[p].cnt)
           end == req[p].t + Duration(to)
<1>1. /\ to \in Levels /\ end \in Nat /\ end <= now + Duration(to)
      /\ locks' = Append(locks, [level |-> to, at |-> now, exp |-> end])
      /\ \A i \in DOMAIN locks :
            /\ locks[i].level \in {"long", to} => locks[i].exp <= now
            /\ to = "long" /\ locks[i].exp > now => locks[i].exp < end
  BY WriteLockSeq
<1> HIDE DEF to, end
<1>2. PICK level \in Levels, exp \in Nat : level = to /\ exp = end
  BY <1>1
<1>3. now' = now
  BY DEF WriteLock
<1> QED BY <1>1, <1>2, <1>3, PromiseRow

LEMMA PromiseTick ==
    ASSUME SeqInv, Tick
    PROVE  Account!Pass
<1>1. now' = now + 1 /\ locks' = locks /\ now \in Nat
  BY DEF Tick, dbVars, SeqInv, KeyInv, TypeInv, TypeOK
<1>2. \A i \in DOMAIN locks : locks[i].exp \in Nat
  BY LockRowsType DEF SeqInv, KeyInv
<1>3. PICK level \in Levels \cup {"open"}, until \in Nat :
          /\ Standing(level, until)
          /\ level # "open" => until > now /\ \E i \in DOMAIN locks :
                locks[i].level = level /\ locks[i].exp = until
  BY SomeStanding
<1>4. LockedAs = level /\ LockedUntil = until
  BY <1>3, StandingMeans
<1>5. \A k : InForce(k)' = {e \in InForce(k) : e > now + 1}
  BY <1>1, <1>2 DEF InForce
<1>6. Effective' = Effective
  BY <1>1 DEF Effective
<1>7. CASE until > now + 1
  <2>1. level # "open"
    BY <1>1, <1>3, <1>7 DEF Standing
  <2>2. InForce(level)' = {until} /\ (level = "short" => InForce("long")' = {})
    BY <1>3, <1>5, <1>7, <2>1 DEF Standing
  <2>3. Standing(level, until)'
    BY <1>3, <2>1, <2>2 DEF Standing, InForce, Levels
  <2>4. LockedAs' = level /\ LockedUntil' = until
    BY <2>3, StandingMeans
  <2> QED BY <1>1, <1>4, <1>6, <1>7, <2>4 DEF Account!Pass
<1>8. CASE ~(until > now + 1)
  <2>1. \A e \in InForce("long") \cup InForce("short") : ~(e > now + 1)
    <3>1. CASE level # "long"
      BY <1>1, <1>3, <1>8, <3>1 DEF Standing
    <3>2. CASE level = "long"
      <4>1. PICK i \in DOMAIN locks : locks[i].level = "long" /\ locks[i].exp = until
        BY <1>3, <3>2
      <4>2. until > now
        BY <1>3, <3>2
      <4>3. ASSUME NEW j \in DOMAIN locks, locks[j].exp > now PROVE locks[j].exp <= until
        BY <4>1, <4>2, <4>3 DEF SeqInv, OneRow
      <4> QED BY <1>1, <1>2, <1>8, <4>3 DEF InForce
    <3> QED BY <3>1, <3>2
  <2>2. InForce("long")' = {} /\ InForce("short")' = {}
    BY <1>5, <2>1
  <2>3. Standing("open", 0)'
    BY <2>2 DEF Standing, InForce
  <2>4. LockedAs' = "open" /\ LockedUntil' = 0
    BY <2>3, StandingMeans
  <2> QED BY <1>1, <1>4, <1>6, <1>8, <2>4 DEF Account!Pass
<1> QED BY <1>7, <1>8

LEMMA PromiseNext ==
    ASSUME SeqInv, [Next]_vars, OneAtATime
    PROVE  [Account!Next]_(Account!vars)
<1>1. CASE Tick
  BY <1>1, PromiseTick DEF Account!Next
<1>2. CASE \E p \in Procs : WriteLock(p) /\ ~RowFails(p)
  BY <1>2, PromiseWrite
<1>3. CASE ~Tick /\ ~\E p \in Procs : WriteLock(p) /\ ~RowFails(p)
  <2>1. locks' = locks /\ now' = now
    BY <1>3 DEF Next, StartLogin, RequestStep, Abort, GetLockStep, LoginStep, CountStep, LockStep,
       ReadLongKey, ReadShortKey, ReadLockKey, QueryLock, RefillLock, CheckLock,
       VerifyPassword, ClearRows, ClearKey, WriteFailure, IncrFailures, ReadCount,
       CountRows, RefillCount, Decide, Recheck, WriteLock, RowFails, SetLock, DBError,
       SwitchRedis, LoseKeys, Replicate, Quiet, vars, dbVars, redisVars
  <2> QED BY <2>1, PromiseSame
<1> QED BY <1>1, <1>2, <1>3

\* For every policy, and through any failed query: where logins come one after the other,
\* Redis stays up and a lock check ends in time, every step of the service is a step of
\* AccountLock.  An account that is locked stays locked until its time is over, and is
\* never locked again at the same or a lower level before that.
THEOREM PromiseKept ==
    ASSUME OneAtATime, RedisStarts = {TRUE}, MaxFlips = 0, MaxAborts = 0
    PROVE  PromptSpec => LockPromised
<1>1. Init => SeqInv /\ ChecksPrompt /\ Account!Init
  BY SeqInit, PromptInit, PromiseInit
<1>2. SeqInv /\ ChecksPrompt /\ [PromptNext]_vars => SeqInv' /\ ChecksPrompt'
  BY PromptKept
<1>3. SeqInv /\ [PromptNext]_vars => [Account!Next]_(Account!vars)
  BY PromptIsNext, PromiseNext
<1> QED BY <1>1, <1>2, <1>3, PTL DEF PromptSpec, LockPromised, Account!Spec
=============================================================================
