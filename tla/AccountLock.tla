---------------------------- MODULE AccountLock ----------------------------
(***************************************************************************)
(* What the lock of one account promises where its requests come one after *)
(* the other: the account is locked for a time, a short lock may become a  *)
(* long one, and a lock in force is neither shortened nor written anew.    *)
(***************************************************************************)
EXTENDS Integers

CONSTANTS ShortDuration, LongDuration

VARIABLES now,
          level,  \* the lock in force
          until,  \* and when it ends
          times   \* how often the account was locked

vars == <<now, level, until, times>>

Rank(l) == CASE l = "open" -> 0 [] l = "short" -> 1 [] l = "long" -> 2
Duration(l) == IF l = "long" THEN LongDuration ELSE ShortDuration

Init == now = 0 /\ level = "open" /\ until = 0 /\ times = 0

\* A lock counts from the failure that caused it, which may lie in the past.
Lock(l) ==
    /\ Rank(l) > Rank(level)
    /\ level' = l /\ until' \in (now + 1)..(now + Duration(l)) /\ until' > until
    /\ times' = times + 1 /\ UNCHANGED now

Pass ==
    /\ now' = now + 1
    /\ IF until > now' THEN UNCHANGED <<level, until>> ELSE level' = "open" /\ until' = 0
    /\ UNCHANGED times

Next == Pass \/ \E l \in {"short", "long"} : Lock(l)

Spec == Init /\ [][Next]_vars
=============================================================================
