----------------------------- MODULE Directory -----------------------------
(***************************************************************************)
(* What the accounts promise, apart from how they are kept: a login name   *)
(* is given once and for ever, its owner may leave, and nobody is told to  *)
(* have got a name that somebody else was told to have got.                *)
(***************************************************************************)
CONSTANT Names

VARIABLES given,    \* names that somebody has, or had
          members,  \* names of the users there are
          welcomed  \* names that somebody was told to have got

vars == <<given, members, welcomed>>

Init == given = {} /\ members = {} /\ welcomed = {}

\* The new user may not learn of it.
Join(name) ==
    /\ name \notin given
    /\ given' = given \cup {name} /\ members' = members \cup {name}
    /\ welcomed' \in {welcomed, welcomed \cup {name}}

Leave(name) ==
    /\ name \in members /\ members' = members \ {name}
    /\ UNCHANGED <<given, welcomed>>

Next == \E name \in Names : Join(name) \/ Leave(name)

Spec == Init /\ [][Next]_vars
=============================================================================
