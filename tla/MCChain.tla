------------------------------ MODULE MCChain ------------------------------
(* Chain for TLC, and the password rule for every password up to its abstraction. *)
EXTENDS Chain, Passwords

Pwds == [bytes : (PwdMinLen - 1)..(PwdMaxLen + 1), has : SUBSET Kinds]

ASSUME PasswordRule == \A pwd \in Pwds : FixingHelps(pwd) /\ AllKindsNeeded(pwd)
=============================================================================
