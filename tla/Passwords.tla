----------------------------- MODULE Passwords -----------------------------
(* The rule "password" of dto/rules.go. *)
EXTENDS Integers, Sequences, FiniteSets

PwdMinLen == 12
PwdMaxLen == 24
MinPwdCategories == 3

\* The kinds of characters, in the order in which they are asked for.
Categories == <<"upper", "lower", "digit", "special">>
Kinds == {Categories[i] : i \in DOMAIN Categories}

\* A password counts by its length in bytes and the kinds of its characters.
Meets(pwd, rule) ==
    CASE rule = "len" -> pwd.bytes \in PwdMinLen..PwdMaxLen
      [] rule = "strong" -> Cardinality(pwd.has) >= MinPwdCategories
      [] OTHER -> rule \in pwd.has

\* The rules a password breaks, in their order; the length is asked for first and alone.
passwordCheck(pwd) ==
    IF ~Meets(pwd, "len") THEN <<"len">>
    ELSE SelectSeq(Categories \o <<"strong">>, LAMBDA rule : ~Meets(pwd, rule))

\* The rule that the answer names.
translatePassword(pwd) == passwordCheck(pwd)[1]

-----------------------------------------------------------------------------
\* Adding characters of the kind that the answer names brings the password further.
FixingHelps(pwd) ==
    LET failed == passwordCheck(pwd)
        fixed == [pwd EXCEPT !.has = @ \cup {translatePassword(pwd)}]
    IN  failed # <<>> /\ translatePassword(pwd) \in Kinds =>
            Len(passwordCheck(fixed)) < Len(failed)

\* All four kinds are asked for, so that "three kinds at least" asks for nothing more,
\* and its message is never shown.
AllKindsNeeded(pwd) ==
    /\ passwordCheck(pwd) = <<>> <=> Meets(pwd, "len") /\ pwd.has = Kinds
    /\ passwordCheck(pwd) # <<>> => translatePassword(pwd) # "strong"
=============================================================================
