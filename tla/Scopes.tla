------------------------------- MODULE Scopes -------------------------------
(***************************************************************************)
(* The assertions of the solver and its scopes (engine.rs): the assertions  *)
(* are one vector, of which a scope keeps the length at which it opened.    *)
(***************************************************************************)
EXTENDS Integers, SequencesExt

VARIABLES
    assertions,
    scopes      \* the number of assertions at each push

stack == <<assertions, scopes>>

StackInit == assertions = <<>> /\ scopes = <<>>

AddFormula(term) ==
    /\ assertions' = Append(assertions, term)
    /\ UNCHANGED scopes

PushScopes(n) ==
    /\ scopes' = scopes \o [i \in 1..n |-> Len(assertions)]
    /\ UNCHANGED assertions

\* Scopes are popped one by one; popping more than there are stops at the first.
Remaining(n) == IF n > Len(scopes) THEN 0 ELSE Len(scopes) - n
\* Mutant: the assertions of the outer scopes that are popped stay.
TruncatedOnce(n) == IF n = 0 \/ scopes = <<>> THEN assertions ELSE SubSeq(assertions, 1, Last(scopes))
\* Mutant: everything above the outermost scope goes.
TruncatedToFirst(n) == IF n = 0 \/ scopes = <<>> THEN assertions ELSE SubSeq(assertions, 1, scopes[1])
Truncated(n) ==
    IF n = 0 \/ scopes = <<>> THEN assertions ELSE SubSeq(assertions, 1, scopes[Remaining(n) + 1])
PopScopes(n) ==
    /\ scopes' = SubSeq(scopes, 1, Remaining(n))
    /\ assertions' = Truncated(n)

DropAll == assertions' = <<>> /\ scopes' = <<>>

StackNext ==
    \/ \E term : AddFormula(term)
    \/ \E n \in Nat : PushScopes(n) \/ PopScopes(n)
    \/ DropAll

StackSpec == StackInit /\ [][StackNext]_stack

\* Assertions, scopes and their calls are those of SMT-LIB's assertion stack
\* (engine.rs:355); enumerate_models leaves its blocking clauses on the newest
\* level.
Levels ==
    LET marks == <<0>> \o scopes \o <<Len(assertions)>>
    IN  [i \in 1..(Len(scopes) + 1) |-> SubSeq(assertions, marks[i] + 1, marks[i + 1])] \o <<>>
Stack == INSTANCE AssertionStack WITH levels <- Levels
ImplementsStack == Stack!Spec
=============================================================================
