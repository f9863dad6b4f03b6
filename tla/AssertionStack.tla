--------------------------- MODULE AssertionStack ---------------------------
(***************************************************************************)
(* What SMT-LIB promises of assertions: levels of formulas, of which push   *)
(* opens new ones and pop drops the newest with all they hold.              *)
(***************************************************************************)
EXTENDS SequencesExt

VARIABLE levels

Init == levels = <<<<>>>>

AddFormula ==
    /\ Last(levels') # <<>>
    /\ levels' = [levels EXCEPT ![Len(levels)] = Append(@, Last(Last(levels')))]
Push == /\ Len(levels') > Len(levels)
        /\ levels' = levels \o [i \in 1..(Len(levels') - Len(levels)) |-> <<>>]
Pop == \E kept \in 1..(Len(levels) - 1) : levels' = SubSeq(levels, 1, kept)
Reset == levels' = <<<<>>>>

Next == AddFormula \/ Push \/ Pop \/ Reset
Spec == Init /\ [][Next]_levels
=============================================================================
