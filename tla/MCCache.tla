------------------------------ MODULE MCCache ------------------------------
(* Two processes, two formulas, and terms with and without a separator.     *)
EXTENDS Cache

CONSTANTS p1, p2
TwoProcesses == {p1, p2}
MCHashes == {<<"a", "1">>, <<"b", "2">>}
MCSatisfiable == {<<"b", "2">>}
MCTerms == {<<>>, <<"x", "|", "1">>}
Symmetric == Permutations(TwoProcesses)
=============================================================================
