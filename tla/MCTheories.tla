----------------------------- MODULE MCTheories -----------------------------
(***************************************************************************)
(* Term arenas for the theory coordinator, for the model checker.          *)
(***************************************************************************)
EXTENDS NelsonOppen

Mk(op, name, args, value, sort) ==
    [op |-> op, name |-> name, args |-> args, value |-> value, sort |-> sort]
U(x) == Mk("Var", x, << >>, 0, "U")
F(f, args) == Mk("Apply", f, args, 0, "U")
Num(x) == Mk("Var", x, << >>, 0, "Num")
Const(k) == Mk("Const", "", << >>, k, "Num")
Atom(op, s, t) == Mk(op, "", <<s, t>>, 0, "Bool")
Distinct(args) == Mk("Distinct", "", args, 0, "Bool")


\* Every literal of an arena, or some.
AtomsOf(arena) == {t \in 1..Len(arena) : arena[t].sort = "Bool"}
Either(arena) == [terms |-> arena, lits |-> AtomsOf(arena) \cup {-t : t \in AtomsOf(arena)}]
Only(arena, lits) == [terms |-> arena, lits |-> lits]

\* f(f(a)) = a and f(f(f(a))) = a make f(a) = a.
Cycle == <<U("a"), F("f", <<1>>), F("f", <<2>>), F("f", <<3>>),
           Atom("Eq", 1, 3), Atom("Eq", 1, 4), Atom("Eq", 1, 2)>>
\* Two levels of functions, and a distinct of three terms.
Layers == <<U("a"), U("b"), F("f", <<1>>), F("f", <<2>>), F("g", <<3, 2>>), F("g", <<4, 1>>),
            Atom("Eq", 1, 2), Distinct(<<5, 1, 6>>)>>
\* One function with swapped and repeated arguments.
Swaps == <<U("a"), U("b"), F("g", <<1, 2>>), F("g", <<2, 1>>), F("g", <<1, 1>>),
           Atom("Eq", 1, 2), Atom("Eq", 3, 4), Atom("Eq", 5, 2)>>

\* Bounds on two variables and their difference.
Window == <<Num("x"), Num("y"), Const(3), Atom("Ge", 1, 3), Atom("Le", 2, 3), Atom("Lt", 1, 2)>>
\* A cycle of three differences.
Around == <<Num("x"), Num("y"), Num("z"), Atom("Lt", 1, 2), Atom("Le", 2, 3), Atom("Gt", 1, 3)>>
\* Arithmetic makes the arguments of a function equal.
Mixed == <<Num("x"), Num("y"), F("f", <<1>>), F("f", <<2>>),
           Atom("Le", 1, 2), Atom("Ge", 1, 2), Atom("Eq", 3, 4)>>
\* Two bounds on one variable, and an equality of two numbers.
Tied == <<Num("x"), Num("y"), Const(3), Atom("Ge", 1, 3), Atom("Gt", 1, 3), Atom("Eq", 1, 2)>>

TheoryProblems ==
    {Either(Cycle), Either(Layers), Only(Swaps, {6, 7, 8, -8}), Only(Window, {4, 5, 6, -6}),
     Only(Around, {4, 5, 6}), Only(Mixed, {5, 6, -7}),
     Only(Tied, {4, 5, -5, 6})}
WindowProblem == {Only(Window, {4, 5, 6})}
=============================================================================
