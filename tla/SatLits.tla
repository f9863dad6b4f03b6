------------------------------ MODULE SatLits ------------------------------
(***************************************************************************)
(* Variables, literals and ternary values of smt-sat (lit.rs), and what    *)
(* clauses over them mean.  A literal is written the way Lit::to_dimacs    *)
(* writes it: variable v (the code's Var(v - 1)) is the integer v when     *)
(* positive and -v when negated.                                           *)
(***************************************************************************)
EXTENDS Integers, Sequences, SequencesExt

CONSTANT NumVars     \* variables the client may create

ASSUME NumVarsAssumption == NumVars \in Nat \ {0}

Vars == 1..NumVars
Lits == (-NumVars..NumVars) \ {0}
LBool == {"Undef", "True", "False"}

VarOf(l) == IF l > 0 THEN l ELSE -l
IsPos(l) == l > 0
Neg(l) == -l

\* Lit::new(var, negated)
NewLit(v, negated) == IF negated THEN -v ELSE v

\* Lit(0), the value that fills slot 0 of a clause under construction: the
\* positive literal of the first variable.
LitZero == 1

NotVal(val) == IF val = "True" THEN "False"
               ELSE IF val = "False" THEN "True" ELSE "Undef"

\* The order of the encoding 2 * var + sign, by which clauses are sorted.
LitBefore(k, l) ==
    \/ VarOf(k) < VarOf(l)
    \/ VarOf(k) = VarOf(l) /\ IsPos(k) /\ ~IsPos(l)

-----------------------------------------------------------------------------
(* Meaning: a clause is a set of literals, a formula a set of clauses.      *)

Valuations == [Vars -> BOOLEAN]
SatisfiesLit(m, l) == m[VarOf(l)] = IsPos(l)
SatisfiesClause(m, c) == \E l \in c : SatisfiesLit(m, l)
Satisfies(m, F) == \A c \in F : SatisfiesClause(m, c)
Satisfiable(F) == \E m \in Valuations : Satisfies(m, F)
Entails(F, c) == \A m \in Valuations : Satisfies(m, F) => SatisfiesClause(m, c)
=============================================================================
