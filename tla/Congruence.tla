----------------------------- MODULE Congruence -----------------------------
(***************************************************************************)
(* The terms a theory solver sees (smt-core/term.rs) and what equality     *)
(* with uninterpreted functions means for them.  A term is a position in   *)
(* `terms`, an atom is a term, and a literal is an atom or its negation,   *)
(* written -atom: engine.rs gives every atom a SAT variable of its own.    *)
(* The arena interns terms, so no two have the same operator, name and     *)
(* arguments (only constants carry a value), and arguments come before     *)
(* what is built from them.                                                *)
(***************************************************************************)
EXTENDS Integers, Sequences, FiniteSets

CONSTANT Problems      \* what a solver may be created for: an arena, and the
                       \* literals over it that the search may assert

TermOps == {"Var", "Const", "Apply", "Eq", "Distinct", "Lt", "Le", "Gt", "Ge"}
Sorts == {"Bool", "Num", "U"}     \* Int and Real are treated alike
Term == [op : TermOps, name : STRING, args : Seq(Nat), value : Int, sort : Sorts]

ASSUME ProblemsAssumption ==
    \A p \in Problems :
        /\ p.terms \in Seq(Term) /\ p.lits \subseteq Int
        /\ \A t \in 1..Len(p.terms) : \A i \in 1..Len(p.terms[t].args) :
              p.terms[t].args[i] \in 1..(t - 1)
        /\ \A s, t \in 1..Len(p.terms) :
              /\ p.terms[s].op = p.terms[t].op /\ p.terms[s].name = p.terms[t].name
              /\ p.terms[s].args = p.terms[t].args
              /\ p.terms[s].op = "Const" => p.terms[s].value = p.terms[t].value
              => s = t

VARIABLE problem       \* fixed while a solver lives

terms == problem.terms
TermIds == 1..Len(terms)
Op(t) == terms[t].op
Args(t) == terms[t].args
SameFunction(s, t) ==
    /\ Op(s) = "Apply" /\ Op(t) = "Apply"
    /\ terms[s].name = terms[t].name /\ Len(Args(s)) = Len(Args(t))

AtomOf(l) == IF l < 0 THEN -l ELSE l
Atoms == {t \in TermIds : Op(t) \in {"Eq", "Distinct", "Lt", "Le", "Gt", "Ge"}}
AtomLits == Atoms \cup {-t : t \in Atoms}

Put(f, k, v) == [x \in DOMAIN f \cup {k} |-> IF x = k THEN v ELSE f[x]]
Forget(f, k) == [x \in DOMAIN f \ {k} |-> f[x]]

-----------------------------------------------------------------------------
(* The reference: congruence closure as a partition of the terms.           *)

Joined(P, s, t) == \E B \in P : s \in B /\ t \in B
Linked(E, P) ==
    {l \in P \X P : l[1] # l[2] /\
        \/ \E e \in E : e[1] \in l[1] /\ e[2] \in l[2]
        \/ \E s \in l[1], t \in l[2] :
              SameFunction(s, t) /\ \A i \in 1..Len(Args(s)) : Joined(P, Args(s)[i], Args(t)[i])}

\* The finest congruence in which the pairs E are equal.
CongruenceClosure(E) ==
    LET after[n \in Nat] ==
            IF n = 0 THEN {{t} : t \in TermIds}
            ELSE LET P == after[n - 1]
                     l == CHOOSE l \in Linked(E, P) : TRUE
                 IN  IF Linked(E, P) = {} THEN P ELSE (P \ {l[1], l[2]}) \cup {l[1] \cup l[2]}
    IN  after[Len(terms)]

\* The pairs an equality or a distinct speaks of.
ArgPairs(t) == {<<Args(t)[p[1]], Args(t)[p[2]]>> :
                  p \in {p \in (1..Len(Args(t))) \X (1..Len(Args(t))) : p[1] < p[2]}}
Asserted(op, L) == {t \in Atoms : Op(t) = op /\ t \in L}
Denied(op, L) == {t \in Atoms : Op(t) = op /\ -t \in L}
Equal(L) == UNION {ArgPairs(t) : t \in Asserted("Eq", L)}
Different(L) == UNION {ArgPairs(t) : t \in Denied("Eq", L) \cup Asserted("Distinct", L)}

\* The ways in which the distincts that L denies can be false.
Alternatives(L) == {f \in [Denied("Distinct", L) -> TermIds \X TermIds] :
                 \A t \in DOMAIN f : f[t] \in ArgPairs(t)}
EqualWith(L, f) == Equal(L) \cup {f[t] : t \in DOMAIN f}

\* No interpretation of the functions makes the literals L true.
EqualityInconsistent(L) ==
    \A f \in Alternatives(L) :
        LET P == CongruenceClosure(EqualWith(L, f))
        IN  \E d \in Different(L) : Joined(P, d[1], d[2])
=============================================================================
