----------------------------- MODULE Preprocess -----------------------------
(***************************************************************************)
(* The constant folder (constant_folding.rs) and the rewriter (rewrite.rs).*)
(* A rule gives the term it returns, or nothing when it does not apply.     *)
(***************************************************************************)
EXTENDS Terms

Rewritten(t) == {t}
Unchanged == {}
Result(rule, otherwise) == IF rule = Unchanged THEN otherwise ELSE CHOOSE t \in rule : TRUE
When(condition, t) == IF condition THEN Rewritten(t) ELSE Unchanged

-----------------------------------------------------------------------------
(* Constant folding.  a is the sequence of folded arguments.                *)

IsConst(t) == t.op \in {"BvConst", "IntConst"}
AllInt(a) == a # <<>> /\ \A i \in DOMAIN a : a[i].op = "IntConst"
AllBv(a) == \A i \in DOMAIN a : a[i].op = "BvConst"

FoldNot(a) ==
    CASE a[1] \in {TrueT, FalseT} -> Rewritten(BoolConst(a[1] = FalseT))
      [] a[1].op = "Not" -> Rewritten(a[1].args[1])
      [] OTHER -> Unchanged

FoldXor(a) ==
    CASE a[1] = a[2] -> Rewritten(FalseT)
      [] a[1] # a[2] /\ a[1] = FalseT -> Rewritten(a[2])
      [] a[1] # a[2] /\ a[2] = FalseT -> Rewritten(a[1])
      [] a[1] = TrueT /\ a[2] # FalseT /\ a[2] # TrueT -> Rewritten(NotT(a[2]))
      [] a[2] = TrueT /\ a[1] # FalseT /\ a[1] # TrueT -> Rewritten(NotT(a[1]))
      [] OTHER -> Unchanged

\* Mutant: a false conclusion makes the implication its premise.
FoldImpliesDropping(a) ==
    CASE a[1] = FalseT \/ a[2] = TrueT -> Rewritten(TrueT)
      [] a[1] = TrueT -> Rewritten(a[2])
      [] a[2] = FalseT /\ a[1] \notin {TrueT, FalseT} -> Rewritten(a[1])
      [] OTHER -> Unchanged
FoldImplies(a) ==
    CASE a[1] = FalseT \/ a[2] = TrueT -> Rewritten(TrueT)
      [] a[1] = TrueT /\ a[2] # TrueT -> Rewritten(a[2])
      [] OTHER -> Unchanged

FoldIte(a) ==
    CASE a[1] = TrueT -> Rewritten(a[2])
      [] a[1] = FalseT -> Rewritten(a[3])
      [] a[1] \notin {TrueT, FalseT} /\ a[2] = a[3] -> Rewritten(a[2])
      [] OTHER -> Unchanged

FoldEq(a) ==
    CASE a[1] = a[2] -> Rewritten(TrueT)
      [] a[1] # a[2] /\ IsConst(a[1]) /\ a[1].op = a[2].op -> Rewritten(BoolConst(a[1].v = a[2].v))
      [] OTHER -> Unchanged

BvFunctions == {"BvAdd", "BvSub", "BvMul", "BvUdiv", "BvUrem", "BvAnd", "BvOr", "BvXor", "BvNot",
                "BvShl", "BvLshr", "BvAshr", "BvConcat", "BvExtract"}

\* The value of t for constants x of width w, before bv_const masks it.
FoldedValue(t, x, w) ==
    CASE t.op = "BvAdd" -> x[1] + x[2]
      [] t.op = "BvSub" -> x[1] + 2^w - x[2]
      [] t.op = "BvMul" -> x[1] * x[2]
      [] t.op = "BvUdiv" -> IF x[2] = 0 THEN AllOnes(w) ELSE x[1] \div x[2]
      [] t.op = "BvUrem" -> IF x[2] = 0 THEN x[1] ELSE x[1] % x[2]
      [] t.op = "BvAnd" -> BvAnd(x[1], x[2], w)
      [] t.op = "BvOr" -> BvOr(x[1], x[2], w)
      [] t.op = "BvXor" -> BvXor(x[1], x[2], w)
      [] t.op = "BvNot" -> BvXor(AllOnes(w), x[1], w)
      [] t.op = "BvShl" -> IF x[2] >= w THEN 0 ELSE x[1] * 2^x[2]
      [] t.op = "BvLshr" -> IF x[2] >= w THEN 0 ELSE x[1] \div 2^x[2]
      [] t.op = "BvAshr" -> BvAshr(x[1], x[2], w)
      [] t.op = "BvConcat" -> Concat(x[1], x[2], t.args[2].sort)
      [] t.op = "BvExtract" -> x[1] \div 2^t.v

Unsigned == {"BvUlt", "BvUle", "BvUgt", "BvUge"}
IntComparisons == {"Lt", "Le", "Gt", "Ge"}
FoldedComparison(op, a, b) ==
    CASE op \in {"BvUlt", "Lt"} -> a < b
      [] op \in {"BvUle", "Le"} -> a <= b
      [] op \in {"BvUgt", "Gt"} -> a > b
      [] op \in {"BvUge", "Ge"} -> a >= b
FoldedSum(op, x) ==
    CASE op = "Add" -> FoldLeft(LAMBDA s, e : s + e, 0, x)
      [] op = "Mul" -> FoldLeft(LAMBDA s, e : s * e, 1, x)
      [] op = "Sub" -> x[1] - x[2]

FoldConstants(t, a) ==
    LET x == [i \in DOMAIN a |-> a[i].v]
    IN  CASE t.op \in BvFunctions -> When(AllBv(a), BvConst(FoldedValue(t, x, a[1].sort), t.sort))
          [] t.op \in Unsigned -> When(AllBv(a), BoolConst(FoldedComparison(t.op, x[1], x[2])))
          [] t.op \in IntComparisons -> When(AllInt(a), BoolConst(FoldedComparison(t.op, x[1], x[2])))
          [] t.op \in {"Add", "Mul", "Sub"} ->
                 When(AllInt(a) /\ (t.op = "Sub" => Len(a) = 2), IntConst(FoldedSum(t.op, x)))
          [] OTHER -> Unchanged

FoldRule(t, a) ==
    CASE t.op = "Not" -> FoldNot(a)
      [] t.op = "And" -> Rewritten(AndT(a))
      [] t.op = "Or" -> Rewritten(OrT(a))
      [] t.op = "Xor" -> FoldXor(a)
      [] t.op = "Implies" -> FoldImplies(a)
      [] t.op = "Ite" -> FoldIte(a)
      [] t.op = "Eq" -> FoldEq(a)
      [] OTHER -> FoldConstants(t, a)

RECURSIVE FoldTerm(_)
FoldTerm(t) ==
    LET a == [i \in DOMAIN t.args |-> FoldTerm(t.args[i])]
    IN  Result(FoldRule(t, a), [t EXCEPT !.args = a])

-----------------------------------------------------------------------------
(* Rewriting.  a is the sequence of rewritten arguments, in the order of    *)
(* their ids when the operator is commutative; any fixed order will do.     *)

Commutative == {"And", "Or", "Xor", "Eq", "Distinct", "BvAdd", "BvMul", "BvAnd", "BvOr", "BvXor", "Add", "Mul"}

ById(args) ==
    FoldLeft(LAMBDA sorted, t : sorted \o SelectSeq(args, LAMBDA a : a = t), <<>>, SetToSeq(ToSet(args)))

IsZeroT(t) == IsConst(t) /\ t.v = 0
ZeroLike(t) == BvConst(0, t.sort)

\* Operators on two bit-vectors.
RewriteBv(op, a, b) ==
    CASE op \in {"BvSub", "BvXor"} /\ a = b -> Rewritten(ZeroLike(a))
      [] op \in {"BvAnd", "BvOr"} /\ a = b -> Rewritten(a)
      [] op = "BvAnd" /\ a # b /\ (IsZeroT(a) \/ IsZeroT(b)) -> Rewritten(ZeroLike(a))
      [] op \in {"BvXor", "BvOr"} /\ a # b /\ IsZeroT(a) -> Rewritten(b)
      [] op = "BvAdd" /\ IsZeroT(a) -> Rewritten(b)
      [] op \in {"BvSub", "BvXor", "BvOr"} /\ a # b /\ IsZeroT(b) -> Rewritten(a)
      [] op = "BvAdd" /\ IsZeroT(b) /\ ~IsZeroT(a) -> Rewritten(a)
      [] OTHER -> Unchanged

RewriteAdd(a) ==
    LET rest == SelectSeq(a, LAMBDA e : ~IsZeroT(e))
    IN  CASE rest = <<>> -> Rewritten(IntConst(0))
          [] Len(rest) = 1 -> Rewritten(rest[1])
          [] OTHER -> Rewritten(Intern("Add", rest, IntSort))

RewriteSub(a) ==
    CASE Len(a) = 2 /\ a[1] = a[2] -> Rewritten(IntConst(0))
      [] Len(a) = 2 /\ a[1] # a[2] /\ IsZeroT(a[2]) -> Rewritten(a[1])
      [] OTHER -> Unchanged

\* Mutant: only neighbours are compared.
RewriteDistinctNeighbours(a) ==
    Rewritten(AndT([i \in 1..(Len(a) - 1) |-> NotT(EqT(a[i], a[i + 1]))]))
RewriteDistinct(a) ==
    LET pairs == SetToSeq({<<i, j>> \in (DOMAIN a) \X (DOMAIN a) : i < j})
    IN  Rewritten(AndT([k \in DOMAIN pairs |-> NotT(EqT(a[pairs[k][1]], a[pairs[k][2]]))]))

RewriteRule(t, a) ==
    CASE t.op = "Eq" -> When(a[1] = a[2], TrueT)
      [] t.op \in {"BvAdd", "BvSub", "BvXor", "BvAnd", "BvOr"} -> RewriteBv(t.op, a[1], a[2])
      [] t.op = "Add" -> RewriteAdd(a)
      [] t.op = "Sub" -> RewriteSub(a)
      [] t.op = "Distinct" -> RewriteDistinct(a)
      [] OTHER -> Unchanged

RECURSIVE Rewrite(_)
Rewrite(t) ==
    LET args == [i \in DOMAIN t.args |-> Rewrite(t.args[i])]
        a == IF t.op \in Commutative /\ Len(args) >= 2 THEN ById(args) ELSE args
    IN  Result(RewriteRule(t, a), [t EXCEPT !.args = a])
=============================================================================
