------------------------------ MODULE Encoders ------------------------------
(***************************************************************************)
(* The two ways to clauses: the bit-blaster (bitvector.rs) and the Tseitin  *)
(* encoder (tseitin.rs).  Both follow the literal of a term through one     *)
(* valuation: M gives the variables their values, free the literals that no *)
(* clause constrains.                                                       *)
(***************************************************************************)
EXTENDS Terms, Circuits

BitsOf(v, w) == [k \in 1..w |-> Bit(v, k - 1) = 1] \o <<>>

-----------------------------------------------------------------------------
(* The bit-blaster.                                                         *)

\* The highest n bits become the lowest.
RotatedLeft(a, n) ==
    LET cut == Len(a) - (n % Len(a)) IN SubSeq(a, cut + 1, Len(a)) \o SubSeq(a, 1, cut)
RotatedRight(a, n) ==
    LET cut == n % Len(a) IN SubSeq(a, cut + 1, Len(a)) \o SubSeq(a, 1, cut)

BlastUnary(t, a) ==
    CASE t.op = "BvNot" -> Inverted(a)
      [] t.op = "BvNeg" -> NegBits(a)
      [] t.op = "BvExtract" -> SubSeq(a, t.v + 1, t.v + t.sort)
      [] t.op = "BvZeroExtend" -> a \o Filled(FALSE, t.v)
      [] t.op = "BvSignExtend" -> a \o Filled(Last(a), t.v)
      [] t.op = "BvRotateLeft" -> RotatedLeft(a, t.v)
      [] t.op = "BvRotateRight" -> RotatedRight(a, t.v)
      [] t.op = "BvRepeat" -> FlattenSeq([i \in 1..t.v |-> a])

BlastBinary(op, a, b) ==
    CASE op = "BvAnd" -> AndBits(a, b)
      [] op = "BvOr" -> OrBits(a, b)
      [] op = "BvXor" -> XorBits(a, b)
      [] op = "BvNand" -> Inverted(AndBits(a, b))
      [] op = "BvNor" -> Inverted(OrBits(a, b))
      [] op = "BvXnor" -> Inverted(XorBits(a, b))
      [] op = "BvAdd" -> Adder(a, b)
      [] op = "BvSub" -> Subtractor(a, b)
      [] op = "BvMul" -> Multiplier(a, b)
      [] op = "BvConcat" -> b \o a
      [] op = "BvShl" -> Shl(a, b)
      [] op = "BvLshr" -> Lshr(a, b)
      [] op = "BvAshr" -> Ashr(a, b)
      [] op = "BvUdiv" -> UdivUrem(a, b)[1]
      [] op = "BvUrem" -> UdivUrem(a, b)[2]
      [] op = "BvSdiv" -> Sdiv(a, b)
      [] op = "BvSrem" -> Srem(a, b)
      [] op = "BvSmod" -> Smod(a, b)

UnaryOps == {"BvNot", "BvNeg", "BvExtract", "BvZeroExtend", "BvSignExtend", "BvRotateLeft", "BvRotateRight", "BvRepeat"}
BlastCompare(op, a, b) ==
    CASE op = "BvUlt" -> Ult(a, b)
      [] op = "BvUle" -> GateOr(Ult(a, b), EqBits(a, b))
      [] op = "BvUgt" -> Ult(b, a)
      [] op = "BvUge" -> GateOr(Ult(b, a), EqBits(a, b))
      [] op = "BvSlt" -> Slt(a, b)
      [] op = "BvSle" -> GateOr(Slt(a, b), EqBits(a, b))

BlastedCompares == {"BvUlt", "BvUle", "BvUgt", "BvUge", "BvSlt", "BvSle"}
Connectives == {"True", "False", "Not", "And", "Or", "Xor", "Implies", "Ite"}
OnNumbers(t) == t.op \in {"Eq", "Distinct"} /\ t.args[1].sort = IntSort

RECURSIVE BlastBv(_, _, _), BlastBool(_, _, _)
BlastBv(t, M, free) ==
    CASE t.op = "Var" -> BitsOf(M[t.name], t.sort)
      [] t.op = "BvConst" -> BitsOf(t.v, t.sort)
      [] t.op = "Ite" -> IteBits(BlastBool(t.args[1], M, free),
                                 BlastBv(t.args[2], M, free), BlastBv(t.args[3], M, free))
      [] t.op \in UnaryOps -> BlastUnary(t, BlastBv(t.args[1], M, free))
      [] t.op \notin UnaryOps \union {"Var", "BvConst", "Ite"} ->
             BlastBinary(t.op, BlastBv(t.args[1], M, free), BlastBv(t.args[2], M, free))

BlastEq(a, b, M, free) ==
    IF a.sort = BoolSort THEN ~GateXor(BlastBool(a, M, free), BlastBool(b, M, free))
    ELSE EqBits(BlastBv(a, M, free), BlastBv(b, M, free))
BlastDistinct(args, M, free) ==
    LET pairs == SetToSeq({<<i, j>> \in (DOMAIN args) \X (DOMAIN args) : i < j})
    IN  Conjunction([k \in DOMAIN pairs |-> ~BlastEq(args[pairs[k][1]], args[pairs[k][2]], M, free)])
BlastConnective(op, l) ==
    CASE op = "True" -> TRUE
      [] op = "False" -> FALSE
      [] op = "Not" -> ~l[1]
      [] op = "And" -> FoldLeft(GateAnd, TRUE, l)
      [] op = "Or" -> FoldLeft(GateOr, FALSE, l)
      [] op = "Xor" -> GateXor(l[1], l[2])
      [] op = "Implies" -> GateOr(~l[1], l[2])
      [] op = "Ite" -> GateIte(l[1], l[2], l[3])

\* Everything else is a literal of its own.
IsFree(t) == t.op \notin Connectives \union BlastedCompares \union {"Var", "Eq", "Distinct"} \/ OnNumbers(t)
BlastBool(t, M, free) ==
    CASE t.op = "Var" -> M[t.name]
      [] IsFree(t) -> free[t]
      [] t.op = "Eq" /\ ~IsFree(t) -> BlastEq(t.args[1], t.args[2], M, free)
      [] t.op = "Distinct" /\ ~IsFree(t) -> BlastDistinct(t.args, M, free)
      [] t.op \in BlastedCompares ->
             BlastCompare(t.op, BlastBv(t.args[1], M, free), BlastBv(t.args[2], M, free))
      [] t.op \in Connectives ->
             BlastConnective(t.op, [i \in DOMAIN t.args |-> BlastBool(t.args[i], M, free)] \o <<>>)

FreeAtoms(terms) ==
    {s \in UNION {Subterms(t) : t \in terms} : s.sort = BoolSort /\ s.op # "Var" /\ IsFree(s)}

-----------------------------------------------------------------------------
(* The Tseitin encoder: what is no connective is an atom.                   *)

AtomsOf(terms) ==
    {s \in UNION {Subterms(t) : t \in terms} : s.sort = BoolSort /\ s.op \notin Connectives}

EncodeConnective(op, l) ==
    CASE op = "True" -> TRUE
      [] op = "False" -> FALSE
      [] op = "Not" -> ~l[1]
      [] op = "And" -> CHOOSE p \in BOOLEAN : Holds(AndClauses(p, ToSet(l)))
      [] op = "Or" -> CHOOSE p \in BOOLEAN : Holds(OrClauses(p, ToSet(l)))
      [] op = "Xor" -> CHOOSE p \in BOOLEAN : Holds(XorClauses(p, l[1], l[2]))
      [] op = "Implies" -> CHOOSE p \in BOOLEAN : Holds(ImpliesClauses(p, l[1], l[2]))
      [] op = "Ite" -> CHOOSE p \in BOOLEAN : Holds(IteClauses(p, l[1], l[2], l[3]))

RECURSIVE Encode(_, _)
Encode(t, atoms) ==
    IF t.op \notin Connectives THEN atoms[t]
    ELSE EncodeConnective(t.op, [i \in DOMAIN t.args |-> Encode(t.args[i], atoms)] \o <<>>)

\* The conjuncts of a conjunction are asserted one by one.
RECURSIVE AssertedHolds(_, _)
AssertedHolds(t, atoms) ==
    IF t.op = "And" THEN \A i \in DOMAIN t.args : AssertedHolds(t.args[i], atoms)
    ELSE Encode(t, atoms)
=============================================================================
