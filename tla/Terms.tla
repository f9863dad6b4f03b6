------------------------------- MODULE Terms -------------------------------
(***************************************************************************)
(* Hash-consed terms (term.rs) as the trees they stand for: interning makes *)
(* equal trees one TermId, so equality of trees is equality of ids.  A sort *)
(* is a number: BoolSort, IntSort or the width of a bit-vector.  v is the   *)
(* value of a constant, the low bit of an extract or the index of an        *)
(* indexed operator.  Meaning is what SMT-LIB says a term denotes: the      *)
(* reference for folding, rewriting, encoding and evaluation.               *)
(***************************************************************************)
EXTENDS BitVectors, SequencesExt

BoolSort == 0
IntSort == -1

Indexed(op, v, args, sort) == [op |-> op, args |-> args, sort |-> sort, v |-> v, name |-> ""]
Intern(op, args, sort) == Indexed(op, 0, args, sort)
Var(name, sort) == [op |-> "Var", args |-> <<>>, sort |-> sort, v |-> 0, name |-> name]
TrueT == Intern("True", <<>>, BoolSort)
FalseT == Intern("False", <<>>, BoolSort)
BoolConst(b) == IF b THEN TrueT ELSE FalseT
BvConst(v, w) == Indexed("BvConst", Mod(v, w), <<>>, w)
IntConst(v) == Indexed("IntConst", v, <<>>, IntSort)

-----------------------------------------------------------------------------
(* Constructors that simplify.                                              *)

NotT(a) ==
    CASE a = TrueT -> FalseT
      [] a = FalseT -> TrueT
      [] OTHER -> Intern("Not", <<a>>, a.sort)
EqT(a, b) == IF a = b THEN TrueT ELSE Intern("Eq", <<a, b>>, BoolSort)
\* What and, or and the folder make of their arguments: zero decides, unit is dropped.
Junction(op, unit, zero, args) ==
    LET rest == SelectSeq(args, LAMBDA a : a # unit)
    IN  CASE zero \in ToSet(args) -> zero
          [] rest = <<>> -> unit
          [] Len(rest) = 1 -> rest[1]
          [] OTHER -> Intern(op, rest, BoolSort)
AndT(args) == Junction("And", TrueT, FalseT, args)
OrT(args) == Junction("Or", FalseT, TrueT, args)

-----------------------------------------------------------------------------
(* Meaning.  x is the sequence of the arguments' values.                    *)

SumOf(x) == FoldLeft(LAMBDA a, b : a + b, 0, x)
ProductOf(x) == FoldLeft(LAMBDA a, b : a * b, 1, x)
Sgn(a) == IF a < 0 THEN -1 ELSE 1
Magnitude(a) == IF a < 0 THEN -a ELSE a
SdivOf(a, b) == IF b = 0 THEN (IF a < 0 THEN 1 ELSE -1)
                ELSE Sgn(a) * Sgn(b) * (Magnitude(a) \div Magnitude(b))
SremOf(a, b) == IF b = 0 THEN a ELSE Sgn(a) * (Magnitude(a) % Magnitude(b))
SmodOf(a, b) == CASE b = 0 -> a [] b > 0 -> a % b [] b < 0 -> -((-a) % (-b))
BitByBit(F(_, _), a, b, w) == OfBits([k \in 0..(w - 1) |-> F(Bit(a, k), Bit(b, k))])

BoolMeaning(t, x) ==
    CASE t.op = "True" -> TRUE
      [] t.op = "False" -> FALSE
      [] t.op = "Not" -> ~x[1]
      [] t.op = "And" -> \A i \in DOMAIN x : x[i]
      [] t.op = "Or" -> \E i \in DOMAIN x : x[i]
      [] t.op = "Xor" -> x[1] # x[2]
      [] t.op = "Implies" -> x[1] => x[2]
      [] t.op = "Ite" -> IF x[1] THEN x[2] ELSE x[3]
      [] t.op = "Eq" -> x[1] = x[2]
      [] t.op = "Distinct" -> \A i, j \in DOMAIN x : i # j => x[i] # x[j]

CompareMeaning(t, x) ==
    LET w == t.args[1].sort
        s == [i \in DOMAIN x |-> Signed(x[i], w)]
    IN  CASE t.op \in {"BvUlt", "Lt"} -> x[1] < x[2]
          [] t.op \in {"BvUle", "Le"} -> x[1] <= x[2]
          [] t.op \in {"BvUgt", "Gt"} -> x[1] > x[2]
          [] t.op \in {"BvUge", "Ge"} -> x[1] >= x[2]
          [] t.op = "BvSlt" -> s[1] < s[2]
          [] t.op = "BvSle" -> s[1] <= s[2]
          [] t.op = "BvSgt" -> s[1] > s[2]
          [] t.op = "BvSge" -> s[1] >= s[2]

IntMeaning(t, x) ==
    CASE t.op = "IntConst" -> t.v
      [] t.op = "Add" -> SumOf(x)
      [] t.op = "Sub" -> x[1] - x[2]
      [] t.op = "Mul" -> ProductOf(x)
      [] t.op = "Ite" -> IF x[1] THEN x[2] ELSE x[3]

\* The number, not yet reduced to the width.
BvMeaning(t, x) ==
    LET w == t.args[1].sort
        s == [i \in DOMAIN x |-> Signed(x[i], w)]
    IN  CASE t.op = "BvAdd" -> x[1] + x[2]
          [] t.op = "BvSub" -> s[1] - s[2]
          [] t.op = "BvMul" -> x[1] * x[2]
          [] t.op = "BvNeg" -> -s[1]
          [] t.op = "BvUdiv" -> IF x[2] = 0 THEN -1 ELSE x[1] \div x[2]
          [] t.op = "BvUrem" -> IF x[2] = 0 THEN x[1] ELSE x[1] % x[2]
          [] t.op = "BvSdiv" -> SdivOf(s[1], s[2])
          [] t.op = "BvSrem" -> SremOf(s[1], s[2])
          [] t.op = "BvSmod" -> SmodOf(s[1], s[2])
          [] t.op = "BvNot" -> -1 - s[1]
          [] t.op = "BvAnd" -> BitByBit(LAMBDA a, b : a * b, x[1], x[2], w)
          [] t.op = "BvOr" -> BitByBit(LAMBDA a, b : a + b - a * b, x[1], x[2], w)
          [] t.op = "BvXor" -> BitByBit(LAMBDA a, b : (a + b) % 2, x[1], x[2], w)
          [] t.op = "BvNand" -> BitByBit(LAMBDA a, b : 1 - a * b, x[1], x[2], w)
          [] t.op = "BvNor" -> BitByBit(LAMBDA a, b : (1 - a) * (1 - b), x[1], x[2], w)
          [] t.op = "BvXnor" -> BitByBit(LAMBDA a, b : (1 + a + b) % 2, x[1], x[2], w)
          [] t.op = "BvShl" -> x[1] * 2^x[2]
          [] t.op = "BvLshr" -> x[1] \div 2^x[2]
          [] t.op = "BvAshr" -> s[1] \div 2^x[2]
          [] t.op = "BvConcat" -> x[1] * 2^t.args[2].sort + x[2]
          [] t.op = "BvExtract" -> x[1] \div 2^t.v
          [] t.op = "BvZeroExtend" -> x[1]
          [] t.op = "BvSignExtend" -> s[1]
          [] t.op = "BvRotateLeft" -> OfBits([k \in 0..(w - 1) |-> Bit(x[1], (k - t.v) % w)])
          [] t.op = "BvRotateRight" -> OfBits([k \in 0..(w - 1) |-> Bit(x[1], (k + t.v) % w)])
          [] t.op = "BvRepeat" -> OfBits([k \in 0..(t.sort - 1) |-> Bit(x[1], k % w)])
          [] t.op = "Ite" -> IF x[1] THEN x[2] ELSE x[3]

Comparisons == {"BvUlt", "BvUle", "BvUgt", "BvUge", "BvSlt", "BvSle", "BvSgt", "BvSge",
                "Lt", "Le", "Gt", "Ge"}

RECURSIVE Meaning(_, _)
Meaning(t, M) ==
    LET x == [i \in DOMAIN t.args |-> Meaning(t.args[i], M)]
    IN  CASE t.op = "Var" -> M[t.name]
          [] t.op = "BvConst" -> t.v
          [] t.op \in Comparisons -> CompareMeaning(t, x)
          [] t.sort = BoolSort /\ t.op # "Var" /\ t.op \notin Comparisons -> BoolMeaning(t, x)
          [] t.sort = IntSort /\ t.op # "Var" -> IntMeaning(t, x)
          [] t.sort > 0 /\ t.op \notin {"Var", "BvConst"} -> Mod(BvMeaning(t, x), t.sort)

RECURSIVE Subterms(_)
Subterms(t) == {t} \union UNION {Subterms(t.args[i]) : i \in DOMAIN t.args}
OpsOf(terms) == UNION {{s.op : s \in Subterms(t)} : t \in terms}
VarsOf(terms) == UNION {{s \in Subterms(t) : s.op = "Var"} : t \in terms}
=============================================================================
