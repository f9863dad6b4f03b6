----------------------------- MODULE Validator -----------------------------
(***************************************************************************)
(* The concrete evaluator that checks a candidate model (validator.rs).     *)
(* A model is a function from the names it gives a value to their values.   *)
(***************************************************************************)
EXTENDS Terms

DefaultForSort(sort) == IF sort = BoolSort THEN FALSE ELSE 0

\* Bit-vector and arithmetic operators evaluate has an arm for.
BvArms == {"BvAdd", "BvSub", "BvMul", "BvUdiv", "BvUrem", "BvNeg", "BvAnd", "BvOr", "BvXor", "BvNot",
           "BvShl", "BvLshr", "BvAshr", "BvConcat", "BvExtract", "BvZeroExtend", "BvSignExtend"}
IntArms == {"Add", "Sub", "Mul"}
CompareArms == {"BvUlt", "BvUle", "BvUgt", "BvUge", "Lt", "Le", "Gt", "Ge"}
BoolArms == {"True", "False", "Not", "And", "Or", "Xor", "Implies", "Ite", "Eq", "Distinct"}
Evaluated == BvArms \union IntArms \union CompareArms \union BoolArms \union {"Var", "BvConst", "IntConst"}

EvalBvArm(t, x) ==
    LET w == t.args[1].sort
    IN  CASE t.op = "BvAdd" -> BvAdd(x[1], x[2], w)
          [] t.op = "BvSub" -> BvSub(x[1], x[2], w)
          [] t.op = "BvMul" -> BvMul(x[1], x[2], w)
          [] t.op = "BvUdiv" -> BvUdiv(x[1], x[2], w)
          [] t.op = "BvUrem" -> BvUrem(x[1], x[2], w)
          [] t.op = "BvNeg" -> BvNeg(x[1], w)
          [] t.op = "BvAnd" -> BvAnd(x[1], x[2], w)
          [] t.op = "BvOr" -> BvOr(x[1], x[2], w)
          [] t.op = "BvXor" -> BvXor(x[1], x[2], w)
          [] t.op = "BvNot" -> BvNot(x[1], w)
          [] t.op = "BvShl" -> BvShl(x[1], x[2], w)
          [] t.op = "BvLshr" -> BvLshr(x[1], x[2], w)
          [] t.op = "BvAshr" -> BvAshr(x[1], x[2], w)
          [] t.op = "BvConcat" -> Concat(x[1], x[2], t.args[2].sort)
          [] t.op = "BvExtract" -> Extract(x[1], t.v, t.sort)
          [] t.op = "BvZeroExtend" -> x[1]
          [] t.op = "BvSignExtend" -> SignExtend(x[1], t.v, w)

\* Sums and products read the first two arguments only.
EvalIntArm(t, x) ==
    CASE t.op = "Add" -> x[1] + x[2]
      [] t.op = "Sub" -> x[1] - x[2]
      [] t.op = "Mul" -> x[1] * x[2]

\* Mutant: at most and at least are strict.
EvalCompareArmStrict(t, x) ==
    CASE t.op \in {"BvUlt", "Lt", "BvUle", "Le"} -> x[1] < x[2]
      [] t.op \in {"BvUgt", "Gt", "BvUge", "Ge"} -> x[1] > x[2]
EvalCompareArm(t, x) ==
    CASE t.op \in {"BvUlt", "Lt"} -> x[1] < x[2]
      [] t.op \in {"BvUle", "Le"} -> x[1] <= x[2]
      [] t.op \in {"BvUgt", "Gt"} -> x[1] > x[2]
      [] t.op \in {"BvUge", "Ge"} -> x[1] >= x[2]

EvalBoolArm(t, x) ==
    CASE t.op = "True" -> TRUE
      [] t.op = "False" -> FALSE
      [] t.op = "Not" -> ~x[1]
      [] t.op = "And" -> FALSE \notin ToSet(x)
      [] t.op = "Or" -> TRUE \in ToSet(x)
      [] t.op = "Xor" -> x[1] # x[2]
      [] t.op = "Implies" -> ~x[1] \/ x[2]
      [] t.op = "Ite" -> IF x[1] THEN x[2] ELSE x[3]
      [] t.op = "Eq" -> x[1] = x[2]
      [] t.op = "Distinct" -> IsInjective(x)

\* An operator without an arm has the default value of its sort.
RECURSIVE Evaluate(_, _)
Evaluate(t, model) ==
    LET x == [i \in DOMAIN t.args |-> Evaluate(t.args[i], model)]
    IN  CASE t.op = "Var" -> IF t.name \in DOMAIN model THEN model[t.name] ELSE DefaultForSort(t.sort)
          [] t.op \in {"BvConst", "IntConst"} -> t.v
          [] t.op \in BvArms -> EvalBvArm(t, x)
          [] t.op \in IntArms -> EvalIntArm(t, x)
          [] t.op \in CompareArms -> EvalCompareArm(t, x)
          [] t.op \in BoolArms -> EvalBoolArm(t, x)
          [] t.op \notin Evaluated -> DefaultForSort(t.sort)

\* Mutant: the last formula is not looked at.
ValidateAllButLast(formulas, model) == \A i \in 1..(Len(formulas) - 1) : Evaluate(formulas[i], model)
Validate(formulas, model) == \A i \in DOMAIN formulas : Evaluate(formulas[i], model)
=============================================================================
