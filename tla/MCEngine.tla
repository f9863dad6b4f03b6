------------------------------ MODULE MCEngine ------------------------------
(***************************************************************************)
(* Sessions for the engine: one formula for every operator and every rule   *)
(* of the preprocessor, and sessions that mix scopes, assumptions,          *)
(* enumeration and traces.                                                  *)
(***************************************************************************)
EXTENDS Engine

\* Variables of two and three bits, Booleans and integers.
x == Var("x", 2)
y == Var("y", 2)
z == Var("z", 2)
r == Var("r", 3)
s == Var("s", 3)
u == Var("u", 3)
p == Var("p", BoolSort)
q == Var("q", BoolSort)
i == Var("i", IntSort)
j == Var("j", IntSort)
B(v) == BvConst(v, 2)
N(v) == IntConst(v)
Eq(a, b) == Intern("Eq", <<a, b>>, BoolSort)
Bv(op, a, b) == Intern(op, <<a, b>>, a.sort)
Rel(op, a, b) == Intern(op, <<a, b>>, BoolSort)
Not(a) == Intern("Not", <<a>>, BoolSort)

BinaryOps == {"BvAdd", "BvSub", "BvMul", "BvUdiv", "BvUrem", "BvSdiv", "BvSrem", "BvSmod", "BvAnd", "BvOr",
              "BvXor", "BvNand", "BvNor", "BvXnor", "BvShl", "BvLshr", "BvAshr"}
Relations == {"BvUlt", "BvUle", "BvUgt", "BvUge", "BvSlt", "BvSle", "BvSgt", "BvSge"}

\* Operators with rules of their own, nested in each other.
FoldedOps == {"BvAdd", "BvSub", "BvAnd", "BvXor", "BvShl"}

BinaryFormulas ==
    {Eq(Bv(op, a, b), z) : op \in BinaryOps, a \in {x, B(0), B(2)}, b \in {x, y, B(0), B(3)}}
    \union {Eq(Bv(op, B(a), B(b)), z) : op \in BinaryOps, a \in 0..3, b \in 0..3}
    \union {Eq(Bv(op, r, s), u) : op \in BinaryOps}
    \union {Eq(Bv(outer, Bv(inner, x, a), b), z) : outer \in FoldedOps, inner \in FoldedOps,
                                                   a \in {x, B(0)}, b \in {x, B(0), B(3)}}
RelationFormulas ==
    {Rel(op, a, b) : op \in Relations, a \in {x, B(1), B(2)}, b \in {y, B(1), B(2)}}

Unary(op, n, a, width) == Eq(Indexed(op, n, <<a>>, width), Var("w", width))
UnaryFormulas ==
    UNION {{Unary("BvNot", 0, a, 2), Unary("BvNeg", 0, a, 2), Unary("BvExtract", 1, a, 1),
            Unary("BvZeroExtend", 1, a, 3), Unary("BvSignExtend", 2, a, 4), Unary("BvRepeat", 2, a, 4)}
           : a \in {x, B(1), B(2)}}
    \union {Unary(op, n, r, 3) : op \in {"BvRotateLeft", "BvRotateRight"}, n \in {1, 2, 4}}
    \union {Eq(Intern("BvConcat", <<a, b>>, 4), Var("w", 4)) : a \in {x, B(1)}, b \in {y, B(2)}}
    \union {Eq(Intern("Ite", <<c, x, b>>, 2), z) : c \in {p, TrueT, FalseT}, b \in {x, y}}

Literals == {p, q, Not(p), TrueT, FalseT}
BoolFormulas ==
    {Rel(op, a, b) : op \in {"And", "Or", "Xor", "Implies", "Eq", "Distinct"}, a \in Literals, b \in Literals}
    \union {Intern("Ite", <<a, b, c>>, BoolSort) : a \in {p, TrueT, FalseT}, b \in {q, TrueT}, c \in {q, FalseT}}
    \union {Not(a) : a \in Literals}
    \union {Intern("Distinct", <<x, y, b>>, BoolSort) : b \in {x, z}}
    \union {Intern("Distinct", <<p, q, p>>, BoolSort), Intern("Or", <<p, q, Not(p)>>, BoolSort)}

Sum(a, b) == Intern("Add", <<a, b>>, IntSort)
Difference(a, b) == Intern("Sub", <<a, b>>, IntSort)
Product(a, b) == Intern("Mul", <<a, b>>, IntSort)
IntFormulas ==
    {Rel(op, a, b) : op \in {"Lt", "Le", "Gt", "Ge", "Eq"}, a \in {i, N(0), N(1)}, b \in {j, N(1)}}
    \union {Eq(f, N(1)) : f \in {Sum(i, j), Sum(i, N(0)), Sum(N(0), N(0)), Sum(N(0), N(1)), Difference(i, i),
                                 Difference(i, N(0)), Difference(N(2), N(1)), Product(i, j), Product(N(1), N(1)),
                                 Intern("Add", <<i, N(0), j>>, IntSort), Intern("Add", <<i, j, N(1)>>, IntSort)}}
    \union {Intern("Distinct", <<i, j, N(1)>>, BoolSort)}

\* Connectives over an atom of arithmetic, nested.
Atom == Rel("Lt", i, N(1))
Binary == {"And", "Or", "Xor", "Implies", "Eq", "Distinct"}
MixedFormulas ==
    {Rel(outer, Rel(inner, Atom, q), c) : outer \in Binary, inner \in Binary, c \in {Atom, Not(q), TrueT}}
    \union {Intern("Ite", <<c, Rel("Implies", c, q), Atom>>, BoolSort) : c \in {p, Not(Atom), Rel("Xor", p, q)}}

-----------------------------------------------------------------------------
Declared(terms) ==
    LET variables == SetToSeq(VarsOf(terms))
    IN  [k \in DOMAIN variables |-> Call("declare_const", <<variables[k]>>, 0)] \o <<>>
Declare(variables) == [k \in DOMAIN variables |-> Call("declare_const", <<variables[k]>>, 0)] \o <<>>
Assert_(f) == Call("assert", <<f>>, 0)
Check(assumptions) == Call("check_sat", assumptions, 0)
PushN(n) == Call("push", <<>>, n)
PopN(n) == Call("pop", <<>>, n)
Models(targets, limit) == Call("enumerate_models", targets, limit)
Opaque(terms) == Call("check_opaque", terms, 0)
Trace(terms, taken) == [Call("fold_trace", terms, 0) EXCEPT !.taken = taken]
Logic(l) == [Call("set_logic", <<>>, 0) EXCEPT !.logic = l]

OneFormula ==
    {Declared({f}) \o <<Assert_(f), Check(<<>>)>> :
        f \in BinaryFormulas \union RelationFormulas \union UnaryFormulas
               \union BoolFormulas \union IntFormulas \union MixedFormulas}
    \* The same formulas by the other encoder.
    \union {<<Logic("QF_LIA")>> \o Declared({f}) \o <<Assert_(f), Check(<<>>)>> : f \in BoolFormulas}

Odd(a) == Eq(Bv("BvAnd", a, B(1)), B(1))
Less(a, b) == Rel("BvUlt", a, b)
Both(a, b) == Intern("And", <<a, b>>, BoolSort)
Either(a, b) == Intern("Or", <<a, b>>, BoolSort)
Mixed == Either(Less(x, y), Rel("Lt", i, N(1)))

Stories ==
    { \* Scopes, assumptions, and models that outlive them.
      Declare(<<x, y>>) \o <<Assert_(Less(x, y)), PushN(1), Assert_(Odd(x)), Check(<<Odd(y)>>), PopN(1),
                             Check(<<Not(Less(x, y))>>), PushN(2), Assert_(Eq(x, y)), Check(<<>>), PopN(5), Check(<<Odd(x)>>)>>,
      \* Nested scopes popped together; an assertion after the answer.
      Declare(<<p, q>>) \o <<Assert_(Either(p, q)), PushN(1), Assert_(Not(p)), PushN(1), Assert_(Not(q)), Check(<<>>),
                             PushN(1), PopN(1), PopN(2), Check(<<p>>), Assert_(Not(p)), Models(<<>>, 3), Call("reset", <<>>, 0), Check(<<>>)>>,
      \* Arithmetic that is popped still decides how bit-vectors are solved.
      Declare(<<x, y, i>>) \o <<PushN(1), Assert_(Rel("Lt", i, N(0))), Check(<<>>), PopN(1), Assert_(Less(x, y)), Check(<<>>)>>,
      Declare(<<x, y, i>>) \o <<Assert_(Mixed), Check(<<Not(Less(x, y))>>), Check(<<Rel("Gt", i, N(0)), Eq(x, y)>>)>>,
      <<Logic("QF_LIA")>> \o Declare(<<p, q, i>>)
          \o <<Assert_(Rel("Implies", p, Rel("Le", i, N(0)))), Assert_(Rel("Xor", p, q)), Check(<<Rel("Ge", i, N(1))>>)>>,
      \* Every model, some models, and models of some variables.
      Declare(<<x, y>>) \o <<Assert_(Less(x, y)), PushN(1), Models(<<x>>, 4), Check(<<Odd(x)>>), PopN(1), Models(<<y, x>>, 2)>>,
      Declare(<<x, p>>) \o <<Assert_(Rel("Implies", p, Odd(x))), Assert_(Less(x, B(2))), Models(<<>>, 5)>>,
      Declare(<<i, p>>) \o <<Assert_(Rel("Ge", i, N(0))), Models(<<i>>, 4)>>,
      Declare(<<x>>) \o <<Models(<<y>>, 3), Models(<<x>>, 0)>>,
      \* Traces: implied, contradictory and open predicates.
      Declare(<<x, y>>) \o <<Assert_(Less(x, y)),
          Trace(<<Less(x, B(2)), Odd(y), Less(B(0), y), Less(y, B(2))>>, <<TRUE, FALSE, TRUE, FALSE>>),
          Opaque(<<Less(B(0), y)>>), Opaque(<<Eq(x, y), Odd(x)>>), Opaque(<<Odd(x), Eq(x, B(1)), Less(x, B(2))>>),
          Opaque(<<Odd(x), Eq(x, y)>>)>>,
      Declare(<<x>>) \o <<Trace(<<Eq(Bv("BvMul", x, Bv("BvAdd", x, B(1))), B(3)), Less(x, B(2)), Less(x, B(3))>>,
                                <<FALSE, TRUE, FALSE>>)>>,
      Declare(<<x, i>>) \o <<Assert_(Rel("Lt", i, N(1))), Trace(<<Rel("Lt", i, N(2)), Less(x, B(2))>>, <<TRUE, TRUE>>)>> }

MCSessions == OneFormula \union Stories
\* The signed comparisons that have no circuit and no arm.
SignedSessions ==
    {<<Assert_(Not(Rel(op, B(1), B(0)))), Check(<<>>)>> : op \in {"BvSgt", "BvSge"}}
MCInts == -1..2
=============================================================================
