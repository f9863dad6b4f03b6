------------------------------ MODULE Circuits ------------------------------
(***************************************************************************)
(* The gates and circuits of the bit-blaster (bitvector.rs) and the gates   *)
(* of the Tseitin encoder (tseitin.rs).  A literal is its value; the output *)
(* of a gate is the value its clauses leave.  A bit-vector is the sequence  *)
(* of its bits, the lowest first.                                           *)
(***************************************************************************)
EXTENDS Integers, SequencesExt

CONSTANT UsizeBits  \* of the machine the solver is built for

Holds(cnf) == \A clause \in cnf : TRUE \in clause

AndClauses(p, args) == {{~p, a} : a \in args} \union {{p} \union {~a : a \in args}}
OrClauses(p, args) == {{p, ~a} : a \in args} \union {{~p} \union args}
XorClauses(p, a, b) == {{~p, a, b}, {~p, ~a, ~b}, {p, ~a, b}, {p, a, ~b}}
IteClauses(p, c, t, e) == {{~c, ~t, p}, {~c, t, ~p}, {c, ~e, p}, {c, e, ~p}}
\* Mutant: the premise is not negated.
ImpliesClausesPositive(p, a, b) == {{~p, a, b}, {p, ~a}, {p, ~b}}
ImpliesClauses(p, a, b) == {{~p, ~a, b}, {p, a}, {p, ~b}}

GateAnd(a, b) == CHOOSE p \in BOOLEAN : Holds(AndClauses(p, {a, b}))
GateOr(a, b) == CHOOSE p \in BOOLEAN : Holds(OrClauses(p, {a, b}))
GateXor(a, b) == CHOOSE p \in BOOLEAN : Holds(XorClauses(p, a, b))
GateIte(c, t, e) == CHOOSE p \in BOOLEAN : Holds(IteClauses(p, c, t, e))

Inverted(a) == [k \in DOMAIN a |-> ~a[k]] \o <<>>
AndBits(a, b) == [k \in DOMAIN a |-> GateAnd(a[k], b[k])] \o <<>>
OrBits(a, b) == [k \in DOMAIN a |-> GateOr(a[k], b[k])] \o <<>>
XorBits(a, b) == [k \in DOMAIN a |-> GateXor(a[k], b[k])] \o <<>>
IteBits(c, a, b) == [k \in DOMAIN a |-> GateIte(c, a[k], b[k])] \o <<>>
Filled(bit, n) == [k \in 1..n |-> bit] \o <<>>
Conjunction(bits) == FoldLeft(GateAnd, TRUE, bits)

-----------------------------------------------------------------------------
(* Addition and subtraction.                                                *)

CarryOut(a, b, carry) == GateOr(GateAnd(a, b), GateAnd(carry, GateXor(a, b)))

RECURSIVE Ripple(_, _, _)
Ripple(a, b, carry) ==
    IF a = <<>> \/ b = <<>> THEN <<>>
    ELSE <<GateXor(GateXor(a[1], b[1]), carry)>>
         \o Ripple(Tail(a), Tail(b), CarryOut(a[1], b[1], carry))

Adder(a, b) == Ripple(a, b, FALSE)
Subtractor(a, b) == Ripple(a, Inverted(b), TRUE)
NegBits(a) == Adder(Inverted(a), [k \in DOMAIN a |-> k = 1])

RECURSIVE LastCarry(_, _, _)
LastCarry(a, b, carry) ==
    IF a = <<>> THEN carry ELSE LastCarry(Tail(a), Tail(b), CarryOut(a[1], b[1], carry))

Ult(a, b) == ~LastCarry(a, Inverted(b), TRUE)
\* Mutant: of operands with different signs the positive one is the smaller.
SltPositive(a, b) == GateIte(GateXor(Last(a), Last(b)), Last(b), Ult(a, b))
Slt(a, b) == GateIte(GateXor(Last(a), Last(b)), Last(a), Ult(a, b))
EqBits(a, b) == Conjunction(Inverted(XorBits(a, b)))
IsZero(a) == Conjunction(Inverted(a))

\* a shifted by i places, masked by b[i + 1], is added in round i.
RECURSIVE Accumulate(_, _, _, _)
Accumulate(acc, a, b, i) ==
    IF i = Len(a) THEN acc
    ELSE LET masked == [j \in 1..(Len(a) - i) |-> GateAnd(a[j], b[i + 1])]
         IN  Accumulate(Adder(acc, Filled(FALSE, i) \o masked), a, b, i + 1)
Multiplier(a, b) == Accumulate(Filled(FALSE, Len(a)), a, b, 0)

-----------------------------------------------------------------------------
(* Barrel shifters.  The distance of a stage wraps at the machine's word.   *)

Distance(stage) == 2^(stage % UsizeBits)
Left(a, n) == Filled(FALSE, n) \o SubSeq(a, 1, Len(a) - n)
Right(a, n, fill) == SubSeq(a, n + 1, Len(a)) \o Filled(fill, n)

RECURSIVE LeftStages(_, _, _)
LeftStages(a, b, stage) ==
    IF stage = Len(b) \/ Distance(stage) >= Len(a) THEN a
    ELSE LeftStages(IteBits(b[stage + 1], Left(a, Distance(stage)), a), b, stage + 1)

RECURSIVE RightStages(_, _, _, _)
RightStages(a, b, fill, stage) ==
    IF stage = Len(b) \/ Distance(stage) >= Len(a) THEN a
    ELSE RightStages(IteBits(b[stage + 1], Right(a, Distance(stage), fill), a), b, fill, stage + 1)

\* Mutant: the distance of exactly the width is not out of range.
OverflowPast(a, b) ==
    FoldLeft(GateOr, FALSE, [k \in DOMAIN b |-> Distance(k - 1) > Len(a) /\ b[k]])
Overflow(a, b) ==
    FoldLeft(GateOr, FALSE, [k \in DOMAIN b |-> Distance(k - 1) >= Len(a) /\ b[k]])

Shl(a, b) == IteBits(Overflow(a, b), Filled(FALSE, Len(a)), LeftStages(a, b, 0))
Lshr(a, b) == IteBits(Overflow(a, b), Filled(FALSE, Len(a)), RightStages(a, b, FALSE, 0))
Ashr(a, b) == IteBits(Overflow(a, b), Filled(Last(a), Len(a)), RightStages(a, b, Last(a), 0))

-----------------------------------------------------------------------------
(* Division.                                                                *)

\* Restoring division, from bit i down: r is the remainder so far.
RECURSIVE Divide(_, _, _, _, _)
Divide(a, b, q, r, i) ==
    IF i = 0 THEN <<q, r>>
    ELSE LET next == <<a[i]>> \o Front(r)
             fits == GateOr(Last(r), ~Ult(next, b))
         IN  Divide(a, b, <<fits>> \o q, IteBits(fits, Subtractor(next, b), next), i - 1)

UdivUrem(a, b) ==
    LET d == Divide(a, b, <<>>, Filled(FALSE, Len(a)), Len(a))
    IN  <<IteBits(IsZero(b), Filled(TRUE, Len(a)), d[1]), IteBits(IsZero(b), a, d[2])>>

Abs(a) == IteBits(Last(a), NegBits(a), a)
Sdiv(a, b) ==
    LET q == UdivUrem(Abs(a), Abs(b))[1]
        by_zero == [k \in DOMAIN a |-> GateIte(Last(a), k = 1, TRUE)]
    IN  IteBits(IsZero(b), by_zero, IteBits(GateXor(Last(a), Last(b)), NegBits(q), q))
Srem(a, b) ==
    LET r == UdivUrem(Abs(a), Abs(b))[2]
    IN  IteBits(IsZero(b), a, IteBits(Last(a), NegBits(r), r))
Smod(a, b) ==
    LET r == Srem(a, b)
        adjusted == IteBits(GateXor(Last(a), Last(b)), Adder(r, b), r)
    IN  IteBits(IsZero(b), a, IteBits(IsZero(r), Filled(FALSE, Len(a)), adjusted))
=============================================================================
