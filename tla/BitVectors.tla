----------------------------- MODULE BitVectors -----------------------------
(***************************************************************************)
(* Bit-vector values and operations of the SMT-LIB theory, as the model    *)
(* validator evaluates them (validator.rs): a value of width w is a        *)
(* number below 2^w.                                                       *)
(***************************************************************************)
EXTENDS Integers, FiniteSetsExt

Mod(v, w) == v % 2^w
Bit(v, k) == (v \div 2^k) % 2
\* The number whose bit k is b[k].
OfBits(b) == FoldSet(LAMBDA k, sum : sum + b[k] * 2^k, 0, DOMAIN b)
AllOnes(w) == 2^w - 1
Msb(v, w) == Bit(v, w - 1)
Signed(v, w) == IF Msb(v, w) = 1 THEN v - 2^w ELSE v

BvAdd(a, b, w) == Mod(a + b, w)
BvSub(a, b, w) == Mod(a + 2^w - b, w)
BvMul(a, b, w) == Mod(a * b, w)
BvNeg(a, w) == Mod(2^w - a, w)
BvUdiv(a, b, w) == IF b = 0 THEN AllOnes(w) ELSE a \div b
BvUrem(a, b, w) == IF b = 0 THEN a ELSE a % b

BvAnd(a, b, w) == OfBits([k \in 0..(w - 1) |-> Bit(a, k) * Bit(b, k)])
BvXor(a, b, w) == OfBits([k \in 0..(w - 1) |-> (Bit(a, k) + Bit(b, k)) % 2])
BvOr(a, b, w) == OfBits([k \in 0..(w - 1) |-> IF Bit(a, k) = 1 THEN 1 ELSE Bit(b, k)])
BvNot(a, w) == AllOnes(w) - a

BvShl(a, b, w) == IF b >= w THEN 0 ELSE Mod(a * 2^b, w)
BvLshr(a, b, w) == IF b >= w THEN 0 ELSE a \div 2^b
\* The sign fills what the shift leaves free.
BvAshr(a, b, w) ==
    LET fill == IF b >= w THEN AllOnes(w) ELSE (2^b - 1) * 2^(w - b)
    IN  BvLshr(a, b, w) + Msb(a, w) * fill

Concat(high, low, wlow) == high * 2^wlow + low
Extract(v, low, w) == Mod(v \div 2^low, w)
SignExtend(v, n, w) == v + Msb(v, w) * (2^n - 1) * 2^w
=============================================================================
