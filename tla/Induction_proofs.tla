-------------------------- MODULE Induction_proofs --------------------------
(***************************************************************************)
(* Induction and recursion without operators as parameters: least elements *)
(* of sets of numbers, functions defined by recursion, and what folding    *)
(* and flattening a sequence compute, element by element.                  *)
(***************************************************************************)
EXTENDS Integers, SequencesExt, WellFoundedInduction, FiniteSetTheorems, TLAPS

-----------------------------------------------------------------------------
\* The first elements of a sequence are a sequence of the same kind.
LEMMA FirstPart ==
  ASSUME NEW S, NEW s \in Seq(S), NEW n \in Nat, n <= Len(s), NEW f, f = [i \in 1..n |-> s[i]]
  PROVE  f \in Seq(S) /\ Len(f) = n
<1>1. \A i \in 1..n : s[i] \in S
  OBVIOUS
<1>2. f \in [1..n -> S]
  BY <1>1
<1>3. f \in Seq(S)
  BY <1>2
<1> QED BY <1>2, <1>3

-----------------------------------------------------------------------------
(* Induction on the natural numbers, by least elements.                     *)

LEMMA Least ==
  ASSUME NEW T \in SUBSET Nat, T # {}
  PROVE  \E n \in T : \A m \in T : n <= m
<1> DEFINE R == {ss \in Nat \X Nat : ss[1] < ss[2]}
<1>1. IsWellFoundedOn(R, Nat)
  BY NatLessThanWellFounded DEF OpToRel
<1>2. PICK n \in T : \A m \in T : ~(<<m, n>> \in R)
  <2> HIDE DEF R
  <2> QED BY <1>1, WFMin
<1>3. ASSUME NEW m \in T PROVE n <= m
  <2>1. m \in Nat /\ n \in Nat
    OBVIOUS
  <2>2. ~(m < n)
    <3> SUFFICES ASSUME m < n PROVE <<m, n>> \in R
      BY <1>2
    <3> QED BY <2>1
  <2> QED BY <2>1, <2>2
<1> QED BY <1>3

\* A set of numbers that holds 0 and each successor holds every number.
LEMMA Everything ==
  ASSUME NEW T, 0 \in T, \A n \in Nat : n \in T => n + 1 \in T
  PROVE  Nat \subseteq T
<1> DEFINE Bad == Nat \ T
<1> SUFFICES ASSUME Bad # {} PROVE FALSE
  OBVIOUS
<1>1. PICK n \in Bad : \A m \in Bad : n <= m
  BY Least
<1>2. n \in Nat /\ n # 0 /\ n - 1 \in Nat /\ n - 1 \notin Bad
  BY <1>1
<1>3. (n - 1) + 1 \in T
  BY <1>2
<1> QED BY <1>2, <1>3

LEMMA MinFacts ==
  ASSUME NEW T \in SUBSET Nat, T # {}
  PROVE  Min(T) \in T /\ \A m \in T : Min(T) <= m
BY Least DEF Min

\* A function may be defined by recursion on the natural numbers.
Steps(S) == [Nat \X S -> S]
Computes(f, S, base, step) ==
    f \in [Nat -> S] /\ f[0] = base /\ \A n \in Nat : f[n + 1] = step[<<n, f[n]>>]
LEMMA Recursion ==
  ASSUME NEW S, NEW base \in S, NEW step \in Steps(S)
  PROVE  \E f : Computes(f, S, base, step)
<1> USE DEF Steps
<1> DEFINE Approx(n, g) == /\ g \in [0..n -> S] /\ g[0] = base
                           /\ \A i \in 0..(n - 1) : g[i + 1] = step[<<i, g[i]>>]
<1>1. \A n \in Nat : \E g : Approx(n, g)
  <2> DEFINE T == {n \in Nat : \E g : Approx(n, g)}
  <2>1. 0 \in T
    <3>1. Approx(0, [i \in 0..0 |-> base])
      OBVIOUS
    <3> QED BY <3>1
  <2>2. ASSUME NEW n \in Nat, n \in T PROVE n + 1 \in T
    <3>1. PICK g : Approx(n, g)
      BY <2>2
    <3> DEFINE h == [i \in 0..(n + 1) |-> IF i = n + 1 THEN step[<<n, g[n]>>] ELSE g[i]]
    <3>2. g[n] \in S /\ step[<<n, g[n]>>] \in S
      BY <3>1
    <3>3. h \in [0..(n + 1) -> S] /\ h[0] = base
      BY <3>1, <3>2
    <3>4. ASSUME NEW i \in 0..n PROVE h[i + 1] = step[<<i, h[i]>>]
      <4>1. CASE i = n
        <5>1. n + 1 \in 0..(n + 1) /\ n \in 0..(n + 1) /\ n # n + 1
          OBVIOUS
        <5>2. h[n + 1] = step[<<n, g[n]>>] /\ h[n] = g[n]
          BY <5>1
        <5> QED BY <4>1, <5>2
      <4>2. CASE i # n
        <5>1. i \in 0..(n - 1) /\ i + 1 # n + 1 /\ i + 1 \in 0..(n + 1)
          BY <4>2
        <5> QED BY <5>1, <3>1
      <4> QED BY <4>1, <4>2
    <3>5. Approx(n + 1, h)
      <4>1. ((n + 1) - 1) = n
        OBVIOUS
      <4> HIDE DEF h
      <4> QED BY <3>3, <3>4, <4>1
    <3> HIDE DEF h, Approx
    <3> QED BY <3>5
  <2> HIDE DEF T
  <2>3. Nat \subseteq T
    BY <2>1, <2>2, Everything
  <2> QED BY <2>3 DEF T
<1>2. ASSUME NEW n \in Nat, NEW m \in Nat, n <= m, NEW g, NEW h, Approx(n, g), Approx(m, h)
      PROVE  g[n] = h[n]
  <2> DEFINE T == {i \in Nat : i <= n => g[i] = h[i]}
  <2>1. 0 \in T
    BY <1>2
  <2>2. ASSUME NEW i \in Nat, i \in T PROVE i + 1 \in T
    <3> SUFFICES ASSUME i + 1 <= n PROVE g[i + 1] = h[i + 1]
      OBVIOUS
    <3>1. i \in 0..(n - 1) /\ i \in 0..(m - 1) /\ g[i] = h[i]
      BY <1>2, <2>2
    <3> QED BY <3>1, <1>2
  <2> HIDE DEF T
  <2>3. Nat \subseteq T
    BY <2>1, <2>2, Everything
  <2> QED BY <2>3 DEF T
<1> DEFINE a == [n \in Nat |-> CHOOSE g : Approx(n, g)]
<1>3. \A n \in Nat : Approx(n, a[n])
  BY <1>1
<1> HIDE DEF a
<1> DEFINE f == [n \in Nat |-> a[n][n]]
<1>4. f \in [Nat -> S] /\ f[0] = base
  <2>1. \A n \in Nat : a[n][n] \in S
    BY <1>3
  <2> QED BY <2>1, <1>3
<1>5. ASSUME NEW n \in Nat PROVE f[n + 1] = step[<<n, f[n]>>]
  <2>1. a[n + 1][n + 1] = step[<<n, a[n + 1][n]>>]
    BY <1>3
  <2>2. a[n][n] = a[n + 1][n]
    <3>1. Approx(n, a[n]) /\ Approx(n + 1, a[n + 1]) /\ n <= n + 1 /\ n + 1 \in Nat
      BY <1>3
    <3> HIDE DEF Approx
    <3> QED BY <3>1, <1>2
  <2> QED BY <2>1, <2>2
<1>6. Computes(f, S, base, step)
  <2> HIDE DEF f
  <2> QED BY <1>4, <1>5 DEF Computes
<1> QED BY <1>6

LEMMA InToSet ==
  ASSUME NEW S, NEW s \in Seq(S), NEW x
  PROVE  x \in ToSet(s) <=> \E i \in 1..Len(s) : s[i] = x
BY DEF ToSet

LEMMA InEmpty == \A x : ~(x \in ToSet(<< >>))
<1>1. << >> \in Seq({}) /\ Len(<< >>) = 0
  OBVIOUS
<1>2. \A x : x \in ToSet(<< >>) <=> \E i \in 1..Len(<< >>) : << >>[i] = x
  BY <1>1, InToSet
<1> QED BY <1>1, <1>2

LEMMA InConcat ==
  ASSUME NEW S, NEW s \in Seq(S), NEW t \in Seq(S), NEW x
  PROVE  /\ s \o t \in Seq(S)
         /\ x \in ToSet(s \o t) <=> x \in ToSet(s) \/ x \in ToSet(t)
<1>1. s \o t \in Seq(S) /\ Len(s \o t) = Len(s) + Len(t) /\ Len(s) \in Nat /\ Len(t) \in Nat
  OBVIOUS
<1>2. ASSUME x \in ToSet(s \o t) PROVE x \in ToSet(s) \/ x \in ToSet(t)
  <2>1. PICK i \in 1..Len(s \o t) : (s \o t)[i] = x
    BY <1>1, <1>2, InToSet
  <2>2. CASE i <= Len(s)
    BY <1>1, <2>1, <2>2, InToSet
  <2>3. CASE i > Len(s)
    <3>1. i - Len(s) \in 1..Len(t) /\ t[i - Len(s)] = x
      BY <1>1, <2>1, <2>3
    <3> QED BY <3>1, InToSet
  <2> QED BY <1>1, <2>2, <2>3
<1>3. ASSUME x \in ToSet(s) PROVE x \in ToSet(s \o t)
  <2>1. PICK i \in 1..Len(s) : s[i] = x
    BY <1>3, InToSet
  <2>2. i \in 1..Len(s \o t) /\ (s \o t)[i] = x
    BY <1>1, <2>1
  <2> QED BY <1>1, <2>2, InToSet
<1>4. ASSUME x \in ToSet(t) PROVE x \in ToSet(s \o t)
  <2>1. PICK i \in 1..Len(t) : t[i] = x
    BY <1>4, InToSet
  <2>2. Len(s) + i \in 1..Len(s \o t) /\ (s \o t)[Len(s) + i] = x
    BY <1>1, <2>1
  <2> QED BY <1>1, <2>2, InToSet
<1> QED BY <1>1, <1>2, <1>3, <1>4

\* Flattening joins one sequence after the other.
\* The elements of a concatenation.
LEMMA ConcatIs ==
  ASSUME NEW S, NEW s \in Seq(S), NEW t \in Seq(S)
  PROVE  /\ s \o t \in Seq(S) /\ Len(s \o t) = Len(s) + Len(t)
         /\ s \o t = [i \in 1..(Len(s) + Len(t)) |-> IF i <= Len(s) THEN s[i] ELSE t[i - Len(s)]]
<1>1. s \o t \in Seq(S)
  OBVIOUS
<1>2. Len(s \o t) = Len(s) + Len(t)
  OBVIOUS
<1>3. PICK u : u = s \o t
  OBVIOUS
<1>4. PICK n \in Nat, k \in Nat : n = Len(s) /\ k = Len(t)
  OBVIOUS
<1>5. ASSUME NEW i \in 1..(n + k) PROVE u[i] = IF i <= n THEN s[i] ELSE t[i - n]
  <2>1. CASE i <= n
    <3>1. i \in 1..Len(s)
      BY <1>4, <2>1
    <3> QED BY <1>3, <1>4, <2>1, <3>1
  <2>2. CASE ~(i <= n)
    <3>1. PICK j \in 1..k : i = n + j
      <4>1. i - n \in 1..k /\ i = n + (i - n)
        BY <2>2
      <4> QED BY <4>1
    <3>2. j \in 1..Len(t) /\ i - n = j
      BY <1>4, <3>1
    <3>3. (s \o t)[Len(s) + j] = t[j]
      BY <3>2
    <3> QED BY <1>3, <1>4, <2>2, <3>1, <3>2, <3>3
  <2> QED BY <2>1, <2>2
<1>6. u = [i \in 1..(n + k) |-> u[i]]
  <2>1. u \in Seq(S) /\ Len(u) = n + k
    BY <1>1, <1>2, <1>3, <1>4
  <2> QED BY ONLY <2>1
<1>7. u = [i \in 1..(n + k) |-> IF i <= n THEN s[i] ELSE t[i - n]]
  BY <1>5, <1>6
<1> QED BY <1>1, <1>2, <1>3, <1>4, <1>7

LEMMA FlattenSteps ==
  ASSUME NEW S, NEW q \in Seq(Seq(S))
  PROVE  \E g \in [0..Len(q) -> Seq(S)] :
            /\ g[0] = << >> /\ FlattenSeq(q) = g[Len(q)]
            /\ \A i \in 1..Len(q) : g[i] = g[i - 1] \o q[i]
<1>1. CASE Len(q) = 0
  <2>1. q = << >> /\ FlattenSeq(q) = q /\ << >> \in Seq(S)
    BY <1>1 DEF FlattenSeq
  <2> DEFINE g == [i \in 0..0 |-> q]
  <2>2. g \in [0..Len(q) -> Seq(S)] /\ g[0] = << >> /\ g[Len(q)] = FlattenSeq(q)
    BY <1>1, <2>1
  <2>3. ~ \E i \in 1..Len(q) : TRUE
    BY <1>1
  <2> HIDE DEF g
  <2> QED BY <2>2, <2>3
<1>2. CASE Len(q) # 0
  <2> DEFINE n == Len(q)
             Flat(f) == f = [i \in 1..n |-> IF i = 1 THEN q[1] ELSE f[i - 1] \o q[i]]
             step == [p \in Nat \X Seq(S) |-> IF p[1] + 2 <= n THEN p[2] \o q[p[1] + 2] ELSE p[2]]
  <2>1. n \in Nat /\ n > 0 /\ q[1] \in Seq(S) /\ \A i \in 1..n : q[i] \in Seq(S)
    BY <1>2
  <2>2. step \in Steps(Seq(S))
    <3> SUFFICES ASSUME NEW k \in Nat, NEW s \in Seq(S), k + 2 <= n PROVE s \o q[k + 2] \in Seq(S)
      BY DEF Steps
    <3>1. k + 2 \in 1..n
      BY <2>1
    <3> QED BY <3>1, <2>1
  <2>3. PICK f : Computes(f, Seq(S), q[1], step)
    <3>1. q[1] \in Seq(S)
      BY <2>1
    <3> HIDE DEF step, n, Flat
    <3> QED BY <3>1, <2>2, Recursion
  <2>31. f \in [Nat -> Seq(S)] /\ f[0] = q[1] /\ \A k \in Nat : f[k + 1] = step[<<k, f[k]>>]
    <3> HIDE DEF step
    <3> QED BY <2>3 DEF Computes
  <2> DEFINE g0 == [i \in 1..n |-> f[i - 1]]
  <2>4. Flat(g0)
    <3>1. ASSUME NEW i \in 1..n, i # 1 PROVE g0[i] = g0[i - 1] \o q[i]
      <4>1. PICK k \in Nat : i = k + 2
        <5>1. i - 2 \in Nat /\ i = (i - 2) + 2
          BY <2>1, <3>1
        <5> QED BY <5>1
      <4>2. g0[i] = f[k + 1] /\ g0[i - 1] = f[k]
        BY <2>1, <4>1
      <4>3. f[k + 1] = step[<<k, f[k]>>] /\ f[k] \in Seq(S)
        <5> HIDE DEF step
        <5> QED BY <2>31
      <4>4. step[<<k, f[k]>>] = f[k] \o q[k + 2]
        <5>1. k + 2 <= n
          BY <2>1, <4>1
        <5> QED BY <5>1, <4>3
      <4> QED BY <4>1, <4>2, <4>3, <4>4
    <3>2. g0[1] = q[1]
      <4>1. 1 \in 1..n /\ 1 - 1 = 0
        BY <2>1
      <4> QED BY <4>1, <2>31
    <3>3. g0 = [i \in 1..n |-> g0[i]]
      OBVIOUS
    <3> HIDE DEF g0
    <3> QED BY <3>1, <3>2, <3>3
  <2> DEFINE h == CHOOSE f1 : Flat(f1)
  <2>5. Flat(h)
    <3> HIDE DEF Flat, g0
    <3> QED BY <2>4
  <2>6. FlattenSeq(q) = h[n]
    BY <1>2 DEF FlattenSeq
  <2> HIDE DEF h
  <2>7. h[1] = q[1] /\ \A i \in 1..n : i # 1 => h[i] = h[i - 1] \o q[i]
    <3>1. h = [i \in 1..n |-> IF i = 1 THEN q[1] ELSE h[i - 1] \o q[i]]
      BY <2>5
    <3>2. 1 \in 1..n
      BY <2>1
    <3>3. \A i \in 1..n : h[i] = IF i = 1 THEN q[1] ELSE h[i - 1] \o q[i]
      BY <3>1
    <3> QED BY <3>2, <3>3
  <2> DEFINE T == {i \in Nat : i + 1 <= n => h[i + 1] \in Seq(S)}
  <2>8. 0 \in T
    BY <2>1, <2>7
  <2>9. ASSUME NEW i \in Nat, i \in T PROVE i + 1 \in T
    <3> SUFFICES ASSUME (i + 1) + 1 <= n PROVE h[(i + 1) + 1] \in Seq(S)
      OBVIOUS
    <3>1. (i + 1) + 1 \in 1..n /\ (i + 1) + 1 # 1 /\ ((i + 1) + 1) - 1 = i + 1
      BY <2>1
    <3>2. h[i + 1] \in Seq(S) /\ q[(i + 1) + 1] \in Seq(S)
      BY <2>1, <2>9, <3>1
    <3>3. h[(i + 1) + 1] = h[i + 1] \o q[(i + 1) + 1]
      BY <2>7, <3>1
    <3> QED BY <3>2, <3>3
  <2> HIDE DEF T
  <2>10. Nat \subseteq T
    BY <2>8, <2>9, Everything
  <2>11. \A i \in 1..n : h[i] \in Seq(S)
    <3> SUFFICES ASSUME NEW i \in 1..n PROVE h[i] \in Seq(S)
      OBVIOUS
    <3>1. i - 1 \in Nat /\ (i - 1) + 1 = i /\ i <= n
      BY <2>1
    <3> QED BY <2>10, <3>1 DEF T
  <2> DEFINE g == [i \in 0..n |-> IF i = 0 THEN << >> ELSE h[i]]
  <2>12. g \in [0..n -> Seq(S)] /\ g[0] = << >> /\ g[n] = h[n]
    BY <2>1, <2>11
  <2>13. \A i \in 1..n : g[i] = g[i - 1] \o q[i]
    <3> SUFFICES ASSUME NEW i \in 1..n PROVE g[i] = g[i - 1] \o q[i]
      OBVIOUS
    <3>1. CASE i = 1
      <4>1. g[i] = q[1] /\ g[i - 1] = << >> /\ q[1] \in Seq(S)
        BY <2>1, <2>7, <3>1
      <4>2. << >> \o q[1] = q[1]
        BY <4>1
      <4> HIDE DEF g
      <4> QED BY <3>1, <4>1, <4>2
    <3>2. CASE i # 1
      <4>1. g[i] = h[i] /\ g[i - 1] = h[i - 1]
        BY <2>1, <3>2
      <4> QED BY <2>7, <3>2, <4>1
    <3> QED BY <3>1, <3>2
  <2> HIDE DEF g
  <2> QED BY <2>6, <2>12, <2>13
<1> QED BY <1>1, <1>2

\* Flattening keeps the elements, and nothing else.
LEMMA FlattenFacts ==
  ASSUME NEW S, NEW q \in Seq(Seq(S))
  PROVE  /\ FlattenSeq(q) \in Seq(S)
         /\ \A x : x \in ToSet(FlattenSeq(q)) <=> \E i \in 1..Len(q) : x \in ToSet(q[i])
<1>1. PICK g \in [0..Len(q) -> Seq(S)] :
            /\ g[0] = << >> /\ FlattenSeq(q) = g[Len(q)]
            /\ \A i \in 1..Len(q) : g[i] = g[i - 1] \o q[i]
  BY FlattenSteps
<1>2. PICK n \in Nat : n = Len(q)
  OBVIOUS
<1>3. \A i \in 1..n : q[i] \in Seq(S)
  BY <1>2
<1> DEFINE Content(i) == \A x : x \in ToSet(g[i]) <=> \E j \in 1..i : x \in ToSet(q[j])
           T == {i \in Nat : i <= n => Content(i)}
<1>4. 0 \in T
  <2>1. ~ \E j \in 1..0 : TRUE
    OBVIOUS
  <2> HIDE DEF ToSet
  <2> QED BY <1>1, <2>1, InEmpty
<1>5. ASSUME NEW i \in Nat, i \in T PROVE i + 1 \in T
  <2> SUFFICES ASSUME i + 1 <= n PROVE Content(i + 1)
    <3> HIDE DEF Content
    <3> QED OBVIOUS
  <2>1. i + 1 \in 1..n /\ (i + 1) - 1 = i /\ i \in 0..n /\ i <= n
    BY <1>2
  <2>2. g[i + 1] = g[i] \o q[i + 1] /\ Content(i) /\ g[i] \in Seq(S) /\ q[i + 1] \in Seq(S)
    BY <1>1, <1>2, <1>3, <1>5, <2>1
  <2> SUFFICES ASSUME NEW x PROVE x \in ToSet(g[i + 1]) <=> \E j \in 1..(i + 1) : x \in ToSet(q[j])
    OBVIOUS
  <2>3. x \in ToSet(g[i + 1]) <=> x \in ToSet(g[i]) \/ x \in ToSet(q[i + 1])
    BY <2>2, InConcat
  <2>4. x \in ToSet(g[i]) <=> \E j \in 1..i : x \in ToSet(q[j])
    BY <2>2
  <2>5. 1..(i + 1) = (1..i) \cup {i + 1}
    OBVIOUS
  <2> QED BY <2>3, <2>4, <2>5
<1> HIDE DEF T
<1>6. Nat \subseteq T
  BY <1>4, <1>5, Everything
<1>7. Content(n)
  <2> HIDE DEF Content
  <2> QED BY <1>6 DEF T
<1> QED BY <1>1, <1>2, <1>7

-----------------------------------------------------------------------------
(* Folds.  FoldLeft descends on sets of positions; what counts are the      *)
(* prefixes of the sequence.                                                *)

LEMMA MaxFacts ==
  ASSUME NEW n \in Nat, NEW s \in SUBSET (1..n), s # {}
  PROVE  Max(s) \in s /\ \A i \in s : i <= Max(s)
<1> DEFINE T == {n - i : i \in s}
<1>1. T \in SUBSET Nat /\ T # {}
  <2>1. \A i \in s : n - i \in Nat
    OBVIOUS
  <2> QED BY <2>1
<1>2. PICK m \in T : \A k \in T : m <= k
  BY <1>1, Least
<1>3. PICK j \in s : m = n - j
  OBVIOUS
<1>4. \A i \in s : j >= i
  <2> SUFFICES ASSUME NEW i \in s PROVE j >= i
    OBVIOUS
  <2>1. n - i \in T
    OBVIOUS
  <2>2. n - j <= n - i /\ i \in Nat /\ j \in Nat
    BY <1>2, <1>3, <2>1
  <2> QED BY <2>2
<1>5. Max(s) \in s /\ \A i \in s : Max(s) >= i
  <2> HIDE DEF T
  <2>1. \E x \in s : \A y \in s : x >= y
    BY <1>4
  <2> QED BY <2>1 DEF Max
<1> HIDE DEF T
<1>6. \A i \in s : i \in Nat
  OBVIOUS
<1> SUFFICES ASSUME NEW i \in s PROVE i <= Max(s)
  BY <1>5
<1>7. Max(s) \in Nat /\ i \in Nat /\ Max(s) >= i
  BY <1>5, <1>6
<1> QED BY <1>7

FoldSteps(n, S) == [(1..n) \X S -> S]
\* What the definition of a fold says of its iterations.
Folding(g, n, base, step) ==
    g = [s \in SUBSET (1..n) |-> IF s = {} THEN base ELSE step[<<Max(s), g[s \ {Max(s)}]>>]]

LEMMA FoldExists ==
  ASSUME NEW S, NEW base \in S, NEW n \in Nat, NEW step \in FoldSteps(n, S)
  PROVE  \E g \in [SUBSET (1..n) -> S] : Folding(g, n, base, step)
<1> DEFINE D == 1..n
           R == [SUBSET D -> S]
           F(f) == [s \in SUBSET D |-> IF s = {} THEN base ELSE step[<<Max(s), f[s \ {Max(s)}]>>]]
           again == [p \in Nat \X R |-> F(p[2])]
           first == [s \in SUBSET D |-> base]
<1>1. ASSUME NEW f \in R, NEW s \in SUBSET D, s # {}
      PROVE  Max(s) \in D /\ s \ {Max(s)} \in SUBSET D /\ step[<<Max(s), f[s \ {Max(s)}]>>] \in S
  <2>1. Max(s) \in D
    BY <1>1, MaxFacts
  <2>2. f[s \ {Max(s)}] \in S
    OBVIOUS
  <2> QED BY <2>1, <2>2 DEF FoldSteps
<1>2. \A f \in R : F(f) \in R
  BY <1>1
<1>3. first \in R /\ again \in Steps(R)
  <2>1. first \in R
    OBVIOUS
  <2>2. again \in Steps(R)
    <3> HIDE DEF F, R
    <3> QED BY <1>2 DEF Steps
  <2> QED BY <2>1, <2>2
<1>4. PICK f : Computes(f, R, first, again)
  <2> HIDE DEF first, again, R
  <2> QED BY <1>3, Recursion
<1>5. f \in [Nat -> R] /\ f[0] = first /\ \A k \in Nat : f[k + 1] = F(f[k])
  <2>1. f \in [Nat -> R] /\ f[0] = first /\ \A k \in Nat : f[k + 1] = again[<<k, f[k]>>]
    <3> HIDE DEF first, again, R
    <3> QED BY <1>4 DEF Computes
  <2>2. ASSUME NEW k \in Nat PROVE again[<<k, f[k]>>] = F(f[k])
    <3>1. f[k] \in R
      <4> HIDE DEF R, first, again
      <4> QED BY <2>1
    <3> HIDE DEF R, F
    <3> QED BY <3>1
  <2> HIDE DEF R, F, first, again
  <2> QED BY <2>1, <2>2
<1>6. \A k \in Nat : f[k] \in R
  <2> HIDE DEF R, first
  <2> QED BY <1>5
<1>7. ASSUME NEW k \in Nat, NEW s \in SUBSET D
      PROVE  f[k + 1][s] = IF s = {} THEN base ELSE step[<<Max(s), f[k][s \ {Max(s)}]>>]
  <2>1. f[k + 1] = [r \in SUBSET D |-> IF r = {} THEN base ELSE step[<<Max(r), f[k][r \ {Max(r)}]>>]]
    <3> HIDE DEF D, R, first
    <3> QED BY <1>5
  <2> HIDE DEF D, R, first
  <2> QED BY <2>1
<1> DEFINE T == {k \in Nat : \A s \in SUBSET D : s \subseteq 1..k => f[k + 1][s] = f[k][s]}
<1>8. 0 \in T
  <2> SUFFICES ASSUME NEW s \in SUBSET D, s \subseteq 1..0 PROVE f[0 + 1][s] = f[0][s]
    OBVIOUS
  <2>1. s = {}
    OBVIOUS
  <2>2. f[0 + 1][s] = base /\ f[0][s] = base
    BY <1>5, <1>7, <2>1
  <2> QED BY <2>2
<1>9. ASSUME NEW k \in Nat, k \in T PROVE k + 1 \in T
  <2> SUFFICES ASSUME NEW s \in SUBSET D, s \subseteq 1..(k + 1) PROVE f[(k + 1) + 1][s] = f[k + 1][s]
    OBVIOUS
  <2>1. CASE s = {}
    <3>1. k + 1 \in Nat
      OBVIOUS
    <3>2. f[(k + 1) + 1][s] = base /\ f[k + 1][s] = base
      <4> HIDE DEF D
      <4> QED BY <1>7, <2>1, <3>1
    <3> QED BY <3>2
  <2>2. CASE s # {}
    <3>0. k + 1 \in Nat
      OBVIOUS
    <3>1. Max(s) \in s /\ (\A i \in s : i <= Max(s))
      BY <2>2, MaxFacts
    <3>2. s \ {Max(s)} \subseteq 1..k /\ s \ {Max(s)} \in SUBSET D
      <4> SUFFICES ASSUME NEW i \in s \ {Max(s)} PROVE i \in 1..k
        OBVIOUS
      <4>1. i \in 1..(k + 1) /\ Max(s) \in 1..(k + 1) /\ i <= Max(s) /\ i # Max(s)
        BY <3>1
      <4> QED BY <4>1
    <3>3. f[k + 1][s \ {Max(s)}] = f[k][s \ {Max(s)}]
      BY <1>9, <3>2
    <3> HIDE DEF D
    <3>4. f[(k + 1) + 1][s] = step[<<Max(s), f[k + 1][s \ {Max(s)}]>>]
      BY <1>7, <2>2, <3>0
    <3>5. f[k + 1][s] = step[<<Max(s), f[k][s \ {Max(s)}]>>]
      BY <1>7, <2>2
    <3> QED BY <3>3, <3>4, <3>5
  <2> QED BY <2>1, <2>2
<1> HIDE DEF T
<1>10. Nat \subseteq T
  BY <1>8, <1>9, Everything
<1>11. \A s \in SUBSET D : f[n + 1][s] = f[n][s]
  BY <1>10 DEF T
<1>12. f[n + 1] = f[n]
  <2>1. f[n + 1] \in [SUBSET D -> S] /\ f[n] \in [SUBSET D -> S]
    <3>1. n + 1 \in Nat
      OBVIOUS
    <3> HIDE DEF D
    <3> QED BY <1>6, <3>1
  <2> HIDE DEF D
  <2> QED BY <1>11, <2>1
<1>13. f[n] = F(f[n])
  <2> HIDE DEF F, R, first
  <2> QED BY <1>5, <1>12
<1>14. Folding(f[n], n, base, step)
  BY <1>13 DEF Folding
<1> QED BY <1>6, <1>14

LEMMA UpTo ==
  ASSUME NEW n \in Nat, NEW k \in 1..n
  PROVE  /\ 1..k \in SUBSET (1..n) /\ 1..k # {}
         /\ Max(1..k) = k /\ (1..k) \ {Max(1..k)} = 1..(k - 1)
<1>1. 1..k \in SUBSET (1..n) /\ 1..k # {} /\ k \in 1..k
  OBVIOUS
<1>2. Max(1..k) \in 1..k /\ \A i \in 1..k : i <= Max(1..k)
  BY <1>1, MaxFacts
<1>3. Max(1..k) = k
  BY <1>1, <1>2
<1>4. (1..k) \ {k} = 1..(k - 1)
  OBVIOUS
<1> QED BY <1>1, <1>3, <1>4

LEMMA FoldFacts ==
  ASSUME NEW S, NEW base \in S, NEW n \in Nat, NEW step \in FoldSteps(n, S),
         NEW g, g[{}] = base,
         \A k \in 1..n : g[1..(k - 1)] \in S => g[1..k] = step[<<k, g[1..(k - 1)]>>]
  PROVE  /\ g[1..0] = base
         /\ \A k \in 1..n : g[1..k] = step[<<k, g[1..(k - 1)]>>]
         /\ \A k \in 0..n : g[1..k] \in S
<1>1. g[1..0] = base
  <2>1. 1..0 = {}
    OBVIOUS
  <2> QED BY <2>1
<1> DEFINE T == {k \in Nat : k <= n => g[1..k] \in S}
<1>2. 0 \in T
  BY <1>1
<1>3. ASSUME NEW k \in Nat, k \in T PROVE k + 1 \in T
  <2> SUFFICES ASSUME k + 1 <= n PROVE g[1..(k + 1)] \in S
    OBVIOUS
  <2>1. g[1..k] \in S /\ k + 1 \in 1..n /\ (k + 1) - 1 = k
    BY <1>3
  <2>2. g[1..(k + 1)] = step[<<k + 1, g[1..k]>>]
    BY <2>1
  <2> QED BY <2>1, <2>2 DEF FoldSteps
<1> HIDE DEF T
<1>4. Nat \subseteq T
  BY <1>2, <1>3, Everything
<1>5. \A k \in 0..n : g[1..k] \in S
  BY <1>4 DEF T
<1>6. ASSUME NEW k \in 1..n PROVE g[1..k] = step[<<k, g[1..(k - 1)]>>]
  BY <1>5
<1> QED BY <1>1, <1>5, <1>6
=============================================================================
