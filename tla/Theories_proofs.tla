--------------------------- MODULE Theories_proofs ---------------------------
(***************************************************************************)
(* Proofs about the theories of NelsonOppen, for every arena and every     *)
(* sequence of calls: the bounds of simplex follow from the asserted       *)
(* literals (BoundsHold), the classes of the equality engine are those of  *)
(* the congruence closure of the merges in force (ClassesExact), and check *)
(* misses no conflict of equality (ConflictsFound).                        *)
(*                                                                         *)
(* Each engine undoes its changes one entry at a time, so the inductive    *)
(* invariants speak of the past too.  Arith: the bounds in force, and the  *)
(* bounds every open scope goes back to, follow from the literals asserted *)
(* by then.  Equality: the classes are sound in every congruence that      *)
(* respects the merges asked for, and complete up to the merges and visits *)
(* still to do; and so are those every open scope goes back to.  Denials:  *)
(* what a literal forbids is among the disequalities, with entries of the  *)
(* undo trail older than every scope that keeps the literal.               *)
(***************************************************************************)
EXTENDS NelsonOppen, Induction_proofs

-----------------------------------------------------------------------------
(* Bounds.  What an inequality demands of its column, and what the bounds   *)
(* of a column were when the undo stack had its first n entries.            *)

Sides == {"lower", "upper"}
Fields == {"term", "basic", "row", "value", "lb", "ub"}
Pairs == Int \X Int

\* A literal over the arena p: the side and the value it bounds, and the term
\* it bounds, 0 for the difference of two.
IsBounding(p, l) ==
    p.terms[AtomOf(l)].op \in Inequalities /\ Len(p.terms[AtomOf(l)].args) = 2
WithConstant(p, l) == p.terms[p.terms[AtomOf(l)].args[2]].op = "Const"
UpperIn(p, l) == (p.terms[AtomOf(l)].op \in {"Le", "Lt"}) = (l > 0)
StrictIn(p, l) == (p.terms[AtomOf(l)].op \in {"Lt", "Gt"}) = (l > 0)
Demand(p, l) ==
    [side |-> IF UpperIn(p, l) THEN "upper" ELSE "lower",
     value |-> <<IF WithConstant(p, l) THEN p.terms[p.terms[AtomOf(l)].args[2]].value ELSE 0,
                 IF ~StrictIn(p, l) THEN 0 ELSE IF UpperIn(p, l) THEN -1 ELSE 1>>,
     term |-> IF WithConstant(p, l) THEN p.terms[AtomOf(l)].args[1] ELSE 0]
LitsIn(p) == {l \in Int : AtomOf(l) \in 1..Len(p.terms)}

AnyBound(p) == [value : Pairs, reason : LitsIn(p) \cup {0}]
ColumnsOK(p, cs) ==
    /\ \E S : cs \in Seq(S)
    /\ \A v \in 1..Len(cs) : /\ DOMAIN cs[v] = Fields
                             /\ cs[v].term \in 0..Len(p.terms)
                             /\ cs[v].lb \in AnyBound(p) /\ cs[v].ub \in AnyBound(p)
UndoOK(p, cs, us) ==
    us \in Seq([side : Sides, var : 1..Len(cs), old : AnyBound(p)])

CurrentIn(cs, s, v) == IF s = "upper" THEN cs[v].ub ELSE cs[v].lb
ChangesIn(us, s, v, n) == {i \in (n + 1)..Len(us) : us[i].side = s /\ us[i].var = v}
BoundIn(cs, us, s, v, n) ==
    IF ChangesIn(us, s, v, n) = {} THEN CurrentIn(cs, s, v)
    ELSE us[Min(ChangesIn(us, s, v, n))].old

Tighter(s, x, y) == IF s = "upper" THEN DLess(x, y) ELSE DLess(y, x)
AsTight(s, x, y) == IF s = "upper" THEN DLeq(x, y) ELSE DLeq(y, x)

\* A bound is what one of the literals L says; a column's bound says no less
\* than a literal.
Justified(p, b, s, L) ==
    b # NoBound => /\ b.reason \in ToSet(L) /\ IsBounding(p, b.reason)
                   /\ s = Demand(p, b.reason).side /\ b.value = Demand(p, b.reason).value
Covers(p, b, t, l) ==
    /\ b # NoBound /\ t = Demand(p, l).term
    /\ IF t # 0 THEN AsTight(Demand(p, l).side, b.value, Demand(p, l).value) ELSE b.reason = l
BoundsFrom(p, cs, us, n, L) ==
    /\ \A s \in Sides : \A v \in 1..Len(cs) : Justified(p, BoundIn(cs, us, s, v, n), s, L)
    /\ \A l \in ToSet(L) : IsBounding(p, l) =>
          \E v \in 1..Len(cs) : Covers(p, BoundIn(cs, us, Demand(p, l).side, v, n), cs[v].term, l)

\* The columns ds hold those of cs, and new ones without bounds.
Grows(p, cs, ds) ==
    /\ ColumnsOK(p, ds) /\ Len(cs) <= Len(ds)
    /\ \A v \in 1..Len(cs) : ds[v] = cs[v]
    /\ \A v \in 1..Len(ds) : v > Len(cs) => ds[v].lb = NoBound /\ ds[v].ub = NoBound

\* Setting a bound, if it is tighter.
Sets(cs, us, ds, ws, s, v, b) ==
    IF CurrentIn(cs, s, v) = NoBound \/ Tighter(s, b.value, CurrentIn(cs, s, v).value)
    THEN /\ ds = [cs EXCEPT ![v] = IF s = "upper" THEN [@ EXCEPT !.ub = b] ELSE [@ EXCEPT !.lb = b]]
         /\ ws = Append(us, [side |-> s, var |-> v, old |-> CurrentIn(cs, s, v)])
    ELSE ds = cs /\ ws = us

\* At the undo length n nothing differs between two states.
SameAt(cs, us, ds, ws, n) ==
    /\ Len(cs) <= Len(ds)
    /\ \A v \in 1..Len(cs) : ds[v].term = cs[v].term
    /\ \A s \in Sides : \A v \in 1..Len(cs) : BoundIn(ds, ws, s, v, n) = BoundIn(cs, us, s, v, n)
    /\ \A s \in Sides : \A v \in 1..Len(ds) : v > Len(cs) => BoundIn(ds, ws, s, v, n) = NoBound

LEMMA SameAtKeeps ==
  ASSUME NEW p, NEW cs, NEW us, NEW ds, NEW ws, NEW n, NEW L,
         Len(cs) \in Nat, Len(ds) \in Nat,
         SameAt(cs, us, ds, ws, n), BoundsFrom(p, cs, us, n, L)
  PROVE  BoundsFrom(p, ds, ws, n, L)
<1>1. ASSUME NEW s \in Sides, NEW v \in 1..Len(ds)
      PROVE  Justified(p, BoundIn(ds, ws, s, v, n), s, L)
  <2>1. CASE v \in 1..Len(cs)
    BY <2>1 DEF SameAt, BoundsFrom
  <2>2. CASE v > Len(cs)
    BY <2>2 DEF SameAt, Justified
  <2> QED BY <2>1, <2>2
<1>2. ASSUME NEW l \in ToSet(L), IsBounding(p, l)
      PROVE  \E v \in 1..Len(ds) : Covers(p, BoundIn(ds, ws, Demand(p, l).side, v, n), ds[v].term, l)
  <2>1. PICK v \in 1..Len(cs) : Covers(p, BoundIn(cs, us, Demand(p, l).side, v, n), cs[v].term, l)
    BY <1>2 DEF BoundsFrom
  <2>2. v \in 1..Len(ds) /\ Demand(p, l).side \in Sides
    BY DEF SameAt, Demand, Sides
  <2>3. ds[v].term = cs[v].term /\ BoundIn(ds, ws, Demand(p, l).side, v, n) = BoundIn(cs, us, Demand(p, l).side, v, n)
    BY <2>2 DEF SameAt
  <2> QED BY <2>1, <2>2, <2>3
<1> QED BY <1>1, <1>2 DEF BoundsFrom

\* What an entry of the undo stack is.
LEMMA UndoEntry ==
  ASSUME NEW p, NEW cs, NEW us, UndoOK(p, cs, us), NEW i \in 1..Len(us)
  PROVE  us[i].side \in Sides /\ us[i].var \in 1..Len(cs) /\ us[i].old \in AnyBound(p)
<1> DEFINE R == [side : Sides, var : 1..Len(cs), old : AnyBound(p)]
<1>1. us \in Seq(R)
  BY DEF UndoOK
<1>2. us[i] \in R
  <2> HIDE DEF R
  <2> QED BY <1>1
<1> QED BY <1>2

LEMMA GrowsSame ==
  ASSUME NEW p, NEW cs, NEW us, NEW ds, NEW n \in Nat, n <= Len(us),
         ColumnsOK(p, cs), UndoOK(p, cs, us), Grows(p, cs, ds)
  PROVE  SameAt(cs, us, ds, us, n) /\ UndoOK(p, ds, us)
<1>1. Len(cs) \in Nat /\ Len(ds) \in Nat
  BY DEF ColumnsOK, Grows
<1>2. UndoOK(p, ds, us)
  <2> DEFINE A == [side : Sides, var : 1..Len(cs), old : AnyBound(p)]
             B == [side : Sides, var : 1..Len(ds), old : AnyBound(p)]
  <2>1. A \subseteq B
    <3>1. \A v \in 1..Len(cs) : v \in 1..Len(ds)
      BY <1>1 DEF Grows
    <3> QED BY <3>1
  <2>2. us \in Seq(A)
    BY DEF UndoOK
  <2> HIDE DEF A, B
  <2>3. us \in Seq(B)
    BY <2>1, <2>2
  <2> QED BY <2>3 DEF UndoOK, B
<1>3. ASSUME NEW s \in Sides, NEW v \in 1..Len(cs)
      PROVE  BoundIn(ds, us, s, v, n) = BoundIn(cs, us, s, v, n)
  BY <1>1 DEF Grows, BoundIn, CurrentIn
<1>4. ASSUME NEW s \in Sides, NEW v \in 1..Len(ds), v > Len(cs)
      PROVE  BoundIn(ds, us, s, v, n) = NoBound
  <2>1. ChangesIn(us, s, v, n) = {}
    <3> SUFFICES ASSUME NEW i \in (n + 1)..Len(us), us[i].var = v PROVE FALSE
      BY DEF ChangesIn
    <3>1. i \in 1..Len(us)
      BY DEF UndoOK
    <3>2. us[i].var \in 1..Len(cs)
      BY <3>1, UndoEntry
    <3> QED BY <1>1, <1>4, <3>2
  <2> QED BY <1>4, <2>1 DEF Grows, BoundIn, CurrentIn
<1> QED BY <1>1, <1>2, <1>3, <1>4 DEF SameAt, Grows

LEMMA BoundsTyped ==
  ASSUME NEW p, NEW cs, NEW us, NEW n \in Nat, ColumnsOK(p, cs), UndoOK(p, cs, us),
         NEW s \in Sides, NEW v \in 1..Len(cs)
  PROVE  BoundIn(cs, us, s, v, n) \in AnyBound(p)
<1>1. CurrentIn(cs, s, v) \in AnyBound(p)
  BY DEF ColumnsOK, CurrentIn
<1>2. CASE ChangesIn(us, s, v, n) # {}
  <2>1. ChangesIn(us, s, v, n) \in SUBSET Nat
    BY DEF ChangesIn, UndoOK
  <2>2. Min(ChangesIn(us, s, v, n)) \in ChangesIn(us, s, v, n)
    BY <1>2, <2>1, MinFacts
  <2>3. Min(ChangesIn(us, s, v, n)) \in 1..Len(us)
    BY <2>2 DEF ChangesIn, UndoOK
  <2> QED BY <1>2, <2>3, UndoEntry DEF BoundIn
<1> QED BY <1>1, <1>2 DEF BoundIn

LEMMA NothingUndone ==
  ASSUME NEW p, NEW cs, NEW us, UndoOK(p, cs, us), NEW s \in Sides, NEW v
  PROVE  BoundIn(cs, us, s, v, Len(us)) = CurrentIn(cs, s, v)
<1>1. ChangesIn(us, s, v, Len(us)) = {}
  BY DEF ChangesIn, UndoOK
<1> QED BY <1>1 DEF BoundIn

\* Setting a bound, as a step.
Changed(cs, us, ds, ws, s, v, b) ==
    /\ Len(ds) = Len(cs) /\ Len(ws) = Len(us) + 1
    /\ \A w \in 1..Len(cs) : ds[w].term = cs[w].term
    /\ \A r \in Sides : \A w \in 1..Len(cs) :
         CurrentIn(ds, r, w) = IF r = s /\ w = v THEN b ELSE CurrentIn(cs, r, w)
    /\ \A i \in 1..Len(us) : ws[i] = us[i]
    /\ ws[Len(us) + 1] = [side |-> s, var |-> v, old |-> CurrentIn(cs, s, v)]
LEMMA SetsFacts ==
  ASSUME NEW p, NEW cs, NEW us, NEW ds, NEW ws, NEW s \in Sides, NEW v \in 1..Len(cs),
         NEW b \in AnyBound(p), ColumnsOK(p, cs), UndoOK(p, cs, us), Sets(cs, us, ds, ws, s, v, b),
         ds # cs \/ ws # us
  PROVE  ColumnsOK(p, ds) /\ UndoOK(p, ds, ws) /\ Changed(cs, us, ds, ws, s, v, b)
<1> DEFINE e == [side |-> s, var |-> v, old |-> CurrentIn(cs, s, v)]
           d == IF s = "upper" THEN [cs[v] EXCEPT !.ub = b] ELSE [cs[v] EXCEPT !.lb = b]
<1>1. ds = [cs EXCEPT ![v] = d] /\ ws = Append(us, e)
  BY DEF Sets
<1>2. PICK S : cs \in Seq(S)
  BY DEF ColumnsOK
<1>3. DOMAIN cs[v] = Fields /\ cs[v].lb \in AnyBound(p) /\ cs[v].ub \in AnyBound(p)
      /\ cs[v].term \in 0..Len(p.terms)
  BY DEF ColumnsOK
<1>4. /\ DOMAIN d = Fields /\ d.term = cs[v].term
      /\ d.ub = IF s = "upper" THEN b ELSE cs[v].ub
      /\ d.lb = IF s = "upper" THEN cs[v].lb ELSE b
  BY <1>3 DEF Fields
<1> HIDE DEF d, e
<1>5. ds \in Seq(S \cup {d}) /\ Len(ds) = Len(cs) /\ ds[v] = d /\ \A w \in 1..Len(cs) : w # v => ds[w] = cs[w]
  BY <1>1, <1>2
<1>6. ColumnsOK(p, ds)
  BY <1>3, <1>4, <1>5 DEF ColumnsOK
<1>7. us \in Seq([side : Sides, var : 1..Len(cs), old : AnyBound(p)])
  BY DEF UndoOK
<1>8. e \in [side : Sides, var : 1..Len(cs), old : AnyBound(p)]
  BY <1>3 DEF e, CurrentIn
<1>9. UndoOK(p, ds, ws)
  BY <1>1, <1>5, <1>7, <1>8 DEF UndoOK
<1>10. Len(ws) = Len(us) + 1 /\ (\A i \in 1..Len(us) : ws[i] = us[i]) /\ ws[Len(us) + 1] = e
  BY <1>1, <1>7
<1>11. \A w \in 1..Len(cs) : ds[w].term = cs[w].term
  BY <1>4, <1>5
<1>12. ASSUME NEW r \in Sides, NEW w \in 1..Len(cs)
       PROVE  CurrentIn(ds, r, w) = IF r = s /\ w = v THEN b ELSE CurrentIn(cs, r, w)
  BY <1>4, <1>5 DEF CurrentIn, Sides
<1> QED BY <1>5, <1>6, <1>9, <1>10, <1>11, <1>12 DEF e, Changed

\* Setting a bound changes no earlier state.
LEMMA SetsSame ==
  ASSUME NEW p, NEW cs, NEW us, NEW ds, NEW ws, NEW s \in Sides, NEW v \in 1..Len(cs),
         NEW b \in AnyBound(p), ColumnsOK(p, cs), UndoOK(p, cs, us), Sets(cs, us, ds, ws, s, v, b),
         NEW n \in Nat, n <= Len(us)
  PROVE  SameAt(cs, us, ds, ws, n)
<1>0. Len(cs) \in Nat /\ Len(us) \in Nat
  BY DEF ColumnsOK, UndoOK
<1>1. CASE ds = cs /\ ws = us
  BY <1>0, <1>1 DEF SameAt
<1>2. CASE ds # cs \/ ws # us
  <2> DEFINE m == Len(us) + 1
  <2>1. /\ Len(ds) = Len(cs) /\ Len(ws) = m
        /\ \A w \in 1..Len(cs) : ds[w].term = cs[w].term
        /\ \A r \in Sides : \A w \in 1..Len(cs) :
             CurrentIn(ds, r, w) = IF r = s /\ w = v THEN b ELSE CurrentIn(cs, r, w)
        /\ \A i \in 1..Len(us) : ws[i] = us[i]
        /\ ws[m] = [side |-> s, var |-> v, old |-> CurrentIn(cs, s, v)]
    <3>1. Changed(cs, us, ds, ws, s, v, b)
      BY <1>2, SetsFacts
    <3> QED BY <3>1 DEF Changed
  <2>2. ASSUME NEW r \in Sides, NEW w \in 1..Len(cs)
        PROVE  BoundIn(ds, ws, r, w, n) = BoundIn(cs, us, r, w, n)
    <3> DEFINE C == ChangesIn(us, r, w, n)
               D == ChangesIn(ws, r, w, n)
    <3>1. C \in SUBSET (1..Len(us)) /\ C \in SUBSET Nat /\ D \in SUBSET Nat
      BY <1>0, <2>1 DEF ChangesIn
    <3>2. m \in Nat /\ m \in (n + 1)..Len(ws) /\ \A i \in 1..Len(us) : i < m
      BY <1>0, <2>1
    <3>3. D \ {m} = C
      <4>1. \A i \in (n + 1)..Len(us) : i \in 1..Len(us) /\ i \in (n + 1)..Len(ws) /\ ws[i] = us[i] /\ i # m
        BY <1>0, <2>1
      <4>2. \A i \in (n + 1)..Len(ws) : i # m => i \in (n + 1)..Len(us)
        BY <1>0, <2>1
      <4> QED BY <4>1, <4>2 DEF ChangesIn
    <3>4. m \in D <=> r = s /\ w = v
      BY <2>1, <3>2 DEF ChangesIn
    <3> HIDE DEF m
    <3>5. CASE C # {}
      <4>1. Min(C) \in C /\ \A i \in C : Min(C) <= i
        BY <3>1, <3>5, MinFacts
      <4>2. D # {}
        BY <3>3, <3>5
      <4>3. Min(D) \in D /\ \A i \in D : Min(D) <= i
        BY <3>1, <4>2, MinFacts
      <4>4. Min(C) \in D /\ Min(D) <= Min(C) /\ Min(C) < m /\ Min(D) # m
        BY <3>1, <3>2, <3>3, <4>1, <4>3
      <4>5. Min(D) \in C
        BY <3>3, <4>3, <4>4
      <4>6. Min(D) = Min(C)
        BY <3>1, <4>1, <4>4, <4>5
      <4>7. ws[Min(D)] = us[Min(C)]
        BY <2>1, <3>1, <4>5, <4>6
      <4> QED BY <3>5, <4>2, <4>7 DEF BoundIn
    <3>6. CASE C = {} /\ r = s /\ w = v
      <4>1. D = {m}
        BY <3>3, <3>4, <3>6
      <4>2. Min(D) = m
        BY <3>1, <4>1, MinFacts
      <4> QED BY <2>1, <3>6, <4>1, <4>2 DEF BoundIn
    <3>7. CASE C = {} /\ ~(r = s /\ w = v)
      <4>1. D = {}
        BY <3>3, <3>4, <3>7
      <4> QED BY <2>1, <3>7, <4>1 DEF BoundIn
    <3> QED BY <3>5, <3>6, <3>7
  <2> QED BY <1>0, <2>1, <2>2 DEF SameAt
<1> QED BY <1>1, <1>2

LEMMA TighterFacts ==
  ASSUME NEW s \in Sides, NEW x \in Pairs, NEW y \in Pairs, NEW z \in Pairs
  PROVE  /\ AsTight(s, x, x)
         /\ ~Tighter(s, x, y) => AsTight(s, y, x)
         /\ Tighter(s, x, y) /\ AsTight(s, y, z) => AsTight(s, x, z)
<1>1. /\ x[1] \in Int /\ x[2] \in Int /\ y[1] \in Int /\ y[2] \in Int /\ z[1] \in Int /\ z[2] \in Int
      /\ x = <<x[1], x[2]>> /\ y = <<y[1], y[2]>> /\ z = <<z[1], z[2]>>
  BY DEF Pairs
<1>2. \A a, b \in Int : TRUE
  OBVIOUS
<1>3. (x = y <=> x[1] = y[1] /\ x[2] = y[2]) /\ (y = z <=> y[1] = z[1] /\ y[2] = z[2])
      /\ (x = z <=> x[1] = z[1] /\ x[2] = z[2])
  BY <1>1
<1> QED BY <1>1, <1>3 DEF AsTight, Tighter, DLeq, DLess

\* Asserting an inequality bounds its column as its literal says.
LEMMA SetsBound ==
  ASSUME NEW p, NEW cs, NEW us, NEW ds, NEW ws, NEW L, NEW l \in LitsIn(p), NEW v \in 1..Len(cs),
         ColumnsOK(p, cs), UndoOK(p, cs, us), L \in Seq(LitsIn(p)), l # 0,
         \A k \in LitsIn(p) : IsBounding(p, k) => Demand(p, k).value \in Pairs,
         BoundsFrom(p, cs, us, Len(us), L), IsBounding(p, l), cs[v].term = Demand(p, l).term,
         cs[v].term = 0 => cs[v].lb = NoBound /\ cs[v].ub = NoBound,
         Sets(cs, us, ds, ws, Demand(p, l).side, v, Bound(Demand(p, l).value, l))
  PROVE  ColumnsOK(p, ds) /\ UndoOK(p, ds, ws) /\ BoundsFrom(p, ds, ws, Len(ws), Append(L, l))
<1> DEFINE s == Demand(p, l).side
           b == Bound(Demand(p, l).value, l)
           M == Append(L, l)
<1>1. s \in Sides /\ b \in AnyBound(p) /\ b.reason = l /\ b.value = Demand(p, l).value
      /\ b.value \in Pairs /\ b # NoBound
  BY DEF Demand, Sides, Bound, AnyBound, NoBound
<1>2. \A k : k \in ToSet(M) <=> k \in ToSet(L) \/ k = l
  <2>1. M \in Seq(LitsIn(p)) /\ Len(M) = Len(L) + 1 /\ M[Len(L) + 1] = l
        /\ (\A i \in 1..Len(L) : M[i] = L[i]) /\ Len(L) \in Nat
    OBVIOUS
  <2> HIDE DEF M
  <2>2. \A k : k \in ToSet(M) <=> \E i \in 1..Len(M) : M[i] = k
    BY <2>1, InToSet
  <2>3. \A k : k \in ToSet(L) <=> \E i \in 1..Len(L) : L[i] = k
    BY InToSet
  <2>4. \A i \in 1..Len(M) : i \in 1..Len(L) \/ i = Len(L) + 1
    BY <2>1
  <2>5. Len(L) + 1 \in 1..Len(M) /\ \A i \in 1..Len(L) : i \in 1..Len(M)
    BY <2>1
  <2> QED BY <2>1, <2>2, <2>3, <2>4, <2>5
<1> HIDE DEF s, b, M
<1>3. \A r \in Sides : \A w \in 1..Len(cs) : CurrentIn(cs, r, w) \in AnyBound(p)
  BY DEF ColumnsOK, CurrentIn
<1>4. /\ \A r \in Sides : \A w \in 1..Len(cs) : Justified(p, CurrentIn(cs, r, w), r, L)
      /\ \A k \in ToSet(L) : IsBounding(p, k) =>
           \E w \in 1..Len(cs) : Covers(p, CurrentIn(cs, Demand(p, k).side, w), cs[w].term, k)
  <2>1. \A r \in Sides : \A w \in 1..Len(cs) : BoundIn(cs, us, r, w, Len(us)) = CurrentIn(cs, r, w)
    BY NothingUndone
  <2>2. \A k : Demand(p, k).side \in Sides
    BY DEF Demand, Sides
  <2> QED BY <2>1, <2>2 DEF BoundsFrom
<1>5. Sets(cs, us, ds, ws, s, v, b)
  BY DEF s, b
\* It is enough that the current bounds are right.
<1>6. ASSUME ColumnsOK(p, ds), UndoOK(p, ds, ws), Len(ds) = Len(cs),
             \A w \in 1..Len(cs) : ds[w].term = cs[w].term,
             \A r \in Sides : \A w \in 1..Len(cs) : Justified(p, CurrentIn(ds, r, w), r, M),
             \A k \in ToSet(M) : IsBounding(p, k) =>
               \E w \in 1..Len(cs) : Covers(p, CurrentIn(ds, Demand(p, k).side, w), cs[w].term, k)
      PROVE  BoundsFrom(p, ds, ws, Len(ws), M)
  <2>1. \A r \in Sides : \A w \in 1..Len(ds) : BoundIn(ds, ws, r, w, Len(ws)) = CurrentIn(ds, r, w)
    BY <1>6, NothingUndone
  <2>2. \A k : Demand(p, k).side \in Sides
    BY DEF Demand, Sides
  <2> QED BY <1>6, <2>1, <2>2 DEF BoundsFrom
<1>7. CASE ds = cs /\ ws = us
  <2>1. ASSUME NEW r \in Sides, NEW w \in 1..Len(cs) PROVE Justified(p, CurrentIn(ds, r, w), r, M)
    BY <1>2, <1>4, <1>7 DEF Justified
  <2>2. ASSUME NEW k \in ToSet(M), IsBounding(p, k)
        PROVE  \E w \in 1..Len(cs) : Covers(p, CurrentIn(ds, Demand(p, k).side, w), cs[w].term, k)
    <3>1. CASE k \in ToSet(L)
      BY <1>4, <1>7, <2>2, <3>1
    <3>2. CASE k = l
      <4>1. CurrentIn(cs, s, v) # NoBound /\ ~Tighter(s, b.value, CurrentIn(cs, s, v).value)
        <5>1. CASE ds = [cs EXCEPT ![v] = IF s = "upper" THEN [@ EXCEPT !.ub = b] ELSE [@ EXCEPT !.lb = b]]
                   /\ ws = Append(us, [side |-> s, var |-> v, old |-> CurrentIn(cs, s, v)])
          <6>1. PICK S : us \in Seq(S)
            BY DEF UndoOK
          <6>2. Len(Append(us, [side |-> s, var |-> v, old |-> CurrentIn(cs, s, v)])) # Len(us)
            BY <6>1
          <6> QED BY <1>7, <5>1, <6>2
        <5> QED BY <1>5, <5>1 DEF Sets
      <4>2. CurrentIn(cs, s, v).value \in Pairs
        BY <1>1, <1>3 DEF AnyBound
      <4>3. AsTight(s, CurrentIn(cs, s, v).value, b.value)
        BY <1>1, <4>1, <4>2, TighterFacts
      <4>4. cs[v].term # 0
        BY <4>1 DEF CurrentIn
      <4>5. Covers(p, CurrentIn(cs, s, v), cs[v].term, l)
        BY <1>1, <4>1, <4>3, <4>4 DEF Covers, s
      <4> QED BY <1>7, <3>2, <4>5 DEF s
    <3> QED BY <1>2, <3>1, <3>2
  <2> QED BY <1>6, <1>7, <2>1, <2>2 DEF M
<1>8. CASE ds # cs \/ ws # us
  <2>1. ColumnsOK(p, ds) /\ UndoOK(p, ds, ws) /\ Changed(cs, us, ds, ws, s, v, b)
    BY <1>1, <1>5, <1>8, SetsFacts
  <2>2. /\ Len(ds) = Len(cs) /\ \A w \in 1..Len(cs) : ds[w].term = cs[w].term
        /\ \A r \in Sides : \A w \in 1..Len(cs) :
             CurrentIn(ds, r, w) = IF r = s /\ w = v THEN b ELSE CurrentIn(cs, r, w)
    BY <2>1 DEF Changed
  <2>3. CurrentIn(cs, s, v) = NoBound \/ Tighter(s, b.value, CurrentIn(cs, s, v).value)
    BY <1>5, <1>8 DEF Sets
  <2>4. ASSUME NEW r \in Sides, NEW w \in 1..Len(cs) PROVE Justified(p, CurrentIn(ds, r, w), r, M)
    <3>1. CASE r = s /\ w = v
      <4>1. CurrentIn(ds, r, w) = b
        BY <2>2, <3>1
      <4> QED BY <1>1, <1>2, <3>1, <4>1 DEF Justified, s
    <3>2. CASE ~(r = s /\ w = v)
      <4>1. CurrentIn(ds, r, w) = CurrentIn(cs, r, w)
        BY <2>2, <3>2
      <4> QED BY <1>2, <1>4, <4>1 DEF Justified
    <3> QED BY <3>1, <3>2
  <2>5. ASSUME NEW k \in ToSet(M), IsBounding(p, k)
        PROVE  \E w \in 1..Len(cs) : Covers(p, CurrentIn(ds, Demand(p, k).side, w), cs[w].term, k)
    <3> DEFINE r == Demand(p, k).side
    <3>0. r \in Sides
      BY DEF Demand, Sides
    <3>1. CASE k \in ToSet(L)
      <4>1. PICK w \in 1..Len(cs) : Covers(p, CurrentIn(cs, r, w), cs[w].term, k)
        BY <1>4, <2>5, <3>1
      <4>2. CASE ~(r = s /\ w = v)
        <5>1. CurrentIn(ds, r, w) = CurrentIn(cs, r, w)
          BY <2>2, <3>0, <4>2
        <5> QED BY <4>1, <5>1
      <4>3. CASE r = s /\ w = v
        <5>1. CurrentIn(cs, s, v) # NoBound /\ cs[v].term # 0 /\ cs[v].term = Demand(p, k).term
              /\ AsTight(s, CurrentIn(cs, s, v).value, Demand(p, k).value)
          <6>1. CurrentIn(cs, s, v) # NoBound
            BY <4>1, <4>3 DEF Covers
          <6>2. cs[v].term # 0
            BY <6>1 DEF CurrentIn
          <6> QED BY <4>1, <4>3, <6>1, <6>2 DEF Covers
        <5>2. CurrentIn(cs, s, v).value \in Pairs
          BY <1>1, <1>3 DEF AnyBound
        <5>3. k \in LitsIn(p)
          <6>1. \E i \in 1..Len(L) : L[i] = k
            BY <3>1, InToSet
          <6> QED BY <6>1
        <5>4. Demand(p, k).value \in Pairs
          BY <2>5, <5>3
        <5>5. AsTight(s, b.value, Demand(p, k).value)
          BY <1>1, <2>3, <5>1, <5>2, <5>4, TighterFacts
        <5>6. CurrentIn(ds, r, w) = b
          BY <2>2, <3>0, <4>3
        <5>7. Covers(p, b, cs[w].term, k)
          BY <1>1, <4>3, <5>1, <5>5 DEF Covers
        <5> QED BY <5>6, <5>7
      <4> QED BY <4>2, <4>3
    <3>2. CASE k = l
      <4>1. CurrentIn(ds, s, v) = b
        BY <1>1, <2>2
      <4>2. AsTight(s, b.value, b.value)
        BY <1>1, TighterFacts
      <4>3. Covers(p, b, cs[v].term, l)
        BY <1>1, <4>2 DEF Covers, s
      <4> QED BY <3>2, <4>1, <4>3 DEF s
    <3> QED BY <1>2, <3>1, <3>2
  <2> QED BY <1>6, <2>1, <2>2, <2>4, <2>5 DEF M
<1> QED BY <1>7, <1>8

\* Popping puts back the bounds of an earlier state.
Undone(cs, us, n) ==
    [v \in 1..Len(cs) |-> [cs[v] EXCEPT !.lb = BoundIn(cs, us, "lower", v, n),
                                        !.ub = BoundIn(cs, us, "upper", v, n)]]

LEMMA UndoneFacts ==
  ASSUME NEW p, NEW cs, NEW us, ColumnsOK(p, cs), UndoOK(p, cs, us),
         NEW n \in Nat, n <= Len(us)
  PROVE  /\ ColumnsOK(p, Undone(cs, us, n)) /\ UndoOK(p, Undone(cs, us, n), SubSeq(us, 1, n))
         /\ \A m \in 0..n : SameAt(cs, us, Undone(cs, us, n), SubSeq(us, 1, n), m)
<1> DEFINE ds == Undone(cs, us, n)
           ws == SubSeq(us, 1, n)
<1>0. Len(cs) \in Nat /\ Len(us) \in Nat
  BY DEF ColumnsOK, UndoOK
<1>1. ds \in Seq({ds[v] : v \in 1..Len(cs)}) /\ Len(ds) = Len(cs)
  <2> DEFINE R == {ds[v] : v \in 1..Len(cs)}
  <2>1. ds = [v \in 1..Len(cs) |-> ds[v]]
    BY DEF Undone
  <2>2. ds \in [1..Len(cs) -> R]
    <3> HIDE DEF ds
    <3> QED BY <2>1
  <2> HIDE DEF R, ds
  <2>3. ds \in Seq(R) /\ Len(ds) = Len(cs)
    BY <1>0, <2>2
  <2> QED BY <2>3 DEF R
<1>2. ASSUME NEW v \in 1..Len(cs)
      PROVE  /\ DOMAIN ds[v] = Fields /\ ds[v].term = cs[v].term
             /\ ds[v].lb = BoundIn(cs, us, "lower", v, n) /\ ds[v].ub = BoundIn(cs, us, "upper", v, n)
  <2>1. DOMAIN cs[v] = Fields
    BY DEF ColumnsOK
  <2>2. ds[v] = [cs[v] EXCEPT !.lb = BoundIn(cs, us, "lower", v, n),
                              !.ub = BoundIn(cs, us, "upper", v, n)]
    BY DEF Undone
  <2> QED BY <2>1, <2>2 DEF Fields
<1> HIDE DEF ds
<1>3. ColumnsOK(p, ds)
  <2>1. \A v \in 1..Len(cs) : BoundIn(cs, us, "lower", v, n) \in AnyBound(p) /\ BoundIn(cs, us, "upper", v, n) \in AnyBound(p)
    BY BoundsTyped DEF Sides
  <2> QED BY <1>1, <1>2, <2>1 DEF ColumnsOK
<1>4. UndoOK(p, ds, ws) /\ Len(ws) = n /\ \A i \in 1..n : ws[i] = us[i]
  <2> DEFINE R == [side : Sides, var : 1..Len(cs), old : AnyBound(p)]
  <2>1. us \in Seq(R)
    BY DEF UndoOK
  <2> HIDE DEF R
  <2>2. ws \in Seq(R) /\ Len(ws) = n /\ \A i \in 1..n : ws[i] = us[i]
    BY <1>0, <2>1
  <2> QED BY <1>1, <2>2 DEF UndoOK, R
<1> HIDE DEF ws
<1>5. ASSUME NEW m \in 0..n, NEW s \in Sides, NEW v \in 1..Len(cs)
      PROVE  BoundIn(ds, ws, s, v, m) = BoundIn(cs, us, s, v, m)
  <2> DEFINE C == ChangesIn(us, s, v, m)
             D == ChangesIn(ws, s, v, m)
             E == ChangesIn(us, s, v, n)
  <2>1. C \in SUBSET Nat /\ D \in SUBSET Nat /\ E \in SUBSET Nat
    BY <1>0, <1>4 DEF ChangesIn
  <2>2. D \cup E = C /\ (\A i \in D : i <= n) /\ \A i \in E : i > n
    <3>1. \A i \in (m + 1)..n : i \in 1..n /\ i \in (m + 1)..Len(us) /\ ws[i] = us[i] /\ i <= n
      BY <1>0, <1>4
    <3>2. \A i \in (n + 1)..Len(us) : i > n /\ i \in (m + 1)..Len(us)
      BY <1>0
    <3>3. \A i \in (m + 1)..Len(us) : i \in (m + 1)..n \/ i \in (n + 1)..Len(us)
      BY <1>0
    <3> QED BY <1>4, <3>1, <3>2, <3>3 DEF ChangesIn
  <2>3. CurrentIn(ds, s, v) = BoundIn(cs, us, s, v, n)
    BY <1>2 DEF CurrentIn, Sides
  <2>4. D \subseteq 1..n /\ C \subseteq Nat
    BY <1>4 DEF ChangesIn
  <2> HIDE DEF C, D, E
  <2>5. CASE D # {}
    <3>1. C # {} /\ Min(D) \in D /\ Min(C) \in C /\ (\A i \in D : Min(D) <= i) /\ \A i \in C : Min(C) <= i
      BY <2>1, <2>2, <2>5, MinFacts
    <3> DEFINE c == Min(C)
               d == Min(D)
    <3>2. c \in Nat /\ d \in Nat /\ d \in C
      BY <2>1, <2>2, <3>1
    <3> HIDE DEF c, d
    <3>3. c <= d /\ d <= n /\ d \in 1..n
      BY <2>2, <2>4, <3>1, <3>2 DEF c, d
    <3>31. c <= n
      BY <3>2, <3>3
    <3>32. c \in D
      <4>1. c \in D \cup E
        BY <2>2, <3>1 DEF c
      <4>2. c \in E => c > n
        BY <2>2
      <4> QED BY <3>2, <3>31, <4>1, <4>2
    <3>33. c = d
      <4>1. d <= c
        BY <3>1, <3>32 DEF d
      <4> QED BY <3>2, <3>3, <4>1
    <3>4. Min(C) = Min(D) /\ Min(D) \in 1..n
      BY <3>3, <3>33 DEF c, d
    <3>5. ws[Min(D)] = us[Min(C)]
      BY <1>4, <3>4
    <3> QED BY <2>5, <3>1, <3>5 DEF BoundIn, C, D
  <2>6. CASE D = {}
    <3>1. C = E
      BY <2>2, <2>6
    <3>2. BoundIn(cs, us, s, v, m) = BoundIn(cs, us, s, v, n)
      BY <3>1 DEF BoundIn, C, E
    <3> QED BY <2>3, <2>6, <3>2 DEF BoundIn, D
  <2> QED BY <2>5, <2>6
<1>6. ASSUME NEW m \in 0..n PROVE SameAt(cs, us, ds, ws, m)
  BY <1>0, <1>1, <1>2, <1>5 DEF SameAt
<1> QED BY <1>3, <1>4, <1>6 DEF ds, ws

\* Columns that differ in rows and values have the same bounds.
SameBounds(cs, ds) ==
    /\ Len(ds) = Len(cs)
    /\ \A v \in 1..Len(cs) : ds[v].term = cs[v].term /\ ds[v].lb = cs[v].lb /\ ds[v].ub = cs[v].ub

LEMMA SameBoundsFacts ==
  ASSUME NEW p, NEW cs, NEW us, NEW ds, ColumnsOK(p, cs), UndoOK(p, cs, us), SameBounds(cs, ds)
  PROVE  UndoOK(p, ds, us) /\ \A m : SameAt(cs, us, ds, us, m)
<1>0. Len(cs) \in Nat
  BY DEF ColumnsOK
<1>1. UndoOK(p, ds, us)
  BY DEF UndoOK, SameBounds
<1>2. ASSUME NEW m, NEW s \in Sides, NEW v \in 1..Len(cs)
      PROVE  BoundIn(ds, us, s, v, m) = BoundIn(cs, us, s, v, m)
  BY DEF BoundIn, CurrentIn, SameBounds
<1> QED BY <1>0, <1>1, <1>2 DEF SameAt, SameBounds

-----------------------------------------------------------------------------
(* The operators of the model on columns.                                   *)

ArenaOK(p) ==
    /\ p.terms \in Seq(Term)
    /\ \A t \in 1..Len(p.terms) : \A i \in 1..Len(p.terms[t].args) : p.terms[t].args[i] \in 1..(t - 1)

LEMMA GetOrCreateFacts ==
  ASSUME NEW p, NEW cs, NEW t \in 1..Len(p.terms), ColumnsOK(p, cs), Len(p.terms) \in Nat
  PROVE  /\ Grows(p, cs, GetOrCreateVar(cs, t))
         /\ VarIn(GetOrCreateVar(cs, t), t) \in 1..Len(GetOrCreateVar(cs, t))
         /\ GetOrCreateVar(cs, t)[VarIn(GetOrCreateVar(cs, t), t)].term = t
<1> DEFINE ds == GetOrCreateVar(cs, t)
<1>0. PICK S : cs \in Seq(S)
  BY DEF ColumnsOK
<1>1. Grows(p, cs, ds) /\ \E v \in 1..Len(ds) : ds[v].term = t
  <2>1. CASE \E v \in 1..Len(cs) : cs[v].term = t
    <3>1. ds = cs
      BY <2>1 DEF GetOrCreateVar
    <3> QED BY <1>0, <2>1, <3>1 DEF Grows
  <2>2. CASE ~ \E v \in 1..Len(cs) : cs[v].term = t
    <3> DEFINE c == NewColumn(t, FALSE, << >>)
    <3>1. ds = Append(cs, c)
      BY <2>2 DEF GetOrCreateVar
    <3>2. c.term = t /\ DOMAIN c = Fields /\ c.lb = NoBound /\ c.ub = NoBound /\ NoBound \in AnyBound(p)
      BY DEF NewColumn, Fields, NoBound, AnyBound, DZero, Pairs
    <3> HIDE DEF c, ds
    <3>3. ds \in Seq(S \cup {c}) /\ Len(ds) = Len(cs) + 1 /\ ds[Len(cs) + 1] = c
          /\ (\A v \in 1..Len(cs) : ds[v] = cs[v]) /\ Len(cs) \in Nat
      BY <1>0, <3>1
    <3>4. \A v \in 1..Len(ds) : v \in 1..Len(cs) \/ v = Len(cs) + 1
      BY <3>3
    <3>5. ColumnsOK(p, ds)
      BY <3>2, <3>3, <3>4 DEF ColumnsOK
    <3>6. Len(cs) + 1 \in 1..Len(ds) /\ Len(cs) <= Len(ds) /\ \A v \in 1..Len(cs) : ~(v > Len(cs))
      BY <3>3
    <3> QED BY <3>2, <3>3, <3>4, <3>5, <3>6 DEF Grows
  <2> QED BY <2>1, <2>2
<1> QED BY <1>1 DEF VarIn

LEMMA GrowsTransitive ==
  ASSUME NEW p, NEW cs, NEW ds, NEW es, ColumnsOK(p, cs), Grows(p, cs, ds), Grows(p, ds, es)
  PROVE  Grows(p, cs, es)
<1>1. Len(cs) \in Nat /\ Len(ds) \in Nat /\ Len(es) \in Nat
  BY DEF ColumnsOK, Grows
<1>2. \A v \in 1..Len(cs) : v \in 1..Len(ds)
  BY <1>1 DEF Grows
<1>3. ASSUME NEW v \in 1..Len(es), v > Len(cs) PROVE es[v].lb = NoBound /\ es[v].ub = NoBound
  <2>1. CASE v \in 1..Len(ds)
    BY <1>3, <2>1 DEF Grows
  <2>2. CASE v > Len(ds)
    BY <2>2 DEF Grows
  <2> QED BY <1>1, <2>1, <2>2
<1> QED BY <1>1, <1>2, <1>3 DEF Grows

-----------------------------------------------------------------------------
(* The bounds in force and those every scope goes back to follow from the   *)
(* literals asserted and those asserted before the scope.                   *)

ScopesFrom(p, cs, us, lits, ss, ls) ==
    /\ \A k \in 1..Len(ls) :
         /\ ss[k] <= Len(us) /\ ls[k].asserted <= Len(lits)
         /\ BoundsFrom(p, cs, us, ss[k], SubSeq(lits, 1, ls[k].asserted))
    /\ \A j, k \in 1..Len(ls) : j <= k => ss[j] <= ss[k] /\ ls[j].asserted <= ls[k].asserted
Limits == [asserted : Nat, facts : Nat]
ArithIn(p, cs, us, lits, ss, ls) ==
    /\ ColumnsOK(p, cs) /\ UndoOK(p, cs, us) /\ lits \in Seq(LitsIn(p))
    /\ ss \in Seq(Nat) /\ ls \in Seq(Limits) /\ Len(ss) = Len(ls)
    /\ BoundsFrom(p, cs, us, Len(us), lits)
    /\ ScopesFrom(p, cs, us, lits, ss, ls)

\* Columns that grow, or change in rows and values only.
LEMMA ArithKept ==
  ASSUME NEW p, NEW cs, NEW us, NEW lits, NEW ss, NEW ls, NEW ds, ArithIn(p, cs, us, lits, ss, ls),
         Grows(p, cs, ds) \/ (ColumnsOK(p, ds) /\ SameBounds(cs, ds))
  PROVE  ArithIn(p, ds, us, lits, ss, ls)
<1>1. ColumnsOK(p, ds) /\ UndoOK(p, ds, us) /\ \A m \in 0..Len(us) : SameAt(cs, us, ds, us, m)
  <2>1. ColumnsOK(p, cs) /\ UndoOK(p, cs, us) /\ \A m \in 0..Len(us) : m \in Nat /\ m <= Len(us)
    BY DEF ArithIn, UndoOK
  <2>2. CASE Grows(p, cs, ds)
    <3>1. 0 \in Nat /\ 0 <= Len(us)
      BY <2>1 DEF UndoOK
    <3>2. UndoOK(p, ds, us)
      BY <2>1, <2>2, <3>1, GrowsSame
    <3>3. ASSUME NEW m \in 0..Len(us) PROVE SameAt(cs, us, ds, us, m)
      BY <2>1, <2>2, GrowsSame
    <3> QED BY <2>2, <3>2, <3>3 DEF Grows
  <2>3. CASE ColumnsOK(p, ds) /\ SameBounds(cs, ds)
    BY <2>1, <2>3, SameBoundsFacts
  <2> QED BY <2>2, <2>3
<1>2. Len(cs) \in Nat /\ Len(ds) \in Nat /\ Len(us) \in Nat
  BY <1>1 DEF ArithIn, ColumnsOK, UndoOK
<1>3. ASSUME NEW m \in 0..Len(us), NEW L, BoundsFrom(p, cs, us, m, L) PROVE BoundsFrom(p, ds, us, m, L)
  <2>1. SameAt(cs, us, ds, us, m)
    BY <1>1
  <2> QED BY <1>2, <1>3, <2>1, SameAtKeeps
<1>4. ScopesFrom(p, ds, us, lits, ss, ls)
  <2>1. ASSUME NEW k \in 1..Len(ls)
        PROVE  /\ ss[k] <= Len(us) /\ ls[k].asserted <= Len(lits)
               /\ BoundsFrom(p, ds, us, ss[k], SubSeq(lits, 1, ls[k].asserted))
    <3>1. ss[k] \in 0..Len(us) /\ BoundsFrom(p, cs, us, ss[k], SubSeq(lits, 1, ls[k].asserted))
      BY <1>2 DEF ArithIn, ScopesFrom
    <3> QED BY <1>3, <3>1 DEF ArithIn, ScopesFrom
  <2> QED BY <2>1 DEF ArithIn, ScopesFrom
<1>5. BoundsFrom(p, ds, us, Len(us), lits)
  BY <1>2, <1>3 DEF ArithIn
<1> QED BY <1>1, <1>4, <1>5 DEF ArithIn

\* A literal that bounds nothing.
LEMMA ArithNoted ==
  ASSUME NEW p, NEW cs, NEW us, NEW lits, NEW ss, NEW ls, NEW l \in LitsIn(p),
         ArithIn(p, cs, us, lits, ss, ls), ~IsBounding(p, l)
  PROVE  ArithIn(p, cs, us, Append(lits, l), ss, ls)
<1> DEFINE M == Append(lits, l)
<1>1. lits \in Seq(LitsIn(p)) /\ Len(lits) \in Nat
  BY DEF ArithIn
<1>2. M \in Seq(LitsIn(p)) /\ Len(M) = Len(lits) + 1 /\ (\A i \in 1..Len(lits) : M[i] = lits[i]) /\ M[Len(lits) + 1] = l
  BY <1>1
<1> HIDE DEF M
<1>3. \A k : k \in ToSet(M) <=> k \in ToSet(lits) \/ k = l
  <2>1. \A k : k \in ToSet(M) <=> \E i \in 1..Len(M) : M[i] = k
    BY <1>2, InToSet
  <2>2. \A k : k \in ToSet(lits) <=> \E i \in 1..Len(lits) : lits[i] = k
    BY <1>1, InToSet
  <2>3. Len(lits) + 1 \in 1..Len(M) /\ \A i \in 1..Len(lits) : i \in 1..Len(M)
    BY <1>1, <1>2
  <2>4. \A i \in 1..Len(M) : i \in 1..Len(lits) \/ i = Len(lits) + 1
    BY <1>1, <1>2
  <2> QED BY <1>2, <2>1, <2>2, <2>3, <2>4
<1>4. BoundsFrom(p, cs, us, Len(us), M)
  <2>1. BoundsFrom(p, cs, us, Len(us), lits)
    BY DEF ArithIn
  <2>2. \A b, s : Justified(p, b, s, lits) => Justified(p, b, s, M)
    BY <1>3 DEF Justified
  <2> QED BY <1>3, <2>1, <2>2 DEF BoundsFrom
<1>5. \A n \in 0..Len(lits) : SubSeq(M, 1, n) = SubSeq(lits, 1, n)
  BY <1>1, <1>2
<1>6. ScopesFrom(p, cs, us, M, ss, ls)
  <2>1. ASSUME NEW k \in 1..Len(ls)
        PROVE  /\ ls[k].asserted <= Len(M)
               /\ SubSeq(M, 1, ls[k].asserted) = SubSeq(lits, 1, ls[k].asserted)
    <3>1. ls[k] \in Limits /\ ls[k].asserted <= Len(lits)
      BY DEF ArithIn, ScopesFrom
    <3>2. ls[k].asserted \in 0..Len(lits)
      BY <1>1, <3>1 DEF Limits
    <3> QED BY <1>1, <1>2, <1>5, <3>2
  <2> QED BY <2>1 DEF ArithIn, ScopesFrom
<1> QED BY <1>2, <1>4, <1>6 DEF ArithIn, M

\* A literal that bounds the column v.
LEMMA ArithAsserted ==
  ASSUME NEW p, NEW cs, NEW us, NEW lits, NEW ss, NEW ls, NEW l \in LitsIn(p), l # 0,
         ArithIn(p, cs, us, lits, ss, ls), IsBounding(p, l), NEW ds, NEW ws, NEW v \in 1..Len(cs),
         \A k \in LitsIn(p) : IsBounding(p, k) => Demand(p, k).value \in Pairs,
         cs[v].term = Demand(p, l).term,
         cs[v].term = 0 => cs[v].lb = NoBound /\ cs[v].ub = NoBound,
         Sets(cs, us, ds, ws, Demand(p, l).side, v, Bound(Demand(p, l).value, l))
  PROVE  ArithIn(p, ds, ws, Append(lits, l), ss, ls)
<1> DEFINE M == Append(lits, l)
           b == Bound(Demand(p, l).value, l)
           s == Demand(p, l).side
<1>1. ColumnsOK(p, cs) /\ UndoOK(p, cs, us) /\ lits \in Seq(LitsIn(p)) /\ Len(lits) \in Nat
      /\ BoundsFrom(p, cs, us, Len(us), lits) /\ Len(us) \in Nat
  BY DEF ArithIn, UndoOK
<1>2. ColumnsOK(p, ds) /\ UndoOK(p, ds, ws) /\ BoundsFrom(p, ds, ws, Len(ws), M)
  BY <1>1, SetsBound
<1>3. M \in Seq(LitsIn(p)) /\ Len(M) = Len(lits) + 1 /\ (\A n \in 0..Len(lits) : SubSeq(M, 1, n) = SubSeq(lits, 1, n))
  BY <1>1
<1>4. s \in Sides /\ b \in AnyBound(p)
  <2>1. Demand(p, l).value \in Pairs
    OBVIOUS
  <2> QED BY <2>1 DEF Bound, AnyBound, Demand, Sides
<1> HIDE DEF M, b, s
<1>5. Len(us) <= Len(ws) /\ Len(ws) \in Nat
  <2>1. CASE ds = cs /\ ws = us
    BY <1>1, <2>1
  <2>2. CASE ds # cs \/ ws # us
    <3>1. Changed(cs, us, ds, ws, s, v, b)
      <4>1. Sets(cs, us, ds, ws, s, v, b)
        BY DEF s, b
      <4> QED BY <1>1, <1>4, <2>2, <4>1, SetsFacts
    <3> QED BY <1>1, <3>1 DEF Changed
  <2> QED BY <2>1, <2>2
<1>6. ScopesFrom(p, ds, ws, M, ss, ls)
  <2>1. ASSUME NEW k \in 1..Len(ls)
        PROVE  /\ ss[k] <= Len(ws) /\ ls[k].asserted <= Len(M)
               /\ BoundsFrom(p, ds, ws, ss[k], SubSeq(M, 1, ls[k].asserted))
    <3>1. /\ ss[k] \in Nat /\ ss[k] <= Len(us) /\ ls[k] \in Limits /\ ls[k].asserted <= Len(lits)
          /\ BoundsFrom(p, cs, us, ss[k], SubSeq(lits, 1, ls[k].asserted))
      <4>1. ss \in Seq(Nat) /\ ls \in Seq(Limits) /\ Len(ss) = Len(ls)
        BY DEF ArithIn
      <4>2. ss[k] \in Nat /\ ls[k] \in Limits
        BY <4>1
      <4>3. ScopesFrom(p, cs, us, lits, ss, ls)
        BY DEF ArithIn
      <4> QED BY <4>2, <4>3 DEF ScopesFrom
    <3>2. SameAt(cs, us, ds, ws, ss[k])
      BY <1>1, <1>4, <3>1, SetsSame DEF s, b
    <3>3. Len(cs) \in Nat /\ Len(ds) \in Nat
      BY <1>1, <1>2 DEF ColumnsOK
    <3>4. BoundsFrom(p, ds, ws, ss[k], SubSeq(lits, 1, ls[k].asserted))
      BY <3>1, <3>2, <3>3, SameAtKeeps
    <3>5. ls[k].asserted \in 0..Len(lits)
      BY <1>1, <3>1 DEF Limits
    <3>6. ss[k] <= Len(ws) /\ ls[k].asserted <= Len(M)
      <4>1. ls[k].asserted \in Nat
        BY <3>1 DEF Limits
      <4> QED BY <1>1, <1>3, <1>5, <3>1, <4>1
    <3>7. SubSeq(M, 1, ls[k].asserted) = SubSeq(lits, 1, ls[k].asserted)
      BY <1>3, <3>5
    <3> QED BY <3>4, <3>6, <3>7
  <2> QED BY <2>1 DEF ArithIn, ScopesFrom
<1> QED BY <1>2, <1>3, <1>6 DEF ArithIn, M

LEMMA ArithPushed ==
  ASSUME NEW p, NEW cs, NEW us, NEW lits, NEW ss, NEW ls, NEW n \in Nat, ArithIn(p, cs, us, lits, ss, ls)
  PROVE  ArithIn(p, cs, us, lits, Append(ss, Len(us)), Append(ls, [asserted |-> Len(lits), facts |-> n]))
<1> DEFINE S == Append(ss, Len(us))
           e == [asserted |-> Len(lits), facts |-> n]
           M == Append(ls, e)
           m == Len(ls) + 1
<1>1. Len(us) \in Nat /\ Len(lits) \in Nat /\ lits \in Seq(LitsIn(p)) /\ ss \in Seq(Nat) /\ ls \in Seq(Limits)
      /\ Len(ss) = Len(ls)
  BY DEF ArithIn, UndoOK
<1>2. e \in Limits /\ e.asserted = Len(lits)
  BY <1>1 DEF Limits
<1> HIDE DEF e
<1>3. S \in Seq(Nat) /\ M \in Seq(Limits) /\ Len(S) = m /\ Len(M) = m /\ S[m] = Len(us) /\ M[m] = e
      /\ \A k \in 1..Len(ls) : S[k] = ss[k] /\ M[k] = ls[k]
  BY <1>1, <1>2
<1>4. \A k \in 1..m : k \in 1..Len(ls) \/ k = m
  BY <1>1
<1>5. SubSeq(lits, 1, Len(lits)) = lits
  BY <1>1
<1> HIDE DEF S, M
<1>6. ScopesFrom(p, cs, us, lits, S, M)
  <2>1. ASSUME NEW k \in 1..m
        PROVE  /\ S[k] <= Len(us) /\ M[k].asserted <= Len(lits)
               /\ BoundsFrom(p, cs, us, S[k], SubSeq(lits, 1, M[k].asserted))
    <3>1. CASE k \in 1..Len(ls)
      BY <1>3, <3>1 DEF ArithIn, ScopesFrom
    <3>2. CASE k = m
      <4>1. S[k] = Len(us) /\ M[k].asserted = Len(lits)
        BY <1>2, <1>3, <3>2
      <4>2. BoundsFrom(p, cs, us, Len(us), lits)
        BY DEF ArithIn
      <4>3. SubSeq(lits, 1, M[k].asserted) = lits
        BY <1>5, <4>1
      <4>4. BoundsFrom(p, cs, us, S[k], SubSeq(lits, 1, M[k].asserted))
        BY <4>1, <4>2, <4>3
      <4>5. S[k] <= Len(us) /\ M[k].asserted <= Len(lits)
        BY <1>1, <4>1
      <4> QED BY <4>4, <4>5
    <3> QED BY <1>4, <3>1, <3>2
  <2>2. ASSUME NEW j \in 1..m, NEW k \in 1..m, j <= k
        PROVE  S[j] <= S[k] /\ M[j].asserted <= M[k].asserted
    <3>1. CASE k = m
      BY <1>2, <1>3, <2>1, <3>1
    <3>2. CASE k # m
      <4>1. j \in 1..Len(ls) /\ k \in 1..Len(ls)
        BY <1>1, <1>4, <2>2, <3>2
      <4> QED BY <1>3, <2>2, <4>1 DEF ArithIn, ScopesFrom
    <3> QED BY <3>1, <3>2
  <2> QED BY <1>3, <2>1, <2>2 DEF ScopesFrom
<1> QED BY <1>3, <1>6 DEF ArithIn, S, M, e

LEMMA ArithPopped ==
  ASSUME NEW p, NEW cs, NEW us, NEW lits, NEW ss, NEW ls, ArithIn(p, cs, us, lits, ss, ls), ls # << >>
  PROVE  ArithIn(p, Undone(cs, us, Last(ss)), SubSeq(us, 1, Last(ss)), SubSeq(lits, 1, Last(ls).asserted),
                 Front(ss), Front(ls))
<1> DEFINE m == Len(ls)
           n == ss[m]
           a == ls[m].asserted
           ds == Undone(cs, us, n)
           ws == SubSeq(us, 1, n)
           M == SubSeq(lits, 1, a)
           S == Front(ss)
           K == Front(ls)
<1>1. /\ ColumnsOK(p, cs) /\ UndoOK(p, cs, us) /\ Len(us) \in Nat /\ Len(lits) \in Nat
      /\ lits \in Seq(LitsIn(p)) /\ ss \in Seq(Nat) /\ ls \in Seq(Limits) /\ Len(ss) = Len(ls)
      /\ m \in Nat /\ m >= 1 /\ m \in 1..m
  BY DEF ArithIn, UndoOK
<1>2. n \in Nat /\ n <= Len(us) /\ a \in Nat /\ a <= Len(lits) /\ BoundsFrom(p, cs, us, n, SubSeq(lits, 1, a))
  <2>1. ls[m] \in Limits
    BY <1>1
  <2> QED BY <1>1, <2>1 DEF ArithIn, ScopesFrom, Limits
<1>3. S \in Seq(Nat) /\ K \in Seq(Limits) /\ Len(S) = m - 1 /\ Len(K) = m - 1
      /\ \A k \in 1..(m - 1) : S[k] = ss[k] /\ K[k] = ls[k]
  BY <1>1 DEF Front
<1>4. Last(ss) = n /\ Last(ls).asserted = a
  BY <1>1 DEF Last
<1>5. M \in Seq(LitsIn(p)) /\ Len(M) = a /\ \A i \in 0..a : SubSeq(M, 1, i) = SubSeq(lits, 1, i)
  BY <1>1, <1>2
<1>6. Len(ws) = n
  <2>1. \E R : us \in Seq(R)
    BY <1>1 DEF UndoOK
  <2> QED BY <1>2, <2>1
<1> HIDE DEF m, n, a, ds, ws, M, S, K
<1>7. ColumnsOK(p, ds) /\ UndoOK(p, ds, ws) /\ \A i \in 0..n : SameAt(cs, us, ds, ws, i)
  BY <1>1, <1>2, UndoneFacts DEF ds, ws
<1>8. ASSUME NEW i \in 0..n, NEW L, BoundsFrom(p, cs, us, i, L) PROVE BoundsFrom(p, ds, ws, i, L)
  <2>1. Len(cs) \in Nat /\ Len(ds) \in Nat
    BY <1>1, <1>7 DEF ColumnsOK
  <2> QED BY <1>7, <1>8, <2>1, SameAtKeeps
<1>9. BoundsFrom(p, ds, ws, Len(ws), M)
  <2>1. n \in 0..n
    BY <1>2
  <2> QED BY <1>2, <1>6, <1>8, <2>1 DEF M
<1>10. ScopesFrom(p, ds, ws, M, S, K)
  <2>1. ASSUME NEW k \in 1..(m - 1)
        PROVE  /\ S[k] <= Len(ws) /\ K[k].asserted <= Len(M)
               /\ BoundsFrom(p, ds, ws, S[k], SubSeq(M, 1, K[k].asserted))
    <3>1. k \in 1..m /\ k <= m
      BY <1>1
    <3>2. /\ ss[k] \in Nat /\ ls[k] \in Limits /\ ss[k] <= n /\ ls[k].asserted <= a
          /\ BoundsFrom(p, cs, us, ss[k], SubSeq(lits, 1, ls[k].asserted))
      BY <1>1, <3>1 DEF ArithIn, ScopesFrom, m, n, a
    <3>3. ss[k] \in 0..n /\ ls[k].asserted \in 0..a
      BY <1>2, <3>2 DEF Limits
    <3>4. BoundsFrom(p, ds, ws, ss[k], SubSeq(lits, 1, ls[k].asserted))
      BY <1>8, <3>2, <3>3
    <3> QED BY <1>3, <1>5, <1>6, <3>2, <3>3, <3>4
  <2>2. ASSUME NEW j \in 1..(m - 1), NEW k \in 1..(m - 1), j <= k
        PROVE  S[j] <= S[k] /\ K[j].asserted <= K[k].asserted
    <3>1. j \in 1..m /\ k \in 1..m
      BY <1>1
    <3> QED BY <1>3, <2>2, <3>1 DEF ArithIn, ScopesFrom, m
  <2> QED BY <1>3, <2>1, <2>2 DEF ScopesFrom
<1> QED BY <1>3, <1>4, <1>5, <1>7, <1>9, <1>10 DEF ArithIn, ds, ws, M, S, K

-----------------------------------------------------------------------------
(* The steps of the theories, for the bounds.                               *)

LEMMA ArenaFacts ==
  ASSUME problem \in Problems
  PROVE  /\ ArenaOK(problem) /\ Len(terms) \in Nat
         /\ \A t \in TermIds : /\ terms[t] \in Term /\ Args(t) \in Seq(Nat) /\ terms[t].value \in Int
                               /\ \A i \in 1..Len(Args(t)) : Args(t)[i] \in 1..(t - 1) /\ Args(t)[i] \in TermIds
<1>1. ArenaOK(problem)
  BY ProblemsAssumption DEF ArenaOK
<1>2. terms \in Seq(Term) /\ Len(terms) \in Nat
  BY <1>1 DEF ArenaOK, terms
<1>3. ASSUME NEW t \in TermIds
      PROVE  /\ terms[t] \in Term /\ Args(t) \in Seq(Nat) /\ terms[t].value \in Int
             /\ \A i \in 1..Len(Args(t)) : Args(t)[i] \in 1..(t - 1) /\ Args(t)[i] \in TermIds
  <2>1. terms[t] \in Term
    BY <1>2 DEF TermIds
  <2>2. terms[t].args \in Seq(Nat) /\ terms[t].value \in Int
    BY <2>1 DEF Term
  <2>3. \A i \in 1..Len(Args(t)) : Args(t)[i] \in 1..(t - 1)
    BY <1>1 DEF ArenaOK, Args, terms, TermIds
  <2>4. t \in Nat /\ t <= Len(terms)
    BY <1>2 DEF TermIds
  <2> QED BY <1>2, <2>1, <2>2, <2>3, <2>4 DEF Args, TermIds
<1> QED BY <1>1, <1>2, <1>3

LEMMA LitFacts ==
  ASSUME problem \in Problems, NEW l \in AtomLits
  PROVE  /\ l \in LitsIn(problem) /\ l # 0 /\ AtomOf(l) \in TermIds
         /\ IsInequality(AtomOf(l)) <=> IsBounding(problem, l)
<1>1. AtomOf(l) \in TermIds /\ l \in Int /\ l # 0
  BY ArenaFacts DEF AtomLits, Atoms, AtomOf, TermIds
<1> QED BY <1>1 DEF LitsIn, TermIds, terms, IsInequality, IsBounding, Op, Args

LEMMA DemandFacts ==
  ASSUME problem \in Problems, NEW l \in LitsIn(problem), IsBounding(problem, l)
  PROVE  /\ Demand(problem, l).value = BoundValue(l) /\ BoundValue(l) \in Pairs
         /\ Demand(problem, l).side = IF IsUpper(l) THEN "upper" ELSE "lower"
         /\ Demand(problem, l).term = IF HasConstant(AtomOf(l)) THEN Args(AtomOf(l))[1] ELSE 0
         /\ Args(AtomOf(l))[1] \in TermIds /\ Args(AtomOf(l))[2] \in TermIds
<1>1. AtomOf(l) \in TermIds
  BY DEF LitsIn, TermIds, terms
<1>2. Args(AtomOf(l))[1] \in TermIds /\ Args(AtomOf(l))[2] \in TermIds
  <2>1. Len(Args(AtomOf(l))) = 2
    BY DEF IsBounding, Args, terms
  <2>2. 1 \in 1..Len(Args(AtomOf(l))) /\ 2 \in 1..Len(Args(AtomOf(l)))
    BY <2>1
  <2> QED BY <1>1, <2>2, ArenaFacts
<1>3. terms[Args(AtomOf(l))[2]].value \in Int
  BY <1>2, ArenaFacts
<1>4. /\ UpperIn(problem, l) <=> IsUpper(l)
      /\ StrictIn(problem, l) <=> IsStrict(l)
      /\ WithConstant(problem, l) <=> HasConstant(AtomOf(l))
  BY DEF UpperIn, IsUpper, StrictIn, IsStrict, WithConstant, HasConstant, Op, Args, terms
<1>5. Demand(problem, l).value = BoundValue(l) /\ BoundValue(l) \in Pairs
  BY <1>3, <1>4 DEF Demand, BoundValue, Args, terms, Pairs
<1> QED BY <1>2, <1>4, <1>5 DEF Demand, Args, terms

\* The column an inequality bounds.
LEMMA BoundedFacts ==
  ASSUME problem \in Problems, ColumnsOK(problem, columns), NEW l \in LitsIn(problem),
         IsBounding(problem, l), NEW cs, cs = WithBounded(columns, AtomOf(l)), NEW v,
         v = BoundedVar(cs, AtomOf(l))
  PROVE  /\ Grows(problem, columns, cs) /\ v \in 1..Len(cs)
         /\ cs[v].term = Demand(problem, l).term
         /\ cs[v].term = 0 => cs[v].lb = NoBound /\ cs[v].ub = NoBound
<1> DEFINE x == Args(AtomOf(l))[1]
           y == Args(AtomOf(l))[2]
           p == problem
<1>1. x \in 1..Len(p.terms) /\ y \in 1..Len(p.terms) /\ Len(p.terms) \in Nat
  BY DemandFacts, ArenaFacts DEF TermIds, terms
<1>2. CASE HasConstant(AtomOf(l))
  <2>1. cs = GetOrCreateVar(columns, x) /\ v = VarIn(cs, x)
    BY <1>2 DEF WithBounded, BoundedVar
  <2>2. Grows(p, columns, cs) /\ v \in 1..Len(cs) /\ cs[v].term = x
    BY <1>1, <2>1, GetOrCreateFacts
  <2>3. Demand(p, l).term = x /\ x # 0
    BY <1>1, <1>2, DemandFacts
  <2> QED BY <2>2, <2>3
<1>3. CASE ~HasConstant(AtomOf(l))
  <2>1. PICK ds : ds = GetOrCreateVar(columns, x)
    OBVIOUS
  <2>2. PICK es : es = GetOrCreateVar(ds, y)
    OBVIOUS
  <2>3. PICK row : row = Put(Put(<< >>, VarIn(es, x), 1), VarIn(es, y), -1)
    OBVIOUS
  <2> DEFINE c == NewColumn(0, TRUE, row)
  <2>4. cs = Append(es, c) /\ v = Len(cs)
    BY <1>3, <2>1, <2>2, <2>3 DEF WithBounded, BoundedVar
  <2>5. Grows(p, columns, ds)
    BY <1>1, <2>1, GetOrCreateFacts
  <2>6. Grows(p, ds, es)
    <3>1. ColumnsOK(p, ds)
      BY <2>5 DEF Grows
    <3> QED BY <1>1, <2>2, <3>1, GetOrCreateFacts
  <2>7. c.term = 0 /\ DOMAIN c = Fields /\ c.lb = NoBound /\ c.ub = NoBound /\ NoBound \in AnyBound(p)
    BY DEF NewColumn, Fields, NoBound, AnyBound, DZero, Pairs
  <2> HIDE DEF c
  <2>8. PICK S : es \in Seq(S)
    BY <2>6 DEF Grows, ColumnsOK
  <2>9. cs \in Seq(S \cup {c}) /\ Len(cs) = Len(es) + 1 /\ cs[Len(es) + 1] = c
        /\ (\A w \in 1..Len(es) : cs[w] = es[w]) /\ Len(es) \in Nat
    BY <2>4, <2>8
  <2>10. \A w \in 1..Len(cs) : w \in 1..Len(es) \/ w = Len(es) + 1
    BY <2>9
  <2>11. Grows(p, es, cs)
    <3>1. ColumnsOK(p, es)
      BY <2>6 DEF Grows
    <3>2. ColumnsOK(p, cs)
      <4> DEFINE Good(x1) == /\ DOMAIN x1 = Fields /\ x1.term \in 0..Len(p.terms)
                             /\ x1.lb \in AnyBound(p) /\ x1.ub \in AnyBound(p)
      <4>1. Good(c)
        BY <1>1, <2>7
      <4>2. \A w \in 1..Len(es) : Good(es[w])
        BY <3>1 DEF ColumnsOK
      <4>3. ColumnsOK(p, cs) <=> (\E T : cs \in Seq(T)) /\ \A w \in 1..Len(cs) : Good(cs[w])
        BY DEF ColumnsOK
      <4> HIDE DEF Good
      <4>4. ASSUME NEW w \in 1..Len(cs) PROVE Good(cs[w])
        <5>1. CASE w \in 1..Len(es)
          BY <2>9, <4>2, <5>1
        <5>2. CASE w = Len(es) + 1
          BY <2>9, <4>1, <5>2
        <5> QED BY <2>10, <5>1, <5>2
      <4> QED BY <2>9, <4>3, <4>4
    <3>3. Len(es) <= Len(cs) /\ \A w \in 1..Len(es) : ~(w > Len(es))
      <4>1. PICK e \in Nat : e = Len(es)
        BY <2>9
      <4>2. Len(cs) = e + 1
        BY <2>9, <4>1
      <4>3. e <= e + 1 /\ \A w \in 1..e : ~(w > e)
        BY ONLY e \in Nat
      <4> QED BY ONLY <4>1, <4>2, <4>3
    <3> QED BY <2>7, <2>9, <2>10, <3>2, <3>3 DEF Grows
  <2>12. Grows(p, columns, cs)
    <3>1. ColumnsOK(p, ds)
      BY <2>5 DEF Grows
    <3>2. Grows(p, ds, cs)
      BY <2>6, <2>11, <3>1, GrowsTransitive
    <3> QED BY <2>5, <3>2, GrowsTransitive
  <2>13. v \in 1..Len(cs) /\ cs[v] = c
    BY <2>4, <2>9
  <2>14. Demand(p, l).term = 0
    BY <1>3, DemandFacts
  <2> QED BY <2>7, <2>12, <2>13, <2>14
<1> QED BY <1>2, <1>3

LEMMA Rebuilt ==
  ASSUME NEW p, NEW cs, NEW ds, ColumnsOK(p, cs), ds = [v \in 1..Len(cs) |-> ds[v]],
         \A v \in 1..Len(cs) : /\ DOMAIN ds[v] = Fields /\ ds[v].term = cs[v].term
                               /\ ds[v].lb = cs[v].lb /\ ds[v].ub = cs[v].ub
  PROVE  ColumnsOK(p, ds) /\ SameBounds(cs, ds)
<1> DEFINE R == {ds[v] : v \in 1..Len(cs)}
<1>1. Len(cs) \in Nat
  BY DEF ColumnsOK
<1>2. ds \in [1..Len(cs) -> R]
  OBVIOUS
<1> HIDE DEF R
<1>3. ds \in Seq(R) /\ Len(ds) = Len(cs)
  BY <1>1, <1>2
<1> QED BY <1>3 DEF ColumnsOK, SameBounds

LEMMA UpdateBasicFacts ==
  ASSUME NEW p, NEW cs, ColumnsOK(p, cs)
  PROVE  ColumnsOK(p, UpdateBasic(cs)) /\ SameBounds(cs, UpdateBasic(cs))
<1> DEFINE value == CHOOSE value : value = [i \in 1..Len(cs) |->
                IF ~cs[i].basic THEN cs[i].value
                ELSE LET at(j) == IF j < i THEN value[j] ELSE cs[j].value
                         part(k) == MapThenSumSet(LAMBDA j : cs[i].row[j] * at(j)[k], DOMAIN cs[i].row)
                     IN  <<part(1), part(2)>>]
           ds == UpdateBasic(cs)
<1>0. UpdateBasic(cs) = [i \in 1..Len(cs) |-> [cs[i] EXCEPT !.value = value[i]]]
  BY DEF UpdateBasic
<1> HIDE DEF value
<1>1. PICK f : ds = [v \in 1..Len(cs) |-> [cs[v] EXCEPT !.value = f[v]]]
  BY <1>0
<1>2. ASSUME NEW v \in 1..Len(cs)
      PROVE  /\ DOMAIN ds[v] = Fields /\ ds[v].term = cs[v].term
             /\ ds[v].lb = cs[v].lb /\ ds[v].ub = cs[v].ub
  <2>1. DOMAIN cs[v] = Fields
    BY DEF ColumnsOK
  <2>2. ds[v] = [cs[v] EXCEPT !.value = f[v]]
    BY <1>1
  <2> QED BY <2>1, <2>2 DEF Fields
<1>3. ds = [v \in 1..Len(cs) |-> ds[v]]
  BY <1>1
<1> HIDE DEF ds
<1>4. ColumnsOK(p, ds) /\ SameBounds(cs, ds)
  BY <1>2, <1>3, Rebuilt
<1> QED BY <1>4 DEF ds

LEMMA AdjustedFacts ==
  ASSUME NEW p, NEW cs, ColumnsOK(p, cs), NEW ds, ds = UpdateBasic([v \in 1..Len(cs) |-> Adjusted(cs[v])])
  PROVE  ColumnsOK(p, ds) /\ SameBounds(cs, ds)
<1> DEFINE es == [v \in 1..Len(cs) |-> Adjusted(cs[v])]
<1>1. ASSUME NEW v \in 1..Len(cs)
      PROVE  /\ DOMAIN es[v] = Fields /\ es[v].term = cs[v].term
             /\ es[v].lb = cs[v].lb /\ es[v].ub = cs[v].ub
  <2>1. DOMAIN cs[v] = Fields
    BY DEF ColumnsOK
  <2>2. es[v] = Adjusted(cs[v])
    OBVIOUS
  <2>3. \E x : Adjusted(cs[v]) = IF cs[v].basic THEN cs[v] ELSE [cs[v] EXCEPT !.value = x]
    BY DEF Adjusted
  <2> QED BY <2>1, <2>2, <2>3 DEF Fields
<1>2. es = [v \in 1..Len(cs) |-> es[v]] /\ ds = UpdateBasic(es)
  OBVIOUS
<1> HIDE DEF es
<1>3. ColumnsOK(p, es) /\ SameBounds(cs, es)
  BY <1>1, <1>2, Rebuilt
<1>4. ColumnsOK(p, ds) /\ SameBounds(es, ds)
  BY <1>2, <1>3, UpdateBasicFacts
<1> QED BY <1>3, <1>4 DEF SameBounds

LEMMA PivotedFacts ==
  ASSUME NEW p, NEW cs, NEW xi, NEW xj, ColumnsOK(p, cs)
  PROVE  ColumnsOK(p, Pivoted(cs, xi, xj)) /\ SameBounds(cs, Pivoted(cs, xi, xj))
<1>1. PICK new : Pivoted(cs, xi, xj) =
        UpdateBasic([r \in 1..Len(cs) |->
              IF r = xj THEN [cs[r] EXCEPT !.row = new, !.basic = TRUE]
              ELSE IF r = xi THEN [cs[r] EXCEPT !.row = << >>, !.basic = FALSE]
              ELSE IF cs[r].basic THEN [cs[r] EXCEPT !.row = Substituted(@, xj, new)]
              ELSE cs[r]])
  BY DEF Pivoted
<1> DEFINE es == [r \in 1..Len(cs) |->
              IF r = xj THEN [cs[r] EXCEPT !.row = new, !.basic = TRUE]
              ELSE IF r = xi THEN [cs[r] EXCEPT !.row = << >>, !.basic = FALSE]
              ELSE IF cs[r].basic THEN [cs[r] EXCEPT !.row = Substituted(@, xj, new)]
              ELSE cs[r]]
           ds == Pivoted(cs, xi, xj)
<1>2. ASSUME NEW v \in 1..Len(cs)
      PROVE  /\ DOMAIN es[v] = Fields /\ es[v].term = cs[v].term
             /\ es[v].lb = cs[v].lb /\ es[v].ub = cs[v].ub
  <2>1. DOMAIN cs[v] = Fields
    BY DEF ColumnsOK
  <2>2. PICK s : s = Substituted(cs[v].row, xj, new)
    OBVIOUS
  <2>3. es[v] = IF v = xj THEN [cs[v] EXCEPT !.row = new, !.basic = TRUE]
              ELSE IF v = xi THEN [cs[v] EXCEPT !.row = << >>, !.basic = FALSE]
              ELSE IF cs[v].basic THEN [cs[v] EXCEPT !.row = s]
              ELSE cs[v]
    BY <2>2
  <2> HIDE DEF es
  <2> QED BY <2>1, <2>3 DEF Fields
<1>3. es = [v \in 1..Len(cs) |-> es[v]] /\ ds = UpdateBasic(es)
  BY <1>1
<1> HIDE DEF es, ds
<1>4. ColumnsOK(p, es) /\ SameBounds(cs, es)
  BY <1>2, <1>3, Rebuilt
<1>5. ColumnsOK(p, ds) /\ SameBounds(es, ds)
  BY <1>3, <1>4, UpdateBasicFacts
<1> QED BY <1>4, <1>5 DEF SameBounds, ds

Arith ==
    /\ problem \in Problems
    /\ ArithIn(problem, columns, undo_stack, asserted, simplex_scopes, lims)

LEMMA ArithInit == Init => Arith
<1> SUFFICES ASSUME Init PROVE Arith
  OBVIOUS
<1>1. /\ problem \in Problems /\ columns = << >> /\ undo_stack = << >> /\ simplex_scopes = << >>
      /\ asserted = << >> /\ lims = << >>
  BY DEF Init, SimplexInit
<1>2. ColumnsOK(problem, << >>) /\ UndoOK(problem, << >>, << >>)
  <2>1. << >> \in Seq({}) /\ Len(<< >>) = 0
    OBVIOUS
  <2> QED BY <2>1 DEF ColumnsOK, UndoOK
<1>3. \A x : ~(x \in ToSet(<< >>))
  BY InEmpty
<1>4. BoundsFrom(problem, << >>, << >>, Len(<< >>), << >>)
  BY <1>3 DEF BoundsFrom
<1>5. ScopesFrom(problem, << >>, << >>, << >>, << >>, << >>)
  BY DEF ScopesFrom
<1> QED BY <1>1, <1>2, <1>4, <1>5 DEF Arith, ArithIn

\* An atom is a term.
LEMMA AssertedArith ==
  ASSUME Arith, NEW l \in AtomLits, SimplexAssert(l), asserted' = Append(asserted, l),
         UNCHANGED <<problem, lims>>
  PROVE  Arith'
<1> DEFINE p == problem
           cs == WithBounded(columns, AtomOf(l))
           v == BoundedVar(cs, AtomOf(l))
           s == Demand(p, l).side
           b == Bound(Demand(p, l).value, l)
<1>1. /\ l \in LitsIn(p) /\ l # 0 /\ p \in Problems
      /\ IsInequality(AtomOf(l)) <=> IsBounding(p, l)
  BY LitFacts DEF Arith
<1>2. ArithIn(p, columns, undo_stack, asserted, simplex_scopes, lims)
  BY DEF Arith
<1>3. p' = p /\ lims' = lims /\ simplex_scopes' = simplex_scopes
  BY DEF SimplexAssert
<1>4. CASE ~IsBounding(p, l)
  <2>1. columns' = columns /\ undo_stack' = undo_stack
    BY <1>1, <1>4 DEF SimplexAssert
  <2>2. ArithIn(p, columns, undo_stack, Append(asserted, l), simplex_scopes, lims)
    BY <1>1, <1>2, <1>4, ArithNoted
  <2> QED BY <1>1, <1>3, <2>1, <2>2 DEF Arith
<1>5. CASE IsBounding(p, l)
  <2>1. /\ Demand(p, l).value = BoundValue(l)
        /\ s = IF IsUpper(l) THEN "upper" ELSE "lower"
    BY <1>1, <1>5, DemandFacts
  <2>2. ColumnsOK(p, columns)
    BY <1>2 DEF ArithIn
  <2>3. /\ Grows(p, columns, cs) /\ v \in 1..Len(cs) /\ cs[v].term = Demand(p, l).term
        /\ cs[v].term = 0 => cs[v].lb = NoBound /\ cs[v].ub = NoBound
    BY <1>1, <1>5, <2>2, BoundedFacts
  <2>4. ArithIn(p, cs, undo_stack, asserted, simplex_scopes, lims)
    BY <1>2, <2>3, ArithKept
  <2>5. \A k \in LitsIn(p) : IsBounding(p, k) => Demand(p, k).value \in Pairs
    BY <1>1, DemandFacts
  <2>6. IF IsUpper(l) THEN SetUpperBound(cs, v, b) ELSE SetLowerBound(cs, v, b)
    BY <1>1, <1>5, <2>1 DEF SimplexAssert
  <2>7. Sets(cs, undo_stack, columns', undo_stack', s, v, b)
    <3>1. PICK c : c = cs /\ c[v] = cs[v]
      OBVIOUS
    <3>2. PICK w : w = v
      OBVIOUS
    <3>3. PICK x : x = b
      OBVIOUS
    <3>4. IF IsUpper(l) THEN SetUpperBound(c, w, x) ELSE SetLowerBound(c, w, x)
      BY <2>6, <3>1, <3>2, <3>3
    <3>5. Sets(c, undo_stack, columns', undo_stack', s, w, x)
      <4> HIDE DEF s, b, v, cs
      <4>1. CASE IsUpper(l)
        BY <2>1, <3>4, <4>1 DEF SetUpperBound, Sets, CurrentIn, Tighter
      <4>2. CASE ~IsUpper(l)
        BY <2>1, <3>4, <4>2 DEF SetLowerBound, Sets, CurrentIn, Tighter
      <4> QED BY <4>1, <4>2
    <3> QED BY <3>1, <3>2, <3>3, <3>5
  <2>8. ArithIn(p, columns', undo_stack', Append(asserted, l), simplex_scopes, lims)
    <3>1. PICK c : c = cs
      OBVIOUS
    <3>2. PICK w : w = v
      OBVIOUS
    <3>3. /\ ArithIn(p, c, undo_stack, asserted, simplex_scopes, lims) /\ w \in 1..Len(c)
          /\ c[w].term = Demand(p, l).term
          /\ c[w].term = 0 => c[w].lb = NoBound /\ c[w].ub = NoBound
          /\ Sets(c, undo_stack, columns', undo_stack', Demand(p, l).side, w, Bound(Demand(p, l).value, l))
      BY <2>3, <2>4, <2>7, <3>1, <3>2
    <3> HIDE DEF s, b, v, cs
    <3> QED BY <1>1, <1>5, <2>5, <3>3, ArithAsserted
  <2> QED BY <1>1, <1>3, <2>8 DEF Arith
<1> QED BY <1>4, <1>5

\* The pairs of positions of a sequence.
LEMMA PairsFacts ==
  ASSUME NEW S, NEW s \in Seq(S)
  PROVE  /\ PairsOf(s) \in Seq(S \X S)
         /\ \A x : x \in ToSet(PairsOf(s)) <=>
                  \E i \in 1..Len(s) : \E j \in 1..(Len(s) - i) : x = <<s[i], s[i + j]>>
<1>1. PICK n \in Nat : n = Len(s)
  OBVIOUS
<1> DEFINE r == [k \in 1..n |-> [j \in 1..(n - k) |-> <<s[k], s[k + j]>>]]
<1>2. PairsOf(s) = FlattenSeq(r)
  BY <1>1 DEF PairsOf
<1>3. ASSUME NEW k \in 1..n
      PROVE  /\ r[k] \in Seq(S \X S)
             /\ \A x : x \in ToSet(r[k]) <=> \E j \in 1..(n - k) : x = <<s[k], s[k + j]>>
  <2>1. PICK m \in Nat : m = n - k /\ k \in 1..n
    <3>1. k \in 1..n /\ n - k \in Nat
      BY <1>3
    <3> QED BY <3>1
  <2> DEFINE q == [j \in 1..m |-> <<s[k], s[k + j]>>]
  <2>2. r[k] = q
    BY <2>1
  <2>3. \A j \in 1..m : k \in 1..n /\ k + j \in 1..n
    BY <1>1, <2>1
  <2>4. \A j \in 1..m : <<s[k], s[k + j]>> \in S \X S
    <3>1. \A j \in 1..n : s[j] \in S
      BY <1>1
    <3> QED BY <2>3, <3>1
  <2>5. q \in [1..m -> S \X S] /\ \A j \in 1..m : q[j] = <<s[k], s[k + j]>>
    BY <2>4
  <2> HIDE DEF q
  <2>6. q \in Seq(S \X S) /\ Len(q) = m
    BY <2>5
  <2>7. ASSUME NEW x PROVE x \in ToSet(q) <=> \E j \in 1..m : x = <<s[k], s[k + j]>>
    <3>1. x \in ToSet(q) <=> \E j \in 1..Len(q) : q[j] = x
      BY <2>6, InToSet
    <3> QED BY <2>5, <2>6, <3>1
  <2> QED BY <2>1, <2>2, <2>6, <2>7
<1>4. r = [k \in 1..n |-> r[k]]
  OBVIOUS
<1> HIDE DEF r
<1>5. r \in Seq(Seq(S \X S)) /\ Len(r) = n
  BY <1>1, <1>3, <1>4
<1>6. /\ FlattenSeq(r) \in Seq(S \X S)
      /\ \A x : x \in ToSet(FlattenSeq(r)) <=> \E i \in 1..Len(r) : x \in ToSet(r[i])
  BY <1>5, FlattenFacts
<1>7. ASSUME NEW x
      PROVE  x \in ToSet(PairsOf(s)) <=> \E i \in 1..Len(s) : \E j \in 1..(Len(s) - i) : x = <<s[i], s[i + j]>>
  <2>1. x \in ToSet(PairsOf(s)) <=> \E i \in 1..n : x \in ToSet(r[i])
    BY <1>2, <1>5, <1>6
  <2>2. \A i \in 1..n : x \in ToSet(r[i]) <=> \E j \in 1..(n - i) : x = <<s[i], s[i + j]>>
    BY <1>3
  <2> QED BY <1>1, <2>1, <2>2
<1> QED BY <1>2, <1>6, <1>7

\* The pairs of shared terms are pairs of terms.
LEMMA SharedFacts ==
  ASSUME problem \in Problems, NEW i \in 1..Len(SharedPairs)
  PROVE  SharedPairs[i][1] \in TermIds /\ SharedPairs[i][2] \in TermIds
<1> DEFINE q == [t \in TermIds |-> IF terms[t].sort = "Num" THEN <<t>> ELSE << >>]
<1>1. Len(terms) \in Nat
  BY ArenaFacts
<1>2. q \in Seq(Seq(TermIds))
  <2>1. \A t \in TermIds : q[t] \in Seq(TermIds)
    OBVIOUS
  <2> HIDE DEF q
  <2>2. q = [t \in 1..Len(terms) |-> q[t]]
    BY DEF q, TermIds
  <2> QED BY <1>1, <2>1, <2>2 DEF TermIds
<1>3. SharedTerms \in Seq(TermIds)
  <2> HIDE DEF q
  <2>1. SharedTerms = FlattenSeq(q)
    BY DEF SharedTerms, q
  <2> QED BY <1>2, <2>1, FlattenFacts
<1>4. SharedPairs \in Seq(TermIds \X TermIds)
  BY <1>3, PairsFacts DEF SharedPairs
<1>5. SharedPairs[i] \in TermIds \X TermIds
  BY <1>4
<1> QED BY <1>5

LEMMA KeptArith ==
  ASSUME Arith, UNCHANGED <<problem, undo_stack, asserted, simplex_scopes, lims>>,
         Grows(problem, columns, columns') \/ (ColumnsOK(problem, columns') /\ SameBounds(columns, columns'))
  PROVE  Arith'
<1>1. ArithIn(problem, columns', undo_stack, asserted, simplex_scopes, lims)
  BY ArithKept DEF Arith
<1> QED BY <1>1 DEF Arith

LEMMA SolvedArith ==
  ASSUME Arith, SolveSimplex, UNCHANGED <<problem, asserted, lims>>
  PROVE  Arith'
<1>1. ColumnsOK(problem, columns)
  BY DEF Arith, ArithIn
<1>2. UNCHANGED <<undo_stack, simplex_scopes>>
  BY DEF SolveSimplex
<1>3. columns' = columns \/ columns' = UpdateBasic([v \in 1..Len(columns) |-> Adjusted(columns[v])])
  BY DEF SolveSimplex, SimplexVars
<1>4. CASE columns' = columns
  BY <1>2, <1>4 DEF Arith
<1>5. CASE columns' = UpdateBasic([v \in 1..Len(columns) |-> Adjusted(columns[v])])
  <2>1. ColumnsOK(problem, columns') /\ SameBounds(columns, columns')
    BY <1>1, <1>5, AdjustedFacts
  <2> QED BY <1>2, <2>1, KeptArith
<1> QED BY <1>3, <1>4, <1>5

LEMMA SharedArith ==
  ASSUME Arith, NEW i \in 1..Len(SharedPairs), SharedVars(i)
  PROVE  Arith'
<1>1. SharedPairs[i][1] \in TermIds /\ SharedPairs[i][2] \in TermIds
  BY SharedFacts DEF Arith
<1>2. PICK x \in TermIds, y \in TermIds : x = SharedPairs[i][1] /\ y = SharedPairs[i][2]
  BY <1>1
<1>3. ColumnsOK(problem, columns) /\ Len(problem.terms) \in Nat
  BY ArenaFacts DEF Arith, ArithIn, terms
<1>4. x \in 1..Len(problem.terms) /\ y \in 1..Len(problem.terms)
  BY <1>2 DEF TermIds, terms
<1>5. PICK c : c = GetOrCreateVar(columns, x)
  OBVIOUS
<1>6. Grows(problem, columns, c)
  BY <1>3, <1>4, <1>5, GetOrCreateFacts
<1>7. ColumnsOK(problem, c)
  BY <1>6 DEF Grows
<1>8. Grows(problem, c, GetOrCreateVar(c, y))
  BY <1>3, <1>4, <1>7, GetOrCreateFacts
<1>9. columns' = GetOrCreateVar(c, y)
  BY <1>2, <1>5 DEF SharedVars
<1>10. Grows(problem, columns, columns')
  BY <1>3, <1>6, <1>8, <1>9, GrowsTransitive
<1> QED BY <1>10, KeptArith DEF SharedVars, Sharing, KeepCalls

LEMMA PivotedArith ==
  ASSUME Arith, Pivot, UNCHANGED <<problem, asserted, lims>>
  PROVE  Arith'
<1>1. ColumnsOK(problem, columns)
  BY DEF Arith, ArithIn
<1>2. PICK xi, xj : columns' = Pivoted(columns, xi, xj)
  BY DEF Pivot
<1>3. ColumnsOK(problem, columns') /\ SameBounds(columns, columns')
  BY <1>1, <1>2, PivotedFacts
<1> QED BY <1>3, KeptArith DEF Pivot

LEMMA PushedArith ==
  ASSUME Arith, Push, Len(facts) \in Nat
  PROVE  Arith'
<1>1. ArithIn(problem, columns, undo_stack, asserted, Append(simplex_scopes, Len(undo_stack)),
              Append(lims, [asserted |-> Len(asserted), facts |-> Len(facts)]))
  BY ArithPushed DEF Arith
<1>2. /\ problem' = problem /\ columns' = columns /\ undo_stack' = undo_stack /\ asserted' = asserted
      /\ simplex_scopes' = Append(simplex_scopes, Len(undo_stack))
      /\ lims' = Append(lims, [asserted |-> Len(asserted), facts |-> Len(facts)])
  BY DEF Push, SimplexPush
<1> QED BY <1>1, <1>2 DEF Arith

LEMMA PoppedArith ==
  ASSUME Arith, Pop
  PROVE  Arith'
<1>1. PICK n : n = Last(simplex_scopes)
  OBVIOUS
<1>2. lims # << >> /\ simplex_scopes # << >>
  BY DEF Pop, Arith, ArithIn
<1>3. ArithIn(problem, Undone(columns, undo_stack, n), SubSeq(undo_stack, 1, n),
              SubSeq(asserted, 1, Last(lims).asserted), Front(simplex_scopes), Front(lims))
  BY <1>1, <1>2, ArithPopped DEF Arith
<1>4. columns' = [v \in SimplexVars |-> [columns[v] EXCEPT !.lb = Restored("lower", v, @),
                                                          !.ub = Restored("upper", v, @)]]
  BY <1>2 DEF Pop, SimplexPop
<1>5. ASSUME NEW v \in 1..Len(columns)
      PROVE  /\ Restored("lower", v, columns[v].lb) = BoundIn(columns, undo_stack, "lower", v, n)
             /\ Restored("upper", v, columns[v].ub) = BoundIn(columns, undo_stack, "upper", v, n)
  BY <1>1 DEF Restored, BoundIn, CurrentIn, ChangesIn
<1>6. columns' = Undone(columns, undo_stack, n)
  BY <1>4, <1>5 DEF Undone, SimplexVars
<1>7. /\ problem' = problem /\ undo_stack' = SubSeq(undo_stack, 1, n)
      /\ asserted' = SubSeq(asserted, 1, Last(lims).asserted)
      /\ simplex_scopes' = Front(simplex_scopes) /\ lims' = Front(lims)
  BY <1>1, <1>2 DEF Pop, SimplexPop
<1> QED BY <1>3, <1>6, <1>7 DEF Arith

LEMMA ArithStep ==
  ASSUME Arith, Len(facts) \in Nat, [Next]_vars
  PROVE  Arith'
<1>1. ASSUME NEW l \in AtomLits, AssertLit(l) PROVE Arith'
  BY <1>1, AssertedArith DEF AssertLit
<1>2. CASE Push
  BY <1>2, PushedArith
<1>3. CASE Pop
  BY <1>3, PoppedArith
<1>4. CASE Check
  <2>1. CASE SolveSimplex
    BY <1>4, <2>1, SolvedArith DEF Check, KeepCalls
  <2>2. CASE UNCHANGED simplexVars
    BY <1>4, <2>2 DEF Check, KeepCalls, simplexVars, Arith
  <2> QED BY <1>4, <2>1, <2>2 DEF Check
<1>5. CASE SimplexReturned
  BY <1>5 DEF SimplexReturned, KeepCalls, simplexVars, Arith
<1>6. CASE Recheck
  BY <1>6 DEF Recheck, KeepCalls, simplexVars, Arith
<1>7. ASSUME NEW i \in 1..Len(SharedPairs), SharedVars(i) \/ Resolve(i) \/ MergeShared(i) PROVE Arith'
  <2>1. CASE SharedVars(i)
    BY <2>1, SharedArith
  <2>2. CASE Resolve(i)
    BY <2>2, SolvedArith DEF Resolve, Sharing, KeepCalls
  <2>3. CASE MergeShared(i)
    BY <2>3 DEF MergeShared, Sharing, KeepCalls, simplexVars, Arith
  <2> QED BY <1>7, <2>1, <2>2, <2>3
<1>8. CASE EufStep /\ UNCHANGED <<problem, simplexVars, coordinatorVars>>
  BY <1>8 DEF simplexVars, coordinatorVars, Arith
<1>9. CASE SimplexStep /\ UNCHANGED <<problem, eufVars, coordinatorVars>>
  <2>1. UNCHANGED <<problem, asserted, lims>>
    BY <1>9 DEF coordinatorVars
  <2>2. CASE Pivot
    BY <2>1, <2>2, PivotedArith
  <2>3. CASE Infeasible \/ Feasible
    BY <2>1, <2>3 DEF Infeasible, Feasible, Arith
  <2> QED BY <1>9, <2>2, <2>3 DEF SimplexStep
<1>10. CASE UNCHANGED vars
  BY <1>10 DEF vars, simplexVars, coordinatorVars, Arith
<1> QED BY <1>1, <1>2, <1>3, <1>4, <1>5, <1>6, <1>7, <1>8, <1>9, <1>10 DEF Next

\* What the property asks.
LEMMA ArithBounds == Arith => BoundsFollow
<1> SUFFICES ASSUME Arith, Idle PROVE BoundsFollow
  BY DEF BoundsFollow
<1>1. /\ problem \in Problems /\ ColumnsOK(problem, columns) /\ UndoOK(problem, columns, undo_stack)
      /\ BoundsFrom(problem, columns, undo_stack, Len(undo_stack), asserted)
      /\ asserted \in Seq(LitsIn(problem))
  BY DEF Arith, ArithIn
<1>2. \A s \in Sides : \A v : BoundIn(columns, undo_stack, s, v, Len(undo_stack)) = CurrentIn(columns, s, v)
  BY <1>1, NothingUndone
<1>3. \A l \in Literals : l \in LitsIn(problem)
  <2>1. \A l : l \in ToSet(asserted) <=> \E i \in 1..Len(asserted) : asserted[i] = l
    BY <1>1, InToSet
  <2>2. \A i \in 1..Len(asserted) : asserted[i] \in LitsIn(problem)
    BY <1>1
  <2> QED BY <2>1, <2>2 DEF Literals
<1>4. \A l \in LitsIn(problem) : IsInequality(AtomOf(l)) <=> IsBounding(problem, l)
  BY DEF IsInequality, IsBounding, Op, Args, terms
<1>5. ASSUME NEW v \in SimplexVars, NEW upper \in BOOLEAN,
             (IF upper THEN columns[v].ub ELSE columns[v].lb) # NoBound
      PROVE  LET b == IF upper THEN columns[v].ub ELSE columns[v].lb
             IN  b.reason \in Literals /\ IsUpper(b.reason) = upper /\ b.value = BoundValue(b.reason)
  <2> DEFINE s == IF upper THEN "upper" ELSE "lower"
             b == CurrentIn(columns, s, v)
  <2>1. s \in Sides /\ b = (IF upper THEN columns[v].ub ELSE columns[v].lb) /\ v \in 1..Len(columns)
    BY DEF Sides, CurrentIn, SimplexVars
  <2>2. Justified(problem, b, s, asserted)
    BY <1>1, <1>2, <2>1 DEF BoundsFrom
  <2>3. /\ b.reason \in Literals /\ IsBounding(problem, b.reason)
        /\ s = Demand(problem, b.reason).side /\ b.value = Demand(problem, b.reason).value
    BY <1>5, <2>1, <2>2 DEF Justified, Literals
  <2>4. /\ Demand(problem, b.reason).value = BoundValue(b.reason)
        /\ Demand(problem, b.reason).side = IF IsUpper(b.reason) THEN "upper" ELSE "lower"
    BY <1>1, <1>3, <2>3, DemandFacts
  <2>5. IsUpper(b.reason) = upper
    <3>1. IsUpper(b.reason) \in BOOLEAN
      BY DEF IsUpper
    <3> QED BY <2>3, <2>4, <3>1
  <2> QED BY <2>1, <2>3, <2>4, <2>5
<1>6. ASSUME NEW l \in Literals, IsInequality(AtomOf(l))
      PROVE  \E v \in SimplexVars :
                LET b == IF IsUpper(l) THEN columns[v].ub ELSE columns[v].lb
                IN  /\ b # NoBound
                    /\ IF HasConstant(AtomOf(l))
                       THEN /\ columns[v].term = Args(AtomOf(l))[1]
                            /\ IF IsUpper(l) THEN DLeq(b.value, BoundValue(l))
                               ELSE DLeq(BoundValue(l), b.value)
                       ELSE b.reason = l
  <2>1. l \in LitsIn(problem) /\ IsBounding(problem, l) /\ l \in ToSet(asserted)
    BY <1>3, <1>4, <1>6 DEF Literals
  <2>2. /\ Demand(problem, l).value = BoundValue(l)
        /\ Demand(problem, l).side = IF IsUpper(l) THEN "upper" ELSE "lower"
        /\ Demand(problem, l).term = IF HasConstant(AtomOf(l)) THEN Args(AtomOf(l))[1] ELSE 0
        /\ Args(AtomOf(l))[1] \in TermIds
    BY <1>1, <2>1, DemandFacts
  <2>3. Demand(problem, l).side \in Sides
    BY <2>2 DEF Sides
  <2>4. PICK v \in 1..Len(columns) :
          Covers(problem, BoundIn(columns, undo_stack, Demand(problem, l).side, v, Len(undo_stack)),
                 columns[v].term, l)
    BY <1>1, <2>1 DEF BoundsFrom
  <2> DEFINE b == IF IsUpper(l) THEN columns[v].ub ELSE columns[v].lb
  <2>5. BoundIn(columns, undo_stack, Demand(problem, l).side, v, Len(undo_stack)) = b
    <3>1. CurrentIn(columns, Demand(problem, l).side, v) = b
      BY <2>2 DEF CurrentIn
    <3> QED BY <1>2, <2>3, <3>1
  <2>6. Covers(problem, b, columns[v].term, l)
    BY <2>4, <2>5
  <2>7. /\ b # NoBound /\ columns[v].term = Demand(problem, l).term
        /\ IF columns[v].term # 0
           THEN AsTight(Demand(problem, l).side, b.value, Demand(problem, l).value) ELSE b.reason = l
    <3> HIDE DEF b
    <3> QED BY <2>6 DEF Covers
  <2>8. ~(0 \in TermIds)
    BY DEF TermIds
  <2>9. /\ b # NoBound
        /\ IF HasConstant(AtomOf(l))
           THEN /\ columns[v].term = Args(AtomOf(l))[1]
                /\ IF IsUpper(l) THEN DLeq(b.value, BoundValue(l)) ELSE DLeq(BoundValue(l), b.value)
           ELSE b.reason = l
    <3> HIDE DEF b
    <3> QED BY <2>2, <2>7, <2>8 DEF AsTight
  <2> QED BY <2>9 DEF SimplexVars
<1> QED BY <1>5, <1>6 DEF BoundsFollow

-----------------------------------------------------------------------------
(* Equality.  Union-find as functions: the root of every term, and the      *)
(* signature of an application for a given assignment of classes.           *)

Ids(p) == 1..Len(p.terms)
Maps(p) == [Ids(p) -> Ids(p)]
Apps(p) == {t \in Ids(p) : p.terms[t].op = "Apply"}
ArgsIn(p, t) == p.terms[t].args
SigIn(p, f, a) ==
    [func |-> p.terms[a].name, args |-> [i \in 1..Len(ArgsIn(p, a)) |-> f[ArgsIn(p, a)[i]]]]
Through(r, s) == [func |-> s.func, args |-> [i \in 1..Len(s.args) |-> r[s.args[i]]]]
Signatures(p) == [func : STRING, args : Seq(Ids(p))]
ReasonsIn(p) == {l \in Int : l = 0 \/ (AtomOf(l) \in Ids(p) /\ p.terms[AtomOf(l)].op \in {"Eq", "Distinct", "Lt", "Le", "Gt", "Ge"})}
MergesIn(p) == [a : Ids(p), b : Ids(p), reason : ReasonsIn(p)]

\* The function f gives the root of every term; no term is its own ancestor.
Descends(p, par, d) ==
    d \in [Ids(p) -> Nat] /\ \A u \in Ids(p) : par[u] # u => d[par[u]] < d[u]
RootsOf(p, par, f) ==
    /\ par \in Maps(p) /\ f \in Maps(p)
    /\ \A u \in Ids(p) : f[u] = (IF par[u] = u THEN u ELSE f[par[u]]) /\ par[f[u]] = f[u]
    /\ \E d : Descends(p, par, d)

LEMMA RootsUnique ==
  ASSUME NEW p, NEW par, NEW f, NEW g, RootsOf(p, par, f),
         \A u \in Ids(p) : g[u] = IF par[u] = u THEN u ELSE g[par[u]]
  PROVE  \A u \in Ids(p) : g[u] = f[u]
<1> SUFFICES ASSUME NEW u \in Ids(p), g[u] # f[u] PROVE FALSE
  OBVIOUS
<1>1. PICK d : d \in [Ids(p) -> Nat] /\ \A w \in Ids(p) : par[w] # w => d[par[w]] < d[w]
  BY DEF RootsOf, Descends
<1> DEFINE T == {d[w] : w \in {w \in Ids(p) : g[w] # f[w]}}
<1>2. PICK n \in T : \A m \in T : n <= m
  <2>1. T \in SUBSET Nat /\ T # {}
    BY <1>1
  <2> HIDE DEF T
  <2> QED BY <2>1, Least
<1>3. PICK w \in Ids(p) : g[w] # f[w] /\ n = d[w]
  OBVIOUS
<1>4. par[w] # w /\ par[w] \in Ids(p)
  BY <1>3 DEF RootsOf, Maps
<1>5. g[par[w]] # f[par[w]]
  BY <1>3, <1>4 DEF RootsOf
<1>6. d[par[w]] \in T /\ d[par[w]] < d[w] /\ d[w] \in Nat /\ d[par[w]] \in Nat
  BY <1>1, <1>3, <1>4, <1>5
<1> HIDE DEF T
<1> QED BY <1>2, <1>3, <1>6

\* What respects every link gives a term and its root the same value.
LEMMA RootsFollow ==
  ASSUME NEW p, NEW par, NEW f, NEW r, RootsOf(p, par, f), \A u \in Ids(p) : r[par[u]] = r[u]
  PROVE  \A u \in Ids(p) : r[f[u]] = r[u]
<1> SUFFICES ASSUME NEW u \in Ids(p), r[f[u]] # r[u] PROVE FALSE
  OBVIOUS
<1>1. PICK d : d \in [Ids(p) -> Nat] /\ \A w \in Ids(p) : par[w] # w => d[par[w]] < d[w]
  BY DEF RootsOf, Descends
<1> DEFINE T == {d[w] : w \in {w \in Ids(p) : r[f[w]] # r[w]}}
<1>2. PICK n \in T : \A m \in T : n <= m
  <2>1. T \in SUBSET Nat /\ T # {}
    BY <1>1
  <2> HIDE DEF T
  <2> QED BY <2>1, Least
<1>3. PICK w \in Ids(p) : r[f[w]] # r[w] /\ n = d[w]
  OBVIOUS
<1>4. par[w] # w /\ par[w] \in Ids(p)
  BY <1>3 DEF RootsOf, Maps
<1>5. r[f[par[w]]] # r[par[w]]
  BY <1>3, <1>4 DEF RootsOf
<1>6. d[par[w]] \in T /\ d[par[w]] < d[w] /\ d[w] \in Nat /\ d[par[w]] \in Nat
  BY <1>1, <1>3, <1>4, <1>5
<1> HIDE DEF T
<1> QED BY <1>2, <1>3, <1>6

LEMMA FindIs ==
  ASSUME NEW f, RootsOf(problem, parent, f), NEW t \in TermIds
  PROVE  Find(t) = f[t]
<1> DEFINE Solves(g) == g = [u \in TermIds |-> IF parent[u] = u THEN u ELSE g[parent[u]]]
           g == CHOOSE g : Solves(g)
<1>1. TermIds = Ids(problem)
  BY DEF TermIds, Ids, terms
<1>2. Solves(f)
  BY <1>1 DEF RootsOf, Maps
<1>3. Solves(g)
  <2> HIDE DEF Solves
  <2> QED BY <1>2
<1>4. Find(t) = g[t]
  BY DEF Find
<1> HIDE DEF g
<1>5. \A u \in Ids(problem) : g[u] = IF parent[u] = u THEN u ELSE g[parent[u]]
  BY <1>1, <1>3
<1>6. g[t] = f[t]
  BY <1>1, <1>5, RootsUnique
<1> QED BY <1>4, <1>6

-----------------------------------------------------------------------------
(* A state of the union-find: merges still to do, applications still to     *)
(* visit.  What is equal is so in every congruence that respects the merges *)
(* asked for, and respecting the links and what is still to do is enough to *)
(* respect those and, but for what is still to visit, congruence.           *)

Equates(r, q) == \A i \in 1..Len(q) : r[q[i].a] = r[q[i].b]
Follows(p, r, par) == \A u \in Ids(p) : r[par[u]] = r[u]
IsCongruence(p, r) ==
    /\ r \in Maps(p)
    /\ \A s, t \in Apps(p) : SigIn(p, r, s) = SigIn(p, r, t) => r[s] = r[t]
Explained(p, lk, r) == \A s \in DOMAIN lk : Through(r, s) = SigIn(p, r, lk[s])
Soundness(p, par, lk, todo, fs) ==
    \A r : IsCongruence(p, r) /\ Equates(r, fs) =>
        Follows(p, r, par) /\ Equates(r, todo) /\ Explained(p, lk, r)
Known(p, f, lk, r, a) == SigIn(p, f, a) \in DOMAIN lk /\ r[lk[SigIn(p, f, a)]] = r[a]
Completeness(p, par, f, lk, todo, visits, fs) ==
    \A r : r \in Maps(p) /\ Follows(p, r, par) /\ Equates(r, todo) =>
        Equates(r, fs) /\ \A a \in Apps(p) : a \in ToSet(visits) \/ Known(p, f, lk, r, a)
UsesKept(p, f, use) ==
    \A a \in Apps(p) : \A i \in 1..Len(ArgsIn(p, a)) : a \in ToSet(use[f[ArgsIn(p, a)[i]]])
EqTypes(p, lk, use, todo, visits, fs) ==
    /\ DOMAIN lk \subseteq Signatures(p) /\ lk \in [DOMAIN lk -> Apps(p)]
    /\ use \in [Ids(p) -> Seq(Apps(p))]
    /\ todo \in Seq(MergesIn(p)) /\ visits \in Seq(Apps(p)) /\ fs \in Seq(MergesIn(p))
EqIn(p, par, f, lk, use, todo, visits, fs) ==
    /\ EqTypes(p, lk, use, todo, visits, fs) /\ RootsOf(p, par, f) /\ UsesKept(p, f, use)
    /\ Soundness(p, par, lk, todo, fs) /\ Completeness(p, par, f, lk, todo, visits, fs)

\* The arena: arguments are terms.
AppsOK(p) ==
    \A a \in Ids(p) : /\ p.terms[a].name \in STRING /\ ArgsIn(p, a) \in Seq(Nat)
                      /\ \A i \in 1..Len(ArgsIn(p, a)) : ArgsIn(p, a)[i] \in Ids(p)

LEMMA SigTyped ==
  ASSUME NEW p, NEW f \in Maps(p), AppsOK(p), NEW a \in Ids(p)
  PROVE  SigIn(p, f, a) \in Signatures(p)
<1>1. PICK n \in Nat : n = Len(ArgsIn(p, a))
  BY DEF AppsOK
<1>2. [i \in 1..n |-> f[ArgsIn(p, a)[i]]] \in [1..n -> Ids(p)]
  BY <1>1 DEF AppsOK, Maps
<1>3. [i \in 1..n |-> f[ArgsIn(p, a)[i]]] \in Seq(Ids(p))
  BY <1>2
<1> QED BY <1>1, <1>3 DEF SigIn, Signatures, AppsOK

\* The first merge to do is of terms in one class already.
LEMMA EqDropped ==
  ASSUME NEW p, NEW par, NEW f, NEW lk, NEW use, NEW todo, NEW visits, NEW fs,
         EqIn(p, par, f, lk, use, todo, visits, fs), todo # << >>, f[Head(todo).a] = f[Head(todo).b]
  PROVE  EqIn(p, par, f, lk, use, Tail(todo), visits, fs)
<1>0. todo \in Seq(MergesIn(p))
  BY DEF EqIn, EqTypes
<1>1. PICK m \in MergesIn(p) : m = Head(todo)
  BY <1>0
<1>2. /\ Tail(todo) \in Seq(MergesIn(p)) /\ Len(todo) \in Nat /\ Len(Tail(todo)) = Len(todo) - 1
      /\ \A i \in 1..Len(Tail(todo)) : i + 1 \in 1..Len(todo) /\ Tail(todo)[i] = todo[i + 1]
      /\ todo[1] = m
  BY <1>0, <1>1
<1>3. ASSUME NEW r \in Maps(p), Follows(p, r, par), Equates(r, Tail(todo)) PROVE Equates(r, todo)
  <2>1. r[m.a] = r[m.b]
    <3>1. m.a \in Ids(p) /\ m.b \in Ids(p)
      BY DEF MergesIn
    <3>2. \A u \in Ids(p) : r[f[u]] = r[u]
      BY <1>3, RootsFollow DEF EqIn, Follows
    <3> QED BY <1>1, <3>1, <3>2
  <2>2. ASSUME NEW i \in 1..Len(todo), i # 1 PROVE i - 1 \in 1..Len(Tail(todo)) /\ todo[i] = Tail(todo)[i - 1]
    <3>1. i - 1 \in 1..Len(Tail(todo)) /\ (i - 1) + 1 = i
      BY <1>2, <2>2
    <3> QED BY <1>2, <3>1
  <2> QED BY <1>2, <1>3, <2>1, <2>2 DEF Equates
<1>4. Completeness(p, par, f, lk, Tail(todo), visits, fs)
  BY <1>3 DEF EqIn, Completeness
<1>5. Soundness(p, par, lk, Tail(todo), fs)
  <2>1. ASSUME NEW r, Equates(r, todo) PROVE Equates(r, Tail(todo))
    BY <1>2, <2>1 DEF Equates
  <2> QED BY <2>1 DEF EqIn, Soundness
<1> QED BY <1>2, <1>4, <1>5 DEF EqIn, EqTypes

\* A merge from outside.
LEMMA EqAsked ==
  ASSUME NEW p, NEW par, NEW f, NEW lk, NEW use, NEW fs, NEW m \in MergesIn(p),
         EqIn(p, par, f, lk, use, << >>, << >>, fs)
  PROVE  EqIn(p, par, f, lk, use, <<m>>, << >>, fs \o <<m>>)
<1>1. fs \in Seq(MergesIn(p))
  BY DEF EqIn, EqTypes
<1>2. /\ fs \o <<m>> \in Seq(MergesIn(p)) /\ <<m>> \in Seq(MergesIn(p)) /\ Len(fs) \in Nat
      /\ Len(fs \o <<m>>) = Len(fs) + 1 /\ (fs \o <<m>>)[Len(fs) + 1] = m
      /\ \A i \in 1..Len(fs) : (fs \o <<m>>)[i] = fs[i]
      /\ Len(<<m>>) = 1 /\ <<m>>[1] = m /\ Len(<< >>) = 0
  BY <1>1
<1>3. ASSUME NEW r PROVE Equates(r, fs \o <<m>>) <=> Equates(r, fs) /\ Equates(r, <<m>>)
  <2>1. Equates(r, <<m>>) <=> r[m.a] = r[m.b]
    BY <1>2 DEF Equates
  <2>2. \A i \in 1..(Len(fs) + 1) : i \in 1..Len(fs) \/ i = Len(fs) + 1
    BY <1>2
  <2>3. \A i \in 1..Len(fs) : i \in 1..(Len(fs) + 1)
    BY <1>2
  <2>4. Len(fs) + 1 \in 1..(Len(fs) + 1)
    BY <1>2
  <2>5. Equates(r, fs \o <<m>>) => Equates(r, fs) /\ r[m.a] = r[m.b]
    BY <1>2, <2>3, <2>4 DEF Equates
  <2>6. Equates(r, fs) /\ r[m.a] = r[m.b] => Equates(r, fs \o <<m>>)
    BY <1>2, <2>2 DEF Equates
  <2> QED BY ONLY <2>1, <2>5, <2>6
<1>4. \A r : Equates(r, << >>)
  BY <1>2 DEF Equates
<1>5. Soundness(p, par, lk, <<m>>, fs \o <<m>>)
  BY <1>3 DEF EqIn, Soundness
<1>6. Completeness(p, par, f, lk, <<m>>, << >>, fs \o <<m>>)
  BY <1>3, <1>4 DEF EqIn, Completeness
<1> QED BY <1>2, <1>5, <1>6 DEF EqIn, EqTypes

LEMMA ThroughRoots ==
  ASSUME NEW p, NEW par, NEW f, NEW r, AppsOK(p), RootsOf(p, par, f), Follows(p, r, par), NEW a \in Apps(p)
  PROVE  Through(r, SigIn(p, f, a)) = SigIn(p, r, a)
<1>1. \A u \in Ids(p) : r[f[u]] = r[u]
  BY RootsFollow DEF Follows
<1>2. PICK n \in Nat : n = Len(ArgsIn(p, a))
  BY DEF AppsOK, Apps
<1>3. a \in Ids(p)
  BY DEF Apps
<1> DEFINE s == SigIn(p, f, a)
<1>4. s.func = p.terms[a].name /\ s.args = [i \in 1..n |-> f[ArgsIn(p, a)[i]]]
  BY <1>2 DEF SigIn
<1>5. Len(s.args) = n /\ \A i \in 1..n : s.args[i] = f[ArgsIn(p, a)[i]]
  <2> HIDE DEF s
  <2> QED BY <1>2, <1>4
<1>6. \A i \in 1..n : r[s.args[i]] = r[ArgsIn(p, a)[i]]
  BY <1>1, <1>2, <1>3, <1>5 DEF AppsOK
<1> HIDE DEF s
<1>7. Through(r, s) = SigIn(p, r, a)
  BY <1>2, <1>4, <1>5, <1>6 DEF Through, SigIn
<1> QED BY <1>7 DEF s

\* Linking the root child to the root top.
LinkedTo(p, f, child, top) == [u \in Ids(p) |-> IF f[u] = child THEN top ELSE f[u]]
Attached(par, child, top) == [par EXCEPT ![child] = top]
Gathered(use, child, top) == [use EXCEPT ![top] = @ \o use[child]]

LEMMA RootsLinked ==
  ASSUME NEW p, NEW par, NEW f, RootsOf(p, par, f), NEW child \in Ids(p), NEW top \in Ids(p),
         child # top, par[child] = child, par[top] = top
  PROVE  RootsOf(p, [par EXCEPT ![child] = top], LinkedTo(p, f, child, top))
<1> DEFINE q == [par EXCEPT ![child] = top]
           g == LinkedTo(p, f, child, top)
<1>1. /\ par \in Maps(p) /\ f \in Maps(p) /\ f[child] = child /\ f[top] = top
      /\ \A u \in Ids(p) : f[u] = (IF par[u] = u THEN u ELSE f[par[u]]) /\ par[f[u]] = f[u]
  BY DEF RootsOf
<1>2. /\ q \in Maps(p) /\ q[child] = top
      /\ \A u \in Ids(p) : u # child => q[u] = par[u] /\ q[u] \in Ids(p)
  BY <1>1 DEF Maps
<1>3. g \in Maps(p) /\ \A u \in Ids(p) : g[u] = IF f[u] = child THEN top ELSE f[u]
  BY <1>1 DEF Maps, LinkedTo
<1> HIDE DEF q, g
<1>4. \A u \in Ids(p) : f[u] \in Ids(p) /\ par[u] \in Ids(p)
  BY <1>1 DEF Maps
<1>5. ASSUME NEW u \in Ids(p) PROVE g[u] = (IF q[u] = u THEN u ELSE g[q[u]]) /\ q[g[u]] = g[u]
  <2>1. CASE u = child
    <3>1. g[u] = top /\ q[u] = top /\ g[top] = top /\ q[top] = top
      BY <1>1, <1>2, <1>3, <2>1
    <3> QED BY <2>1, <3>1
  <2>2. CASE u # child
    <3>1. q[u] = par[u]
      BY <1>2, <2>2
    <3>2. q[g[u]] = g[u]
      BY <1>1, <1>2, <1>3, <1>4
    <3>3. CASE par[u] = u
      BY <1>1, <1>3, <2>2, <3>1, <3>2, <3>3
    <3>4. CASE par[u] # u
      <4>1. f[u] = f[par[u]]
        BY <1>1, <3>4
      <4>2. g[u] = g[par[u]]
        BY <1>3, <1>4, <4>1
      <4> QED BY <3>1, <3>2, <3>4, <4>2
    <3> QED BY <3>3, <3>4
  <2> QED BY <2>1, <2>2
<1>6. \E e : Descends(p, q, e)
  <2>1. PICK d : d \in [Ids(p) -> Nat] /\ \A w \in Ids(p) : par[w] # w => d[par[w]] < d[w]
    BY DEF RootsOf, Descends
  <2> DEFINE e == [u \in Ids(p) |-> IF f[u] = child THEN d[u] + d[top] + 1 ELSE d[u]]
  <2>2. e \in [Ids(p) -> Nat] /\ \A u \in Ids(p) : e[u] = IF f[u] = child THEN d[u] + d[top] + 1 ELSE d[u]
    BY <2>1
  <2> HIDE DEF e
  <2>3. ASSUME NEW u \in Ids(p), q[u] # u PROVE e[q[u]] < e[u]
    <3>1. CASE u = child
      BY <1>1, <1>2, <2>1, <2>2, <3>1
    <3>2. CASE u # child
      <4>1. q[u] = par[u] /\ f[u] = f[par[u]] /\ d[par[u]] < d[u] /\ par[u] \in Ids(p)
        BY <1>1, <1>2, <1>4, <2>1, <2>3, <3>2
      <4> QED BY <2>1, <2>2, <4>1
    <3> QED BY <3>1, <3>2
  <2> QED BY <2>2, <2>3 DEF Descends
<1>7. RootsOf(p, q, g)
  BY <1>2, <1>3, <1>5, <1>6 DEF RootsOf
<1> QED BY <1>7 DEF q, g

LEMMA EqLinked ==
  ASSUME NEW p, NEW par, NEW f, NEW lk, NEW use, NEW todo, NEW fs, AppsOK(p),
         EqIn(p, par, f, lk, use, todo, << >>, fs), todo # << >>, NEW child, NEW top, child # top,
         \/ child = f[Head(todo).a] /\ top = f[Head(todo).b]
         \/ child = f[Head(todo).b] /\ top = f[Head(todo).a]
  PROVE  /\ EqIn(p, Attached(par, child, top), LinkedTo(p, f, child, top), lk,
                 Gathered(use, child, top), Tail(todo), use[child], fs)
         /\ child \in Ids(p) /\ top \in Ids(p) /\ par[child] = child
<1> DEFINE q == [par EXCEPT ![child] = top]
           g == LinkedTo(p, f, child, top)
           uses == [use EXCEPT ![top] = @ \o use[child]]
<1>1. /\ todo \in Seq(MergesIn(p)) /\ use \in [Ids(p) -> Seq(Apps(p))] /\ RootsOf(p, par, f)
      /\ fs \in Seq(MergesIn(p)) /\ DOMAIN lk \subseteq Signatures(p) /\ lk \in [DOMAIN lk -> Apps(p)]
  BY DEF EqIn, EqTypes
<1>2. PICK m \in MergesIn(p) : m = Head(todo)
  BY <1>1
<1>3. m.a \in Ids(p) /\ m.b \in Ids(p)
  BY DEF MergesIn
<1>4. /\ Tail(todo) \in Seq(MergesIn(p)) /\ Len(todo) \in Nat /\ Len(Tail(todo)) = Len(todo) - 1
      /\ \A i \in 1..Len(Tail(todo)) : i + 1 \in 1..Len(todo) /\ Tail(todo)[i] = todo[i + 1]
      /\ todo[1] = m /\ 1 \in 1..Len(todo)
  BY <1>1, <1>2
<1>5. /\ child \in Ids(p) /\ top \in Ids(p) /\ par[child] = child /\ par[top] = top
      /\ par \in Maps(p) /\ f \in Maps(p)
  BY <1>1, <1>2, <1>3 DEF RootsOf, Maps
<1>6. RootsOf(p, q, g)
  BY <1>1, <1>5, RootsLinked
<1>7. q[child] = top /\ \A u \in Ids(p) : u # child => q[u] = par[u]
  BY <1>5 DEF Maps
<1>8. /\ uses \in [Ids(p) -> Seq(Apps(p))] /\ uses[top] = use[top] \o use[child]
      /\ \A u \in Ids(p) : u # top => uses[u] = use[u]
  BY <1>1, <1>5
<1>9. \A u \in Ids(p) : g[u] = IF f[u] = child THEN top ELSE f[u]
  BY DEF LinkedTo
<1>10. \A u \in Ids(p) : f[u] \in Ids(p)
  BY <1>5 DEF Maps
<1>11. use[child] \in Seq(Apps(p)) /\ use[top] \in Seq(Apps(p))
  BY <1>1, <1>5
<1>12. \A x : x \in ToSet(uses[top]) <=> x \in ToSet(use[top]) \/ x \in ToSet(use[child])
  <2> HIDE DEF uses
  <2> QED BY <1>8, <1>11, InConcat
<1> HIDE DEF q, g, uses
<1>13. UsesKept(p, g, uses)
  <2> SUFFICES ASSUME NEW a \in Apps(p), NEW i \in 1..Len(ArgsIn(p, a))
               PROVE  a \in ToSet(uses[g[ArgsIn(p, a)[i]]])
    BY DEF UsesKept
  <2>1. PICK x \in Ids(p) : x = ArgsIn(p, a)[i]
    BY DEF AppsOK, Apps
  <2>2. a \in ToSet(use[f[x]])
    BY <2>1 DEF EqIn, UsesKept
  <2>3. CASE f[x] = child
    BY <1>9, <1>12, <2>1, <2>2, <2>3
  <2>4. CASE f[x] = top
    BY <1>9, <1>12, <2>1, <2>2, <2>4
  <2>5. CASE f[x] # child /\ f[x] # top
    BY <1>8, <1>9, <1>10, <2>1, <2>2, <2>5
  <2> QED BY <2>3, <2>4, <2>5
<1>14. ASSUME NEW r, Follows(p, r, par) PROVE Follows(p, r, q) <=> r[m.a] = r[m.b]
  <2>1. \A u \in Ids(p) : r[f[u]] = r[u]
    BY <1>1, <1>14, RootsFollow DEF Follows
  <2>2. r[child] = r[top] <=> r[m.a] = r[m.b]
    BY <1>2, <1>3, <2>1
  <2>3. Follows(p, r, q) <=> r[child] = r[top]
    BY <1>5, <1>7, <1>14 DEF Follows
  <2> QED BY <2>2, <2>3
<1>15. ASSUME NEW r, Follows(p, r, q) PROVE Follows(p, r, par)
  BY <1>5, <1>7, <1>15 DEF Follows
<1>16. ASSUME NEW r PROVE Equates(r, todo) <=> r[m.a] = r[m.b] /\ Equates(r, Tail(todo))
  <2>1. ASSUME NEW i \in 1..Len(todo), i # 1 PROVE i - 1 \in 1..Len(Tail(todo)) /\ todo[i] = Tail(todo)[i - 1]
    <3>1. i - 1 \in 1..Len(Tail(todo)) /\ (i - 1) + 1 = i
      BY <1>4, <2>1
    <3> QED BY <1>4, <3>1
  <2> QED BY <1>4, <2>1 DEF Equates
<1>17. Soundness(p, q, lk, Tail(todo), fs)
  BY <1>14, <1>16 DEF EqIn, Soundness
<1>18. Completeness(p, q, g, lk, Tail(todo), use[child], fs)
  <2> SUFFICES ASSUME NEW r \in Maps(p), Follows(p, r, q), Equates(r, Tail(todo))
               PROVE  Equates(r, fs) /\ \A a \in Apps(p) : a \in ToSet(use[child]) \/ Known(p, g, lk, r, a)
    BY DEF Completeness
  <2>1. Follows(p, r, par) /\ Equates(r, todo)
    BY <1>14, <1>15, <1>16
  <2>2. Equates(r, fs) /\ \A a \in Apps(p) : a \in ToSet(<< >>) \/ Known(p, f, lk, r, a)
    BY <2>1 DEF EqIn, Completeness
  <2>3. ASSUME NEW a \in Apps(p), ~(a \in ToSet(use[child])) PROVE Known(p, g, lk, r, a)
    <3>1. ASSUME NEW i \in 1..Len(ArgsIn(p, a)) PROVE g[ArgsIn(p, a)[i]] = f[ArgsIn(p, a)[i]]
      <4>1. PICK x \in Ids(p) : x = ArgsIn(p, a)[i]
        BY DEF AppsOK, Apps
      <4>2. a \in ToSet(use[f[x]])
        BY <4>1 DEF EqIn, UsesKept
      <4> QED BY <1>9, <2>3, <4>1, <4>2
    <3>2. SigIn(p, g, a) = SigIn(p, f, a)
      BY <3>1 DEF SigIn
    <3>3. ~(a \in ToSet(<< >>))
      BY InEmpty
    <3> QED BY <2>2, <3>2, <3>3 DEF Known
  <2> QED BY <2>2, <2>3
<1>19. EqTypes(p, lk, uses, Tail(todo), use[child], fs)
  BY <1>1, <1>4, <1>8, <1>11 DEF EqTypes
<1>20. EqIn(p, q, g, lk, uses, Tail(todo), use[child], fs)
  BY <1>6, <1>13, <1>17, <1>18, <1>19 DEF EqIn
<1> QED BY <1>5, <1>20 DEF q, g, uses, Attached, Gathered

\* The first application to visit has a signature that is known; the merge q
\* is what it induces, if any.
LEMMA EqVisited ==
  ASSUME NEW p, NEW par, NEW f, NEW lk, NEW use, NEW todo, NEW visits, NEW fs, AppsOK(p),
         EqIn(p, par, f, lk, use, todo, visits, fs), visits # << >>, NEW sig, NEW other,
         sig = SigIn(p, f, Head(visits)), sig \in DOMAIN lk, other = lk[sig],
         NEW now \in Seq(MergesIn(p)),
         \/ f[other] = f[Head(visits)] /\ \A r : Equates(r, now) <=> Equates(r, todo)
         \/ \A r : Equates(r, now) <=> Equates(r, todo) /\ r[other] = r[Head(visits)]
  PROVE  EqIn(p, par, f, lk, use, now, Tail(visits), fs)
<1>1. /\ visits \in Seq(Apps(p)) /\ DOMAIN lk \subseteq Signatures(p) /\ lk \in [DOMAIN lk -> Apps(p)]
      /\ RootsOf(p, par, f)
  BY DEF EqIn, EqTypes
<1>2. PICK app \in Apps(p) : app = Head(visits)
  BY <1>1
<1>3. /\ Tail(visits) \in Seq(Apps(p)) /\ other \in Apps(p) /\ app \in Ids(p) /\ other \in Ids(p)
  BY <1>1 DEF Apps
<1>4. ASSUME NEW x, x \in ToSet(visits), x # app PROVE x \in ToSet(Tail(visits))
  <2>1. PICK i \in 1..Len(visits) : visits[i] = x
    BY <1>1, <1>4, InToSet
  <2>2. i # 1 /\ Len(Tail(visits)) = Len(visits) - 1 /\ Len(visits) \in Nat
        /\ \A j \in 1..Len(Tail(visits)) : Tail(visits)[j] = visits[j + 1]
    BY <1>1, <1>2, <1>4, <2>1
  <2>3. i - 1 \in 1..Len(Tail(visits)) /\ (i - 1) + 1 = i
    BY <2>2
  <2>4. Tail(visits)[i - 1] = x
    BY <2>1, <2>2, <2>3
  <2> QED BY <1>3, <2>3, <2>4, InToSet
<1>5. Soundness(p, par, lk, now, fs)
  <2> SUFFICES ASSUME NEW r, IsCongruence(p, r), Equates(r, fs)
               PROVE  Follows(p, r, par) /\ Equates(r, now) /\ Explained(p, lk, r)
    BY DEF Soundness
  <2>1. Follows(p, r, par) /\ Equates(r, todo) /\ Explained(p, lk, r)
    BY DEF EqIn, Soundness
  <2>2. Through(r, sig) = SigIn(p, r, app)
    BY <1>1, <1>2, <2>1, ThroughRoots
  <2>3. Through(r, sig) = SigIn(p, r, other)
    BY <2>1 DEF Explained
  <2>4. r[other] = r[app]
    BY <1>3, <2>2, <2>3 DEF IsCongruence
  <2> QED BY <1>2, <2>1, <2>4
<1>6. Completeness(p, par, f, lk, now, Tail(visits), fs)
  <2> SUFFICES ASSUME NEW r \in Maps(p), Follows(p, r, par), Equates(r, now)
               PROVE  Equates(r, fs) /\ \A a \in Apps(p) : a \in ToSet(Tail(visits)) \/ Known(p, f, lk, r, a)
    BY DEF Completeness
  <2>1. Equates(r, todo)
    OBVIOUS
  <2>2. Equates(r, fs) /\ \A a \in Apps(p) : a \in ToSet(visits) \/ Known(p, f, lk, r, a)
    BY <2>1 DEF EqIn, Completeness
  <2>3. r[other] = r[app]
    <3>1. CASE f[other] = f[app]
      <4>1. \A u \in Ids(p) : r[f[u]] = r[u]
        BY <1>1, RootsFollow DEF Follows
      <4> QED BY <1>3, <3>1, <4>1
    <3>2. CASE r[other] = r[Head(visits)]
      BY <1>2, <3>2
    <3> QED BY <1>2, <3>1, <3>2
  <2>4. Known(p, f, lk, r, app)
    BY <1>2, <2>3 DEF Known
  <2> QED BY <1>4, <2>2, <2>4
<1> QED BY <1>3, <1>5, <1>6 DEF EqIn, EqTypes

\* It has a new signature.
LEMMA EqNoted ==
  ASSUME NEW p, NEW par, NEW f, NEW lk, NEW use, NEW todo, NEW visits, NEW fs, AppsOK(p),
         EqIn(p, par, f, lk, use, todo, visits, fs), visits # << >>, NEW sig,
         sig = SigIn(p, f, Head(visits)), sig \notin DOMAIN lk
  PROVE  EqIn(p, par, f, Put(lk, sig, Head(visits)), use, todo, Tail(visits), fs) /\ sig \in Signatures(p)
<1>1. /\ visits \in Seq(Apps(p)) /\ DOMAIN lk \subseteq Signatures(p) /\ lk \in [DOMAIN lk -> Apps(p)]
      /\ RootsOf(p, par, f) /\ f \in Maps(p)
  BY DEF EqIn, EqTypes, RootsOf
<1>2. PICK app \in Apps(p) : app = Head(visits)
  BY <1>1
<1>3. Tail(visits) \in Seq(Apps(p)) /\ app \in Ids(p)
  BY <1>1 DEF Apps
<1>4. ASSUME NEW x, x \in ToSet(visits), x # app PROVE x \in ToSet(Tail(visits))
  <2>1. PICK i \in 1..Len(visits) : visits[i] = x
    BY <1>1, <1>4, InToSet
  <2>2. i # 1 /\ Len(Tail(visits)) = Len(visits) - 1 /\ Len(visits) \in Nat
        /\ \A j \in 1..Len(Tail(visits)) : Tail(visits)[j] = visits[j + 1]
    BY <1>1, <1>2, <1>4, <2>1
  <2>3. i - 1 \in 1..Len(Tail(visits)) /\ (i - 1) + 1 = i
    BY <2>2
  <2>4. Tail(visits)[i - 1] = x
    BY <2>1, <2>2, <2>3
  <2> QED BY <1>3, <2>3, <2>4, InToSet
<1> DEFINE lk2 == Put(lk, sig, app)
<1>5. /\ DOMAIN lk2 = DOMAIN lk \cup {sig} /\ lk2[sig] = app
      /\ \A s \in DOMAIN lk : lk2[s] = lk[s]
  BY DEF Put
<1>6. sig \in Signatures(p)
  BY <1>1, <1>2, <1>3, SigTyped
<1>7. lk2 \in [DOMAIN lk2 -> Apps(p)] /\ DOMAIN lk2 \subseteq Signatures(p)
  <2>1. lk2 = [x \in DOMAIN lk2 |-> lk2[x]]
    BY DEF Put
  <2>2. \A x \in DOMAIN lk2 : lk2[x] \in Apps(p)
    BY <1>1, <1>5
  <2> HIDE DEF lk2
  <2> QED BY <1>1, <1>5, <1>6, <2>1, <2>2
<1> HIDE DEF lk2
<1>8. Soundness(p, par, lk2, todo, fs)
  <2> SUFFICES ASSUME NEW r, IsCongruence(p, r), Equates(r, fs)
               PROVE  Follows(p, r, par) /\ Equates(r, todo) /\ Explained(p, lk2, r)
    BY DEF Soundness
  <2>1. Follows(p, r, par) /\ Equates(r, todo) /\ Explained(p, lk, r)
    BY DEF EqIn, Soundness
  <2>2. Through(r, sig) = SigIn(p, r, app)
    BY <1>1, <1>2, <2>1, ThroughRoots
  <2> QED BY <1>5, <2>1, <2>2 DEF Explained
<1>9. Completeness(p, par, f, lk2, todo, Tail(visits), fs)
  <2> SUFFICES ASSUME NEW r \in Maps(p), Follows(p, r, par), Equates(r, todo)
               PROVE  Equates(r, fs) /\ \A a \in Apps(p) : a \in ToSet(Tail(visits)) \/ Known(p, f, lk2, r, a)
    BY DEF Completeness
  <2>2. Equates(r, fs) /\ \A a \in Apps(p) : a \in ToSet(visits) \/ Known(p, f, lk, r, a)
    BY DEF EqIn, Completeness
  <2>3. Known(p, f, lk2, r, app)
    BY <1>2, <1>5 DEF Known
  <2>4. \A a \in Apps(p) : Known(p, f, lk, r, a) => Known(p, f, lk2, r, a)
    BY <1>5 DEF Known
  <2> QED BY <1>4, <2>2, <2>3, <2>4
<1>10. EqIn(p, par, f, lk2, use, todo, Tail(visits), fs)
  BY <1>3, <1>7, <1>8, <1>9 DEF EqIn, EqTypes
<1> QED BY <1>2, <1>6, <1>10 DEF lk2

\* Use lists may grow.
MoreUses(p, use, uses) ==
    /\ uses \in [Ids(p) -> Seq(Apps(p))]
    /\ \A u \in Ids(p) : \A x : x \in ToSet(use[u]) => x \in ToSet(uses[u])
LEMMA EqMoreUses ==
  ASSUME NEW p, NEW par, NEW f, NEW lk, NEW use, NEW todo, NEW visits, NEW fs, NEW uses, AppsOK(p),
         EqIn(p, par, f, lk, use, todo, visits, fs), MoreUses(p, use, uses)
  PROVE  EqIn(p, par, f, lk, uses, todo, visits, fs)
<1>1. UsesKept(p, f, uses)
  <2> SUFFICES ASSUME NEW a \in Apps(p), NEW i \in 1..Len(ArgsIn(p, a))
               PROVE  a \in ToSet(uses[f[ArgsIn(p, a)[i]]])
    BY DEF UsesKept
  <2>1. PICK x \in Ids(p) : x = ArgsIn(p, a)[i]
    BY DEF AppsOK, Apps
  <2>2. a \in ToSet(use[f[x]]) /\ f[x] \in Ids(p)
    BY <2>1 DEF EqIn, UsesKept, RootsOf, Maps
  <2> QED BY <2>1, <2>2 DEF MoreUses
<1> QED BY <1>1 DEF EqIn, EqTypes, MoreUses

-----------------------------------------------------------------------------
(* The undo trail.  What the links and the signatures were when it had its  *)
(* first n entries: every entry since names what was added with it.         *)

UndoIn(p) ==
    [kind : {"Link"}, child : Ids(p), old_parent : Ids(p), old_rank : Nat]
    \cup [kind : {"RemoveProofEdge"}, a : Ids(p), b : Ids(p)]
    \cup [kind : {"AddLookup"}, sig : Signatures(p)]
    \cup [kind : {"AddDisequality"}]
TrailOK(p, us) ==
    us \in Seq(UndoIn(p)) /\ \A i \in 1..Len(us) : us[i].kind = "Link" => us[i].old_parent = us[i].child
IsLink(e, u) == e.kind = "Link" /\ e.child = u
IsNote(e, s) == e.kind = "AddLookup" /\ e.sig = s
ParentAt(par, us, n) ==
    [u \in DOMAIN par |-> IF \E i \in (n + 1)..Len(us) : IsLink(us[i], u) THEN u ELSE par[u]]
SigAt(lk, us, n) ==
    [s \in {s \in DOMAIN lk : ~ \E i \in (n + 1)..Len(us) : IsNote(us[i], s)} |-> lk[s]]
SameThen(par, lk, us, par2, lk2, us2, n) ==
    ParentAt(par2, us2, n) = ParentAt(par, us, n) /\ SigAt(lk2, us2, n) = SigAt(lk, us, n)

LEMMA AtNow ==
  ASSUME NEW p, NEW par \in Maps(p), NEW lk, lk = [s \in DOMAIN lk |-> lk[s]], NEW us, TrailOK(p, us)
  PROVE  ParentAt(par, us, Len(us)) = par /\ SigAt(lk, us, Len(us)) = lk
<1>1. Len(us) \in Nat
  BY DEF TrailOK
<1>2. ~ \E i \in (Len(us) + 1)..Len(us) : TRUE
  BY <1>1
<1>3. par = [u \in DOMAIN par |-> par[u]]
  BY DEF Maps
<1>4. {s \in DOMAIN lk : ~ \E i \in (Len(us) + 1)..Len(us) : IsNote(us[i], s)} = DOMAIN lk
  BY <1>2
<1>5. ParentAt(par, us, Len(us)) = [u \in DOMAIN par |-> par[u]]
  BY <1>2 DEF ParentAt
<1> QED BY <1>3, <1>4, <1>5 DEF SigAt

\* Entries that say nothing of links and signatures.
LEMMA ThenOther ==
  ASSUME NEW p, NEW par, NEW lk, NEW us, NEW new, us \in Seq(UndoIn(p)), new \in Seq(UndoIn(p)),
         \A i \in 1..Len(new) : new[i].kind \in {"RemoveProofEdge", "AddDisequality"},
         NEW n \in Nat, n <= Len(us)
  PROVE  SameThen(par, lk, us, par, lk, us \o new, n)
<1>1. /\ Len(us) \in Nat /\ Len(us \o new) = Len(us) + Len(new) /\ Len(new) \in Nat
      /\ \A i \in 1..Len(us) : (us \o new)[i] = us[i]
      /\ \A i \in 1..Len(new) : (us \o new)[Len(us) + i] = new[i]
  OBVIOUS
<1>2. ASSUME NEW i \in (n + 1)..Len(us \o new)
      PROVE  \/ i \in (n + 1)..Len(us) /\ (us \o new)[i] = us[i]
             \/ (us \o new)[i].kind \in {"RemoveProofEdge", "AddDisequality"}
  <2>1. CASE i <= Len(us)
    BY <1>1, <2>1
  <2>2. CASE i > Len(us)
    <3>1. i - Len(us) \in 1..Len(new) /\ Len(us) + (i - Len(us)) = i
      BY <1>1, <2>2
    <3>2. (us \o new)[i] = new[i - Len(us)]
      BY <1>1, <3>1
    <3> QED BY <3>1, <3>2
  <2> QED BY <1>1, <2>1, <2>2
<1>3. \A i \in (n + 1)..Len(us) : i \in (n + 1)..Len(us \o new) /\ (us \o new)[i] = us[i]
  BY <1>1
<1>4. \A u : (\E i \in (n + 1)..Len(us \o new) : IsLink((us \o new)[i], u))
               <=> \E i \in (n + 1)..Len(us) : IsLink(us[i], u)
  BY <1>2, <1>3 DEF IsLink
<1>5. \A s : (\E i \in (n + 1)..Len(us \o new) : IsNote((us \o new)[i], s))
               <=> \E i \in (n + 1)..Len(us) : IsNote(us[i], s)
  BY <1>2, <1>3 DEF IsNote
<1> QED BY <1>4, <1>5 DEF SameThen, ParentAt, SigAt

\* One entry more, or one less.
LEMMA ThenEntry ==
  ASSUME NEW us, NEW e, NEW ws, NEW n \in Nat, Len(us) \in Nat, Len(ws) = Len(us) + 1, n <= Len(us),
         \A i \in 1..Len(us) : ws[i] = us[i], ws[Len(us) + 1] = e
  PROVE  /\ \A u : (\E i \in (n + 1)..Len(ws) : IsLink(ws[i], u))
                    <=> IsLink(e, u) \/ \E i \in (n + 1)..Len(us) : IsLink(us[i], u)
         /\ \A s : (\E i \in (n + 1)..Len(ws) : IsNote(ws[i], s))
                    <=> IsNote(e, s) \/ \E i \in (n + 1)..Len(us) : IsNote(us[i], s)
<1>1. \A i \in (n + 1)..Len(ws) : i = Len(us) + 1 \/ i \in (n + 1)..Len(us)
  OBVIOUS
<1>2. \A i \in (n + 1)..Len(us) : i \in (n + 1)..Len(ws) /\ ws[i] = us[i]
  OBVIOUS
<1>3. Len(us) + 1 \in (n + 1)..Len(ws)
  OBVIOUS
<1>4. \A i \in (n + 1)..Len(ws) : ws[i] = e \/ (i \in (n + 1)..Len(us) /\ ws[i] = us[i])
  BY <1>1, <1>2
<1> QED BY <1>2, <1>3, <1>4

Extends(us, ws, e) ==
    /\ Len(us) \in Nat /\ Len(ws) = Len(us) + 1
    /\ \A i \in 1..Len(us) : ws[i] = us[i]
    /\ ws[Len(us) + 1] = e
Links(par, e, child) == e.kind = "Link" /\ e.child = child /\ par[child] = child

LEMMA ThenLinked ==
  ASSUME NEW p, NEW par \in Maps(p), NEW lk, NEW us, NEW ws, NEW e, Extends(us, ws, e),
         NEW n \in Nat, n <= Len(us), NEW child \in Ids(p), Links(par, e, child), NEW top
  PROVE  SameThen(par, lk, us, Attached(par, child, top), lk, ws, n)
<1> DEFINE q == [par EXCEPT ![child] = top]
<1>0. /\ Len(us) \in Nat /\ Len(ws) = Len(us) + 1 /\ ws[Len(us) + 1] = e
      /\ \A i \in 1..Len(us) : ws[i] = us[i]
      /\ e.kind = "Link" /\ e.child = child /\ par[child] = child
  BY DEF Extends, Links
<1>1. DOMAIN q = DOMAIN par /\ \A u \in DOMAIN par : u # child => q[u] = par[u]
  BY DEF Maps
<1>2. \A u : (\E i \in (n + 1)..Len(ws) : IsLink(ws[i], u))
               <=> u = child \/ \E i \in (n + 1)..Len(us) : IsLink(us[i], u)
  <2>1. \A u : IsLink(e, u) <=> u = child
    BY <1>0 DEF IsLink
  <2> QED BY <1>0, <2>1, ThenEntry
<1>3. \A s : (\E i \in (n + 1)..Len(ws) : IsNote(ws[i], s)) <=> \E i \in (n + 1)..Len(us) : IsNote(us[i], s)
  <2>1. \A s : ~IsNote(e, s)
    BY <1>0 DEF IsNote
  <2> QED BY <1>0, <2>1, ThenEntry
<1> HIDE DEF q
<1>4. SameThen(par, lk, us, q, lk, ws, n)
  <2>1. ParentAt(q, ws, n) = ParentAt(par, us, n)
    BY <1>0, <1>1, <1>2 DEF ParentAt
  <2>2. SigAt(lk, ws, n) = SigAt(lk, us, n)
    BY <1>3 DEF SigAt
  <2> QED BY <2>1, <2>2 DEF SameThen
<1> QED BY <1>4 DEF q, Attached

LEMMA ThenNoted ==
  ASSUME NEW par, NEW lk, NEW us, NEW ws, NEW e, NEW n \in Nat, Len(us) \in Nat,
         Len(ws) = Len(us) + 1, n <= Len(us), \A i \in 1..Len(us) : ws[i] = us[i], ws[Len(us) + 1] = e,
         NEW sig, NEW app, e.kind = "AddLookup", e.sig = sig, sig \notin DOMAIN lk
  PROVE  SameThen(par, lk, us, par, Put(lk, sig, app), ws, n)
<1>1. \A u : (\E i \in (n + 1)..Len(ws) : IsLink(ws[i], u)) <=> \E i \in (n + 1)..Len(us) : IsLink(us[i], u)
  <2>1. \A u : ~IsLink(e, u)
    BY DEF IsLink
  <2> QED BY <2>1, ThenEntry
<1>2. \A s : (\E i \in (n + 1)..Len(ws) : IsNote(ws[i], s))
               <=> s = sig \/ \E i \in (n + 1)..Len(us) : IsNote(us[i], s)
  <2>1. \A s : IsNote(e, s) <=> s = sig
    BY DEF IsNote
  <2> QED BY <2>1, ThenEntry
<1>3. ParentAt(par, ws, n) = ParentAt(par, us, n)
  BY <1>1 DEF ParentAt
<1>4. SigAt(Put(lk, sig, app), ws, n) = SigAt(lk, us, n)
  <2> DEFINE mk == Put(lk, sig, app)
  <2>1. DOMAIN mk = DOMAIN lk \cup {sig} /\ \A s \in DOMAIN lk : mk[s] = lk[s]
    BY DEF Put
  <2> HIDE DEF mk
  <2>2. {s \in DOMAIN mk : ~ \E i \in (n + 1)..Len(ws) : IsNote(ws[i], s)}
        = {s \in DOMAIN lk : ~ \E i \in (n + 1)..Len(us) : IsNote(us[i], s)}
    BY <1>2, <2>1
  <2>3. SigAt(mk, ws, n) = SigAt(lk, us, n)
    BY <2>1, <2>2 DEF SigAt
  <2> QED BY <2>3 DEF mk
<1> QED BY <1>3, <1>4 DEF SameThen

\* Undoing an entry.
LEMMA ThenUnlinked ==
  ASSUME NEW p, NEW par \in Maps(p), NEW lk, NEW us, NEW ws, NEW e, NEW n \in Nat, Len(us) \in Nat,
         Len(ws) = Len(us) + 1, n <= Len(us), \A i \in 1..Len(us) : ws[i] = us[i], ws[Len(us) + 1] = e,
         NEW child \in Ids(p), e.kind = "Link", e.child = child
  PROVE  SameThen(par, lk, ws, [par EXCEPT ![child] = child], lk, us, n)
<1> DEFINE q == [par EXCEPT ![child] = child]
<1>1. DOMAIN q = DOMAIN par /\ q[child] = child /\ \A u \in DOMAIN par : u # child => q[u] = par[u]
  BY DEF Maps
<1>2. \A u : (\E i \in (n + 1)..Len(ws) : IsLink(ws[i], u))
               <=> u = child \/ \E i \in (n + 1)..Len(us) : IsLink(us[i], u)
  <2>1. \A u : IsLink(e, u) <=> u = child
    BY DEF IsLink
  <2> QED BY <2>1, ThenEntry
<1>3. \A s : (\E i \in (n + 1)..Len(ws) : IsNote(ws[i], s)) <=> \E i \in (n + 1)..Len(us) : IsNote(us[i], s)
  <2>1. \A s : ~IsNote(e, s)
    BY DEF IsNote
  <2> QED BY <2>1, ThenEntry
<1> HIDE DEF q
<1>4. SameThen(par, lk, ws, q, lk, us, n)
  <2>1. ParentAt(q, us, n) = ParentAt(par, ws, n)
    BY <1>1, <1>2 DEF ParentAt
  <2>2. SigAt(lk, ws, n) = SigAt(lk, us, n)
    BY <1>3 DEF SigAt
  <2> QED BY <2>1, <2>2 DEF SameThen
<1> QED BY <1>4 DEF q

LEMMA ThenForgotten ==
  ASSUME NEW par, NEW lk, NEW us, NEW ws, NEW e, NEW n \in Nat, Len(us) \in Nat,
         Len(ws) = Len(us) + 1, n <= Len(us), \A i \in 1..Len(us) : ws[i] = us[i], ws[Len(us) + 1] = e,
         NEW sig, e.kind = "AddLookup", e.sig = sig
  PROVE  SameThen(par, lk, ws, par, Forget(lk, sig), us, n)
<1>1. \A u : (\E i \in (n + 1)..Len(ws) : IsLink(ws[i], u)) <=> \E i \in (n + 1)..Len(us) : IsLink(us[i], u)
  <2>1. \A u : ~IsLink(e, u)
    BY DEF IsLink
  <2> QED BY <2>1, ThenEntry
<1>2. \A s : (\E i \in (n + 1)..Len(ws) : IsNote(ws[i], s))
               <=> s = sig \/ \E i \in (n + 1)..Len(us) : IsNote(us[i], s)
  <2>1. \A s : IsNote(e, s) <=> s = sig
    BY DEF IsNote
  <2> QED BY <2>1, ThenEntry
<1>3. ParentAt(par, ws, n) = ParentAt(par, us, n)
  BY <1>1 DEF ParentAt
<1>4. SigAt(Forget(lk, sig), us, n) = SigAt(lk, ws, n)
  <2> DEFINE mk == Forget(lk, sig)
  <2>1. DOMAIN mk = DOMAIN lk \ {sig} /\ \A s \in DOMAIN mk : mk[s] = lk[s]
    BY DEF Forget
  <2> HIDE DEF mk
  <2>2. {s \in DOMAIN mk : ~ \E i \in (n + 1)..Len(us) : IsNote(us[i], s)}
        = {s \in DOMAIN lk : ~ \E i \in (n + 1)..Len(ws) : IsNote(ws[i], s)}
    BY <1>2, <2>1
  <2>3. SigAt(mk, us, n) = SigAt(lk, ws, n)
    BY <2>1, <2>2 DEF SigAt
  <2> QED BY <2>3 DEF mk
<1> QED BY <1>3, <1>4 DEF SameThen

LEMMA ThenKept ==
  ASSUME NEW par, NEW lk, NEW us, NEW ws, NEW e, NEW n \in Nat, Len(us) \in Nat,
         Len(ws) = Len(us) + 1, n <= Len(us), \A i \in 1..Len(us) : ws[i] = us[i], ws[Len(us) + 1] = e,
         e.kind \in {"RemoveProofEdge", "AddDisequality"}
  PROVE  SameThen(par, lk, us, par, lk, ws, n) /\ SameThen(par, lk, ws, par, lk, us, n)
<1>1. /\ \A u : ~IsLink(e, u)
      /\ \A s : ~IsNote(e, s)
  BY DEF IsLink, IsNote
<1>2. \A u : (\E i \in (n + 1)..Len(ws) : IsLink(ws[i], u)) <=> \E i \in (n + 1)..Len(us) : IsLink(us[i], u)
  BY <1>1, ThenEntry
<1>3. \A s : (\E i \in (n + 1)..Len(ws) : IsNote(ws[i], s)) <=> \E i \in (n + 1)..Len(us) : IsNote(us[i], s)
  BY <1>1, ThenEntry
<1> QED BY <1>2, <1>3 DEF SameThen, ParentAt, SigAt

-----------------------------------------------------------------------------
(* Every scope goes back to the classes that the merges asked for before it *)
(* make.                                                                    *)

Back(p, par, lk, use, us, n, fs) ==
    \E f : EqIn(p, ParentAt(par, us, n), f, SigAt(lk, us, n), use, << >>, << >>, fs)
ScopesBack(p, par, lk, use, us, ss, ls, fs) ==
    \A k \in 1..Len(ls) :
        ls[k].facts <= Len(fs) /\ Back(p, par, lk, use, us, ss[k], SubSeq(fs, 1, ls[k].facts))
Rising(us, ss, ls) ==
    /\ \A k \in 1..Len(ss) : ss[k] <= Len(us)
    /\ \A j, k \in 1..Len(ss) : j <= k => ss[j] <= ss[k]
    /\ \A j, k \in 1..Len(ls) : j <= k => ls[j].facts <= ls[k].facts
HistoryTypes(p, par, lk, use, us, ss, ls, fs) ==
    /\ TrailOK(p, us) /\ par \in Maps(p) /\ lk = [s \in DOMAIN lk |-> lk[s]]
    /\ use \in [Ids(p) -> Seq(Apps(p))] /\ fs \in Seq(MergesIn(p))
    /\ ss \in Seq(Nat) /\ ls \in Seq(Limits) /\ Len(ls) <= Len(ss)
History(p, par, lk, use, us, ss, ls, fs) ==
    /\ HistoryTypes(p, par, lk, use, us, ss, ls, fs) /\ Rising(us, ss, ls)
    /\ ScopesBack(p, par, lk, use, us, ss, ls, fs)

LEMMA LimitFacts ==
  ASSUME NEW ls \in Seq(Limits), NEW k \in 1..Len(ls)
  PROVE  ls[k].facts \in Nat /\ ls[k].asserted \in Nat
<1>1. ls[k] \in Limits
  OBVIOUS
<1> QED BY <1>1 DEF Limits

LEMMA BackKept ==
  ASSUME NEW p, NEW par, NEW lk, NEW use, NEW us, NEW n, NEW fs, Back(p, par, lk, use, us, n, fs),
         NEW qar, NEW mk, NEW uses, NEW ws, AppsOK(p), MoreUses(p, use, uses),
         SameThen(par, lk, us, qar, mk, ws, n)
  PROVE  Back(p, qar, mk, uses, ws, n, fs)
<1>1. PICK f : EqIn(p, ParentAt(par, us, n), f, SigAt(lk, us, n), use, << >>, << >>, fs)
  BY DEF Back
<1>2. EqIn(p, ParentAt(par, us, n), f, SigAt(lk, us, n), uses, << >>, << >>, fs)
  BY <1>1, EqMoreUses
<1> QED BY <1>2 DEF Back, SameThen

LEMMA HistoryKept ==
  ASSUME NEW p, NEW par, NEW lk, NEW use, NEW us, NEW ss, NEW ls, NEW fs, AppsOK(p),
         History(p, par, lk, use, us, ss, ls, fs), NEW qar, NEW mk, NEW uses, NEW ws, NEW gs,
         HistoryTypes(p, qar, mk, uses, ws, ss, ls, gs), MoreUses(p, use, uses),
         Len(fs) <= Len(gs), \A i \in 1..Len(fs) : gs[i] = fs[i],
         \A k \in 1..Len(ss) : ss[k] <= Len(ws) /\ SameThen(par, lk, us, qar, mk, ws, ss[k])
  PROVE  History(p, qar, mk, uses, ws, ss, ls, gs)
<1>1. Rising(ws, ss, ls)
  BY DEF History, Rising
<1>2. ASSUME NEW k \in 1..Len(ls)
      PROVE  ls[k].facts <= Len(gs) /\ Back(p, qar, mk, uses, ws, ss[k], SubSeq(gs, 1, ls[k].facts))
  <2>1. ls[k].facts <= Len(fs) /\ Back(p, par, lk, use, us, ss[k], SubSeq(fs, 1, ls[k].facts))
    BY DEF History, ScopesBack
  <2>2. /\ k \in 1..Len(ss) /\ ls[k].facts \in Nat /\ fs \in Seq(MergesIn(p)) /\ gs \in Seq(MergesIn(p))
        /\ Len(fs) \in Nat /\ Len(gs) \in Nat
    <3>1. ls \in Seq(Limits) /\ ss \in Seq(Nat) /\ Len(ls) <= Len(ss)
      BY DEF History, HistoryTypes
    <3>2. k \in 1..Len(ss)
      BY <3>1
    <3>3. fs \in Seq(MergesIn(p)) /\ gs \in Seq(MergesIn(p))
      BY DEF History, HistoryTypes
    <3> QED BY <3>1, <3>2, <3>3, LimitFacts
  <2>3. SubSeq(gs, 1, ls[k].facts) = SubSeq(fs, 1, ls[k].facts)
    <3>1. PICK n \in Nat : n = ls[k].facts
      BY <2>2
    <3>2. \A i \in 1..n : gs[i] = fs[i]
      BY <2>1, <2>2, <3>1
    <3>3. SubSeq(gs, 1, n) = [i \in 1..n |-> gs[i]] /\ SubSeq(fs, 1, n) = [i \in 1..n |-> fs[i]]
      BY <2>1, <2>2, <3>1
    <3> QED BY <3>1, <3>2, <3>3
  <2>4. Back(p, qar, mk, uses, ws, ss[k], SubSeq(fs, 1, ls[k].facts))
    BY <2>1, <2>2, BackKept
  <2>5. ls[k].facts <= Len(gs)
    BY <2>1, <2>2
  <2> QED BY <2>3, <2>4, <2>5
<1> QED BY <1>1, <1>2 DEF History, ScopesBack

LEMMA HistoryPushed ==
  ASSUME NEW p, NEW par, NEW lk, NEW use, NEW us, NEW ss, NEW ls, NEW fs, NEW f, NEW n \in Nat,
         History(p, par, lk, use, us, ss, ls, fs), Len(ss) = Len(ls),
         EqIn(p, par, f, lk, use, << >>, << >>, fs)
  PROVE  History(p, par, lk, use, us, Append(ss, Len(us)), Append(ls, [asserted |-> n, facts |-> Len(fs)]), fs)
<1>1. /\ TrailOK(p, us) /\ par \in Maps(p) /\ lk = [s \in DOMAIN lk |-> lk[s]] /\ Len(us) \in Nat
      /\ use \in [Ids(p) -> Seq(Apps(p))] /\ fs \in Seq(MergesIn(p))
      /\ ss \in Seq(Nat) /\ ls \in Seq(Limits)
  BY DEF History, HistoryTypes, TrailOK
<1> DEFINE tt == Append(ss, Len(us))
           ms == Append(ls, [asserted |-> n, facts |-> Len(fs)])
<1>2. PICK e : e = [asserted |-> n, facts |-> Len(fs)]
  OBVIOUS
<1>3. e \in Limits /\ e.facts = Len(fs) /\ Len(fs) \in Nat
  BY <1>1, <1>2 DEF Limits
<1>4. /\ tt \in Seq(Nat) /\ Len(tt) = Len(ss) + 1 /\ tt[Len(ss) + 1] = Len(us)
      /\ \A i \in 1..Len(ss) : tt[i] = ss[i]
  BY <1>1
<1>5. /\ ms \in Seq(Limits) /\ Len(ms) = Len(ls) + 1 /\ ms[Len(ls) + 1] = e
      /\ \A i \in 1..Len(ls) : ms[i] = ls[i]
  BY <1>1, <1>2, <1>3
<1> HIDE DEF tt, ms
<1>6. \A k \in 1..(Len(ss) + 1) : k \in 1..Len(ss) \/ k = Len(ss) + 1
  BY <1>1
<1>7. Rising(us, tt, ms)
  <2>0. /\ \A k \in 1..Len(ss) : ss[k] <= Len(us) /\ ss[k] \in Nat
        /\ \A j, k \in 1..Len(ss) : j <= k => ss[j] <= ss[k]
    BY <1>1 DEF History, Rising
  <2>1. ASSUME NEW k \in 1..Len(tt) PROVE tt[k] <= Len(us)
    <3>1. k \in 1..Len(ss) \/ k = Len(ss) + 1
      BY <1>4, <1>6
    <3>2. CASE k \in 1..Len(ss)
      BY <1>4, <2>0, <3>2
    <3>3. CASE k = Len(ss) + 1
      BY <1>1, <1>4, <3>3
    <3> QED BY <3>1, <3>2, <3>3
  <2>2. ASSUME NEW j \in 1..Len(tt), NEW k \in 1..Len(tt), j <= k PROVE tt[j] <= tt[k]
    <3>1. CASE k \in 1..Len(ss)
      <4>1. j \in 1..Len(ss)
        BY <1>1, <1>4, <2>2, <3>1
      <4> QED BY <1>4, <2>0, <2>2, <3>1, <4>1
    <3>2. CASE k = Len(ss) + 1
      BY <1>4, <2>1, <3>2
    <3> QED BY <1>4, <1>6, <3>1, <3>2
  <2>3. ASSUME NEW j \in 1..Len(ms), NEW k \in 1..Len(ms), j <= k PROVE ms[j].facts <= ms[k].facts
    <3>1. \A i \in 1..Len(ls) : ls[i].facts <= Len(fs)
      BY DEF History, ScopesBack
    <3>2. CASE k \in 1..Len(ls)
      <4>1. j \in 1..Len(ls)
        BY <1>1, <1>5, <2>3, <3>2
      <4> QED BY <1>5, <2>3, <3>2, <4>1 DEF History, Rising
    <3>3. CASE k = Len(ls) + 1
      <4>1. ms[k].facts = Len(fs)
        BY <1>3, <1>5, <3>3
      <4>2. CASE j \in 1..Len(ls)
        BY <1>5, <3>1, <4>1, <4>2
      <4>3. CASE j = Len(ls) + 1
        BY <1>3, <1>5, <4>1, <4>3
      <4> QED BY <1>1, <1>5, <4>2, <4>3
    <3> QED BY <1>1, <1>5, <3>2, <3>3
  <2> QED BY <2>1, <2>2, <2>3 DEF Rising
<1>8. ASSUME NEW k \in 1..Len(ms)
      PROVE  ms[k].facts <= Len(fs) /\ Back(p, par, lk, use, us, tt[k], SubSeq(fs, 1, ms[k].facts))
  <2>1. CASE k \in 1..Len(ls)
    <3>1. ms[k] = ls[k] /\ tt[k] = ss[k]
      BY <1>4, <1>5, <2>1
    <3> QED BY <2>1, <3>1 DEF History, ScopesBack
  <2>2. CASE k = Len(ls) + 1
    <3>1. ms[k].facts = Len(fs) /\ tt[k] = Len(us)
      BY <1>3, <1>4, <1>5, <2>2
    <3>2. SubSeq(fs, 1, Len(fs)) = fs
      BY <1>1
    <3>3. ParentAt(par, us, Len(us)) = par /\ SigAt(lk, us, Len(us)) = lk
      BY <1>1, AtNow
    <3>4. Back(p, par, lk, use, us, Len(us), fs)
      BY <3>3 DEF Back
    <3>5. Len(fs) <= Len(fs)
      BY <1>3
    <3>6. Back(p, par, lk, use, us, tt[k], SubSeq(fs, 1, ms[k].facts))
      BY <3>1, <3>2, <3>4
    <3> QED BY <3>1, <3>5, <3>6
  <2> QED BY <1>1, <1>5, <2>1, <2>2
<1>9. History(p, par, lk, use, us, tt, ms, fs)
  BY <1>1, <1>4, <1>5, <1>7, <1>8 DEF History, HistoryTypes, ScopesBack
<1> QED BY <1>2, <1>9 DEF tt, ms

LEMMA HistoryPopped ==
  ASSUME NEW p, NEW par, NEW lk, NEW use, NEW us, NEW ss, NEW ls, NEW fs,
         History(p, par, lk, use, us, ss, ls, fs), Len(ss) = Len(ls), ls # << >>
  PROVE  /\ History(p, par, lk, use, us, ss, Front(ls), SubSeq(fs, 1, Last(ls).facts))
         /\ Back(p, par, lk, use, us, Last(ss), SubSeq(fs, 1, Last(ls).facts))
         /\ Len(ss) = Len(Front(ls)) + 1
<1>1. /\ TrailOK(p, us) /\ par \in Maps(p) /\ lk = [s \in DOMAIN lk |-> lk[s]]
      /\ use \in [Ids(p) -> Seq(Apps(p))] /\ fs \in Seq(MergesIn(p))
      /\ ss \in Seq(Nat) /\ ls \in Seq(Limits)
  BY DEF History, HistoryTypes
<1>2. PICK k : k = Len(ls) /\ k \in 1..Len(ls) /\ k \in 1..Len(ss)
  <2>1. Len(ls) \in Nat /\ Len(ls) # 0
    BY <1>1
  <2> QED BY <2>1
<1>3. PICK m \in Nat : m = ls[k].facts
  BY <1>1, <1>2, LimitFacts
<1>4. Last(ls) = ls[k] /\ Last(ss) = ss[k]
  BY <1>1, <1>2 DEF Last
<1>5. m <= Len(fs) /\ Back(p, par, lk, use, us, ss[k], SubSeq(fs, 1, m))
  BY <1>2, <1>3 DEF History, ScopesBack
<1> DEFINE gs == SubSeq(fs, 1, m)
           ms == Front(ls)
<1>6. gs \in Seq(MergesIn(p)) /\ Len(gs) = m /\ \A i \in 1..m : gs[i] = fs[i]
  BY <1>1, <1>5
<1>7. ms \in Seq(Limits) /\ Len(ms) = Len(ls) - 1 /\ \A i \in 1..Len(ms) : ms[i] = ls[i]
  BY <1>1 DEF Front
<1> HIDE DEF gs, ms
<1>8. Rising(us, ss, ms)
  <2>1. \A i \in 1..Len(ms) : i \in 1..Len(ls) /\ ms[i] = ls[i]
    BY <1>1, <1>7
  <2> QED BY <2>1 DEF History, Rising
<1>9. ASSUME NEW i \in 1..Len(ms)
      PROVE  ms[i].facts <= Len(gs) /\ Back(p, par, lk, use, us, ss[i], SubSeq(gs, 1, ms[i].facts))
  <2>1. i \in 1..Len(ls) /\ ms[i] = ls[i] /\ i <= k
    BY <1>1, <1>2, <1>7
  <2>2. PICK n \in Nat : n = ls[i].facts
    BY <1>1, <2>1, LimitFacts
  <2>3. n <= m /\ Back(p, par, lk, use, us, ss[i], SubSeq(fs, 1, n))
    BY <1>2, <1>3, <2>1, <2>2 DEF History, Rising, ScopesBack
  <2>4. SubSeq(gs, 1, n) = SubSeq(fs, 1, n)
    <3>1. SubSeq(gs, 1, n) = [j \in 1..n |-> gs[j]] /\ SubSeq(fs, 1, n) = [j \in 1..n |-> fs[j]]
      BY <1>1, <1>5, <1>6, <2>3
    <3>2. \A j \in 1..n : gs[j] = fs[j]
      BY <1>6, <2>3
    <3> QED BY <3>1, <3>2
  <2> QED BY <1>6, <2>1, <2>2, <2>3, <2>4
<1>10. History(p, par, lk, use, us, ss, ms, gs)
  <2>1. Len(ms) <= Len(ss)
    BY <1>1, <1>7
  <2> QED BY <1>1, <1>6, <1>7, <1>8, <1>9, <2>1 DEF History, HistoryTypes, ScopesBack
<1>11. Len(ss) = Len(ms) + 1
  BY <1>1, <1>7
<1> QED BY <1>3, <1>4, <1>5, <1>10, <1>11 DEF gs, ms

LEMMA HistoryReturned ==
  ASSUME NEW p, NEW par, NEW lk, NEW use, NEW us, NEW ss, NEW ls, NEW fs,
         History(p, par, lk, use, us, ss, ls, fs), Len(ss) = Len(ls) + 1
  PROVE  History(p, par, lk, use, us, Front(ss), ls, fs) /\ Len(Front(ss)) = Len(ls)
<1>1. ss \in Seq(Nat) /\ ls \in Seq(Limits)
  BY DEF History, HistoryTypes
<1> DEFINE tt == Front(ss)
<1>2. tt \in Seq(Nat) /\ Len(tt) = Len(ls) /\ \A i \in 1..Len(tt) : tt[i] = ss[i]
  BY <1>1 DEF Front
<1> HIDE DEF tt
<1>3. \A i \in 1..Len(tt) : i \in 1..Len(ss) /\ tt[i] = ss[i]
  BY <1>1, <1>2
<1>4. Rising(us, tt, ls)
  BY <1>3 DEF History, Rising
<1>5. ScopesBack(p, par, lk, use, us, tt, ls, fs)
  BY <1>2 DEF History, ScopesBack
<1>6. Len(ls) <= Len(tt)
  BY <1>1, <1>2
<1>7. History(p, par, lk, use, us, tt, ls, fs)
  BY <1>2, <1>4, <1>5, <1>6 DEF History, HistoryTypes
<1> QED BY <1>2, <1>7 DEF tt

-----------------------------------------------------------------------------
(* The equality engine as a whole, inside merge and pop and between calls.  *)

TodoIn(now, ms, lnk) == IF now = "uses" THEN lnk.induced \o Tail(ms) ELSE ms
VisitsIn(now, lnk) == IF now = "uses" THEN lnk.uses ELSE << >>
UsesIn(now, use, lnk) == IF now = "uses" THEN [use EXCEPT ![lnk.parent] = @ \o lnk.all] ELSE use
Current(p, par, lk, use, now, ms, lnk, fs) ==
    \E f : EqIn(p, par, f, lk, UsesIn(now, use, lnk), TodoIn(now, ms, lnk), VisitsIn(now, lnk), fs)
LinkIn(p, lnk) ==
    /\ lnk.parent \in Ids(p) /\ lnk.uses \in Seq(Apps(p)) /\ lnk.all \in Seq(Apps(p))
    /\ lnk.induced \in Seq(MergesIn(p))
ControlOK(p, now, ms, lnk) ==
    /\ now \in {"ready", "merge", "uses", "undo"} /\ ms \in Seq(MergesIn(p))
    /\ now \in {"ready", "undo"} => ms = << >>
    /\ DOMAIN lnk = {"parent", "uses", "all", "induced"}
    /\ now = "uses" => ms # << >> /\ LinkIn(p, lnk)
Equality ==
    /\ problem \in Problems /\ rank \in [Ids(problem) -> Nat]
    /\ ControlOK(problem, euf_pc, merges, link)
    /\ History(problem, parent, sig_lookup, use_list, undo_trail, euf_scopes, lims, facts)
    /\ euf_pc # "undo" =>
         /\ Len(euf_scopes) = Len(lims)
         /\ Current(problem, parent, sig_lookup, use_list, euf_pc, merges, link, facts)
    /\ euf_pc = "undo" =>
         /\ Len(euf_scopes) = Len(lims) + 1
         /\ Back(problem, parent, sig_lookup, use_list, undo_trail, Last(euf_scopes), facts)

LEMMA AppsFacts ==
  ASSUME problem \in Problems
  PROVE  /\ AppsOK(problem) /\ TermIds = Ids(problem) /\ Applications = Apps(problem)
         /\ \A f : \A a \in Apps(problem) :
              (\A t \in TermIds : Find(t) = f[t]) => Sig(a) = SigIn(problem, f, a)
<1>1. TermIds = Ids(problem)
  BY DEF TermIds, Ids, terms
<1>2. Applications = Apps(problem)
  BY <1>1 DEF Applications, Apps, Op, terms
<1>3. \A t \in TermIds : /\ terms[t] \in Term /\ Args(t) \in Seq(Nat)
                         /\ \A i \in 1..Len(Args(t)) : Args(t)[i] \in TermIds
  BY ArenaFacts
<1>4. AppsOK(problem)
  <2>1. \A t \in TermIds : terms[t].name \in STRING
    BY <1>3 DEF Term
  <2> QED BY <1>1, <1>3, <2>1 DEF AppsOK, ArgsIn, Args, terms
<1>5. ASSUME NEW f, NEW a \in Apps(problem), \A t \in TermIds : Find(t) = f[t]
      PROVE  Sig(a) = SigIn(problem, f, a)
  <2>1. \A i \in 1..Len(Args(a)) : Find(Args(a)[i]) = f[Args(a)[i]]
    BY <1>1, <1>3, <1>5 DEF Apps
  <2> QED BY <2>1 DEF Sig, SigIn, ArgsIn, Args, terms
<1> QED BY <1>1, <1>2, <1>4, <1>5

LEMMA SameUses ==
  ASSUME NEW p, NEW use \in [Ids(p) -> Seq(Apps(p))]
  PROVE  MoreUses(p, use, use)
BY DEF MoreUses

LEMMA AskedEquality ==
  ASSUME Equality, euf_pc = "ready", NEW a \in TermIds, NEW b \in TermIds, NEW reason \in ReasonsIn(problem),
         CallMerge(a, b, reason), facts' = facts \o merges', UNCHANGED <<problem, lims, euf_scopes>>
  PROVE  Equality'
<1> DEFINE m == [a |-> a, b |-> b, reason |-> reason]
<1>1. /\ problem \in Problems /\ rank \in [Ids(problem) -> Nat] /\ ControlOK(problem, euf_pc, merges, link)
      /\ History(problem, parent, sig_lookup, use_list, undo_trail, euf_scopes, lims, facts)
      /\ Len(euf_scopes) = Len(lims)
      /\ Current(problem, parent, sig_lookup, use_list, euf_pc, merges, link, facts)
  BY DEF Equality
<1>2. /\ merges' = <<m>> /\ euf_pc' = "merge" /\ link' = link /\ facts' = facts \o <<m>>
      /\ UNCHANGED <<problem, lims, euf_scopes, parent, rank, use_list, sig_lookup, undo_trail>>
  BY DEF CallMerge, eufData
<1>3. AppsOK(problem) /\ TermIds = Ids(problem)
  BY <1>1, AppsFacts
<1>4. m \in MergesIn(problem)
  BY <1>3 DEF MergesIn
<1>5. merges = << >>
  BY <1>1 DEF ControlOK
<1> HIDE DEF m
<1>6. PICK f : EqIn(problem, parent, f, sig_lookup, use_list, << >>, << >>, facts)
  BY <1>1, <1>5 DEF Current, UsesIn, TodoIn, VisitsIn
<1>7. EqIn(problem, parent, f, sig_lookup, use_list, <<m>>, << >>, facts \o <<m>>)
  BY <1>4, <1>6, EqAsked
<1>8. Current(problem, parent, sig_lookup, use_list, "merge", <<m>>, link, facts \o <<m>>)
  BY <1>7 DEF Current, UsesIn, TodoIn, VisitsIn
<1>9. ControlOK(problem, "merge", <<m>>, link)
  <2>1. <<m>> \in Seq(MergesIn(problem))
    BY <1>4
  <2> QED BY <1>1, <2>1 DEF ControlOK
<1>10. History(problem, parent, sig_lookup, use_list, undo_trail, euf_scopes, lims, facts \o <<m>>)
  <2>1. /\ TrailOK(problem, undo_trail) /\ parent \in Maps(problem)
        /\ sig_lookup = [s \in DOMAIN sig_lookup |-> sig_lookup[s]]
        /\ use_list \in [Ids(problem) -> Seq(Apps(problem))] /\ facts \in Seq(MergesIn(problem))
        /\ euf_scopes \in Seq(Nat) /\ lims \in Seq(Limits) /\ Len(lims) <= Len(euf_scopes)
    BY <1>1 DEF History, HistoryTypes
  <2>2. /\ facts \o <<m>> \in Seq(MergesIn(problem)) /\ Len(facts) <= Len(facts \o <<m>>)
        /\ \A i \in 1..Len(facts) : (facts \o <<m>>)[i] = facts[i]
    BY <1>4, <2>1
  <2>3. HistoryTypes(problem, parent, sig_lookup, use_list, undo_trail, euf_scopes, lims, facts \o <<m>>)
    BY <2>1, <2>2 DEF HistoryTypes
  <2>4. \A k \in 1..Len(euf_scopes) : euf_scopes[k] <= Len(undo_trail)
    BY <1>1 DEF History, Rising
  <2>5. \A n : SameThen(parent, sig_lookup, undo_trail, parent, sig_lookup, undo_trail, n)
    BY DEF SameThen
  <2>6. MoreUses(problem, use_list, use_list)
    BY <2>1, SameUses
  <2> QED BY <1>1, <1>3, <2>2, <2>3, <2>4, <2>5, <2>6, HistoryKept
<1> QED BY <1>1, <1>2, <1>8, <1>9, <1>10 DEF Equality

LEMMA SameEquality ==
  ASSUME Equality, MergeSame, UNCHANGED <<problem, lims, facts>>
  PROVE  Equality'
<1>1. /\ problem \in Problems /\ rank \in [Ids(problem) -> Nat] /\ ControlOK(problem, euf_pc, merges, link)
      /\ History(problem, parent, sig_lookup, use_list, undo_trail, euf_scopes, lims, facts)
      /\ Len(euf_scopes) = Len(lims) /\ euf_pc = "merge" /\ merges # << >>
      /\ Current(problem, parent, sig_lookup, use_list, euf_pc, merges, link, facts)
  BY DEF Equality, MergeSame
<1>2. /\ merges' = Tail(merges) /\ euf_pc' = "merge" /\ SameClass(Head(merges).a, Head(merges).b)
      /\ UNCHANGED <<problem, lims, facts, euf_scopes, parent, rank, use_list, sig_lookup, undo_trail, link>>
  BY <1>1 DEF MergeSame, eufData
<1>3. PICK f : EqIn(problem, parent, f, sig_lookup, use_list, merges, << >>, facts)
  BY <1>1 DEF Current, UsesIn, TodoIn, VisitsIn
<1>4. f[Head(merges).a] = f[Head(merges).b]
  <2>1. merges \in Seq(MergesIn(problem))
    BY <1>1 DEF ControlOK
  <2>2. Head(merges) \in MergesIn(problem)
    BY <1>1, <2>1
  <2>3. Head(merges).a \in TermIds /\ Head(merges).b \in TermIds
    BY <1>1, <2>2, AppsFacts DEF MergesIn
  <2>4. RootsOf(problem, parent, f)
    BY <1>3 DEF EqIn
  <2> QED BY <1>2, <2>3, <2>4, FindIs DEF SameClass
<1>5. EqIn(problem, parent, f, sig_lookup, use_list, Tail(merges), << >>, facts)
  BY <1>1, <1>3, <1>4, EqDropped
<1>6. Current(problem, parent, sig_lookup, use_list, "merge", Tail(merges), link, facts)
  BY <1>5 DEF Current, UsesIn, TodoIn, VisitsIn
<1>7. ControlOK(problem, "merge", Tail(merges), link)
  <2>1. merges \in Seq(MergesIn(problem))
    BY <1>1 DEF ControlOK
  <2>2. Tail(merges) \in Seq(MergesIn(problem))
    BY <1>1, <2>1
  <2> QED BY <1>1, <2>2 DEF ControlOK
<1> QED BY <1>1, <1>2, <1>6, <1>7 DEF Equality

LEMMA LinkEquality ==
  ASSUME Equality, MergeLink, UNCHANGED <<problem, lims, facts>>
  PROVE  Equality'
<1>1. /\ problem \in Problems /\ rank \in [Ids(problem) -> Nat] /\ ControlOK(problem, euf_pc, merges, link)
      /\ History(problem, parent, sig_lookup, use_list, undo_trail, euf_scopes, lims, facts)
      /\ Len(euf_scopes) = Len(lims) /\ euf_pc = "merge" /\ merges # << >>
      /\ Current(problem, parent, sig_lookup, use_list, euf_pc, merges, link, facts)
  BY DEF Equality, MergeLink
<1>2. PICK f : EqIn(problem, parent, f, sig_lookup, use_list, merges, << >>, facts)
  BY <1>1 DEF Current, UsesIn, TodoIn, VisitsIn
<1>3. AppsOK(problem) /\ TermIds = Ids(problem)
  BY <1>1, AppsFacts
<1>4. merges \in Seq(MergesIn(problem))
  BY <1>1 DEF ControlOK
<1>5. PICK m \in MergesIn(problem) : m = Head(merges)
  BY <1>1, <1>4
<1>6. m.a \in TermIds /\ m.b \in TermIds
  BY <1>3 DEF MergesIn
<1>7. Find(m.a) = f[m.a] /\ Find(m.b) = f[m.b]
  <2>1. RootsOf(problem, parent, f)
    BY <1>2 DEF EqIn
  <2> QED BY <1>6, <2>1, FindIs
<1>8. PICK top, child, n :
        /\ f[m.a] # f[m.b]
        /\ \/ child = f[m.a] /\ top = f[m.b]
           \/ child = f[m.b] /\ top = f[m.a]
        /\ parent' = [parent EXCEPT ![child] = top]
        /\ rank' = rank \/ rank' = [rank EXCEPT ![top] = @ + 1]
        /\ n = rank[top]
        /\ undo_trail' = undo_trail \o <<ProofEdge(m.a, m.b), Linking(child, parent[child], n)>>
        /\ link' = [parent |-> top, uses |-> use_list[child], all |-> use_list[child], induced |-> << >>]
  <2> DEFINE ra == Find(m.a)
             rb == Find(m.b)
             top == IF rank[ra] >= rank[rb] THEN ra ELSE rb
             child == IF top = ra THEN rb ELSE ra
  <2>1. /\ ra # rb
        /\ parent' = [parent EXCEPT ![child] = top]
        /\ rank' = IF rank[ra] = rank[rb] THEN [rank EXCEPT ![top] = @ + 1] ELSE rank
        /\ undo_trail' = undo_trail \o <<ProofEdge(m.a, m.b), Linking(child, parent[child], rank[top])>>
        /\ link' = [parent |-> top, uses |-> use_list[child], all |-> use_list[child], induced |-> << >>]
    BY <1>5 DEF MergeLink
  <2>2. \/ child = ra /\ top = rb
        \/ child = rb /\ top = ra
    OBVIOUS
  <2>3. rank' = rank \/ rank' = [rank EXCEPT ![top] = @ + 1]
    BY <2>1
  <2> HIDE DEF top, child
  <2> QED BY <1>7, <2>1, <2>2, <2>3
<1>9. /\ euf_pc' = "uses"
      /\ UNCHANGED <<problem, lims, facts, euf_scopes, use_list, sig_lookup, merges>>
  BY DEF MergeLink
<1>10. child # top
  BY <1>8
<1>11. /\ EqIn(problem, Attached(parent, child, top), LinkedTo(problem, f, child, top), sig_lookup,
               Gathered(use_list, child, top), Tail(merges), use_list[child], facts)
       /\ child \in Ids(problem) /\ top \in Ids(problem) /\ parent[child] = child
  <2>1. \/ child = f[Head(merges).a] /\ top = f[Head(merges).b]
        \/ child = f[Head(merges).b] /\ top = f[Head(merges).a]
    BY <1>5, <1>8
  <2>2. merges # << >> /\ AppsOK(problem)
    BY <1>1, <1>3
  <2> QED BY <1>2, <1>10, <2>1, <2>2, EqLinked
<1>12. n \in Nat /\ rank' \in [Ids(problem) -> Nat]
  BY <1>1, <1>8, <1>11
<1>13. PICK lnk : lnk = [parent |-> top, uses |-> use_list[child], all |-> use_list[child], induced |-> << >>]
  OBVIOUS
<1>14. Tail(merges) \in Seq(MergesIn(problem)) /\ << >> \o Tail(merges) = Tail(merges)
  BY <1>1, <1>4
<1>15. Current(problem, Attached(parent, child, top), sig_lookup, use_list, "uses", merges, lnk, facts)
  <2>1. UsesIn("uses", use_list, lnk) = Gathered(use_list, child, top)
    BY <1>13 DEF UsesIn, Gathered
  <2>2. TodoIn("uses", merges, lnk) = Tail(merges) /\ VisitsIn("uses", lnk) = use_list[child]
    BY <1>13, <1>14 DEF TodoIn, VisitsIn
  <2> QED BY <1>11, <2>1, <2>2 DEF Current
<1>16. /\ TrailOK(problem, undo_trail) /\ parent \in Maps(problem)
       /\ sig_lookup = [s \in DOMAIN sig_lookup |-> sig_lookup[s]]
       /\ use_list \in [Ids(problem) -> Seq(Apps(problem))] /\ facts \in Seq(MergesIn(problem))
       /\ euf_scopes \in Seq(Nat) /\ lims \in Seq(Limits) /\ Len(lims) <= Len(euf_scopes)
  BY <1>1 DEF History, HistoryTypes
<1>17. ControlOK(problem, "uses", merges, lnk)
  <2>1. use_list[child] \in Seq(Apps(problem)) /\ << >> \in Seq(MergesIn(problem))
    BY <1>11, <1>16
  <2>2. LinkIn(problem, lnk) /\ DOMAIN lnk = {"parent", "uses", "all", "induced"}
    BY <1>11, <1>13, <2>1 DEF LinkIn
  <2> QED BY <1>1, <1>4, <2>2 DEF ControlOK
<1>18. PICK x : x = ProofEdge(m.a, m.b)
  OBVIOUS
<1>19. PICK y : y = Linking(child, parent[child], n)
  OBVIOUS
<1>20. /\ x \in UndoIn(problem) /\ x.kind = "RemoveProofEdge"
       /\ y \in UndoIn(problem) /\ y.kind = "Link" /\ y.child = child /\ y.old_parent = child
  <2>1. x \in UndoIn(problem) /\ x.kind = "RemoveProofEdge"
    BY <1>3, <1>6, <1>18 DEF UndoIn, ProofEdge
  <2>2. y = [kind |-> "Link", child |-> child, old_parent |-> child, old_rank |-> n]
    BY <1>11, <1>19 DEF Linking
  <2>3. y \in UndoIn(problem)
    BY <1>11, <1>12, <2>2 DEF UndoIn
  <2> QED BY <2>1, <2>2, <2>3
<1>21. PICK us : us = Append(undo_trail, x)
  OBVIOUS
<1>22. PICK ws : ws = undo_trail \o <<x, y>>
  OBVIOUS
<1>23. /\ undo_trail \in Seq(UndoIn(problem)) /\ Len(undo_trail) \in Nat
       /\ us \in Seq(UndoIn(problem)) /\ Len(us) = Len(undo_trail) + 1
       /\ \A i \in 1..Len(undo_trail) : us[i] = undo_trail[i]
       /\ us[Len(undo_trail) + 1] = x
  BY <1>16, <1>20, <1>21 DEF TrailOK
<1>24. /\ ws \in Seq(UndoIn(problem)) /\ Len(ws) = Len(us) + 1 /\ \A i \in 1..Len(us) : ws[i] = us[i]
       /\ ws[Len(us) + 1] = y
  BY <1>20, <1>21, <1>22, <1>23
<1>25. TrailOK(problem, ws)
  <2>1. ASSUME NEW i \in 1..Len(ws), ws[i].kind = "Link" PROVE ws[i].old_parent = ws[i].child
    <3>1. CASE i \in 1..Len(undo_trail)
      <4>1. ws[i] = undo_trail[i]
        BY <1>23, <1>24, <3>1
      <4> QED BY <1>16, <2>1, <3>1, <4>1 DEF TrailOK
    <3>2. CASE i = Len(undo_trail) + 1
      <4>1. ws[i] = x
        BY <1>23, <1>24, <3>2
      <4> QED BY <1>20, <2>1, <4>1
    <3>3. CASE i = Len(us) + 1
      BY <1>20, <1>24, <3>3
    <3> QED BY <1>23, <1>24, <3>1, <3>2, <3>3
  <2> QED BY <1>24, <2>1 DEF TrailOK
<1>26. ASSUME NEW n0 \in Nat, n0 <= Len(undo_trail)
       PROVE  SameThen(parent, sig_lookup, undo_trail, Attached(parent, child, top), sig_lookup, ws, n0)
  <2>1. SameThen(parent, sig_lookup, undo_trail, parent, sig_lookup, us, n0)
    BY <1>20, <1>23, <1>26, ThenKept
  <2>2. SameThen(parent, sig_lookup, us, Attached(parent, child, top), sig_lookup, ws, n0)
    <3>1. n0 <= Len(us) /\ Len(us) \in Nat
      BY <1>23, <1>26
    <3>2. Extends(us, ws, y)
      BY <1>24, <3>1 DEF Extends
    <3>3. Links(parent, y, child)
      BY <1>11, <1>20 DEF Links
    <3>4. parent \in Maps(problem) /\ child \in Ids(problem)
      BY <1>11, <1>16
    <3> QED BY <1>26, <3>1, <3>2, <3>3, <3>4, ThenLinked
  <2> QED BY <2>1, <2>2 DEF SameThen
<1>27. Attached(parent, child, top) \in Maps(problem)
  BY <1>11, <1>16 DEF Maps, Attached
<1>28. History(problem, Attached(parent, child, top), sig_lookup, use_list, ws, euf_scopes, lims, facts)
  <2>1. HistoryTypes(problem, Attached(parent, child, top), sig_lookup, use_list, ws, euf_scopes, lims, facts)
    BY <1>16, <1>25, <1>27 DEF HistoryTypes
  <2>2. ASSUME NEW k \in 1..Len(euf_scopes)
        PROVE  /\ euf_scopes[k] <= Len(ws)
               /\ SameThen(parent, sig_lookup, undo_trail, Attached(parent, child, top), sig_lookup, ws, euf_scopes[k])
    <3>1. euf_scopes[k] \in Nat /\ euf_scopes[k] <= Len(undo_trail)
      BY <1>1, <1>16 DEF History, Rising
    <3>2. euf_scopes[k] <= Len(ws)
      BY <1>23, <1>24, <3>1
    <3> QED BY <1>26, <3>1, <3>2
  <2>3. MoreUses(problem, use_list, use_list)
    BY <1>16, SameUses
  <2>4. Len(facts) <= Len(facts)
    BY <1>16
  <2> QED BY <1>1, <1>3, <2>1, <2>2, <2>3, <2>4, HistoryKept
<1>29. /\ parent' = Attached(parent, child, top) /\ link' = lnk /\ undo_trail' = ws
  BY <1>8, <1>13, <1>18, <1>19, <1>22 DEF Attached
<1> QED BY <1>1, <1>9, <1>12, <1>15, <1>17, <1>28, <1>29 DEF Equality

LEMMA EquatesConcat ==
  ASSUME NEW S, NEW s \in Seq(S), NEW t \in Seq(S), NEW r
  PROVE  Equates(r, s \o t) <=> Equates(r, s) /\ Equates(r, t)
<1>0. PICK q : q = s \o t
  OBVIOUS
<1>1. /\ Len(s) \in Nat /\ Len(t) \in Nat /\ Len(q) = Len(s) + Len(t)
      /\ \A i \in 1..Len(s) : q[i] = s[i]
      /\ \A i \in 1..Len(t) : q[Len(s) + i] = t[i]
  BY <1>0
<1>2. ASSUME NEW i \in 1..Len(q)
      PROVE  i \in 1..Len(s) \/ (i - Len(s) \in 1..Len(t) /\ Len(s) + (i - Len(s)) = i)
  BY <1>1
<1>3. \A i \in 1..Len(s) : i \in 1..Len(q)
  BY <1>1
<1>4. \A i \in 1..Len(t) : Len(s) + i \in 1..Len(q)
  BY <1>1
<1>5. ASSUME Equates(r, q) PROVE Equates(r, s) /\ Equates(r, t)
  BY <1>1, <1>3, <1>4, <1>5 DEF Equates
<1>6. ASSUME Equates(r, s), Equates(r, t) PROVE Equates(r, q)
  <2>1. ASSUME NEW i \in 1..Len(q) PROVE r[q[i].a] = r[q[i].b]
    <3>1. CASE i \in 1..Len(s)
      BY <1>1, <1>6, <3>1 DEF Equates
    <3>2. CASE i - Len(s) \in 1..Len(t) /\ Len(s) + (i - Len(s)) = i
      <4>1. q[i] = t[i - Len(s)]
        BY <1>1, <3>2
      <4> QED BY <1>6, <3>2, <4>1 DEF Equates
    <3> QED BY <1>2, <3>1, <3>2
  <2> QED BY <2>1 DEF Equates
<1> QED BY <1>0, <1>5, <1>6

\* What Equality says inside merge.
LEMMA MergingFacts ==
  ASSUME Equality, euf_pc \in {"merge", "uses"}
  PROVE  /\ problem \in Problems /\ rank \in [Ids(problem) -> Nat] /\ ControlOK(problem, euf_pc, merges, link)
         /\ HistoryTypes(problem, parent, sig_lookup, use_list, undo_trail, euf_scopes, lims, facts)
         /\ Rising(undo_trail, euf_scopes, lims)
         /\ Len(euf_scopes) = Len(lims)
         /\ Current(problem, parent, sig_lookup, use_list, euf_pc, merges, link, facts)
         /\ AppsOK(problem) /\ TermIds = Ids(problem)
  BY AppsFacts DEF Equality, History

LEMMA VisitEquality ==
  ASSUME Equality, VisitUse, UNCHANGED <<problem, lims, facts>>
  PROVE  Equality'
<1> DEFINE p == problem
<1>0. euf_pc = "uses" /\ link.uses # << >>
  BY DEF VisitUse
<1>1. /\ p \in Problems /\ rank \in [Ids(p) -> Nat] /\ ControlOK(p, euf_pc, merges, link)
      /\ Len(euf_scopes) = Len(lims)
      /\ Current(p, parent, sig_lookup, use_list, euf_pc, merges, link, facts)
      /\ AppsOK(p) /\ TermIds = Ids(p)
  BY <1>0, MergingFacts
<1>2. /\ TrailOK(p, undo_trail) /\ parent \in Maps(p)
      /\ sig_lookup = [s \in DOMAIN sig_lookup |-> sig_lookup[s]]
      /\ use_list \in [Ids(p) -> Seq(Apps(p))] /\ facts \in Seq(MergesIn(p))
      /\ euf_scopes \in Seq(Nat) /\ lims \in Seq(Limits) /\ Len(lims) <= Len(euf_scopes)
      /\ \A k \in 1..Len(euf_scopes) : euf_scopes[k] <= Len(undo_trail)
  BY <1>0, MergingFacts DEF HistoryTypes, Rising
<1>3. PICK use : use = UsesIn("uses", use_list, link)
  OBVIOUS
<1>4. PICK todo : todo = link.induced \o Tail(merges)
  OBVIOUS
<1>5. PICK f : EqIn(p, parent, f, sig_lookup, use, todo, link.uses, facts)
  BY <1>0, <1>1, <1>3, <1>4 DEF Current, TodoIn, VisitsIn
<1>6. /\ link.uses \in Seq(Apps(p)) /\ link.induced \in Seq(MergesIn(p)) /\ Tail(merges) \in Seq(MergesIn(p))
      /\ link.parent \in Ids(p) /\ link.all \in Seq(Apps(p)) /\ merges \in Seq(MergesIn(p)) /\ merges # << >>
      /\ DOMAIN link = {"parent", "uses", "all", "induced"}
  BY <1>0, <1>1 DEF ControlOK, LinkIn
<1>7. PICK app \in Apps(p) : app = Head(link.uses)
  BY <1>0, <1>6
<1>8. PICK sig : sig = Sig(app)
  OBVIOUS
<1>9. RootsOf(p, parent, f) /\ \A t \in TermIds : Find(t) = f[t]
  <2>1. RootsOf(p, parent, f)
    BY <1>5 DEF EqIn
  <2> QED BY <2>1, FindIs
<1>10. sig = SigIn(p, f, app)
  BY <1>1, <1>8, <1>9, AppsFacts
<1>11. /\ UNCHANGED <<problem, lims, facts, parent, rank, use_list, euf_scopes, euf_pc, merges>>
       /\ \/ /\ sig \in DOMAIN sig_lookup
             /\ \E new : /\ new = (IF SameClass(sig_lookup[sig], app) THEN << >>
                                  ELSE <<[a |-> sig_lookup[sig], b |-> app, reason |-> NoReason]>>)
                         /\ link' = [link EXCEPT !.uses = Tail(@), !.induced = @ \o new]
             /\ UNCHANGED <<sig_lookup, undo_trail>>
          \/ /\ sig \notin DOMAIN sig_lookup
             /\ sig_lookup' = Put(sig_lookup, sig, app)
             /\ undo_trail' = Append(undo_trail, Lookup(sig))
             /\ link' = [link EXCEPT !.uses = Tail(@)]
  BY <1>7, <1>8 DEF VisitUse
<1>12. CASE sig \in DOMAIN sig_lookup
  <2>1. PICK new : /\ new = (IF SameClass(sig_lookup[sig], app) THEN << >>
                             ELSE <<[a |-> sig_lookup[sig], b |-> app, reason |-> NoReason]>>)
                   /\ link' = [link EXCEPT !.uses = Tail(@), !.induced = @ \o new]
    BY <1>11, <1>12
  <2>2. PICK other : other = sig_lookup[sig]
    OBVIOUS
  <2>3. other \in Apps(p) /\ other \in Ids(p) /\ app \in Ids(p)
    <3>1. sig_lookup \in [DOMAIN sig_lookup -> Apps(p)]
      BY <1>5 DEF EqIn, EqTypes
    <3> QED BY <1>12, <2>2, <3>1 DEF Apps
  <2>4. /\ new \in Seq(MergesIn(p))
        /\ \/ f[other] = f[app] /\ \A r : Equates(r, new)
           \/ \A r : Equates(r, new) <=> r[other] = r[app]
    <3>1. CASE SameClass(other, app)
      <4>1. new = << >> /\ new \in Seq(MergesIn(p)) /\ Len(new) = 0
        BY <2>1, <2>2, <3>1
      <4>2. f[other] = f[app]
        BY <1>1, <1>9, <2>3, <3>1 DEF SameClass
      <4>3. \A r : Equates(r, new)
        BY <4>1 DEF Equates
      <4> QED BY <4>1, <4>2, <4>3
    <3>2. CASE ~SameClass(other, app)
      <4>1. PICK m : m = [a |-> other, b |-> app, reason |-> NoReason]
        OBVIOUS
      <4>2. m \in MergesIn(p) /\ m.a = other /\ m.b = app
        BY <2>3, <4>1 DEF MergesIn, ReasonsIn, NoReason
      <4>3. new = <<m>>
        BY <2>1, <2>2, <3>2, <4>1
      <4>4. new \in Seq(MergesIn(p)) /\ Len(new) = 1 /\ new[1] = m
        BY <4>2, <4>3
      <4>5. \A r : Equates(r, new) <=> r[other] = r[app]
        BY <4>2, <4>4 DEF Equates
      <4> QED BY <4>4, <4>5
    <3> QED BY <3>1, <3>2
  <2>5. PICK lnk : lnk = [link EXCEPT !.uses = Tail(@), !.induced = @ \o new]
    OBVIOUS
  <2>6. /\ lnk.parent = link.parent /\ lnk.all = link.all /\ lnk.uses = Tail(link.uses)
        /\ lnk.induced = link.induced \o new /\ DOMAIN lnk = {"parent", "uses", "all", "induced"}
    BY <1>6, <2>5
  <2>7. PICK now : now = (link.induced \o new) \o Tail(merges)
    OBVIOUS
  <2>8. now \in Seq(MergesIn(p)) /\ lnk.induced \in Seq(MergesIn(p))
    BY <1>6, <2>4, <2>6, <2>7
  <2>9. ASSUME NEW r PROVE Equates(r, now) <=> Equates(r, todo) /\ Equates(r, new)
    <3>1. Equates(r, now) <=> Equates(r, link.induced \o new) /\ Equates(r, Tail(merges))
      <4>1. PICK ind : ind = link.induced \o new /\ ind \in Seq(MergesIn(p))
        BY <2>6, <2>8
      <4>2. Equates(r, ind \o Tail(merges)) <=> Equates(r, ind) /\ Equates(r, Tail(merges))
        BY <1>6, <4>1, EquatesConcat
      <4> QED BY <2>7, <4>1, <4>2
    <3>2. Equates(r, link.induced \o new) <=> Equates(r, link.induced) /\ Equates(r, new)
      BY <1>6, <2>4, EquatesConcat
    <3>3. Equates(r, todo) <=> Equates(r, link.induced) /\ Equates(r, Tail(merges))
      BY <1>4, <1>6, EquatesConcat
    <3> QED BY <3>1, <3>2, <3>3
  <2>10. EqIn(p, parent, f, sig_lookup, use, now, Tail(link.uses), facts)
    <3>1. \/ f[other] = f[app] /\ \A r : Equates(r, now) <=> Equates(r, todo)
          \/ \A r : Equates(r, now) <=> Equates(r, todo) /\ r[other] = r[app]
      BY <2>4, <2>9
    <3>2. link.uses # << >> /\ sig = SigIn(p, f, Head(link.uses))
      BY <1>0, <1>7, <1>10
    <3>3. \/ f[other] = f[Head(link.uses)] /\ \A r : Equates(r, now) <=> Equates(r, todo)
          \/ \A r : Equates(r, now) <=> Equates(r, todo) /\ r[other] = r[Head(link.uses)]
      BY <1>7, <3>1
    <3> QED BY <1>1, <1>5, <1>12, <2>2, <2>8, <3>2, <3>3, EqVisited
  <2>11. Current(p, parent, sig_lookup, use_list, "uses", merges, lnk, facts)
    <3>1. UsesIn("uses", use_list, lnk) = use
      BY <1>3, <2>6 DEF UsesIn
    <3>2. TodoIn("uses", merges, lnk) = now /\ VisitsIn("uses", lnk) = Tail(link.uses)
      BY <2>6, <2>7 DEF TodoIn, VisitsIn
    <3> QED BY <2>10, <3>1, <3>2 DEF Current
  <2>12. ControlOK(p, "uses", merges, lnk)
    <3>1. Tail(link.uses) \in Seq(Apps(p))
      BY <1>0, <1>6
    <3>2. LinkIn(p, lnk)
      BY <1>6, <2>6, <2>8, <3>1 DEF LinkIn
    <3> QED BY <1>6, <2>6, <3>2 DEF ControlOK
  <2>13. /\ UNCHANGED <<problem, lims, facts, parent, rank, use_list, euf_scopes, merges, sig_lookup, undo_trail>>
         /\ euf_pc' = "uses" /\ link' = lnk
    BY <1>0, <1>11, <1>12, <2>1, <2>5
  <2>14. History(p, parent, sig_lookup, use_list, undo_trail, euf_scopes, lims, facts)
    BY DEF Equality
  <2> QED BY <1>1, <2>11, <2>12, <2>13, <2>14 DEF Equality
<1>13. CASE sig \notin DOMAIN sig_lookup
  <2>1. PICK lk : lk = Put(sig_lookup, sig, app)
    OBVIOUS
  <2>2. EqIn(p, parent, f, lk, use, todo, Tail(link.uses), facts) /\ sig \in Signatures(p)
    <3>1. link.uses # << >> /\ sig = SigIn(p, f, Head(link.uses)) /\ lk = Put(sig_lookup, sig, Head(link.uses))
      BY <1>0, <1>7, <1>10, <2>1
    <3> QED BY <1>1, <1>5, <1>13, <3>1, EqNoted
  <2>3. PICK lnk : lnk = [link EXCEPT !.uses = Tail(@)]
    OBVIOUS
  <2>4. /\ lnk.parent = link.parent /\ lnk.all = link.all /\ lnk.uses = Tail(link.uses)
        /\ lnk.induced = link.induced /\ DOMAIN lnk = {"parent", "uses", "all", "induced"}
    BY <1>6, <2>3
  <2>5. Current(p, parent, lk, use_list, "uses", merges, lnk, facts)
    <3>1. UsesIn("uses", use_list, lnk) = use
      BY <1>3, <2>4 DEF UsesIn
    <3>2. TodoIn("uses", merges, lnk) = todo /\ VisitsIn("uses", lnk) = Tail(link.uses)
      BY <1>4, <2>4 DEF TodoIn, VisitsIn
    <3> QED BY <2>2, <3>1, <3>2 DEF Current
  <2>6. ControlOK(p, "uses", merges, lnk)
    <3>1. Tail(link.uses) \in Seq(Apps(p))
      BY <1>0, <1>6
    <3>2. LinkIn(p, lnk)
      BY <1>6, <2>4, <3>1 DEF LinkIn
    <3> QED BY <1>6, <2>4, <3>2 DEF ControlOK
  <2>7. PICK e : e = Lookup(sig)
    OBVIOUS
  <2>8. e \in UndoIn(p) /\ e.kind = "AddLookup" /\ e.sig = sig
    BY <2>2, <2>7 DEF Lookup, UndoIn
  <2>9. PICK us : us = Append(undo_trail, e)
    OBVIOUS
  <2>10. /\ undo_trail \in Seq(UndoIn(p)) /\ Len(undo_trail) \in Nat
         /\ us \in Seq(UndoIn(p)) /\ Len(us) = Len(undo_trail) + 1
         /\ \A i \in 1..Len(undo_trail) : us[i] = undo_trail[i]
         /\ us[Len(undo_trail) + 1] = e
    BY <1>2, <2>8, <2>9 DEF TrailOK
  <2>11. TrailOK(p, us)
    <3>1. ASSUME NEW i \in 1..Len(us), us[i].kind = "Link" PROVE us[i].old_parent = us[i].child
      <4>1. i \in 1..Len(undo_trail) \/ us[i] = e
        BY <2>10
      <4> QED BY <1>2, <2>8, <2>10, <3>1, <4>1 DEF TrailOK
    <3> QED BY <2>10, <3>1 DEF TrailOK
  <2>12. ASSUME NEW n \in Nat, n <= Len(undo_trail)
         PROVE  SameThen(parent, sig_lookup, undo_trail, parent, lk, us, n)
    BY <1>13, <2>1, <2>8, <2>10, <2>12, ThenNoted
  <2>13. History(p, parent, lk, use_list, us, euf_scopes, lims, facts)
    <3>1. lk = [s \in DOMAIN lk |-> lk[s]]
      BY <2>1 DEF Put
    <3>2. HistoryTypes(p, parent, lk, use_list, us, euf_scopes, lims, facts)
      BY <1>2, <2>11, <3>1 DEF HistoryTypes
    <3>3. ASSUME NEW k \in 1..Len(euf_scopes)
          PROVE  /\ euf_scopes[k] <= Len(us)
                 /\ SameThen(parent, sig_lookup, undo_trail, parent, lk, us, euf_scopes[k])
      <4>1. euf_scopes[k] \in Nat /\ euf_scopes[k] <= Len(undo_trail)
        BY <1>2
      <4>2. euf_scopes[k] <= Len(us)
        BY <2>10, <4>1
      <4> QED BY <2>12, <4>1, <4>2
    <3>4. MoreUses(p, use_list, use_list) /\ Len(facts) <= Len(facts)
      BY <1>2, SameUses
    <3>5. History(p, parent, sig_lookup, use_list, undo_trail, euf_scopes, lims, facts)
      BY DEF Equality
    <3> QED BY <1>1, <3>2, <3>3, <3>4, <3>5, HistoryKept
  <2>14. /\ UNCHANGED <<problem, lims, facts, parent, rank, use_list, euf_scopes, merges>>
         /\ euf_pc' = "uses" /\ link' = lnk /\ sig_lookup' = lk /\ undo_trail' = us
    BY <1>0, <1>11, <1>13, <2>1, <2>3, <2>7, <2>9
  <2> QED BY <1>1, <2>5, <2>6, <2>13, <2>14 DEF Equality
<1> QED BY <1>12, <1>13

LEMMA VisitedEquality ==
  ASSUME Equality, UsesVisited, UNCHANGED <<problem, lims, facts>>
  PROVE  Equality'
<1> DEFINE p == problem
<1>0. euf_pc = "uses" /\ link.uses = << >>
  BY DEF UsesVisited
<1>1. /\ p \in Problems /\ rank \in [Ids(p) -> Nat] /\ ControlOK(p, euf_pc, merges, link)
      /\ Len(euf_scopes) = Len(lims)
      /\ Current(p, parent, sig_lookup, use_list, euf_pc, merges, link, facts)
      /\ AppsOK(p)
      /\ HistoryTypes(p, parent, sig_lookup, use_list, undo_trail, euf_scopes, lims, facts)
      /\ Rising(undo_trail, euf_scopes, lims)
  BY <1>0, MergingFacts
<1>2. PICK use : use = [use_list EXCEPT ![link.parent] = @ \o link.all]
  OBVIOUS
<1>3. PICK todo : todo = link.induced \o Tail(merges)
  OBVIOUS
<1>4. PICK f : EqIn(p, parent, f, sig_lookup, use, todo, << >>, facts)
  <2>1. UsesIn("uses", use_list, link) = use
    BY <1>2 DEF UsesIn
  <2>2. TodoIn("uses", merges, link) = todo /\ VisitsIn("uses", link) = << >>
    BY <1>0, <1>3 DEF TodoIn, VisitsIn
  <2> QED BY <1>0, <1>1, <2>1, <2>2 DEF Current
<1>5. LinkIn(p, link) /\ merges # << >> /\ merges \in Seq(MergesIn(p)) /\ DOMAIN link = {"parent", "uses", "all", "induced"}
  BY <1>0, <1>1 DEF ControlOK
<1>6. /\ link.parent \in Ids(p) /\ link.all \in Seq(Apps(p)) /\ link.induced \in Seq(MergesIn(p))
      /\ use_list \in [Ids(p) -> Seq(Apps(p))]
  BY <1>1, <1>5 DEF LinkIn, HistoryTypes
<1>7. MoreUses(p, use_list, use)
  <2>1. \A x : x \in ToSet(use_list[link.parent] \o link.all)
                 <=> x \in ToSet(use_list[link.parent]) \/ x \in ToSet(link.all)
    <3>1. use_list[link.parent] \in Seq(Apps(p))
      BY <1>6
    <3> QED BY <1>6, <3>1, InConcat
  <2>2. use \in [Ids(p) -> Seq(Apps(p))]
    BY <1>4 DEF EqIn, EqTypes
  <2>3. \A u \in Ids(p) : use[u] = IF u = link.parent THEN use_list[link.parent] \o link.all ELSE use_list[u]
    BY <1>2, <1>6
  <2> QED BY <2>1, <2>2, <2>3 DEF MoreUses
<1>8. Current(p, parent, sig_lookup, use, "merge", todo, link, facts)
  BY <1>4 DEF Current, UsesIn, TodoIn, VisitsIn
<1>9. ControlOK(p, "merge", todo, link)
  <2>1. Tail(merges) \in Seq(MergesIn(p))
    BY <1>5
  <2>2. todo \in Seq(MergesIn(p))
    BY <1>3, <1>6, <2>1
  <2> QED BY <1>5, <2>2 DEF ControlOK
<1>10. History(p, parent, sig_lookup, use, undo_trail, euf_scopes, lims, facts)
  <2>1. HistoryTypes(p, parent, sig_lookup, use, undo_trail, euf_scopes, lims, facts)
    BY <1>1, <1>7 DEF HistoryTypes, MoreUses
  <2>2. \A k \in 1..Len(euf_scopes) : euf_scopes[k] <= Len(undo_trail)
    BY <1>1 DEF Rising
  <2>3. \A n : SameThen(parent, sig_lookup, undo_trail, parent, sig_lookup, undo_trail, n)
    BY DEF SameThen
  <2>4. Len(facts) <= Len(facts)
    BY <1>1 DEF HistoryTypes
  <2>5. History(p, parent, sig_lookup, use_list, undo_trail, euf_scopes, lims, facts)
    BY DEF Equality
  <2> QED BY <1>1, <1>7, <2>1, <2>2, <2>3, <2>4, <2>5, HistoryKept
<1>11. /\ UNCHANGED <<problem, lims, facts, parent, rank, euf_scopes, sig_lookup, undo_trail, link>>
       /\ use_list' = use /\ merges' = todo /\ euf_pc' = "merge"
  BY <1>2, <1>3 DEF UsesVisited
<1> QED BY <1>1, <1>8, <1>9, <1>10, <1>11 DEF Equality

LEMMA ReturnEquality ==
  ASSUME Equality, MergeReturn, UNCHANGED <<problem, lims, facts>>
  PROVE  Equality'
<1>1. /\ problem \in Problems /\ rank \in [Ids(problem) -> Nat] /\ ControlOK(problem, euf_pc, merges, link)
      /\ Len(euf_scopes) = Len(lims)
      /\ Current(problem, parent, sig_lookup, use_list, euf_pc, merges, link, facts)
      /\ History(problem, parent, sig_lookup, use_list, undo_trail, euf_scopes, lims, facts)
  BY DEF Equality, MergeReturn
<1>2. /\ UNCHANGED <<problem, lims, facts, parent, rank, use_list, euf_scopes, merges, sig_lookup, undo_trail, link>>
      /\ euf_pc = "merge" /\ euf_pc' = "ready" /\ merges = << >>
  BY DEF MergeReturn, eufData
<1>3. Current(problem, parent, sig_lookup, use_list, "ready", merges, link, facts)
  BY <1>1, <1>2 DEF Current, UsesIn, TodoIn, VisitsIn
<1>4. ControlOK(problem, "ready", merges, link)
  BY <1>1, <1>2 DEF ControlOK
<1> QED BY <1>1, <1>2, <1>3, <1>4 DEF Equality

\* Undoing the last entry.
LEMMA UndoneEquality ==
  ASSUME Equality, euf_pc = "undo", Len(undo_trail) > Last(euf_scopes), NEW us, us = Front(undo_trail),
         NEW par \in Maps(problem), NEW lk, lk = [s \in DOMAIN lk |-> lk[s]],
         \A n \in Nat : n <= Len(us) => SameThen(parent, sig_lookup, undo_trail, par, lk, us, n),
         parent' = par, sig_lookup' = lk, undo_trail' = us, rank' \in [Ids(problem) -> Nat],
         UNCHANGED <<problem, lims, facts, use_list, euf_scopes, euf_pc, merges, link>>
  PROVE  Equality'
<1> DEFINE p == problem
<1>1. /\ p \in Problems /\ ControlOK(p, euf_pc, merges, link) /\ Len(euf_scopes) = Len(lims) + 1
      /\ History(p, parent, sig_lookup, use_list, undo_trail, euf_scopes, lims, facts)
      /\ Back(p, parent, sig_lookup, use_list, undo_trail, Last(euf_scopes), facts)
      /\ AppsOK(p)
  BY AppsFacts DEF Equality
<1>2. /\ TrailOK(p, undo_trail) /\ use_list \in [Ids(p) -> Seq(Apps(p))] /\ facts \in Seq(MergesIn(p))
      /\ euf_scopes \in Seq(Nat) /\ lims \in Seq(Limits)
      /\ \A j, k \in 1..Len(euf_scopes) : j <= k => euf_scopes[j] <= euf_scopes[k]
  BY <1>1 DEF History, HistoryTypes, Rising
<1>3. PICK m : m = Len(euf_scopes) /\ m \in 1..Len(euf_scopes)
  BY <1>1, <1>2
<1>4. PICK n \in Nat : n = Last(euf_scopes) /\ n = euf_scopes[m]
  BY <1>2, <1>3 DEF Last
<1>5. undo_trail \in Seq(UndoIn(p)) /\ Len(undo_trail) \in Nat /\ undo_trail # << >>
  BY <1>2, <1>4 DEF TrailOK
<1>6. /\ us \in Seq(UndoIn(p)) /\ Len(us) = Len(undo_trail) - 1
      /\ \A i \in 1..Len(us) : us[i] = undo_trail[i]
  <2>1. PICK k \in Nat : Len(undo_trail) = k + 1
    <3>1. Len(undo_trail) # 0 /\ Len(undo_trail) - 1 \in Nat /\ Len(undo_trail) = (Len(undo_trail) - 1) + 1
      BY <1>5
    <3> QED BY <3>1
  <2>2. Len(us) = k /\ us = [i \in 1..k |-> undo_trail[i]]
    BY <1>5, <2>1 DEF Front
  <2>3. \A i \in 1..k : undo_trail[i] \in UndoIn(p)
    BY <1>5, <2>1
  <2>4. us \in Seq(UndoIn(p))
    <3>1. k <= Len(undo_trail) /\ us = [i \in 1..k |-> undo_trail[i]]
      BY <2>1, <2>2
    <3> QED BY <1>5, <3>1, FirstPart
  <2>5. \A i \in 1..Len(us) : us[i] = undo_trail[i]
    BY <2>2
  <2>6. Len(us) = Len(undo_trail) - 1
    BY <2>1, <2>2
  <2> QED BY <2>4, <2>5, <2>6
<1>7. TrailOK(p, us)
  <2>1. \A i \in 1..Len(us) : i \in 1..Len(undo_trail) /\ us[i] = undo_trail[i]
    BY <1>5, <1>6
  <2> QED BY <1>2, <1>6, <2>1 DEF TrailOK
<1>8. ASSUME NEW k \in 1..Len(euf_scopes)
      PROVE  /\ euf_scopes[k] <= Len(us)
             /\ SameThen(parent, sig_lookup, undo_trail, par, lk, us, euf_scopes[k])
  <2>1. euf_scopes[k] \in Nat /\ euf_scopes[k] <= n
    BY <1>2, <1>3, <1>4
  <2>2. euf_scopes[k] <= Len(us)
    BY <1>4, <1>5, <1>6, <2>1
  <2> QED BY <2>1, <2>2
<1>9. MoreUses(p, use_list, use_list) /\ Len(facts) <= Len(facts)
  BY <1>2, SameUses
<1>10. HistoryTypes(p, par, lk, use_list, us, euf_scopes, lims, facts)
  BY <1>1, <1>7 DEF History, HistoryTypes
<1>11. History(p, par, lk, use_list, us, euf_scopes, lims, facts)
  BY <1>1, <1>8, <1>9, <1>10, HistoryKept
<1>12. Back(p, par, lk, use_list, us, Last(euf_scopes), facts)
  <2>1. SameThen(parent, sig_lookup, undo_trail, par, lk, us, n)
    BY <1>3, <1>4, <1>8
  <2> QED BY <1>1, <1>4, <1>9, <2>1, BackKept
<1> QED BY <1>1, <1>11, <1>12 DEF Equality

\* The last entry.
LEMMA LastEntry ==
  ASSUME Equality, euf_pc = "undo", Len(undo_trail) > Last(euf_scopes)
  PROVE  /\ Len(Front(undo_trail)) \in Nat /\ Len(undo_trail) = Len(Front(undo_trail)) + 1
         /\ \A i \in 1..Len(Front(undo_trail)) : undo_trail[i] = Front(undo_trail)[i]
         /\ undo_trail[Len(Front(undo_trail)) + 1] = Last(undo_trail)
         /\ Last(undo_trail) \in UndoIn(problem)
         /\ Last(undo_trail).kind = "Link" => Last(undo_trail).old_parent = Last(undo_trail).child
         /\ parent \in Maps(problem) /\ sig_lookup = [s \in DOMAIN sig_lookup |-> sig_lookup[s]]
         /\ rank \in [Ids(problem) -> Nat]
<1>1. /\ History(problem, parent, sig_lookup, use_list, undo_trail, euf_scopes, lims, facts)
      /\ rank \in [Ids(problem) -> Nat] /\ Len(euf_scopes) = Len(lims) + 1
  BY DEF Equality
<1>2. /\ TrailOK(problem, undo_trail) /\ parent \in Maps(problem)
      /\ sig_lookup = [s \in DOMAIN sig_lookup |-> sig_lookup[s]]
      /\ euf_scopes \in Seq(Nat) /\ lims \in Seq(Limits)
  BY <1>1 DEF History, HistoryTypes
<1>3. Last(euf_scopes) \in Nat
  BY <1>1, <1>2 DEF Last
<1>4. undo_trail \in Seq(UndoIn(problem)) /\ Len(undo_trail) \in Nat /\ undo_trail # << >>
  BY <1>2, <1>3 DEF TrailOK
<1>5. PICK n \in Nat : Len(undo_trail) = n + 1
  <2>1. Len(undo_trail) # 0 /\ Len(undo_trail) - 1 \in Nat /\ Len(undo_trail) = (Len(undo_trail) - 1) + 1
    BY <1>4
  <2> QED BY <2>1
<1>6. n + 1 \in 1..Len(undo_trail) /\ Last(undo_trail) = undo_trail[n + 1]
  BY <1>5 DEF Last
<1>7. /\ Last(undo_trail) \in UndoIn(problem)
      /\ Last(undo_trail).kind = "Link" => Last(undo_trail).old_parent = Last(undo_trail).child
  BY <1>2, <1>4, <1>6 DEF TrailOK
<1>8. Len(Front(undo_trail)) = n /\ \A i \in 1..n : Front(undo_trail)[i] = undo_trail[i]
  BY <1>4, <1>5 DEF Front
<1> QED BY <1>1, <1>2, <1>5, <1>6, <1>7, <1>8

LEMMA UnlinkEquality ==
  ASSUME Equality, UndoLink, UNCHANGED <<problem, lims, facts>>
  PROVE  Equality'
<1>1. /\ euf_pc = "undo" /\ Len(undo_trail) > Last(euf_scopes) /\ Last(undo_trail).kind = "Link"
      /\ undo_trail' = Front(undo_trail)
      /\ UNCHANGED <<use_list, euf_scopes, euf_pc, merges, link, sig_lookup>>
  BY DEF UndoLink, Undoing, eufControl
<1>2. PICK us : us = Front(undo_trail)
  OBVIOUS
<1>3. PICK e : e = Last(undo_trail)
  OBVIOUS
<1>4. /\ Len(us) \in Nat /\ Len(undo_trail) = Len(us) + 1 /\ \A i \in 1..Len(us) : undo_trail[i] = us[i]
      /\ undo_trail[Len(us) + 1] = e /\ e \in UndoIn(problem) /\ e.kind = "Link" /\ e.old_parent = e.child
      /\ parent \in Maps(problem) /\ sig_lookup = [s \in DOMAIN sig_lookup |-> sig_lookup[s]]
      /\ rank \in [Ids(problem) -> Nat]
  BY <1>1, <1>2, <1>3, LastEntry
<1>5. e.child \in Ids(problem) /\ e.old_rank \in Nat
  BY <1>4 DEF UndoIn
<1>6. PICK par : par = [parent EXCEPT ![e.child] = e.child]
  OBVIOUS
<1>7. par \in Maps(problem) /\ parent' = par
  <2>1. par \in Maps(problem)
    BY <1>4, <1>5, <1>6 DEF Maps
  <2>2. parent' = [parent EXCEPT ![e.child] = e.old_parent]
    BY <1>3 DEF UndoLink
  <2> QED BY <1>4, <1>6, <2>1, <2>2
<1>8. rank' \in [Ids(problem) -> Nat]
  <2>1. rank' = [rank EXCEPT ![e.old_parent] = e.old_rank]
    BY <1>3 DEF UndoLink
  <2> QED BY <1>4, <1>5, <2>1
<1>9. ASSUME NEW n \in Nat, n <= Len(us)
      PROVE  SameThen(parent, sig_lookup, undo_trail, par, sig_lookup, us, n)
  BY <1>4, <1>5, <1>6, <1>9, ThenUnlinked
<1> QED BY <1>1, <1>2, <1>4, <1>7, <1>8, <1>9, UndoneEquality

LEMMA ForgetEquality ==
  ASSUME Equality, UndoLookup, UNCHANGED <<problem, lims, facts>>
  PROVE  Equality'
<1>1. /\ euf_pc = "undo" /\ Len(undo_trail) > Last(euf_scopes) /\ Last(undo_trail).kind = "AddLookup"
      /\ undo_trail' = Front(undo_trail)
      /\ UNCHANGED <<use_list, euf_scopes, euf_pc, merges, link, parent, rank>>
  BY DEF UndoLookup, Undoing, eufControl
<1>2. PICK us : us = Front(undo_trail)
  OBVIOUS
<1>3. PICK e : e = Last(undo_trail)
  OBVIOUS
<1>4. /\ Len(us) \in Nat /\ Len(undo_trail) = Len(us) + 1 /\ \A i \in 1..Len(us) : undo_trail[i] = us[i]
      /\ undo_trail[Len(us) + 1] = e /\ e.kind = "AddLookup"
      /\ parent \in Maps(problem) /\ rank \in [Ids(problem) -> Nat]
  BY <1>1, <1>2, <1>3, LastEntry
<1>5. PICK lk : lk = Forget(sig_lookup, e.sig)
  OBVIOUS
<1>6. sig_lookup' = lk /\ lk = [s \in DOMAIN lk |-> lk[s]]
  BY <1>3, <1>5 DEF UndoLookup, Forget
<1>7. ASSUME NEW n \in Nat, n <= Len(us)
      PROVE  SameThen(parent, sig_lookup, undo_trail, parent, lk, us, n)
  BY <1>4, <1>5, <1>7, ThenForgotten
<1> QED BY <1>1, <1>2, <1>4, <1>6, <1>7, UndoneEquality

LEMMA UndoOtherEquality ==
  ASSUME Equality, UndoProofEdge \/ UndoDisequality, UNCHANGED <<problem, lims, facts>>
  PROVE  Equality'
<1>1. /\ euf_pc = "undo" /\ Len(undo_trail) > Last(euf_scopes)
      /\ Last(undo_trail).kind \in {"RemoveProofEdge", "AddDisequality"}
      /\ undo_trail' = Front(undo_trail)
      /\ UNCHANGED <<use_list, euf_scopes, euf_pc, merges, link, parent, rank, sig_lookup>>
  BY DEF UndoProofEdge, UndoDisequality, Undoing, eufControl
<1>2. PICK us : us = Front(undo_trail)
  OBVIOUS
<1>3. PICK e : e = Last(undo_trail)
  OBVIOUS
<1>4. /\ Len(us) \in Nat /\ Len(undo_trail) = Len(us) + 1 /\ \A i \in 1..Len(us) : undo_trail[i] = us[i]
      /\ undo_trail[Len(us) + 1] = e /\ e.kind \in {"RemoveProofEdge", "AddDisequality"}
      /\ parent \in Maps(problem) /\ sig_lookup = [s \in DOMAIN sig_lookup |-> sig_lookup[s]]
      /\ rank \in [Ids(problem) -> Nat]
  BY <1>1, <1>2, <1>3, LastEntry
<1>5. ASSUME NEW n \in Nat, n <= Len(us)
      PROVE  SameThen(parent, sig_lookup, undo_trail, parent, sig_lookup, us, n)
  BY <1>4, <1>5, ThenKept
<1> QED BY <1>1, <1>2, <1>4, <1>5, UndoneEquality

LEMMA PopReturnEquality ==
  ASSUME Equality, PopReturn, UNCHANGED <<problem, lims, facts>>
  PROVE  Equality'
<1> DEFINE p == problem
<1>1. /\ p \in Problems /\ rank \in [Ids(p) -> Nat] /\ ControlOK(p, euf_pc, merges, link)
      /\ Len(euf_scopes) = Len(lims) + 1
      /\ History(p, parent, sig_lookup, use_list, undo_trail, euf_scopes, lims, facts)
      /\ Back(p, parent, sig_lookup, use_list, undo_trail, Last(euf_scopes), facts)
  BY DEF Equality, PopReturn
<1>2. /\ UNCHANGED <<problem, lims, facts, parent, rank, use_list, merges, sig_lookup, undo_trail, link>>
      /\ euf_pc = "undo" /\ euf_pc' = "ready" /\ Len(undo_trail) <= Last(euf_scopes)
      /\ euf_scopes' = Front(euf_scopes)
  BY DEF PopReturn, eufData
<1>3. PICK ss : ss = Front(euf_scopes)
  OBVIOUS
<1>4. History(p, parent, sig_lookup, use_list, undo_trail, ss, lims, facts) /\ Len(ss) = Len(lims)
  BY <1>1, <1>3, HistoryReturned
<1>5. Last(euf_scopes) = Len(undo_trail)
  <2>1. /\ euf_scopes \in Seq(Nat) /\ lims \in Seq(Limits) /\ TrailOK(p, undo_trail)
        /\ \A k \in 1..Len(euf_scopes) : euf_scopes[k] <= Len(undo_trail)
    BY <1>1 DEF History, HistoryTypes, Rising
  <2>2. Len(euf_scopes) \in 1..Len(euf_scopes) /\ Last(euf_scopes) = euf_scopes[Len(euf_scopes)]
    BY <1>1, <2>1 DEF Last
  <2>3. Len(undo_trail) \in Nat /\ Last(euf_scopes) \in Nat
    BY <2>1, <2>2 DEF TrailOK
  <2> QED BY <1>2, <2>1, <2>2, <2>3
<1>6. ParentAt(parent, undo_trail, Len(undo_trail)) = parent /\ SigAt(sig_lookup, undo_trail, Len(undo_trail)) = sig_lookup
  BY <1>1, AtNow DEF History, HistoryTypes
<1>7. PICK f : EqIn(p, parent, f, sig_lookup, use_list, << >>, << >>, facts)
  BY <1>1, <1>5, <1>6 DEF Back
<1>8. merges = << >>
  BY <1>1, <1>2 DEF ControlOK
<1>9. Current(p, parent, sig_lookup, use_list, "ready", merges, link, facts)
  BY <1>7, <1>8 DEF Current, UsesIn, TodoIn, VisitsIn
<1>10. ControlOK(p, "ready", merges, link)
  BY <1>1, <1>2 DEF ControlOK
<1> QED BY <1>1, <1>2, <1>3, <1>4, <1>9, <1>10 DEF Equality

-----------------------------------------------------------------------------
(* What the coordinator does to the equality engine.                        *)

EqualityVars == <<problem, lims, facts, parent, rank, use_list, sig_lookup, undo_trail, euf_scopes, eufControl>>
LEMMA KeptEquality ==
  ASSUME Equality, UNCHANGED EqualityVars
  PROVE  Equality'
BY DEF Equality, EqualityVars, eufControl

\* Between calls nothing is left to merge.
LEMMA ReadyFacts ==
  ASSUME Equality, euf_pc = "ready"
  PROVE  /\ problem \in Problems /\ rank \in [Ids(problem) -> Nat] /\ ControlOK(problem, euf_pc, merges, link)
         /\ History(problem, parent, sig_lookup, use_list, undo_trail, euf_scopes, lims, facts)
         /\ HistoryTypes(problem, parent, sig_lookup, use_list, undo_trail, euf_scopes, lims, facts)
         /\ merges = << >> /\ Len(euf_scopes) = Len(lims)
         /\ \E f : EqIn(problem, parent, f, sig_lookup, use_list, << >>, << >>, facts)
<1>1. /\ problem \in Problems /\ rank \in [Ids(problem) -> Nat] /\ ControlOK(problem, euf_pc, merges, link)
      /\ History(problem, parent, sig_lookup, use_list, undo_trail, euf_scopes, lims, facts)
      /\ Len(euf_scopes) = Len(lims)
      /\ Current(problem, parent, sig_lookup, use_list, euf_pc, merges, link, facts)
  BY DEF Equality
<1>2. merges = << >>
  BY <1>1 DEF ControlOK
<1>3. \E f : EqIn(problem, parent, f, sig_lookup, use_list, << >>, << >>, facts)
  BY <1>1, <1>2 DEF Current, UsesIn, TodoIn, VisitsIn
<1> QED BY <1>1, <1>2, <1>3 DEF History

\* Without merges, the merges asked for stay as they are.
LEMMA FactsKept ==
  ASSUME Equality, merges' = << >>, facts' = facts \o merges'
  PROVE  facts' = facts
<1>1. facts \in Seq(MergesIn(problem))
  BY DEF Equality, History, HistoryTypes
<1> QED BY <1>1

LEMMA ConcatFacts ==
  ASSUME NEW S, NEW s \in Seq(S), NEW t \in Seq(S)
  PROVE  /\ s \o t \in Seq(S) /\ Len(s \o t) = Len(s) + Len(t)
         /\ \A i \in 1..Len(s) : (s \o t)[i] = s[i]
         /\ \A i \in 1..Len(t) : (s \o t)[Len(s) + i] = t[i]
OBVIOUS

LEMMA DifferEquality ==
  ASSUME Equality, euf_pc = "ready", NEW t \in TermIds, NEW l, Differ(Disequalities(t, l)),
         facts' = facts \o merges', UNCHANGED <<problem, lims, euf_scopes>>
  PROVE  Equality'
<1> DEFINE p == problem
<1>1. /\ p \in Problems /\ ControlOK(p, euf_pc, merges, link) /\ AppsOK(p)
      /\ rank \in [Ids(p) -> Nat] /\ merges = << >> /\ Len(euf_scopes) = Len(lims)
      /\ History(p, parent, sig_lookup, use_list, undo_trail, euf_scopes, lims, facts)
      /\ HistoryTypes(p, parent, sig_lookup, use_list, undo_trail, euf_scopes, lims, facts)
  BY ReadyFacts, AppsFacts
<1>2. PICK new : new = [i \in 1..Len(Disequalities(t, l)) |-> Disequality]
  OBVIOUS
<1>3. /\ UNCHANGED <<problem, lims, euf_scopes, parent, rank, use_list, sig_lookup, euf_pc, merges, link>>
      /\ undo_trail' = undo_trail \o new
  BY <1>2 DEF Differ, eufControl
<1>4. facts' = facts
  BY <1>1, <1>3, FactsKept
<1>5. PICK n \in Nat : new = [i \in 1..n |-> Disequality]
  <2>1. Args(t) \in Seq(Nat)
    BY <1>1, ArenaFacts
  <2>2. Len(ArgPairSeq(t)) \in Nat
    BY <2>1, PairsFacts DEF ArgPairSeq
  <2>3. Len(Disequalities(t, l)) = Len(ArgPairSeq(t))
    BY <2>2 DEF Disequalities
  <2> QED BY <1>2, <2>2, <2>3
<1>6. /\ new \in Seq(UndoIn(p)) /\ Len(new) = n
      /\ \A i \in 1..n : new[i].kind \in {"RemoveProofEdge", "AddDisequality"}
  <2> DEFINE S == UndoIn(p)
  <2>1. Disequality \in S /\ Disequality.kind = "AddDisequality"
    BY DEF UndoIn, Disequality
  <2> HIDE DEF S
  <2>2. new \in Seq(S)
    BY <1>5, <2>1
  <2>3. Len(new) = n /\ \A i \in 1..n : new[i].kind = "AddDisequality"
    BY <1>5, <2>1
  <2> QED BY <2>2, <2>3 DEF S
<1>7. PICK us : us = undo_trail /\ us \in Seq(UndoIn(p)) /\ Len(us) \in Nat
  BY <1>1 DEF HistoryTypes, TrailOK
<1>8. PICK ws : ws = us \o new
  OBVIOUS
<1>9. /\ ws \in Seq(UndoIn(p)) /\ Len(ws) = Len(us) + n
      /\ \A i \in 1..Len(us) : ws[i] = us[i]
      /\ \A i \in 1..n : ws[Len(us) + i] = new[i]
  <2> DEFINE S == UndoIn(p)
  <2> HIDE DEF S
  <2>1. us \in Seq(S) /\ new \in Seq(S)
    BY <1>6, <1>7 DEF S
  <2>2. /\ us \o new \in Seq(S) /\ Len(us \o new) = Len(us) + Len(new)
        /\ \A i \in 1..Len(us) : (us \o new)[i] = us[i]
        /\ \A i \in 1..Len(new) : (us \o new)[Len(us) + i] = new[i]
    BY <2>1, ConcatFacts
  <2>3. Len(new) = n
    BY <1>6
  <2> QED BY <1>8, <2>2, <2>3 DEF S
<1>10. TrailOK(p, ws)
  <2>1. ASSUME NEW i \in 1..Len(ws), ws[i].kind = "Link" PROVE ws[i].old_parent = ws[i].child
    <3>1. CASE i <= Len(us)
      <4>1. i \in 1..Len(us) /\ ws[i] = us[i]
        BY <1>7, <1>9, <3>1
      <4> QED BY <1>1, <1>7, <2>1, <4>1 DEF HistoryTypes, TrailOK
    <3>2. CASE i > Len(us)
      <4>1. PICK j \in 1..n : i = Len(us) + j
        <5>1. i - Len(us) \in 1..n /\ i = Len(us) + (i - Len(us))
          BY <1>7, <1>9, <3>2
        <5> QED BY <5>1
      <4>2. ws[i].kind \in {"RemoveProofEdge", "AddDisequality"}
        BY <1>6, <1>9, <4>1
      <4> QED BY <2>1, <4>2
    <3> QED BY <1>7, <1>9, <3>1, <3>2
  <2> QED BY <1>9, <2>1 DEF TrailOK
<1>11. HistoryTypes(p, parent, sig_lookup, use_list, ws, euf_scopes, lims, facts)
  BY <1>1, <1>10 DEF HistoryTypes
<1>12. ASSUME NEW k \in 1..Len(euf_scopes)
       PROVE  /\ euf_scopes[k] <= Len(ws)
              /\ SameThen(parent, sig_lookup, undo_trail, parent, sig_lookup, ws, euf_scopes[k])
  <2>1. euf_scopes[k] \in Nat /\ euf_scopes[k] <= Len(us)
    <3>1. euf_scopes \in Seq(Nat) /\ \A j \in 1..Len(euf_scopes) : euf_scopes[j] <= Len(undo_trail)
      BY <1>1 DEF History, Rising, HistoryTypes
    <3> QED BY <1>7, <3>1
  <2>2. SameThen(parent, sig_lookup, us, parent, sig_lookup, us \o new, euf_scopes[k])
    BY <1>6, <1>7, <2>1, ThenOther
  <2>3. euf_scopes[k] <= Len(ws)
    BY <1>7, <1>9, <2>1
  <2> QED BY <1>7, <1>8, <2>2, <2>3
<1>13. MoreUses(p, use_list, use_list) /\ Len(facts) <= Len(facts)
  BY <1>1, SameUses DEF HistoryTypes
<1>14. History(p, parent, sig_lookup, use_list, ws, euf_scopes, lims, facts)
  BY <1>1, <1>11, <1>12, <1>13, HistoryKept
<1>15. Current(p, parent, sig_lookup, use_list, euf_pc, merges, link, facts)
  BY DEF Equality
<1> QED BY <1>1, <1>3, <1>4, <1>7, <1>8, <1>14, <1>15 DEF Equality

LEMMA AssertedEquality ==
  ASSUME Equality, NEW l \in AtomLits, EufAssert(l), facts' = facts \o merges', UNCHANGED <<problem, lims>>
  PROVE  Equality'
<1>1. /\ problem \in Problems /\ AtomOf(l) \in TermIds /\ l \in ReasonsIn(problem) /\ TermIds = Ids(problem)
  <2>1. problem \in Problems
    BY DEF Equality
  <2>2. TermIds = Ids(problem)
    BY <2>1, AppsFacts
  <2>3. AtomOf(l) \in Atoms /\ l \in Int
    <3>1. \A t \in Atoms : t \in Int /\ t > 0
      BY DEF Atoms, TermIds
    <3>2. CASE l \in Atoms
      BY <3>1, <3>2 DEF AtomOf
    <3>3. CASE l \in {-t : t \in Atoms}
      <4>1. PICK t \in Atoms : l = -t
        BY <3>3
      <4>2. l \in Int /\ AtomOf(l) = t
        BY <3>1, <4>1 DEF AtomOf
      <4> QED BY <4>2
    <3> QED BY <3>2, <3>3 DEF AtomLits
  <2> QED BY <2>1, <2>2, <2>3 DEF Atoms, ReasonsIn, Op, terms
<1>2. PICK t \in TermIds : t = AtomOf(l)
  BY <1>1
<1>3. euf_pc = "ready" /\ UNCHANGED euf_scopes
  BY DEF EufAssert
<1>4. CASE IsEq(t) /\ CallMerge(Args(t)[1], Args(t)[2], l)
  <2>1. Len(Args(t)) = 2
    BY <1>4 DEF IsEq
  <2>2. 1 \in 1..Len(Args(t)) /\ 2 \in 1..Len(Args(t))
    BY <2>1
  <2>3. Args(t)[1] \in TermIds /\ Args(t)[2] \in TermIds
    BY <1>1, <2>2, ArenaFacts
  <2> QED BY <1>1, <1>3, <1>4, <2>3, AskedEquality
<1>5. CASE Differ(Disequalities(t, l))
  BY <1>3, <1>5, DifferEquality
<1>6. CASE UNCHANGED <<eufData, undo_trail, eufControl>>
  <2>1. merges' = << >>
    BY <1>3, <1>6, ReadyFacts DEF eufControl
  <2>2. facts' = facts
    BY <2>1, FactsKept
  <2> QED BY <1>3, <1>6, <2>2, KeptEquality DEF EqualityVars, eufData
<1> QED BY <1>2, <1>4, <1>5, <1>6 DEF EufAssert

LEMMA PushedEquality ==
  ASSUME Equality, Push, Len(asserted) \in Nat
  PROVE  Equality'
<1>1. /\ euf_pc = "ready" /\ euf_scopes' = Append(euf_scopes, Len(undo_trail))
      /\ lims' = Append(lims, [asserted |-> Len(asserted), facts |-> Len(facts)])
      /\ UNCHANGED <<problem, facts, parent, rank, use_list, sig_lookup, undo_trail, euf_pc, merges, link>>
  BY DEF Push, EufPush, eufData, eufControl
<1>2. /\ problem \in Problems /\ rank \in [Ids(problem) -> Nat] /\ ControlOK(problem, euf_pc, merges, link)
      /\ History(problem, parent, sig_lookup, use_list, undo_trail, euf_scopes, lims, facts)
      /\ HistoryTypes(problem, parent, sig_lookup, use_list, undo_trail, euf_scopes, lims, facts)
      /\ Len(euf_scopes) = Len(lims)
      /\ Current(problem, parent, sig_lookup, use_list, euf_pc, merges, link, facts)
  BY <1>1, ReadyFacts DEF Equality
<1>3. PICK f : EqIn(problem, parent, f, sig_lookup, use_list, << >>, << >>, facts)
  BY <1>1, ReadyFacts
<1>4. PICK ss : ss = Append(euf_scopes, Len(undo_trail))
  OBVIOUS
<1>5. PICK ls : ls = Append(lims, [asserted |-> Len(asserted), facts |-> Len(facts)])
  OBVIOUS
<1>6. History(problem, parent, sig_lookup, use_list, undo_trail, ss, ls, facts)
  BY <1>2, <1>3, <1>4, <1>5, HistoryPushed
<1>7. Len(ss) = Len(ls)
  <2>1. euf_scopes \in Seq(Nat) /\ lims \in Seq(Limits)
    BY <1>2 DEF HistoryTypes
  <2>2. Len(ss) = Len(euf_scopes) + 1 /\ Len(ls) = Len(lims) + 1
    BY <1>4, <1>5, <2>1
  <2> QED BY <1>2, <2>2
<1> QED BY <1>1, <1>2, <1>4, <1>5, <1>6, <1>7 DEF Equality

LEMMA PoppedEquality ==
  ASSUME Equality, Pop
  PROVE  Equality'
<1>1. /\ euf_pc = "ready" /\ lims # << >> /\ euf_pc' = IF euf_scopes = << >> THEN "ready" ELSE "undo"
      /\ lims' = Front(lims) /\ facts' = SubSeq(facts, 1, Last(lims).facts)
      /\ UNCHANGED <<problem, parent, rank, use_list, sig_lookup, undo_trail, euf_scopes, merges, link>>
  BY DEF Pop, Idle, Quiet, EufPop, eufData
<1>2. /\ problem \in Problems /\ rank \in [Ids(problem) -> Nat] /\ ControlOK(problem, euf_pc, merges, link)
      /\ History(problem, parent, sig_lookup, use_list, undo_trail, euf_scopes, lims, facts)
      /\ HistoryTypes(problem, parent, sig_lookup, use_list, undo_trail, euf_scopes, lims, facts)
      /\ Len(euf_scopes) = Len(lims) /\ merges = << >>
  BY <1>1, ReadyFacts
<1>3. euf_pc' = "undo"
  <2>1. euf_scopes # << >>
    BY <1>1, <1>2 DEF HistoryTypes
  <2> QED BY <1>1, <2>1
<1>4. PICK ls : ls = Front(lims)
  OBVIOUS
<1>5. PICK gs : gs = SubSeq(facts, 1, Last(lims).facts)
  OBVIOUS
<1>6. /\ History(problem, parent, sig_lookup, use_list, undo_trail, euf_scopes, ls, gs)
      /\ Back(problem, parent, sig_lookup, use_list, undo_trail, Last(euf_scopes), gs)
      /\ Len(euf_scopes) = Len(ls) + 1
  BY <1>1, <1>2, <1>4, <1>5, HistoryPopped
<1>7. ControlOK(problem, "undo", merges, link)
  BY <1>1, <1>2 DEF ControlOK
<1> QED BY <1>1, <1>2, <1>3, <1>4, <1>5, <1>6, <1>7 DEF Equality

LEMMA EqualityStep ==
  ASSUME Equality, Len(asserted) \in Nat, [Next]_vars
  PROVE  Equality'
<1>1. ASSUME NEW l \in AtomLits, AssertLit(l) PROVE Equality'
  BY <1>1, AssertedEquality DEF AssertLit
<1>2. CASE Push
  BY <1>2, PushedEquality
<1>3. CASE Pop
  BY <1>3, PoppedEquality
<1>4. CASE Check \/ SimplexReturned \/ Recheck
  <2>1. UNCHANGED EqualityVars
    BY <1>4 DEF Check, SimplexReturned, Recheck, KeepCalls, EqualityVars, eufVars, eufData
  <2> QED BY <2>1, KeptEquality
<1>5. ASSUME NEW i \in 1..Len(SharedPairs), SharedVars(i) \/ Resolve(i) \/ MergeShared(i)
      PROVE  Equality'
  <2>1. CASE SharedVars(i) \/ Resolve(i)
    <3>1. UNCHANGED EqualityVars
      BY <2>1 DEF SharedVars, Resolve, Sharing, KeepCalls, EqualityVars, eufVars, eufData
    <3> QED BY <3>1, KeptEquality
  <2>2. CASE MergeShared(i)
    <3>1. problem \in Problems /\ euf_pc = "ready"
      BY <2>2 DEF Equality, MergeShared, Sharing, Quiet
    <3>2. SharedPairs[i][1] \in TermIds /\ SharedPairs[i][2] \in TermIds
      BY <3>1, SharedFacts
    <3>3. NoReason \in ReasonsIn(problem)
      BY DEF NoReason, ReasonsIn
    <3>4. /\ CallMerge(SharedPairs[i][1], SharedPairs[i][2], NoReason) /\ facts' = facts \o merges'
          /\ UNCHANGED <<problem, lims, euf_scopes>>
      BY <2>2 DEF MergeShared, Sharing, KeepCalls
    <3> QED BY <3>1, <3>2, <3>3, <3>4, AskedEquality
  <2> QED BY <1>5, <2>1, <2>2
<1>6. CASE EufStep /\ UNCHANGED <<problem, simplexVars, coordinatorVars>>
  <2>1. UNCHANGED <<problem, lims, facts>>
    BY <1>6 DEF coordinatorVars
  <2> QED BY <1>6, <2>1, SameEquality, LinkEquality, VisitEquality, VisitedEquality, ReturnEquality,
             UnlinkEquality, ForgetEquality, UndoOtherEquality, PopReturnEquality DEF EufStep
<1>7. CASE SimplexStep /\ UNCHANGED <<problem, eufVars, coordinatorVars>>
  <2>1. UNCHANGED EqualityVars
    BY <1>7 DEF coordinatorVars, EqualityVars, eufVars, eufData
  <2> QED BY <2>1, KeptEquality
<1>8. CASE UNCHANGED vars
  <2>1. UNCHANGED EqualityVars
    BY <1>8 DEF vars, coordinatorVars, EqualityVars, eufVars, eufData
  <2> QED BY <2>1, KeptEquality
<1> QED BY <1>1, <1>2, <1>3, <1>4, <1>5, <1>6, <1>7, <1>8 DEF Next

-----------------------------------------------------------------------------
(* Before the first call.                                                   *)

\* Terms that are in no class but their own.
Alone(p) == [u \in Ids(p) |-> u]
LEMMA AloneRoots ==
  ASSUME NEW p
  PROVE  Alone(p) \in Maps(p) /\ RootsOf(p, Alone(p), Alone(p))
<1>1. Alone(p) \in Maps(p) /\ \A u \in Ids(p) : Alone(p)[u] = u
  BY DEF Alone, Maps
<1>2. Descends(p, Alone(p), [u \in Ids(p) |-> 0])
  BY <1>1 DEF Descends
<1> QED BY <1>1, <1>2 DEF RootsOf

\* No two applications have the same name and the same arguments.
LEMMA Interned ==
  ASSUME problem \in Problems, NEW s \in Apps(problem), NEW t \in Apps(problem),
         SigIn(problem, Alone(problem), s) = SigIn(problem, Alone(problem), t)
  PROVE  s = t
<1> DEFINE p == problem
<1>1. AppsOK(p)
  BY AppsFacts
<1>2. s \in Ids(p) /\ t \in Ids(p) /\ p.terms[s].op = "Apply" /\ p.terms[t].op = "Apply"
  BY DEF Apps
<1>3. p.terms[s].name = p.terms[t].name
  BY DEF SigIn
<1>4. ASSUME NEW a \in Apps(p)
      PROVE  ArgsIn(p, a) = [i \in 1..Len(ArgsIn(p, a)) |-> Alone(p)[ArgsIn(p, a)[i]]]
  <2>1. /\ ArgsIn(p, a) \in Seq(Nat)
        /\ \A i \in 1..Len(ArgsIn(p, a)) : ArgsIn(p, a)[i] \in Ids(p)
    BY <1>1, <1>4 DEF AppsOK, Apps
  <2>2. \A i \in 1..Len(ArgsIn(p, a)) : Alone(p)[ArgsIn(p, a)[i]] = ArgsIn(p, a)[i]
    BY <2>1 DEF Alone
  <2>3. ArgsIn(p, a) = [i \in 1..Len(ArgsIn(p, a)) |-> ArgsIn(p, a)[i]]
    BY <2>1
  <2> QED BY <2>2, <2>3
<1>5. \A a \in Apps(p) : SigIn(p, Alone(p), a).args = [i \in 1..Len(ArgsIn(p, a)) |-> Alone(p)[ArgsIn(p, a)[i]]]
  BY DEF SigIn
<1>6. ArgsIn(p, s) = ArgsIn(p, t)
  BY <1>4, <1>5
<1>7. p.terms[s].args = p.terms[t].args
  BY <1>6 DEF ArgsIn
<1>8. s \in 1..Len(p.terms) /\ t \in 1..Len(p.terms)
  BY <1>2 DEF Ids
<1> QED BY <1>2, <1>3, <1>7, <1>8, ProblemsAssumption

\* The applications that use a term.
LEMMA UsesOfFacts ==
  ASSUME problem \in Problems, NEW t \in TermIds
  PROVE  /\ UsesOf(t) \in Seq(Apps(problem))
         /\ \A a \in Apps(problem) : \A i \in 1..Len(Args(a)) : Args(a)[i] = t => a \in ToSet(UsesOf(t))
<1> DEFINE S == Apps(problem)
           q == [app \in TermIds |-> IF app \in Applications THEN FlattenSeq(Occurrences(t, app)) ELSE << >>]
<1>1. Len(terms) \in Nat /\ TermIds = 1..Len(terms) /\ Applications = S /\ S \subseteq TermIds
  BY ArenaFacts, AppsFacts DEF TermIds, Apps, Ids, terms
<1>2. ASSUME NEW a \in S
      PROVE  /\ q[a] \in Seq(S)
             /\ \A i \in 1..Len(Args(a)) : Args(a)[i] = t => a \in ToSet(q[a])
  <2> DEFINE o == Occurrences(t, a)
  <2>1. PICK n \in Nat : n = Len(Args(a))
    <3>1. Len(Args(a)) \in Nat
      BY <1>1, ArenaFacts
    <3> QED BY <3>1
  <2>2. o = [i \in 1..n |-> IF Args(a)[i] = t THEN <<a>> ELSE << >>]
    BY <2>1 DEF Occurrences
  <2> HIDE DEF S, q, o
  <2>3. <<a>> \in Seq(S) /\ << >> \in Seq(S)
    BY <1>2
  <2>4. o \in Seq(Seq(S)) /\ Len(o) = n
    BY <2>2, <2>3
  <2>5. /\ FlattenSeq(o) \in Seq(S)
        /\ \A x : x \in ToSet(FlattenSeq(o)) <=> \E i \in 1..Len(o) : x \in ToSet(o[i])
    BY <2>4, FlattenFacts
  <2>6. q[a] = FlattenSeq(o)
    BY <1>1, <1>2 DEF q, o
  <2>7. ASSUME NEW i \in 1..n, Args(a)[i] = t PROVE a \in ToSet(FlattenSeq(o))
    <3>1. o[i] = <<a>>
      BY <2>2, <2>7
    <3>2. 1 \in 1..Len(<<a>>) /\ <<a>>[1] = a
      OBVIOUS
    <3>3. a \in ToSet(o[i])
      BY <2>3, <3>1, <3>2, InToSet
    <3> QED BY <2>4, <2>5, <3>3
  <2> QED BY <2>1, <2>5, <2>6, <2>7
<1>3. \A app \in TermIds : q[app] \in Seq(S)
  <2>1. ASSUME NEW app \in TermIds, app \notin S PROVE q[app] \in Seq(S)
    <3>1. q[app] = << >>
      BY <1>1, <2>1
    <3> HIDE DEF S, q
    <3> QED BY <3>1
  <2> HIDE DEF q, S
  <2> QED BY <1>2, <2>1
<1>4. q = [app \in 1..Len(terms) |-> q[app]]
  BY <1>1
<1>5. UsesOf(t) = FlattenSeq(q)
  BY DEF UsesOf
<1> HIDE DEF q, S
<1>6. PICK n \in Nat : n = Len(terms) /\ TermIds = 1..n
  BY <1>1
<1>7. q \in Seq(Seq(S)) /\ Len(q) = n
  BY <1>3, <1>4, <1>6
<1>8. /\ FlattenSeq(q) \in Seq(S)
      /\ \A x : x \in ToSet(FlattenSeq(q)) <=> \E i \in 1..Len(q) : x \in ToSet(q[i])
  BY <1>7, FlattenFacts
<1>9. ASSUME NEW a \in S, NEW i \in 1..Len(Args(a)), Args(a)[i] = t PROVE a \in ToSet(UsesOf(t))
  <2>1. a \in ToSet(q[a])
    BY <1>2, <1>9
  <2>2. a \in 1..Len(q)
    BY <1>1, <1>6, <1>7
  <2> QED BY <1>5, <1>8, <2>1, <2>2
<1> QED BY <1>5, <1>8, <1>9 DEF S

\* The trail notes a signature for every application.
LEMMA FirstEntries ==
  ASSUME EufInit, problem \in Problems, NEW sigs, \A a \in Applications : Sig(a) \in sigs
  PROVE  undo_trail \in Seq([kind : {"AddLookup"}, sig : sigs])
<1> DEFINE S == [kind : {"AddLookup"}, sig : sigs]
           q == [t \in TermIds |-> IF t \in Applications THEN <<Lookup(Sig(t))>> ELSE << >>]
<1>1. PICK n \in Nat : n = Len(terms) /\ TermIds = 1..n
  <2>1. Len(terms) \in Nat
    BY ArenaFacts
  <2> QED BY <2>1 DEF TermIds
<1>2. undo_trail = FlattenSeq(q)
  BY DEF EufInit
<1>3. \A t \in Applications : Lookup(Sig(t)) \in S
  BY DEF Lookup
<1>4. ASSUME NEW t \in 1..n PROVE q[t] \in Seq(S)
  <2>1. CASE t \in Applications
    <3>1. q[t] = <<Lookup(Sig(t))>>
      BY <1>1, <1>4, <2>1
    <3>2. Lookup(Sig(t)) \in S
      BY <1>3, <2>1
    <3> HIDE DEF S, q
    <3> QED BY <3>1, <3>2
  <2>2. CASE t \notin Applications
    <3>1. q[t] = << >>
      BY <1>1, <1>4, <2>2
    <3> HIDE DEF S, q
    <3> QED BY <3>1
  <2> QED BY <2>1, <2>2
<1>5. q = [t \in 1..n |-> q[t]]
  BY <1>1
<1>6. FlattenSeq(q) \in Seq(S)
  <2> HIDE DEF S, q
  <2>1. q \in Seq(Seq(S))
    BY <1>4, <1>5
  <2> QED BY <2>1, FlattenFacts
<1> HIDE DEF q
<1> QED BY <1>2, <1>6

LEMMA FirstTrail ==
  ASSUME EufInit, problem \in Problems, \A a \in Applications : Sig(a) \in Signatures(problem)
  PROVE  TrailOK(problem, undo_trail)
<1> DEFINE S == [kind : {"AddLookup"}, sig : Signatures(problem)]
<1>6. undo_trail \in Seq(S)
  BY FirstEntries
<1>7. \A e \in S : e \in UndoIn(problem) /\ e.kind = "AddLookup"
  BY DEF UndoIn
<1> HIDE DEF S
<1>8. PICK us : us = undo_trail /\ us \in Seq(S)
  BY <1>6
<1>9. us \in Seq(UndoIn(problem))
  <2> DEFINE R == UndoIn(problem)
  <2>1. \A e \in S : e \in R
    BY <1>7
  <2> HIDE DEF R
  <2>2. us \in Seq(R)
    BY <1>8, <2>1
  <2> QED BY <2>2 DEF R
<1>10. \A i \in 1..Len(us) : us[i].kind # "Link"
  <2>1. \A i \in 1..Len(us) : us[i] \in S
    BY <1>8
  <2> QED BY <1>7, <2>1
<1> QED BY <1>8, <1>9, <1>10 DEF TrailOK

LEMMA EqualityInit == Init => Equality
<1> SUFFICES ASSUME Init PROVE Equality
  OBVIOUS
<1> DEFINE p == problem
           f == Alone(problem)
<1>1. p \in Problems /\ EufInit /\ lims = << >> /\ facts = << >>
  BY DEF Init
<1>2. AppsOK(p) /\ TermIds = Ids(p) /\ Applications = Apps(p)
  BY <1>1, AppsFacts
<1>3. f \in Maps(p) /\ RootsOf(p, f, f) /\ parent = f
  BY <1>1, <1>2, AloneRoots DEF EufInit, Alone
<1>4. \A a \in Apps(p) : Sig(a) = SigIn(p, f, a) /\ SigIn(p, f, a) \in Signatures(p)
  <2>1. \A t \in TermIds : Find(t) = f[t]
    BY <1>3, FindIs
  <2>2. \A a \in Apps(p) : Sig(a) = SigIn(p, f, a)
    BY <1>1, <2>1, AppsFacts
  <2>3. \A a \in Apps(p) : SigIn(p, f, a) \in Signatures(p)
    BY <1>2, <1>3, SigTyped DEF Apps
  <2> QED BY <2>2, <2>3
<1>5. /\ sig_lookup = [s \in DOMAIN sig_lookup |-> sig_lookup[s]]
      /\ DOMAIN sig_lookup = {SigIn(p, f, a) : a \in Apps(p)}
      /\ \A s \in DOMAIN sig_lookup : sig_lookup[s] \in Apps(p) /\ SigIn(p, f, sig_lookup[s]) = s
      /\ \A a \in Apps(p) : sig_lookup[SigIn(p, f, a)] = a
  <2> DEFINE D == {Sig(a) : a \in Applications}
  <2>1. sig_lookup = [s \in D |-> CHOOSE a \in Applications : Sig(a) = s]
    BY <1>1 DEF EufInit
  <2>2. D = {SigIn(p, f, a) : a \in Apps(p)}
    BY <1>2, <1>4
  <2>3. ASSUME NEW s \in D PROVE sig_lookup[s] \in Apps(p) /\ SigIn(p, f, sig_lookup[s]) = s
    <3>1. PICK a \in Apps(p) : Sig(a) = s
      BY <1>2, <2>3
    <3>2. sig_lookup[s] \in Applications /\ Sig(sig_lookup[s]) = s
      BY <1>2, <2>1, <3>1
    <3> QED BY <1>2, <1>4, <3>2
  <2>4. ASSUME NEW a \in Apps(p) PROVE sig_lookup[SigIn(p, f, a)] = a
    <3>1. SigIn(p, f, a) \in D
      BY <2>2
    <3>2. sig_lookup[SigIn(p, f, a)] \in Apps(p) /\ SigIn(p, f, sig_lookup[SigIn(p, f, a)]) = SigIn(p, f, a)
      BY <2>3, <3>1
    <3> QED BY <1>1, <3>2, Interned
  <2> HIDE DEF D
  <2>5. DOMAIN sig_lookup = D /\ sig_lookup = [s \in DOMAIN sig_lookup |-> sig_lookup[s]]
    BY <2>1
  <2> QED BY <2>2, <2>3, <2>4, <2>5
<1>6. use_list = [t \in Ids(p) |-> UsesOf(t)]
  BY <1>1, <1>2 DEF EufInit
<1>7. use_list \in [Ids(p) -> Seq(Apps(p))]
  BY <1>1, <1>2, <1>6, UsesOfFacts
<1>8. EqTypes(p, sig_lookup, use_list, << >>, << >>, << >>)
  <2>1. DOMAIN sig_lookup \subseteq Signatures(p)
    BY <1>4, <1>5
  <2>2. sig_lookup \in [DOMAIN sig_lookup -> Apps(p)]
    BY <1>5
  <2> QED BY <1>7, <2>1, <2>2 DEF EqTypes
<1>9. UsesKept(p, f, use_list)
  <2>1. ASSUME NEW a \in Apps(p), NEW i \in 1..Len(ArgsIn(p, a)) PROVE a \in ToSet(use_list[f[ArgsIn(p, a)[i]]])
    <3>1. ArgsIn(p, a)[i] \in Ids(p) /\ Args(a) = ArgsIn(p, a)
      BY <1>2, <2>1 DEF AppsOK, Apps, Args, ArgsIn, terms
    <3>2. f[ArgsIn(p, a)[i]] = ArgsIn(p, a)[i]
      BY <3>1 DEF Alone
    <3>3. a \in ToSet(UsesOf(ArgsIn(p, a)[i]))
      BY <1>1, <1>2, <3>1, UsesOfFacts
    <3> QED BY <1>6, <3>1, <3>2, <3>3
  <2> QED BY <2>1 DEF UsesKept
<1>10. Len(<< >>) = 0
  OBVIOUS
<1>11. Soundness(p, f, sig_lookup, << >>, << >>)
  <2>1. ASSUME NEW r, IsCongruence(p, r)
        PROVE  Follows(p, r, f) /\ Equates(r, << >>) /\ Explained(p, sig_lookup, r)
    <3>1. Follows(p, r, f)
      BY DEF Follows, Alone
    <3>2. Equates(r, << >>)
      BY <1>10 DEF Equates
    <3>3. ASSUME NEW s \in DOMAIN sig_lookup PROVE Through(r, s) = SigIn(p, r, sig_lookup[s])
      <4>1. sig_lookup[s] \in Apps(p) /\ SigIn(p, f, sig_lookup[s]) = s
        BY <1>5
      <4>2. Through(r, SigIn(p, f, sig_lookup[s])) = SigIn(p, r, sig_lookup[s])
        BY <1>2, <1>3, <3>1, <4>1, ThroughRoots
      <4> QED BY <4>1, <4>2
    <3> QED BY <3>1, <3>2, <3>3 DEF Explained
  <2> QED BY <2>1 DEF Soundness
<1>12. Completeness(p, f, f, sig_lookup, << >>, << >>, << >>)
  <2>1. \A r : Equates(r, << >>)
    BY <1>10 DEF Equates
  <2>2. ASSUME NEW r, NEW a \in Apps(p) PROVE Known(p, f, sig_lookup, r, a)
    BY <1>5 DEF Known
  <2> QED BY <2>1, <2>2 DEF Completeness
<1>13. EqIn(p, parent, f, sig_lookup, use_list, << >>, << >>, << >>)
  BY <1>3, <1>8, <1>9, <1>11, <1>12 DEF EqIn
<1>14. History(p, parent, sig_lookup, use_list, undo_trail, << >>, << >>, << >>)
  <2>1. TrailOK(p, undo_trail)
    BY <1>1, <1>2, <1>4, FirstTrail
  <2>2. HistoryTypes(p, parent, sig_lookup, use_list, undo_trail, << >>, << >>, << >>)
    BY <1>3, <1>5, <1>7, <2>1 DEF HistoryTypes
  <2>3. Rising(undo_trail, << >>, << >>)
    BY <1>10 DEF Rising
  <2>4. ScopesBack(p, parent, sig_lookup, use_list, undo_trail, << >>, << >>, << >>)
    BY <1>10 DEF ScopesBack
  <2> QED BY <2>2, <2>3, <2>4 DEF History
<1>15. /\ euf_pc = "ready" /\ merges = << >> /\ euf_scopes = << >> /\ rank \in [Ids(p) -> Nat]
       /\ link = [parent |-> 0, uses |-> << >>, all |-> << >>, induced |-> << >>]
  BY <1>1, <1>2 DEF EufInit
<1>16. ControlOK(p, euf_pc, merges, link)
  BY <1>15 DEF ControlOK
<1>17. Current(p, parent, sig_lookup, use_list, euf_pc, merges, link, facts)
  BY <1>1, <1>13, <1>15 DEF Current, UsesIn, TodoIn, VisitsIn
<1> QED BY <1>1, <1>14, <1>15, <1>16, <1>17 DEF Equality

-----------------------------------------------------------------------------
(* The theories together.                                                   *)

Theories == Arith /\ Equality
LEMMA TheoriesHold == Spec => []Theories
<1>1. Init => Theories
  BY ArithInit, EqualityInit DEF Theories
<1>2. Theories /\ [Next]_vars => Theories'
  <2> SUFFICES ASSUME Theories, [Next]_vars PROVE Theories'
    OBVIOUS
  <2>1. Len(facts) \in Nat
    BY DEF Theories, Equality, History, HistoryTypes
  <2>2. Len(asserted) \in Nat
    BY DEF Theories, Arith, ArithIn
  <2> QED BY <2>1, <2>2, ArithStep, EqualityStep DEF Theories
<1> QED BY <1>1, <1>2, PTL DEF Spec

\* In every state between two calls, a bound is what one asserted literal
\* says, no asserted literal says more, and popped literals bound nothing.
THEOREM BoundsHold == Spec => []BoundsFollow
<1>1. Theories => BoundsFollow
  BY ArithBounds DEF Theories
<1> QED BY <1>1, TheoriesHold, PTL

-----------------------------------------------------------------------------
(* The reference partition is the least congruence in which the pairs are   *)
(* equal: it is a partition, what it joins is equal in every congruence     *)
(* that respects the pairs, and nothing is left to link when it is done,    *)
(* for every link makes one class of two.                                   *)

Respects(r, E) == \A e \in E : r[e[1]] = r[e[2]]
Agrees(r, P) == \A B \in P : \A s, t \in B : r[s] = r[t]
Classes(P) ==
    /\ IsFiniteSet(P) /\ P \subseteq SUBSET TermIds
    /\ \A t \in TermIds : \E B \in P : t \in B
    /\ \A B, C \in P : \A t : t \in B /\ t \in C => B = C
Finest(E, P) == \A r : IsCongruence(problem, r) /\ Respects(r, E) => Agrees(r, P)

Joining(P, B, C) == (P \ {B, C}) \cup {B \cup C}
Closing(E, P) ==
    LET l == CHOOSE l \in Linked(E, P) : TRUE
    IN  IF Linked(E, P) = {} THEN P ELSE Joining(P, l[1], l[2])

LEMMA JoiningFacts ==
  ASSUME NEW P, Classes(P), NEW B \in P, NEW C \in P, B # C
  PROVE  /\ Classes(Joining(P, B, C))
         /\ Cardinality(Joining(P, B, C)) + 1 <= Cardinality(P)
<1> DEFINE R == P \ {B}
           S == R \ {C}
           Q == S \cup {B \cup C}
<1>1. Q = Joining(P, B, C)
  BY DEF Joining
<1>2. /\ IsFiniteSet(R) /\ Cardinality(R) = Cardinality(P) - 1
      /\ IsFiniteSet(P) /\ Cardinality(P) \in Nat
  BY FS_RemoveElement, FS_CardinalityType DEF Classes
<1>3. C \in R
  OBVIOUS
<1>4. IsFiniteSet(S) /\ Cardinality(S) = Cardinality(R) - 1
  BY <1>2, <1>3, FS_RemoveElement
<1>5. IsFiniteSet(Q) /\ Cardinality(Q) <= Cardinality(S) + 1
  <2>1. /\ IsFiniteSet(Q)
        /\ Cardinality(Q) = IF (B \cup C) \in S THEN Cardinality(S) ELSE Cardinality(S) + 1
    BY <1>4, FS_AddElement
  <2>2. Cardinality(S) \in Nat
    BY <1>4, FS_CardinalityType
  <2> QED BY <2>1, <2>2
<1>6. Cardinality(Q) \in Nat /\ Cardinality(Q) + 1 <= Cardinality(P)
  BY <1>2, <1>4, <1>5, FS_CardinalityType
<1>7. Q \subseteq SUBSET TermIds
  BY DEF Classes
<1>8. ASSUME NEW t \in TermIds PROVE \E D \in Q : t \in D
  <2>1. PICK D \in P : t \in D
    BY DEF Classes
  <2>2. D \in S \/ D = B \/ D = C
    OBVIOUS
  <2>3. B \cup C \in Q /\ S \subseteq Q
    OBVIOUS
  <2> HIDE DEF S, Q
  <2> QED BY <2>1, <2>2, <2>3
<1>9. ASSUME NEW D \in Q, NEW F \in Q, NEW t, t \in D, t \in F PROVE D = F
  <2>1. \A G \in P : \A H \in P : t \in G /\ t \in H => G = H
    BY DEF Classes
  <2>2. \A G \in S : G \in P /\ G # B /\ G # C
    OBVIOUS
  <2>3. \A G \in S : ~(t \in G /\ t \in B \cup C)
    BY <2>1, <2>2
  <2>4. CASE D \in S /\ F \in S
    BY <1>9, <2>1, <2>2, <2>4
  <2> HIDE DEF S
  <2> QED BY <1>9, <2>3, <2>4
<1>10. Classes(Q)
  BY <1>5, <1>7, <1>8, <1>9 DEF Classes
<1> QED BY <1>1, <1>6, <1>10

\* Every link joins what is equal in the congruences that respect the pairs.
LEMMA ClosingFacts ==
  ASSUME problem \in Problems, NEW E, NEW P, Classes(P), Finest(E, P)
  PROVE  /\ Classes(Closing(E, P)) /\ Finest(E, Closing(E, P))
         /\ \/ Linked(E, P) = {} /\ Closing(E, P) = P
            \/ Cardinality(Closing(E, P)) + 1 <= Cardinality(P)
<1>1. CASE Linked(E, P) = {}
  BY <1>1 DEF Closing
<1>2. CASE Linked(E, P) # {}
  <2>1. PICK l \in Linked(E, P) : l = CHOOSE any \in Linked(E, P) : TRUE
    BY <1>2
  <2>2. PICK B \in P, C \in P : l[1] = B /\ l[2] = C
    BY DEF Linked
  <2>3. /\ B # C
        /\ \/ \E e \in E : e[1] \in B /\ e[2] \in C
           \/ \E s \in B, t \in C :
                SameFunction(s, t) /\ \A i \in 1..Len(Args(s)) : Joined(P, Args(s)[i], Args(t)[i])
    BY <2>2 DEF Linked
  <2>4. Closing(E, P) = Joining(P, B, C)
    BY <1>2, <2>1, <2>2 DEF Closing
  <2>5. Classes(Joining(P, B, C)) /\ Cardinality(Joining(P, B, C)) + 1 <= Cardinality(P)
    BY <2>3, JoiningFacts
  <2>6. ASSUME NEW r, IsCongruence(problem, r), Respects(r, E) PROVE Agrees(r, Joining(P, B, C))
    <3>1. Agrees(r, P)
      BY <2>6 DEF Finest
    <3>2. \E s \in B : \E t \in C : r[s] = r[t]
      <4>1. CASE \E e \in E : e[1] \in B /\ e[2] \in C
        BY <2>6, <4>1 DEF Respects
      <4>2. CASE \E s \in B, t \in C :
                  SameFunction(s, t) /\ \A i \in 1..Len(Args(s)) : Joined(P, Args(s)[i], Args(t)[i])
        <5>1. PICK s \in B, t \in C :
                SameFunction(s, t) /\ \A i \in 1..Len(Args(s)) : Joined(P, Args(s)[i], Args(t)[i])
          BY <4>2
        <5>2. s \in TermIds /\ t \in TermIds
          BY DEF Classes
        <5>3. s \in Apps(problem) /\ t \in Apps(problem)
          BY <5>1, <5>2, AppsFacts DEF SameFunction, Applications
        <5>4. \A i \in 1..Len(Args(s)) : r[Args(s)[i]] = r[Args(t)[i]]
          BY <3>1, <5>1 DEF Joined, Agrees
        <5>5. SigIn(problem, r, s) = SigIn(problem, r, t)
          <6>1. Len(Args(s)) = Len(Args(t)) /\ terms[s].name = terms[t].name
            BY <5>1 DEF SameFunction
          <6>2. [i \in 1..Len(Args(s)) |-> r[Args(s)[i]]] = [i \in 1..Len(Args(t)) |-> r[Args(t)[i]]]
            BY <5>4, <6>1
          <6> QED BY <6>1, <6>2 DEF SigIn, ArgsIn, Args, terms
        <5>6. r[s] = r[t]
          BY <2>6, <5>3, <5>5 DEF IsCongruence
        <5> QED BY <5>6
      <4> QED BY <2>3, <4>1, <4>2
    <3>3. \A s \in B \cup C : \A t \in B \cup C : r[s] = r[t]
      BY <3>1, <3>2 DEF Agrees
    <3>4. ASSUME NEW D \in Joining(P, B, C), NEW s \in D, NEW t \in D PROVE r[s] = r[t]
      <4>1. D \in P \/ D = B \cup C
        BY DEF Joining
      <4> QED BY <3>1, <3>3, <4>1 DEF Agrees
    <3> QED BY <3>4 DEF Agrees
  <2>7. Finest(E, Joining(P, B, C))
    BY <2>6 DEF Finest
  <2> QED BY <2>4, <2>5, <2>7
<1> QED BY <1>1, <1>2

\* Every term alone, to start with.
Alones == {{t} : t \in TermIds}
LEMMA AlonesFacts ==
  ASSUME problem \in Problems, NEW E
  PROVE  Classes(Alones) /\ Finest(E, Alones) /\ Cardinality(Alones) <= Len(terms)
<1>1. PICK n \in Nat : n = Len(terms) /\ TermIds = 1..n
  <2>1. Len(terms) \in Nat
    BY ArenaFacts
  <2> QED BY <2>1 DEF TermIds
<1>2. PICK g : g = [t \in 1..n |-> {t}]
  OBVIOUS
<1>3. g \in Surjection(1..n, Alones)
  BY <1>1, <1>2 DEF Surjection, Alones
<1>4. IsFiniteSet(1..n)
  BY FS_Interval
<1>5. IsFiniteSet(Alones)
  BY <1>3, <1>4, FS_Surjection
<1>6. Cardinality(Alones) <= n
  BY <1>3, FS_SurjCardinalityBound DEF ExistsSurjection
<1>7. Classes(Alones)
  BY <1>5 DEF Classes, Alones
<1>8. Finest(E, Alones)
  BY DEF Finest, Agrees, Alones
<1> QED BY <1>1, <1>6, <1>7, <1>8

LEMMA ClosureFacts ==
  ASSUME problem \in Problems, NEW E
  PROVE  /\ Classes(CongruenceClosure(E)) /\ Finest(E, CongruenceClosure(E))
         /\ Linked(E, CongruenceClosure(E)) = {}
<1> DEFINE S == SUBSET SUBSET TermIds
           step == [x \in Nat \X S |-> Closing(E, x[2])]
           Solves(a) == a = [n \in Nat |-> IF n = 0 THEN {{t} : t \in TermIds}
                               ELSE LET P == a[n - 1]
                                        l == CHOOSE l \in Linked(E, P) : TRUE
                                    IN  IF Linked(E, P) = {} THEN P
                                        ELSE (P \ {l[1], l[2]}) \cup {l[1] \cup l[2]}]
           after == CHOOSE a : Solves(a)
<1>1. \A a : Solves(a) <=> a = [n \in Nat |-> IF n = 0 THEN Alones ELSE Closing(E, a[n - 1])]
  BY DEF Alones, Closing, Joining
<1>2. CongruenceClosure(E) = after[Len(terms)]
  BY DEF CongruenceClosure
<1>3. \E a : Solves(a)
  <2>1. ASSUME NEW P \in S PROVE Closing(E, P) \in S
    <3>1. CASE Linked(E, P) = {}
      BY <2>1, <3>1 DEF Closing
    <3>2. CASE Linked(E, P) # {}
      <4>1. PICK l \in Linked(E, P) : l = CHOOSE any \in Linked(E, P) : TRUE
        BY <3>2
      <4>2. l[1] \in P /\ l[2] \in P
        BY DEF Linked
      <4>3. Closing(E, P) = (P \ {l[1], l[2]}) \cup {l[1] \cup l[2]}
        BY <3>2, <4>1 DEF Closing, Joining
      <4> QED BY <4>2, <4>3
    <3> QED BY <3>1, <3>2
  <2>2. step \in Steps(S)
    BY <2>1 DEF Steps
  <2>3. Alones \in S
    BY DEF Alones
  <2> HIDE DEF S, step, Solves
  <2>4. PICK a : Computes(a, S, Alones, step)
    BY <2>2, <2>3, Recursion
  <2>5. a \in [Nat -> S] /\ a[0] = Alones /\ \A n \in Nat : a[n + 1] = step[<<n, a[n]>>]
    BY <2>4 DEF Computes
  <2>6. ASSUME NEW n \in Nat, n # 0 PROVE a[n] = Closing(E, a[n - 1])
    <3>1. PICK k \in Nat : n = k + 1 /\ n - 1 = k
      <4>1. n - 1 \in Nat /\ n = (n - 1) + 1
        BY <2>6
      <4> QED BY <4>1
    <3>2. a[k] \in S
      BY <2>5
    <3>3. step[<<k, a[k]>>] = Closing(E, a[k])
      BY <3>2 DEF step
    <3> QED BY <2>5, <3>1, <3>3
  <2>7. a = [n \in Nat |-> IF n = 0 THEN Alones ELSE Closing(E, a[n - 1])]
    BY <2>5, <2>6
  <2> QED BY <1>1, <2>7
<1>4. Solves(after)
  <2> HIDE DEF Solves
  <2> QED BY <1>3
<1> HIDE DEF Solves, S, step
<1>5. PICK a : a = after /\ a = [n \in Nat |-> IF n = 0 THEN Alones ELSE Closing(E, a[n - 1])]
  BY <1>1, <1>4
<1> HIDE DEF after
<1>6. /\ a[0] = Alones
      /\ \A n \in Nat : a[n + 1] = Closing(E, a[n])
  <2>1. \A n \in Nat : n + 1 \in Nat /\ n + 1 # 0 /\ (n + 1) - 1 = n
    OBVIOUS
  <2>2. \A n \in Nat : a[n] = IF n = 0 THEN Alones ELSE Closing(E, a[n - 1])
    BY <1>5
  <2> QED BY <2>1, <2>2
<1>7. PICK m \in Nat : m = Len(terms)
  BY ArenaFacts
<1> DEFINE Good(n) == /\ Classes(a[n]) /\ Finest(E, a[n])
                      /\ Linked(E, a[n]) = {} \/ Cardinality(a[n]) + n <= m
           T == {n \in Nat : Good(n)}
<1>8. 0 \in T
  <2>1. Cardinality(Alones) \in Nat
    BY AlonesFacts, FS_CardinalityType DEF Classes
  <2>2. Classes(Alones) /\ Finest(E, Alones) /\ Cardinality(Alones) <= m
    BY <1>7, AlonesFacts
  <2>3. Cardinality(Alones) + 0 <= m
    BY <2>1, <2>2
  <2>4. Good(0)
    BY <1>6, <2>2, <2>3
  <2> QED BY <2>4
<1>9. ASSUME NEW n \in Nat, n \in T PROVE n + 1 \in T
  <2>1. Good(n)
    BY <1>9
  <2>2. PICK P : P = a[n] /\ a[n + 1] = Closing(E, P)
    BY <1>6
  <2>3. /\ Classes(Closing(E, P)) /\ Finest(E, Closing(E, P))
        /\ \/ Linked(E, P) = {} /\ Closing(E, P) = P
           \/ Cardinality(Closing(E, P)) + 1 <= Cardinality(P)
    BY <2>1, <2>2, ClosingFacts
  <2>4. CASE Linked(E, P) = {} /\ Closing(E, P) = P
    <3>1. Good(n + 1)
      BY <2>2, <2>3, <2>4
    <3> QED BY <3>1
  <2>5. CASE Linked(E, P) # {} /\ Cardinality(Closing(E, P)) + 1 <= Cardinality(P)
    <3>1. Cardinality(P) \in Nat /\ Cardinality(Closing(E, P)) \in Nat
      BY <2>1, <2>2, <2>3, FS_CardinalityType DEF Classes
    <3>2. Cardinality(P) + n <= m
      BY <2>1, <2>2, <2>5
    <3>3. Cardinality(Closing(E, P)) + (n + 1) <= m
      BY <2>5, <3>1, <3>2
    <3>4. Good(n + 1)
      BY <2>2, <2>3, <3>3
    <3> QED BY <3>4
  <2>6. CASE Linked(E, P) = {} /\ Closing(E, P) # P
    BY <2>6 DEF Closing
  <2> HIDE DEF T
  <2> QED BY <2>3, <2>4, <2>5, <2>6
<1> HIDE DEF T
<1>10. m \in T
  BY <1>8, <1>9, Everything
<1>11. Good(m)
  BY <1>10 DEF T
<1>12. Linked(E, a[m]) = {}
  <2>1. CASE Cardinality(a[m]) + m <= m
    <3>1. IsFiniteSet(a[m])
      BY <1>11 DEF Classes
    <3>2. Cardinality(a[m]) \in Nat
      BY <3>1, FS_CardinalityType
    <3>3. Cardinality(a[m]) = 0
      BY <2>1, <3>2
    <3>4. a[m] = {}
      BY <3>1, <3>3, FS_EmptySet
    <3> QED BY <3>4 DEF Linked
  <2> QED BY <1>11, <2>1
<1> QED BY <1>2, <1>5, <1>7, <1>11, <1>12 DEF after

\* The partition as a function that gives every term the first of its class.
FirstOf(P) == [t \in TermIds |-> Min({u \in TermIds : Joined(P, t, u)})]
LEMMA FirstOfFacts ==
  ASSUME NEW P, Classes(P)
  PROVE  /\ FirstOf(P) \in [TermIds -> TermIds]
         /\ \A s, t \in TermIds : FirstOf(P)[s] = FirstOf(P)[t] <=> Joined(P, s, t)
<1> DEFINE Class(t) == {u \in TermIds : Joined(P, t, u)}
<1>1. ASSUME NEW t \in TermIds PROVE t \in Class(t) /\ Min(Class(t)) \in Class(t)
  <2>1. t \in Class(t)
    BY DEF Classes, Joined
  <2>2. Class(t) \in SUBSET Nat
    BY DEF TermIds
  <2> HIDE DEF Class
  <2> QED BY <2>1, <2>2, MinFacts
<1>2. \A t \in TermIds : FirstOf(P)[t] = Min(Class(t)) /\ Class(t) \subseteq TermIds
  BY DEF FirstOf
<1>3. FirstOf(P) \in [TermIds -> TermIds]
  <2>1. \A t \in TermIds : Min(Class(t)) \in TermIds
    BY <1>1, <1>2
  <2>2. FirstOf(P) = [t \in TermIds |-> Min(Class(t))]
    BY DEF FirstOf
  <2> HIDE DEF Class
  <2> QED BY <2>1, <2>2
<1>4. ASSUME NEW s \in TermIds, NEW t \in TermIds, Joined(P, s, t)
      PROVE  FirstOf(P)[s] = FirstOf(P)[t]
  <2>1. \A u : Joined(P, s, u) <=> Joined(P, t, u)
    BY <1>4 DEF Joined, Classes
  <2>2. Class(s) = Class(t)
    BY <2>1
  <2> HIDE DEF Class
  <2> QED BY <1>2, <2>2
<1>5. ASSUME NEW s \in TermIds, NEW t \in TermIds, FirstOf(P)[s] = FirstOf(P)[t]
      PROVE  Joined(P, s, t)
  <2>1. PICK u \in TermIds : u \in Class(s) /\ u \in Class(t)
    BY <1>1, <1>2, <1>5
  <2>2. Joined(P, s, u) /\ Joined(P, t, u)
    BY <2>1
  <2> QED BY <2>2 DEF Joined, Classes
<1> QED BY <1>3, <1>4, <1>5

LEMMA SameLength ==
  ASSUME NEW m \in Nat, NEW n \in Nat, 1..m = 1..n
  PROVE  m = n
<1>1. ~(m < n)
  <2> SUFFICES ASSUME m < n PROVE FALSE
    OBVIOUS
  <2>1. n \in 1..n /\ n \notin 1..m
    OBVIOUS
  <2> QED BY <2>1
<1>2. ~(n < m)
  <2> SUFFICES ASSUME n < m PROVE FALSE
    OBVIOUS
  <2>1. m \in 1..m /\ m \notin 1..n
    OBVIOUS
  <2> QED BY <2>1
<1> QED BY <1>1, <1>2

\* A partition with nothing left to link is a congruence that respects the pairs.
LEMMA ClosedIsCongruence ==
  ASSUME problem \in Problems, NEW E, E \subseteq TermIds \X TermIds, NEW P, Classes(P), Linked(E, P) = {}
  PROVE  IsCongruence(problem, FirstOf(P)) /\ Respects(FirstOf(P), E)
<1> DEFINE r == FirstOf(P)
<1>1. r \in [TermIds -> TermIds] /\ \A s, t \in TermIds : r[s] = r[t] <=> Joined(P, s, t)
  BY FirstOfFacts
<1>2. TermIds = Ids(problem) /\ Applications = Apps(problem)
  BY AppsFacts
<1> HIDE DEF r
<1>3. \A B \in P : \A C \in P : B # C => <<B, C>> \notin Linked(E, P)
  OBVIOUS
<1>4. ASSUME NEW B \in P, NEW C \in P,
             \/ \E e \in E : e[1] \in B /\ e[2] \in C
             \/ \E s \in B, t \in C :
                  SameFunction(s, t) /\ \A i \in 1..Len(Args(s)) : Joined(P, Args(s)[i], Args(t)[i])
      PROVE  B = C
  BY <1>3, <1>4 DEF Linked
<1>5. ASSUME NEW e \in E PROVE r[e[1]] = r[e[2]]
  <2>1. e[1] \in TermIds /\ e[2] \in TermIds
    OBVIOUS
  <2>2. PICK B \in P, C \in P : e[1] \in B /\ e[2] \in C
    BY <2>1 DEF Classes
  <2>3. B = C
    BY <1>4, <2>2
  <2> QED BY <1>1, <2>1, <2>2, <2>3 DEF Joined
<1>6. ASSUME NEW s \in Apps(problem), NEW t \in Apps(problem), SigIn(problem, r, s) = SigIn(problem, r, t)
      PROVE  r[s] = r[t]
  <2>1. s \in TermIds /\ t \in TermIds /\ Op(s) = "Apply" /\ Op(t) = "Apply"
    BY <1>2 DEF Apps, Op, terms
  <2>2. /\ Len(Args(s)) \in Nat /\ Len(Args(t)) \in Nat
        /\ \A i \in 1..Len(Args(s)) : Args(s)[i] \in TermIds
        /\ \A i \in 1..Len(Args(t)) : Args(t)[i] \in TermIds
    <3>1. Args(s) \in Seq(Nat) /\ Args(t) \in Seq(Nat)
      BY <2>1, ArenaFacts
    <3>2. /\ \A i \in 1..Len(Args(s)) : Args(s)[i] \in TermIds
          /\ \A i \in 1..Len(Args(t)) : Args(t)[i] \in TermIds
      BY <2>1, ArenaFacts
    <3> QED BY <3>1, <3>2
  <2>3. /\ terms[s].name = terms[t].name
        /\ [i \in 1..Len(Args(s)) |-> r[Args(s)[i]]] = [i \in 1..Len(Args(t)) |-> r[Args(t)[i]]]
    <3>1. /\ SigIn(problem, r, s) = [func |-> terms[s].name, args |-> [i \in 1..Len(Args(s)) |-> r[Args(s)[i]]]]
          /\ SigIn(problem, r, t) = [func |-> terms[t].name, args |-> [i \in 1..Len(Args(t)) |-> r[Args(t)[i]]]]
      BY DEF SigIn, ArgsIn, Args, terms
    <3> DEFINE x == [i \in 1..Len(Args(s)) |-> r[Args(s)[i]]]
               y == [i \in 1..Len(Args(t)) |-> r[Args(t)[i]]]
    <3>2. [func |-> terms[s].name, args |-> x] = [func |-> terms[t].name, args |-> y]
      BY <1>6, <3>1
    <3> HIDE DEF x, y
    <3>3. terms[s].name = terms[t].name /\ x = y
      BY <3>2
    <3> QED BY <3>3 DEF x, y
  <2>4. 1..Len(Args(s)) = 1..Len(Args(t))
    <3>1. /\ DOMAIN [i \in 1..Len(Args(s)) |-> r[Args(s)[i]]] = 1..Len(Args(s))
          /\ DOMAIN [i \in 1..Len(Args(t)) |-> r[Args(t)[i]]] = 1..Len(Args(t))
      OBVIOUS
    <3> QED BY <2>3, <3>1
  <2>5. Len(Args(s)) = Len(Args(t))
    BY <2>2, <2>4, SameLength
  <2>6. SameFunction(s, t)
    BY <2>1, <2>3, <2>5 DEF SameFunction
  <2>7. ASSUME NEW i \in 1..Len(Args(s)) PROVE Joined(P, Args(s)[i], Args(t)[i])
    <3>1. r[Args(s)[i]] = r[Args(t)[i]]
      BY <2>3, <2>4
    <3> QED BY <1>1, <2>2, <2>4, <3>1
  <2>8. PICK B \in P, C \in P : s \in B /\ t \in C
    BY <2>1 DEF Classes
  <2>9. B = C
    BY <1>4, <2>6, <2>7, <2>8
  <2> QED BY <1>1, <2>1, <2>8, <2>9 DEF Joined
<1>7. IsCongruence(problem, r)
  BY <1>1, <1>2, <1>6 DEF IsCongruence, Maps
<1> QED BY <1>5, <1>7 DEF r, Respects

\* The roots are a congruence that respects the merges asked for, when there
\* is nothing left to do.
LEMMA RootsAreCongruence ==
  ASSUME NEW p, NEW par, NEW f, NEW lk, NEW use, NEW fs, EqIn(p, par, f, lk, use, << >>, << >>, fs)
  PROVE  IsCongruence(p, f) /\ Equates(f, fs)
<1>1. f \in Maps(p) /\ Follows(p, f, par) /\ Equates(f, << >>)
  <2>1. Len(<< >>) = 0
    OBVIOUS
  <2>2. Equates(f, << >>)
    BY <2>1 DEF Equates
  <2>3. f \in Maps(p) /\ par \in Maps(p) /\ \A u \in Ids(p) : f[u] = (IF par[u] = u THEN u ELSE f[par[u]])
    BY DEF EqIn, RootsOf
  <2>4. ASSUME NEW u \in Ids(p) PROVE f[par[u]] = f[u]
    BY <2>3
  <2> QED BY <2>2, <2>3, <2>4 DEF Follows
<1>2. Equates(f, fs) /\ \A a \in Apps(p) : a \in ToSet(<< >>) \/ Known(p, f, lk, f, a)
  BY <1>1 DEF EqIn, Completeness
<1>3. \A a \in Apps(p) : f[lk[SigIn(p, f, a)]] = f[a]
  BY <1>2, InEmpty DEF Known
<1>4. ASSUME NEW s \in Apps(p), NEW t \in Apps(p), SigIn(p, f, s) = SigIn(p, f, t) PROVE f[s] = f[t]
  BY <1>3, <1>4
<1> QED BY <1>1, <1>2, <1>4 DEF IsCongruence

\* The classes are those of the reference.
LEMMA ExactlyClosure ==
  ASSUME problem \in Problems, NEW f, NEW fs, NEW E,
         EqIn(problem, parent, f, sig_lookup, use_list, << >>, << >>, fs),
         E = {<<fs[i].a, fs[i].b>> : i \in 1..Len(fs)}
  PROVE  \A s, t \in TermIds : SameClass(s, t) <=> Joined(CongruenceClosure(E), s, t)
<1> DEFINE P == CongruenceClosure(E)
<1>1. Classes(P) /\ Finest(E, P) /\ Linked(E, P) = {}
  BY ClosureFacts
<1>2. TermIds = Ids(problem)
  BY AppsFacts
<1>3. fs \in Seq(MergesIn(problem)) /\ RootsOf(problem, parent, f)
  BY DEF EqIn, EqTypes
<1>4. E \subseteq TermIds \X TermIds
  <2>1. \A i \in 1..Len(fs) : fs[i] \in MergesIn(problem)
    BY <1>3
  <2>2. \A i \in 1..Len(fs) : fs[i].a \in TermIds /\ fs[i].b \in TermIds
    BY <1>2, <2>1 DEF MergesIn
  <2> QED BY <2>2
<1>5. ASSUME NEW r PROVE Respects(r, E) <=> Equates(r, fs)
  <2>1. ASSUME NEW i \in 1..Len(fs) PROVE <<fs[i].a, fs[i].b>> \in E
    OBVIOUS
  <2>2. ASSUME Respects(r, E) PROVE Equates(r, fs)
    BY <2>1, <2>2 DEF Respects, Equates
  <2>3. ASSUME Equates(r, fs), NEW e \in E PROVE r[e[1]] = r[e[2]]
    <3>1. PICK i \in 1..Len(fs) : e = <<fs[i].a, fs[i].b>>
      OBVIOUS
    <3> QED BY <2>3, <3>1 DEF Equates
  <2> QED BY <2>2, <2>3 DEF Respects
<1> HIDE DEF P
<1>6. \A t \in TermIds : Find(t) = f[t]
  BY <1>3, FindIs
<1>7. ASSUME NEW s \in TermIds, NEW t \in TermIds, Joined(P, s, t) PROVE f[s] = f[t]
  <2>1. IsCongruence(problem, f) /\ Respects(f, E)
    BY <1>5, RootsAreCongruence
  <2>2. Agrees(f, P)
    BY <1>1, <2>1 DEF Finest
  <2> QED BY <1>7, <2>2 DEF Agrees, Joined
<1>8. ASSUME NEW s \in TermIds, NEW t \in TermIds, f[s] = f[t] PROVE Joined(P, s, t)
  <2>1. PICK r : r = FirstOf(P)
    OBVIOUS
  <2>2. IsCongruence(problem, r) /\ Equates(r, fs)
    BY <1>1, <1>4, <1>5, <2>1, ClosedIsCongruence
  <2>3. Follows(problem, r, parent)
    BY <2>2 DEF EqIn, Soundness
  <2>4. \A u \in Ids(problem) : r[f[u]] = r[u]
    BY <1>3, <2>3, RootsFollow DEF Follows
  <2>5. r[s] = r[t]
    BY <1>2, <1>8, <2>4
  <2> QED BY <1>1, <2>1, <2>5, FirstOfFacts
<1> QED BY <1>6, <1>7, <1>8 DEF SameClass, P

\* Between two calls, two terms are in one class exactly when the merges in
\* force make them equal by congruence: no propagation of merge is missed, and
\* pop undoes every one it must.
THEOREM ClassesExact == Spec => []EqualityExact
<1>1. Theories => EqualityExact
  <2> SUFFICES ASSUME Theories, Idle PROVE EqualityExact
    BY DEF EqualityExact
  <2>1. euf_pc = "ready" /\ Equality
    BY DEF Idle, Quiet, Theories
  <2>2. problem \in Problems
    BY <2>1 DEF Equality
  <2>3. PICK f : EqIn(problem, parent, f, sig_lookup, use_list, << >>, << >>, facts)
    BY <2>1, ReadyFacts
  <2>4. PICK E : E = {<<facts[i].a, facts[i].b>> : i \in 1..Len(facts)}
    OBVIOUS
  <2>5. \A s, t \in TermIds : SameClass(s, t) <=> Joined(CongruenceClosure(E), s, t)
    BY <2>2, <2>3, <2>4, ExactlyClosure
  <2> QED BY <2>4, <2>5 DEF EqualityExact
<1> QED BY <1>1, TheoriesHold, PTL

-----------------------------------------------------------------------------
(* What asserted literals forbid.  Every disequality has its entry of the   *)
(* undo trail, in order; what a literal forbids is among the disequalities, *)
(* with entries older than every scope that keeps the literal.              *)

ForbiddenBy(p, l) ==
    LET t == p.terms[AtomOf(l)]
    IN  IF t.op = "Distinct" \/ (t.op = "Eq" /\ Len(t.args) = 2 /\ l < 0) THEN ToSet(PairsOf(t.args)) ELSE {}
DisequalitiesIn(p) == [a : Ids(p), b : Ids(p), lit : ReasonsIn(p)]
LimitOf(ls, lits, k) == IF k <= Len(ls) THEN ls[k].asserted ELSE Len(lits)
Entries(ds, us, pos) ==
    /\ pos \in [1..Len(ds) -> 1..Len(us)]
    /\ \A i, j \in 1..Len(ds) : i < j => pos[i] < pos[j]
    /\ \A n \in 1..Len(us) : us[n].kind = "AddDisequality" <=> \E i \in 1..Len(ds) : pos[i] = n
KeptBy(d, i, pos, ss, lits, ls, q, pr) ==
    d.a = pr[1] /\ d.b = pr[2] /\ \A k \in 1..Len(ss) : q <= LimitOf(ls, lits, k) => pos[i] <= ss[k]
Forbidden(p, ds, pos, ss, lits, ls) ==
    \A q \in 1..Len(lits) : \A pr \in ForbiddenBy(p, lits[q]) :
        \E i \in 1..Len(ds) : KeptBy(ds[i], i, pos, ss, lits, ls, q, pr)
DeniedIn(p, ds, us, ss, lits, ls) ==
    /\ ds \in Seq(DisequalitiesIn(p)) /\ us \in Seq(UndoIn(p))
    /\ \E pos : Entries(ds, us, pos) /\ Forbidden(p, ds, pos, ss, lits, ls)

Scoped(p, ss, lits, ls) ==
    /\ lits \in Seq(LitsIn(p)) /\ ls \in Seq(Limits) /\ ss \in Seq(Nat)
    /\ \A k \in 1..Len(ls) : ls[k].asserted <= Len(lits)

LEMMA FrontFacts ==
  ASSUME NEW S, NEW s \in Seq(S), NEW k \in Nat, Len(s) = k + 1
  PROVE  /\ Front(s) \in Seq(S) /\ Len(Front(s)) = k /\ \A i \in 1..k : Front(s)[i] = s[i]
BY DEF Front

LEMMA DeniedKept ==
  ASSUME NEW p, NEW ds, NEW us, NEW ss, NEW lits, NEW ls, DeniedIn(p, ds, us, ss, lits, ls),
         NEW ws \in Seq(UndoIn(p)), Len(us) <= Len(ws), \A i \in 1..Len(us) : ws[i] = us[i],
         \A i \in 1..Len(ws) : i > Len(us) => ws[i].kind # "AddDisequality"
  PROVE  DeniedIn(p, ds, ws, ss, lits, ls)
<1>1. ds \in Seq(DisequalitiesIn(p)) /\ us \in Seq(UndoIn(p))
  BY DEF DeniedIn
<1>2. PICK pos : Entries(ds, us, pos) /\ Forbidden(p, ds, pos, ss, lits, ls)
  BY DEF DeniedIn
<1>3. PICK m \in Nat, n \in Nat : m = Len(us) /\ n = Len(ws) /\ m <= n
  BY <1>1
<1>4. pos \in [1..Len(ds) -> 1..n]
  BY <1>2, <1>3 DEF Entries
<1>5. ASSUME NEW k \in 1..n PROVE ws[k].kind = "AddDisequality" <=> \E i \in 1..Len(ds) : pos[i] = k
  <2>1. CASE k <= m
    <3>1. k \in 1..Len(us) /\ ws[k] = us[k]
      BY <1>3, <2>1
    <3> QED BY <1>2, <3>1 DEF Entries
  <2>2. CASE k > m
    <3>1. ws[k].kind # "AddDisequality"
      BY <1>3, <2>2
    <3>2. \A i \in 1..Len(ds) : pos[i] \in 1..m
      BY <1>2, <1>3 DEF Entries
    <3> QED BY <2>2, <3>1, <3>2
  <2> QED BY <1>3, <2>1, <2>2
<1>6. Entries(ds, ws, pos)
  BY <1>2, <1>3, <1>4, <1>5 DEF Entries
<1> QED BY <1>1, <1>2, <1>6 DEF DeniedIn

\* An entry less that is not of a disequality.
LEMMA DeniedCut ==
  ASSUME NEW p, NEW ds, NEW us, NEW ss, NEW lits, NEW ls, DeniedIn(p, ds, us, ss, lits, ls),
         NEW ws \in Seq(UndoIn(p)), Len(us) = Len(ws) + 1, \A i \in 1..Len(ws) : us[i] = ws[i],
         us[Len(ws) + 1].kind # "AddDisequality"
  PROVE  DeniedIn(p, ds, ws, ss, lits, ls)
<1>1. ds \in Seq(DisequalitiesIn(p)) /\ us \in Seq(UndoIn(p))
  BY DEF DeniedIn
<1>2. PICK pos : Entries(ds, us, pos) /\ Forbidden(p, ds, pos, ss, lits, ls)
  BY DEF DeniedIn
<1>3. PICK n \in Nat : n = Len(ws) /\ Len(us) = n + 1
  OBVIOUS
<1>4. ASSUME NEW i \in 1..Len(ds) PROVE pos[i] \in 1..n
  <2>1. pos[i] \in 1..(n + 1)
    BY <1>2, <1>3 DEF Entries
  <2>2. us[pos[i]].kind = "AddDisequality"
    BY <1>2, <1>3, <2>1 DEF Entries
  <2>3. pos[i] # n + 1
    BY <1>3, <2>2
  <2> QED BY <2>1, <2>3
<1>5. pos \in [1..Len(ds) -> 1..n]
  BY <1>2, <1>4 DEF Entries
<1>6. ASSUME NEW k \in 1..n PROVE ws[k].kind = "AddDisequality" <=> \E i \in 1..Len(ds) : pos[i] = k
  <2>1. k \in 1..Len(us) /\ us[k] = ws[k]
    BY <1>3
  <2> QED BY <1>2, <2>1 DEF Entries
<1>7. Entries(ds, ws, pos)
  BY <1>2, <1>3, <1>5, <1>6 DEF Entries
<1> QED BY <1>1, <1>2, <1>7 DEF DeniedIn

\* The last disequality less, when the last scope is older than its entry.
LEMMA DeniedDropped ==
  ASSUME NEW p, NEW ds, NEW us, NEW ss, NEW lits, NEW ls, DeniedIn(p, ds, us, ss, lits, ls),
         NEW ws \in Seq(UndoIn(p)), Len(us) = Len(ws) + 1, \A i \in 1..Len(ws) : us[i] = ws[i],
         us[Len(ws) + 1].kind = "AddDisequality", Len(ss) = Len(ls) + 1, Scoped(p, ss, lits, ls),
         ss[Len(ss)] <= Len(ws)
  PROVE  DeniedIn(p, Front(ds), ws, ss, lits, ls)
<1>1. ds \in Seq(DisequalitiesIn(p)) /\ us \in Seq(UndoIn(p))
  BY DEF DeniedIn
<1>2. PICK pos : Entries(ds, us, pos) /\ Forbidden(p, ds, pos, ss, lits, ls)
  BY DEF DeniedIn
<1>3. PICK n \in Nat : n = Len(ws) /\ Len(us) = n + 1
  OBVIOUS
<1>4. PICK d \in Nat : d = Len(ds)
  BY <1>1
<1>5. PICK j \in 1..d : pos[j] = n + 1
  BY <1>2, <1>3, <1>4 DEF Entries
<1>6. \A i \in 1..d : pos[i] \in 1..(n + 1)
  BY <1>2, <1>3, <1>4 DEF Entries
<1>7. j = d
  <2>1. ~(j < d)
    <3> SUFFICES ASSUME j < d PROVE FALSE
      OBVIOUS
    <3>1. d \in 1..d /\ pos[j] < pos[d]
      BY <1>2, <1>4 DEF Entries
    <3> QED BY <1>5, <1>6, <3>1
  <2> QED BY <2>1
<1>8. PICK e \in Nat : d = e + 1
  <2>1. d - 1 \in Nat /\ d = (d - 1) + 1
    BY <1>5
  <2> QED BY <2>1
<1>9. PICK gs : gs = Front(ds)
  OBVIOUS
<1>10. gs \in Seq(DisequalitiesIn(p)) /\ Len(gs) = e /\ \A i \in 1..e : gs[i] = ds[i]
  BY <1>1, <1>4, <1>8, <1>9, FrontFacts
<1>12. PICK at : at = [i \in 1..e |-> pos[i]]
  OBVIOUS
<1>13. ASSUME NEW i \in 1..e PROVE i \in 1..d /\ i < d /\ pos[i] \in 1..n
  <2>1. i \in 1..d /\ i < d /\ d \in 1..d
    BY <1>8
  <2>2. pos[i] < pos[d] /\ pos[d] = n + 1
    BY <1>2, <1>4, <1>5, <1>7, <2>1 DEF Entries
  <2> QED BY <1>6, <2>1, <2>2
<1>14. Entries(gs, ws, at)
  <2>1. at \in [1..e -> 1..n]
    BY <1>12, <1>13
  <2>2. ASSUME NEW i \in 1..e, NEW k \in 1..e, i < k PROVE at[i] < at[k]
    BY <1>2, <1>4, <1>12, <1>13, <2>2 DEF Entries
  <2>3. ASSUME NEW k \in 1..n PROVE ws[k].kind = "AddDisequality" <=> \E i \in 1..e : at[i] = k
    <3>1. k \in 1..(n + 1) /\ us[k] = ws[k] /\ k # n + 1
      BY <1>3
    <3>2. ws[k].kind = "AddDisequality" <=> \E i \in 1..d : pos[i] = k
      BY <1>2, <1>3, <1>4, <3>1 DEF Entries
    <3>3. \A i \in 1..d : i \in 1..e \/ i = d
      BY <1>8
    <3>4. pos[d] # k
      BY <1>5, <1>7, <3>1
    <3> QED BY <1>12, <1>13, <3>2, <3>3, <3>4
  <2> QED BY <1>3, <1>10, <2>1, <2>2, <2>3 DEF Entries
<1>15. ASSUME NEW q \in 1..Len(lits), NEW pr \in ForbiddenBy(p, lits[q])
       PROVE  \E i \in 1..Len(gs) : KeptBy(gs[i], i, at, ss, lits, ls, q, pr)
  <2>1. PICK i \in 1..d : KeptBy(ds[i], i, pos, ss, lits, ls, q, pr)
    BY <1>2, <1>4 DEF Forbidden
  <2>2. PICK k : k = Len(ss) /\ k \in 1..Len(ss) /\ ~(k <= Len(ls))
    <3>1. Len(ls) \in Nat
      BY DEF Scoped
    <3> QED BY <3>1
  <2>3. q <= LimitOf(ls, lits, k)
    <3>1. Len(lits) \in Nat
      BY DEF Scoped
    <3> QED BY <2>2, <3>1 DEF LimitOf
  <2>4. pos[i] <= n
    <3>1. pos[i] <= ss[k] /\ ss[k] <= n
      BY <1>3, <2>1, <2>2, <2>3 DEF KeptBy
    <3>2. ss[k] \in Nat
      BY <2>2 DEF Scoped
    <3> QED BY <1>6, <3>1, <3>2
  <2>5. i # d
    BY <1>5, <1>7, <2>4
  <2>6. i \in 1..e
    BY <1>8, <2>5
  <2>7. gs[i] = ds[i] /\ at[i] = pos[i]
    BY <1>10, <1>12, <2>6
  <2> QED BY <1>10, <2>1, <2>6, <2>7 DEF KeptBy
<1>16. Forbidden(p, gs, at, ss, lits, ls)
  BY <1>15 DEF Forbidden
<1>17. us \in Seq(UndoIn(p)) /\ ws \in Seq(UndoIn(p))
  BY <1>1
<1> QED BY <1>9, <1>10, <1>14, <1>16, <1>17 DEF DeniedIn

\* A literal more, and the disequalities it makes.
MakesAll(p, new, m, l) ==
    /\ new \in Seq(DisequalitiesIn(p)) /\ Len(new) = m
    /\ \A pr \in ForbiddenBy(p, l) : \E i \in 1..m : new[i].a = pr[1] /\ new[i].b = pr[2]
LEMMA DeniedAdded ==
  ASSUME NEW p, NEW ds, NEW us, NEW ss, NEW lits, NEW ls, DeniedIn(p, ds, us, ss, lits, ls),
         NEW l, NEW new, NEW m \in Nat, MakesAll(p, new, m, l), Scoped(p, ss, lits, ls), Len(ss) = Len(ls)
  PROVE  DeniedIn(p, ds \o new, us \o [i \in 1..m |-> Disequality], ss, Append(lits, l), ls)
<1>1. ds \in Seq(DisequalitiesIn(p)) /\ us \in Seq(UndoIn(p))
  BY DEF DeniedIn
<1>2. PICK pos : Entries(ds, us, pos) /\ Forbidden(p, ds, pos, ss, lits, ls)
  BY DEF DeniedIn
<1>3. PICK n \in Nat, d \in Nat : n = Len(us) /\ d = Len(ds)
  BY <1>1
<1>4. PICK es : es = ds \o new
  OBVIOUS
<1>5. /\ es \in Seq(DisequalitiesIn(p)) /\ Len(es) = d + m
      /\ \A i \in 1..d : es[i] = ds[i]
      /\ \A i \in 1..m : es[d + i] = new[i]
  <2>1. new \in Seq(DisequalitiesIn(p)) /\ Len(new) = m
    BY DEF MakesAll
  <2>2. /\ ds \o new \in Seq(DisequalitiesIn(p)) /\ Len(ds \o new) = Len(ds) + Len(new)
        /\ \A i \in 1..Len(ds) : (ds \o new)[i] = ds[i]
        /\ \A i \in 1..Len(new) : (ds \o new)[Len(ds) + i] = new[i]
    <3> DEFINE S == DisequalitiesIn(p)
    <3> HIDE DEF S
    <3>1. ds \in Seq(S) /\ new \in Seq(S)
      BY <1>1, <2>1 DEF S
    <3>2. /\ ds \o new \in Seq(S) /\ Len(ds \o new) = Len(ds) + Len(new)
          /\ \A i \in 1..Len(ds) : (ds \o new)[i] = ds[i]
          /\ \A i \in 1..Len(new) : (ds \o new)[Len(ds) + i] = new[i]
      BY <3>1, ConcatFacts
    <3> QED BY <3>2 DEF S
  <2> QED BY <1>3, <1>4, <2>1, <2>2
<1> DEFINE wz == us \o [i \in 1..m |-> Disequality]
<1>51. PICK ws : ws = wz
  OBVIOUS
<1> HIDE DEF wz
<1>6. /\ ws \in Seq(UndoIn(p)) /\ Len(ws) = n + m
      /\ \A i \in 1..n : ws[i] = us[i]
      /\ \A i \in 1..m : ws[n + i].kind = "AddDisequality"
  <2> DEFINE S == UndoIn(p)
             t == [i \in 1..m |-> Disequality]
  <2> HIDE DEF S
  <2>0. Disequality \in S
    BY DEF S, UndoIn, Disequality
  <2>1. us \in Seq(S) /\ t \in Seq(S) /\ Len(t) = m
    BY <1>1, <2>0 DEF S
  <2>2. \A i \in 1..m : t[i] = Disequality
    OBVIOUS
  <2> HIDE DEF t
  <2>3. PICK tt \in Seq(S) : tt = t
    BY <2>1
  <2>7. PICK uu \in Seq(S) : uu = us
    BY <2>1
  <2>4. /\ us \o tt \in Seq(S) /\ Len(us \o tt) = Len(us) + Len(tt)
        /\ \A i \in 1..Len(us) : (us \o tt)[i] = us[i]
        /\ \A i \in 1..Len(tt) : (us \o tt)[Len(us) + i] = tt[i]
    <3>1. /\ uu \o tt \in Seq(S) /\ Len(uu \o tt) = Len(uu) + Len(tt)
          /\ \A i \in 1..Len(uu) : (uu \o tt)[i] = uu[i]
          /\ \A i \in 1..Len(tt) : (uu \o tt)[Len(uu) + i] = tt[i]
      BY ONLY uu \in Seq(S), tt \in Seq(S), ConcatFacts
    <3> QED BY <2>7, <3>1
  <2>6. Len(tt) = m /\ (\A i \in 1..m : tt[i] = Disequality) /\ ws = us \o tt
    <3>1. ws = us \o t
      BY <1>51 DEF t, wz
    <3> QED BY <2>1, <2>2, <2>3, <3>1
  <2>5. Disequality.kind = "AddDisequality"
    BY DEF Disequality
  <2> QED BY <1>3, <2>1, <2>4, <2>5, <2>6 DEF S
<1>7. \A i \in 1..(d + m) : i \in 1..d \/ (i - d \in 1..m /\ i = d + (i - d) /\ ~(i <= d))
  OBVIOUS
<1>8. \A i \in 1..d : pos[i] \in 1..n
  BY <1>2, <1>3 DEF Entries
<1>9. PICK at : at = [i \in 1..(d + m) |-> IF i <= d THEN pos[i] ELSE n + (i - d)]
  OBVIOUS
<1>10. /\ \A i \in 1..d : at[i] = pos[i]
       /\ \A i \in 1..m : at[d + i] = n + i
  <2>1. \A i \in 1..d : i \in 1..(d + m) /\ i <= d
    OBVIOUS
  <2>2. \A i \in 1..m : d + i \in 1..(d + m) /\ ~(d + i <= d) /\ (d + i) - d = i
    OBVIOUS
  <2> QED BY <1>9, <2>1, <2>2
<1>11. Entries(es, ws, at)
  <2>1. ASSUME NEW i \in 1..(d + m) PROVE at[i] \in 1..(n + m)
    <3>1. CASE i \in 1..d
      <4>1. at[i] = pos[i] /\ pos[i] \in 1..n
        BY <1>8, <1>10, <3>1
      <4> QED BY <4>1
    <3>2. CASE i - d \in 1..m /\ i = d + (i - d)
      <4>1. at[i] = n + (i - d)
        BY <1>10, <3>2
      <4> QED BY <3>2, <4>1
    <3> QED BY <1>7, <3>1, <3>2
  <2>2. at \in [1..(d + m) -> 1..(n + m)]
    BY <1>9, <2>1
  <2>3. ASSUME NEW i \in 1..(d + m), NEW j \in 1..(d + m), i < j PROVE at[i] < at[j]
    <3>1. CASE j \in 1..d
      <4>1. i \in 1..d
        BY <2>3, <3>1
      <4> QED BY <1>2, <1>3, <1>10, <2>3, <3>1, <4>1 DEF Entries
    <3>2. CASE ~(j <= d)
      <4>1. at[j] = n + (j - d) /\ j - d \in 1..m
        BY <1>9, <3>2
      <4>2. CASE i \in 1..d
        <5>1. at[i] \in 1..n
          BY <1>8, <1>10, <4>2
        <5> QED BY <4>1, <5>1
      <4>3. CASE ~(i <= d)
        <5>1. at[i] = n + (i - d)
          BY <1>9, <4>3
        <5> QED BY <2>3, <4>1, <5>1
      <4> QED BY <4>2, <4>3
    <3> QED BY <3>1, <3>2
  <2>4. ASSUME NEW k \in 1..(n + m)
        PROVE  ws[k].kind = "AddDisequality" <=> \E i \in 1..(d + m) : at[i] = k
    <3>1. CASE k \in 1..n
      <4>1. ws[k] = us[k] /\ (us[k].kind = "AddDisequality" <=> \E i \in 1..d : pos[i] = k)
        BY <1>2, <1>3, <1>6, <3>1 DEF Entries
      <4>2. \A i \in 1..(d + m) : ~(i <= d) => at[i] > n
        BY <1>9
      <4>3. \A i \in 1..d : i \in 1..(d + m)
        OBVIOUS
      <4>4. ASSUME NEW i \in 1..(d + m), at[i] = k PROVE i \in 1..d /\ pos[i] = k
        <5>1. i <= d
          BY <3>1, <4>2, <4>4
        <5>2. i \in 1..d
          BY <5>1
        <5> QED BY <1>10, <4>4, <5>2
      <4>5. (\E i \in 1..(d + m) : at[i] = k) <=> \E i \in 1..d : pos[i] = k
        BY <1>10, <4>3, <4>4
      <4> QED BY <4>1, <4>5
    <3>2. CASE ~(k <= n)
      <4>1. PICK j \in 1..m : k = n + j
        <5>1. k - n \in 1..m /\ k = n + (k - n)
          BY <3>2
        <5> QED BY <5>1
      <4>2. ws[k].kind = "AddDisequality"
        BY <1>6, <4>1
      <4>3. d + j \in 1..(d + m) /\ at[d + j] = k
        <5>1. d + j \in 1..(d + m)
          OBVIOUS
        <5> QED BY <1>10, <4>1, <5>1
      <4> QED BY <4>2, <4>3
    <3>3. k \in 1..n \/ ~(k <= n)
      OBVIOUS
    <3> QED BY <3>1, <3>2, <3>3
  <2> QED BY <1>5, <1>6, <2>2, <2>3, <2>4 DEF Entries
<1>12. PICK ks : ks = Append(lits, l)
  OBVIOUS
<1>13. PICK c \in Nat : c = Len(lits)
  BY DEF Scoped
<1>14. Len(ks) = c + 1 /\ ks[c + 1] = l /\ \A i \in 1..c : ks[i] = lits[i]
  BY <1>12, <1>13 DEF Scoped
<1>15. \A k \in 1..Len(ss) : LimitOf(ls, ks, k) = LimitOf(ls, lits, k) /\ LimitOf(ls, lits, k) = ls[k].asserted
  BY DEF LimitOf
<1>16. ASSUME NEW q \in 1..(c + 1), NEW pr \in ForbiddenBy(p, ks[q])
       PROVE  \E i \in 1..(d + m) : KeptBy(es[i], i, at, ss, ks, ls, q, pr)
  <2>1. CASE q \in 1..c
    <3>1. pr \in ForbiddenBy(p, lits[q])
      BY <1>14, <2>1
    <3>2. PICK i \in 1..d : KeptBy(ds[i], i, pos, ss, lits, ls, q, pr)
      BY <1>2, <1>3, <1>13, <2>1, <3>1 DEF Forbidden
    <3>3. KeptBy(es[i], i, at, ss, ks, ls, q, pr)
      BY <1>5, <1>10, <1>15, <3>2 DEF KeptBy
    <3> QED BY <3>3
  <2>2. CASE q = c + 1
    <3>1. pr \in ForbiddenBy(p, l)
      BY <1>14, <2>2
    <3>2. PICK i \in 1..m : new[i].a = pr[1] /\ new[i].b = pr[2]
      BY <3>1 DEF MakesAll
    <3>3. d + i \in 1..(d + m) /\ es[d + i] = new[i]
      BY <1>5
    <3>4. \A k \in 1..Len(ss) : ~(q <= LimitOf(ls, ks, k))
      <4>1. \A k \in 1..Len(ss) : ls[k].asserted <= c /\ ls[k].asserted \in Nat
        BY <1>13, LimitFacts DEF Scoped
      <4>2. ASSUME NEW k \in 1..Len(ss) PROVE ~(q <= LimitOf(ls, ks, k))
        <5>1. PICK x \in Nat : x = ls[k].asserted /\ x <= c
          BY <4>1
        <5>2. LimitOf(ls, ks, k) = x
          BY <1>15, <5>1
        <5> QED BY <2>2, <5>1, <5>2
      <4> QED BY <4>2
    <3>5. KeptBy(es[d + i], d + i, at, ss, ks, ls, q, pr)
      BY <3>2, <3>3, <3>4 DEF KeptBy
    <3> QED BY <3>3, <3>5
  <2> QED BY <2>1, <2>2
<1>17. Forbidden(p, es, at, ss, ks, ls)
  BY <1>5, <1>14, <1>16 DEF Forbidden
<1> QED BY <1>4, <1>5, <1>51, <1>6, <1>11, <1>12, <1>17 DEF DeniedIn, wz

\* Other scopes, and fewer literals.
LEMMA DeniedScopes ==
  ASSUME NEW p, NEW ds, NEW us, NEW ss, NEW lits, NEW ls, DeniedIn(p, ds, us, ss, lits, ls),
         NEW tt, NEW ks, NEW ms, Len(lits) \in Nat, Len(ks) \in Nat, Len(ks) <= Len(lits),
         \A q \in 1..Len(ks) : ks[q] = lits[q],
         \A k \in 1..Len(tt) : \/ tt[k] = Len(us)
                               \/ k \in 1..Len(ss) /\ tt[k] = ss[k] /\ LimitOf(ms, ks, k) = LimitOf(ls, lits, k)
  PROVE  DeniedIn(p, ds, us, tt, ks, ms)
<1>1. ds \in Seq(DisequalitiesIn(p)) /\ us \in Seq(UndoIn(p)) /\ Len(us) \in Nat
  BY DEF DeniedIn
<1>2. PICK pos : Entries(ds, us, pos) /\ Forbidden(p, ds, pos, ss, lits, ls)
  BY DEF DeniedIn
<1>3. \A i \in 1..Len(ds) : pos[i] <= Len(us)
  <2>1. \A i \in 1..Len(ds) : pos[i] \in 1..Len(us)
    BY <1>2 DEF Entries
  <2> QED BY <1>1, <2>1
<1>4. ASSUME NEW q \in 1..Len(ks), NEW pr \in ForbiddenBy(p, ks[q])
      PROVE  \E i \in 1..Len(ds) : KeptBy(ds[i], i, pos, tt, ks, ms, q, pr)
  <2>1. q \in 1..Len(lits) /\ ks[q] = lits[q]
    OBVIOUS
  <2>2. PICK i \in 1..Len(ds) : KeptBy(ds[i], i, pos, ss, lits, ls, q, pr)
    BY <1>2, <2>1 DEF Forbidden
  <2>3. ASSUME NEW k \in 1..Len(tt), q <= LimitOf(ms, ks, k) PROVE pos[i] <= tt[k]
    <3>1. CASE tt[k] = Len(us)
      BY <1>3, <3>1
    <3>2. CASE k \in 1..Len(ss) /\ tt[k] = ss[k] /\ LimitOf(ms, ks, k) = LimitOf(ls, lits, k)
      BY <2>2, <2>3, <3>2 DEF KeptBy
    <3> QED BY <3>1, <3>2
  <2>4. KeptBy(ds[i], i, pos, tt, ks, ms, q, pr)
    BY <2>2, <2>3 DEF KeptBy
  <2> QED BY <2>4
<1>5. Forbidden(p, ds, pos, tt, ks, ms)
  BY <1>4 DEF Forbidden
<1> QED BY <1>1, <1>2, <1>5 DEF DeniedIn

LEMMA DeniedPushed ==
  ASSUME NEW p, NEW ds, NEW us, NEW ss, NEW lits, NEW ls, DeniedIn(p, ds, us, ss, lits, ls),
         Scoped(p, ss, lits, ls), Len(ss) = Len(ls), NEW x
  PROVE  DeniedIn(p, ds, us, Append(ss, Len(us)), lits, Append(ls, x))
<1>1. PICK n \in Nat : n = Len(ls) /\ n = Len(ss)
  BY DEF Scoped
<1>2. PICK tt : tt = Append(ss, Len(us))
  OBVIOUS
<1>3. PICK ms : ms = Append(ls, x)
  OBVIOUS
<1>4. Len(tt) = n + 1 /\ tt[n + 1] = Len(us) /\ \A k \in 1..n : tt[k] = ss[k]
  BY <1>1, <1>2 DEF Scoped
<1>5. Len(ms) = n + 1 /\ \A k \in 1..n : ms[k] = ls[k]
  BY <1>1, <1>3 DEF Scoped
<1>6. Len(lits) \in Nat
  BY DEF Scoped
<1>7. ASSUME NEW k \in 1..n PROVE LimitOf(ms, lits, k) = LimitOf(ls, lits, k)
  <2>1. k <= n /\ k <= n + 1 /\ ms[k] = ls[k]
    BY <1>5
  <2> QED BY <1>1, <1>5, <2>1 DEF LimitOf
<1>8. \A k \in 1..(n + 1) : k \in 1..n \/ k = n + 1
  OBVIOUS
<1>9. \A k \in 1..Len(tt) : \/ tt[k] = Len(us)
                            \/ k \in 1..Len(ss) /\ tt[k] = ss[k] /\ LimitOf(ms, lits, k) = LimitOf(ls, lits, k)
  BY <1>1, <1>4, <1>7, <1>8
<1>10. Len(lits) <= Len(lits) /\ \A q \in 1..Len(lits) : lits[q] = lits[q]
  BY <1>6
<1>11. DeniedIn(p, ds, us, tt, lits, ms)
  BY <1>6, <1>9, <1>10, DeniedScopes
<1> QED BY <1>2, <1>3, <1>11

LEMMA DeniedPopped ==
  ASSUME NEW p, NEW ds, NEW us, NEW ss, NEW lits, NEW ls, DeniedIn(p, ds, us, ss, lits, ls),
         Scoped(p, ss, lits, ls), Len(ss) = Len(ls), ls # << >>
  PROVE  DeniedIn(p, ds, us, ss, SubSeq(lits, 1, Last(ls).asserted), Front(ls))
<1>1. PICK n \in Nat : Len(ls) = n + 1 /\ Len(ss) = n + 1
  <2>1. Len(ls) \in Nat /\ Len(ls) # 0
    BY DEF Scoped
  <2>2. Len(ls) - 1 \in Nat /\ Len(ls) = (Len(ls) - 1) + 1
    BY <2>1
  <2> QED BY <2>2
<1>2. n + 1 \in 1..Len(ls) /\ Last(ls) = ls[n + 1]
  BY <1>1 DEF Last
<1>3. PICK m \in Nat, c \in Nat : m = Last(ls).asserted /\ c = Len(lits) /\ m <= c
  <2>1. ls \in Seq(Limits) /\ lits \in Seq(LitsIn(p)) /\ \A k \in 1..Len(ls) : ls[k].asserted <= Len(lits)
    BY DEF Scoped
  <2>2. ls[n + 1].asserted \in Nat
    BY <1>2, <2>1, LimitFacts
  <2>3. Len(lits) \in Nat /\ ls[n + 1].asserted <= Len(lits)
    BY <1>2, <2>1
  <2> QED BY <1>2, <2>2, <2>3
<1>4. PICK ks : ks = SubSeq(lits, 1, m)
  OBVIOUS
<1>5. PICK ms : ms = Front(ls)
  OBVIOUS
<1>6. Len(ks) = m /\ \A q \in 1..m : ks[q] = lits[q]
  BY <1>3, <1>4 DEF Scoped
<1>7. Len(ms) = n /\ \A k \in 1..n : ms[k] = ls[k]
  BY <1>1, <1>5, FrontFacts DEF Scoped
<1>8. ASSUME NEW k \in 1..(n + 1) PROVE LimitOf(ms, ks, k) = LimitOf(ls, lits, k)
  <2>1. LimitOf(ls, lits, k) = ls[k].asserted
    BY <1>1 DEF LimitOf
  <2>2. CASE k \in 1..n
    <3>1. LimitOf(ms, ks, k) = ms[k].asserted
      BY <1>7, <2>2 DEF LimitOf
    <3> QED BY <1>7, <2>1, <2>2, <3>1
  <2>3. CASE k = n + 1
    <3>1. LimitOf(ms, ks, k) = m
      BY <1>6, <1>7, <2>3 DEF LimitOf
    <3> QED BY <1>2, <1>3, <2>1, <2>3, <3>1
  <2> QED BY <2>2, <2>3
<1>9. \A k \in 1..Len(ss) : \/ ss[k] = Len(us)
                            \/ k \in 1..Len(ss) /\ ss[k] = ss[k] /\ LimitOf(ms, ks, k) = LimitOf(ls, lits, k)
  BY <1>1, <1>8
<1>10. Len(lits) \in Nat /\ Len(ks) \in Nat /\ Len(ks) <= Len(lits) /\ \A q \in 1..Len(ks) : ks[q] = lits[q]
  BY <1>3, <1>6
<1>11. DeniedIn(p, ds, us, ss, ks, ms)
  BY <1>9, <1>10, DeniedScopes
<1> QED BY <1>3, <1>4, <1>5, <1>11

LEMMA DeniedReturned ==
  ASSUME NEW p, NEW ds, NEW us, NEW ss, NEW lits, NEW ls, DeniedIn(p, ds, us, ss, lits, ls),
         Scoped(p, ss, lits, ls), Len(ss) = Len(ls) + 1
  PROVE  DeniedIn(p, ds, us, Front(ss), lits, ls)
<1>1. PICK n \in Nat : n = Len(ls) /\ Len(ss) = n + 1
  BY DEF Scoped
<1>2. PICK tt : tt = Front(ss)
  OBVIOUS
<1>3. Len(tt) = n /\ \A k \in 1..n : tt[k] = ss[k]
  BY <1>1, <1>2, FrontFacts DEF Scoped
<1>4. Len(lits) \in Nat /\ Len(lits) <= Len(lits) /\ \A q \in 1..Len(lits) : lits[q] = lits[q]
  BY DEF Scoped
<1>5. \A k \in 1..n : k \in 1..(n + 1)
  OBVIOUS
<1>6. \A k \in 1..Len(tt) : \/ tt[k] = Len(us)
                            \/ k \in 1..Len(ss) /\ tt[k] = ss[k] /\ LimitOf(ls, lits, k) = LimitOf(ls, lits, k)
  BY <1>1, <1>3, <1>5
<1>7. DeniedIn(p, ds, us, tt, lits, ls)
  BY <1>4, <1>6, DeniedScopes
<1> QED BY <1>2, <1>7

\* What asserted equalities make equal is among the merges asked for, with
\* places that every scope that keeps the literal keeps.
MergedBy(p, l) ==
    LET t == p.terms[AtomOf(l)]
    IN  IF t.op = "Eq" /\ Len(t.args) = 2 /\ l > 0 THEN {<<t.args[1], t.args[2]>>} ELSE {}
KeptAs(f, i, ls, q, pr) ==
    f.a = pr[1] /\ f.b = pr[2] /\ \A k \in 1..Len(ls) : q <= ls[k].asserted => i <= ls[k].facts
MergedIn(p, fs, lits, ls) ==
    \A q \in 1..Len(lits) : \A pr \in MergedBy(p, lits[q]) : \E i \in 1..Len(fs) : KeptAs(fs[i], i, ls, q, pr)

LEMMA MergedMore ==
  ASSUME NEW p, NEW fs, NEW lits, NEW ls, MergedIn(p, fs, lits, ls), NEW gs, Len(fs) \in Nat, Len(gs) \in Nat,
         Len(fs) <= Len(gs), \A i \in 1..Len(fs) : gs[i] = fs[i]
  PROVE  MergedIn(p, gs, lits, ls)
<1>1. \A i \in 1..Len(fs) : i \in 1..Len(gs) /\ gs[i] = fs[i]
  OBVIOUS
<1> QED BY <1>1 DEF MergedIn

LEMMA MergedAdded ==
  ASSUME NEW p, NEW fs, NEW lits, NEW ls, NEW ss, MergedIn(p, fs, lits, ls), Scoped(p, ss, lits, ls), NEW l,
         \A pr \in MergedBy(p, l) : \E i \in 1..Len(fs) : fs[i].a = pr[1] /\ fs[i].b = pr[2]
  PROVE  MergedIn(p, fs, Append(lits, l), ls)
<1>1. PICK c \in Nat : c = Len(lits)
  BY DEF Scoped
<1>2. PICK ks : ks = Append(lits, l)
  OBVIOUS
<1>3. Len(ks) = c + 1 /\ ks[c + 1] = l /\ \A i \in 1..c : ks[i] = lits[i]
  BY <1>1, <1>2 DEF Scoped
<1>4. ASSUME NEW q \in 1..(c + 1), NEW pr \in MergedBy(p, ks[q])
      PROVE  \E i \in 1..Len(fs) : KeptAs(fs[i], i, ls, q, pr)
  <2>1. CASE q \in 1..c
    BY <1>1, <1>3, <1>4, <2>1 DEF MergedIn
  <2>2. CASE q = c + 1
    <3>1. PICK i \in 1..Len(fs) : fs[i].a = pr[1] /\ fs[i].b = pr[2]
      BY <1>3, <1>4, <2>2
    <3>2. ASSUME NEW k \in 1..Len(ls) PROVE ~(q <= ls[k].asserted)
      <4>1. ls[k].asserted \in Nat /\ ls[k].asserted <= c
        BY <1>1, LimitFacts DEF Scoped
      <4>2. PICK x \in Nat : x = ls[k].asserted
        BY <4>1
      <4> QED BY <2>2, <4>1, <4>2
    <3> QED BY <3>1, <3>2 DEF KeptAs
  <2>3. q \in 1..c \/ q = c + 1
    OBVIOUS
  <2> QED BY <2>1, <2>2, <2>3
<1> QED BY <1>2, <1>3, <1>4 DEF MergedIn

LEMMA MergedPushed ==
  ASSUME NEW p, NEW fs, NEW lits, NEW ls, NEW ss, MergedIn(p, fs, lits, ls), Scoped(p, ss, lits, ls),
         Len(fs) \in Nat, NEW n
  PROVE  MergedIn(p, fs, lits, Append(ls, [asserted |-> n, facts |-> Len(fs)]))
<1>1. PICK c \in Nat : c = Len(ls)
  BY DEF Scoped
<1>2. PICK x : x = [asserted |-> n, facts |-> Len(fs)]
  OBVIOUS
<1>3. x.facts = Len(fs)
  BY <1>2
<1>4. PICK ms : ms = Append(ls, x)
  OBVIOUS
<1>5. Len(ms) = c + 1 /\ ms[c + 1] = x /\ \A k \in 1..c : ms[k] = ls[k]
  BY <1>1, <1>4 DEF Scoped
<1>6. ASSUME NEW q \in 1..Len(lits), NEW pr \in MergedBy(p, lits[q])
      PROVE  \E i \in 1..Len(fs) : KeptAs(fs[i], i, ms, q, pr)
  <2>1. PICK i \in 1..Len(fs) : KeptAs(fs[i], i, ls, q, pr)
    BY <1>6 DEF MergedIn
  <2>2. ASSUME NEW k \in 1..(c + 1), q <= ms[k].asserted PROVE i <= ms[k].facts
    <3>1. CASE k \in 1..c
      BY <1>1, <1>5, <2>1, <2>2, <3>1 DEF KeptAs
    <3>2. CASE k = c + 1
      BY <1>3, <1>5, <3>2
    <3>3. k \in 1..c \/ k = c + 1
      OBVIOUS
    <3> QED BY <3>1, <3>2, <3>3
  <2>3. KeptAs(fs[i], i, ms, q, pr)
    BY <1>5, <2>1, <2>2 DEF KeptAs
  <2> QED BY <2>3
<1> QED BY <1>2, <1>4, <1>6 DEF MergedIn

LEMMA MergedPopped ==
  ASSUME NEW p, NEW fs, NEW lits, NEW ls, NEW ss, MergedIn(p, fs, lits, ls), Scoped(p, ss, lits, ls),
         NEW S, fs \in Seq(S), ls # << >>, \A k \in 1..Len(ls) : ls[k].facts <= Len(fs)
  PROVE  MergedIn(p, SubSeq(fs, 1, Last(ls).facts), SubSeq(lits, 1, Last(ls).asserted), Front(ls))
<1>1. PICK n \in Nat : Len(ls) = n + 1
  <2>1. Len(ls) \in Nat /\ Len(ls) # 0
    BY DEF Scoped
  <2>2. Len(ls) - 1 \in Nat /\ Len(ls) = (Len(ls) - 1) + 1
    BY <2>1
  <2> QED BY <2>2
<1>2. n + 1 \in 1..Len(ls) /\ Last(ls) = ls[n + 1]
  BY <1>1 DEF Last
<1>3. PICK m \in Nat, c \in Nat : m = Last(ls).asserted /\ c = Len(lits) /\ m <= c
  <2>1. ls \in Seq(Limits) /\ lits \in Seq(LitsIn(p)) /\ \A k \in 1..Len(ls) : ls[k].asserted <= Len(lits)
    BY DEF Scoped
  <2>2. ls[n + 1].asserted \in Nat
    BY <1>2, <2>1, LimitFacts
  <2>3. Len(lits) \in Nat /\ ls[n + 1].asserted <= Len(lits)
    BY <1>2, <2>1
  <2> QED BY <1>2, <2>2, <2>3
<1>4. PICK g \in Nat : g = Last(ls).facts /\ g <= Len(fs)
  <2>1. ls \in Seq(Limits)
    BY DEF Scoped
  <2>2. ls[n + 1].facts \in Nat
    BY <1>2, <2>1, LimitFacts
  <2> QED BY <1>2, <2>2
<1>5. PICK ks : ks = SubSeq(lits, 1, m)
  OBVIOUS
<1>6. PICK ms : ms = Front(ls)
  OBVIOUS
<1>7. PICK gs : gs = SubSeq(fs, 1, g)
  OBVIOUS
<1>8. Len(ks) = m /\ \A q \in 1..m : ks[q] = lits[q]
  BY <1>3, <1>5 DEF Scoped
<1>9. Len(ms) = n /\ \A k \in 1..n : ms[k] = ls[k]
  BY <1>1, <1>6, FrontFacts DEF Scoped
<1>10. Len(gs) = g /\ \A i \in 1..g : gs[i] = fs[i]
  BY <1>4, <1>7
<1>11. ASSUME NEW q \in 1..m, NEW pr \in MergedBy(p, ks[q])
       PROVE  \E i \in 1..g : KeptAs(gs[i], i, ms, q, pr)
  <2>1. q \in 1..Len(lits) /\ ks[q] = lits[q]
    BY <1>3, <1>8
  <2>2. PICK i \in 1..Len(fs) : KeptAs(fs[i], i, ls, q, pr)
    BY <1>11, <2>1 DEF MergedIn
  <2>3. i <= g
    BY <1>2, <1>3, <1>4, <2>2 DEF KeptAs
  <2>4. i \in 1..g /\ gs[i] = fs[i]
    BY <1>10, <2>3
  <2>5. \A k \in 1..n : k \in 1..Len(ls)
    BY <1>1
  <2>6. KeptAs(gs[i], i, ms, q, pr)
    BY <1>9, <2>2, <2>4, <2>5 DEF KeptAs
  <2> QED BY <2>4, <2>6
<1>12. MergedIn(p, gs, ks, ms)
  BY <1>8, <1>10, <1>11 DEF MergedIn
<1> QED BY <1>3, <1>4, <1>5, <1>6, <1>7, <1>12

-----------------------------------------------------------------------------
(* The steps of the theories, for what is forbidden.  Ok comes only from a  *)
(* check that finds no disequality between equal terms.                     *)

DenialsVars == <<problem, disequalities, undo_trail, euf_scopes, asserted, lims, facts>>
Denials ==
    /\ DeniedIn(problem, disequalities, undo_trail, euf_scopes, asserted, lims)
    /\ MergedIn(problem, facts, asserted, lims)
Settles == answer = "Ok" => Idle /\ Violated = {}

LEMMA ScopedFacts ==
  ASSUME Theories
  PROVE  /\ Scoped(problem, euf_scopes, asserted, lims) /\ problem \in Problems
         /\ undo_trail \in Seq(UndoIn(problem)) /\ facts \in Seq(MergesIn(problem))
         /\ \A k \in 1..Len(lims) : lims[k].facts <= Len(facts)
<1>1. History(problem, parent, sig_lookup, use_list, undo_trail, euf_scopes, lims, facts) /\ problem \in Problems
  BY DEF Theories, Equality
<1>2. /\ HistoryTypes(problem, parent, sig_lookup, use_list, undo_trail, euf_scopes, lims, facts)
      /\ ScopesBack(problem, parent, sig_lookup, use_list, undo_trail, euf_scopes, lims, facts)
  BY <1>1 DEF History
<1>3. /\ undo_trail \in Seq(UndoIn(problem)) /\ facts \in Seq(MergesIn(problem))
      /\ euf_scopes \in Seq(Nat) /\ lims \in Seq(Limits)
  BY <1>2 DEF HistoryTypes, TrailOK
<1>4. \A k \in 1..Len(lims) : lims[k].facts <= Len(facts)
  BY <1>2 DEF ScopesBack
<1>5. asserted \in Seq(LitsIn(problem)) /\ \A k \in 1..Len(lims) : lims[k].asserted <= Len(asserted)
  <2>1. ArithIn(problem, columns, undo_stack, asserted, simplex_scopes, lims)
    BY DEF Theories, Arith
  <2>2. ScopesFrom(problem, columns, undo_stack, asserted, simplex_scopes, lims)
    BY <2>1 DEF ArithIn
  <2>3. \A k \in 1..Len(lims) : lims[k].asserted <= Len(asserted)
    BY <2>2 DEF ScopesFrom
  <2> QED BY <2>1, <2>3 DEF ArithIn
<1> QED BY <1>1, <1>3, <1>4, <1>5 DEF Scoped

LEMMA KeptDenials ==
  ASSUME Denials, UNCHANGED DenialsVars
  PROVE  Denials'
BY DEF Denials, DenialsVars

\* An equality is merged, or nothing is done about the literal.
LEMMA HarmlessDenials ==
  ASSUME Theories, Denials, NEW l, Len(euf_scopes) = Len(lims), ForbiddenBy(problem, l) = {},
         asserted' = Append(asserted, l),
         NEW new \in Seq(MergesIn(problem)), facts' = facts \o new,
         \A pr \in MergedBy(problem, l) : \E i \in 1..Len(new) : new[i].a = pr[1] /\ new[i].b = pr[2],
         UNCHANGED <<problem, disequalities, undo_trail, euf_scopes, lims>>
  PROVE  Denials'
<1>1. /\ Scoped(problem, euf_scopes, asserted, lims) /\ undo_trail \in Seq(UndoIn(problem))
      /\ facts \in Seq(MergesIn(problem))
  BY ScopedFacts
<1>2. /\ DeniedIn(problem, disequalities, undo_trail, euf_scopes, asserted, lims)
      /\ MergedIn(problem, facts, asserted, lims) /\ disequalities \in Seq(DisequalitiesIn(problem))
  BY DEF Denials, DeniedIn
<1>3. PICK none : none = << >>
  OBVIOUS
<1>4. MakesAll(problem, none, 0, l)
  <2>1. none \in Seq(DisequalitiesIn(problem)) /\ Len(none) = 0
    BY <1>3
  <2> QED BY <2>1 DEF MakesAll
<1>5. DeniedIn(problem, disequalities \o none, undo_trail \o [i \in 1..0 |-> Disequality], euf_scopes,
               Append(asserted, l), lims)
  BY <1>1, <1>2, <1>4, DeniedAdded
<1>6. disequalities \o none = disequalities
  <2> DEFINE S == DisequalitiesIn(problem)
  <2>1. disequalities \in Seq(S)
    BY <1>2
  <2> HIDE DEF S
  <2> QED BY <1>3, <2>1
<1>7. undo_trail \o [i \in 1..0 |-> Disequality] = undo_trail
  <2> DEFINE S == UndoIn(problem)
             tail == [i \in 1..0 |-> Disequality]
  <2>1. undo_trail \in Seq(S)
    BY <1>1
  <2>2. tail = << >>
    OBVIOUS
  <2> HIDE DEF S, tail
  <2>3. undo_trail \o tail = undo_trail
    BY <2>1, <2>2
  <2> QED BY <2>3 DEF tail
<1>8. PICK gs : gs = facts \o new
  OBVIOUS
<1>9. /\ Len(facts) \in Nat /\ Len(gs) \in Nat /\ Len(facts) <= Len(gs) /\ \A i \in 1..Len(facts) : gs[i] = facts[i]
      /\ \A i \in 1..Len(new) : Len(facts) + i \in 1..Len(gs) /\ gs[Len(facts) + i] = new[i]
  <2> DEFINE S == MergesIn(problem)
  <2>1. facts \in Seq(S) /\ new \in Seq(S)
    BY <1>1
  <2> HIDE DEF S
  <2>2. Len(gs) = Len(facts) + Len(new) /\ Len(facts) \in Nat /\ Len(new) \in Nat
    BY <1>8, <2>1, ConcatFacts
  <2> QED BY <1>8, <2>1, <2>2, ConcatFacts
<1>10. MergedIn(problem, gs, asserted, lims)
  BY <1>2, <1>9, MergedMore
<1>11. ASSUME NEW pr \in MergedBy(problem, l) PROVE \E i \in 1..Len(gs) : gs[i].a = pr[1] /\ gs[i].b = pr[2]
  <2>1. PICK i \in 1..Len(new) : new[i].a = pr[1] /\ new[i].b = pr[2]
    OBVIOUS
  <2>2. PICK j \in 1..Len(gs) : gs[j] = new[i]
    BY <1>9
  <2> QED BY <2>1, <2>2
<1>12. MergedIn(problem, gs, Append(asserted, l), lims)
  BY <1>1, <1>10, <1>11, MergedAdded
<1> QED BY <1>5, <1>6, <1>7, <1>8, <1>12 DEF Denials

\* A negated equality or a distinct makes the disequalities of its arguments.
LEMMA DifferDenials ==
  ASSUME Theories, Denials, NEW l, AtomOf(l) \in TermIds, l \in ReasonsIn(problem), Len(euf_scopes) = Len(lims),
         Op(AtomOf(l)) = "Distinct" \/ l < 0, asserted' = Append(asserted, l),
         Differ(Disequalities(AtomOf(l), l)), facts' = facts, UNCHANGED <<problem, euf_scopes, lims>>
  PROVE  Denials'
<1> DEFINE p == problem
<1>1. Scoped(p, euf_scopes, asserted, lims) /\ undo_trail \in Seq(UndoIn(p)) /\ facts \in Seq(MergesIn(p)) /\ p \in Problems
  BY ScopedFacts
<1>2. /\ DeniedIn(p, disequalities, undo_trail, euf_scopes, asserted, lims)
      /\ MergedIn(p, facts, asserted, lims)
  BY DEF Denials
<1>3. PICK s : s = Args(AtomOf(l))
  OBVIOUS
<1>4. TermIds = Ids(p)
  BY <1>1, AppsFacts
<1>5. s \in Seq(Ids(p))
  <2>1. /\ s \in Seq(Nat) /\ \A i \in 1..Len(s) : s[i] \in TermIds
    BY <1>1, <1>3, ArenaFacts
  <2> QED BY <1>4, <2>1
<1>6. PICK q : q = PairsOf(s)
  OBVIOUS
<1>7. q \in Seq(Ids(p) \X Ids(p))
  BY <1>5, <1>6, PairsFacts
<1>8. PICK new : new = Disequalities(AtomOf(l), l)
  OBVIOUS
<1>9. new = [i \in 1..Len(q) |-> [a |-> q[i][1], b |-> q[i][2], lit |-> l]]
  BY <1>3, <1>6, <1>8 DEF Disequalities, ArgPairSeq
<1>10. PICK m \in Nat : m = Len(q)
  BY <1>7
<1>11. \A i \in 1..m : q[i] \in Ids(p) \X Ids(p)
  BY <1>7, <1>10
<1>12. new \in Seq(DisequalitiesIn(p)) /\ Len(new) = m
  <2>1. \A i \in 1..m : new[i] = [a |-> q[i][1], b |-> q[i][2], lit |-> l]
    BY <1>9, <1>10
  <2>2. ASSUME NEW i \in 1..m PROVE new[i] \in DisequalitiesIn(p)
    <3>1. q[i][1] \in Ids(p) /\ q[i][2] \in Ids(p)
      BY <1>11
    <3>2. PICK x, y : x = q[i][1] /\ y = q[i][2]
      OBVIOUS
    <3>3. [a |-> x, b |-> y, lit |-> l] \in DisequalitiesIn(p)
      BY <3>1, <3>2 DEF DisequalitiesIn
    <3> QED BY <2>1, <3>2, <3>3
  <2>3. new = [i \in 1..m |-> new[i]]
    BY <1>9, <1>10
  <2> QED BY <2>2, <2>3
<1>13. MakesAll(p, new, m, l)
  <2>1. ASSUME NEW pr \in ForbiddenBy(p, l) PROVE \E i \in 1..m : new[i].a = pr[1] /\ new[i].b = pr[2]
    <3>1. pr \in ToSet(q)
      BY <1>3, <1>6 DEF ForbiddenBy, Args, terms
    <3>2. PICK i \in 1..m : pr = q[i]
      BY <1>10, <3>1 DEF ToSet
    <3>3. new[i].a = q[i][1] /\ new[i].b = q[i][2]
      BY <1>9, <1>10
    <3> QED BY <3>2, <3>3
  <2> QED BY <1>12, <2>1 DEF MakesAll
<1>14. DeniedIn(p, disequalities \o new, undo_trail \o [i \in 1..m |-> Disequality], euf_scopes,
                Append(asserted, l), lims)
  BY <1>1, <1>2, <1>13, DeniedAdded
<1>15. disequalities' = disequalities \o new /\ undo_trail' = undo_trail \o [i \in 1..m |-> Disequality]
  BY <1>8, <1>12 DEF Differ
<1>16. MergedBy(p, l) = {}
  <2>1. p.terms[AtomOf(l)].op = "Distinct" \/ l < 0
    BY DEF Op, terms
  <2>2. l \in Int
    BY DEF ReasonsIn
  <2> QED BY <2>1, <2>2 DEF MergedBy
<1>17. MergedIn(p, facts, Append(asserted, l), lims)
  BY <1>1, <1>2, <1>16, MergedAdded
<1> QED BY <1>14, <1>15, <1>17 DEF Denials

LEMMA AssertedDenials ==
  ASSUME Theories, Denials, NEW l \in AtomLits, AssertLit(l)
  PROVE  Denials'
<1>1. /\ EufAssert(l) /\ asserted' = Append(asserted, l) /\ facts' = facts \o merges'
      /\ UNCHANGED <<problem, lims>> /\ euf_pc = "ready"
  BY DEF AssertLit, EufAssert
<1>2. /\ problem \in Problems /\ merges = << >> /\ Len(euf_scopes) = Len(lims)
  BY <1>1, ReadyFacts DEF Theories
<1>3. AtomOf(l) \in TermIds /\ l \in ReasonsIn(problem) /\ l # 0 /\ l \in Int /\ TermIds = Ids(problem)
  <2>1. AtomOf(l) \in TermIds /\ l # 0 /\ l \in Int /\ TermIds = Ids(problem)
    BY <1>2, LitFacts, AppsFacts DEF LitsIn
  <2>2. AtomOf(l) \in Atoms
    <3>1. \A t \in Atoms : t \in Int /\ t > 0
      BY DEF Atoms, TermIds
    <3>2. CASE l \in Atoms
      BY <3>1, <3>2 DEF AtomOf
    <3>3. CASE l \in {-t : t \in Atoms}
      <4>1. PICK t \in Atoms : l = -t
        BY <3>3
      <4>2. AtomOf(l) = t
        BY <3>1, <4>1 DEF AtomOf
      <4> QED BY <4>2
    <3> QED BY <3>2, <3>3 DEF AtomLits
  <2> QED BY <2>1, <2>2 DEF Atoms, ReasonsIn, Op, terms
<1>4. PICK t \in TermIds : t = AtomOf(l)
  BY <1>3
<1>5. UNCHANGED euf_scopes
  BY <1>1 DEF EufAssert
<1>6. ForbiddenBy(problem, l) # {} => Op(t) = "Distinct" \/ (IsEq(t) /\ l < 0)
  BY <1>4 DEF ForbiddenBy, IsEq, Op, Args, terms
<1>7. MergedBy(problem, l) = IF IsEq(t) /\ l > 0 THEN {<<Args(t)[1], Args(t)[2]>>} ELSE {}
  BY <1>4 DEF MergedBy, IsEq, Op, Args, terms
<1>8. CASE IsEq(t) /\ l > 0 /\ CallMerge(Args(t)[1], Args(t)[2], l)
  <2>1. Len(Args(t)) = 2 /\ Op(t) = "Eq"
    BY <1>8 DEF IsEq
  <2>2. 1 \in 1..Len(Args(t)) /\ 2 \in 1..Len(Args(t))
    BY <2>1
  <2>3. Args(t)[1] \in TermIds /\ Args(t)[2] \in TermIds
    BY <1>2, <2>2, ArenaFacts
  <2>4. PICK m : m = [a |-> Args(t)[1], b |-> Args(t)[2], reason |-> l]
    OBVIOUS
  <2>5. m \in MergesIn(problem) /\ m.a = Args(t)[1] /\ m.b = Args(t)[2]
    BY <1>3, <2>3, <2>4 DEF MergesIn
  <2>6. PICK new : new = <<m>>
    OBVIOUS
  <2>7. new \in Seq(MergesIn(problem)) /\ Len(new) = 1 /\ new[1] = m
    BY <2>5, <2>6
  <2>8. /\ facts' = facts \o new
        /\ UNCHANGED <<problem, disequalities, undo_trail, euf_scopes, lims>>
    BY <1>1, <1>5, <1>8, <2>4, <2>6 DEF CallMerge, eufData
  <2>9. ForbiddenBy(problem, l) = {}
    BY <1>3, <1>6, <1>8, <2>1
  <2>10. ASSUME NEW pr \in MergedBy(problem, l) PROVE \E i \in 1..Len(new) : new[i].a = pr[1] /\ new[i].b = pr[2]
    <3>1. pr = <<Args(t)[1], Args(t)[2]>>
      BY <1>7, <1>8
    <3>2. 1 \in 1..Len(new) /\ new[1].a = pr[1] /\ new[1].b = pr[2]
      BY <2>5, <2>7, <3>1
    <3> QED BY <3>2
  <2> QED BY <1>1, <1>2, <2>7, <2>8, <2>9, <2>10, HarmlessDenials
<1>9. CASE (Op(t) = "Distinct" \/ (IsEq(t) /\ l < 0)) /\ Differ(Disequalities(t, l))
  <2>1. merges' = << >>
    BY <1>2, <1>9 DEF Differ, eufControl
  <2>2. facts' = facts
    BY <1>1, <2>1, FactsKept DEF Theories
  <2> QED BY <1>1, <1>2, <1>3, <1>4, <1>5, <1>9, <2>2, DifferDenials
<1>10. CASE ~IsEq(t) /\ Op(t) # "Distinct" /\ UNCHANGED <<eufData, undo_trail, eufControl>>
  <2>1. merges' = << >>
    BY <1>2, <1>10 DEF eufControl
  <2>2. PICK new : new = << >>
    OBVIOUS
  <2>3. new \in Seq(MergesIn(problem)) /\ facts' = facts \o new
    BY <1>1, <2>1, <2>2
  <2>4. ForbiddenBy(problem, l) = {} /\ MergedBy(problem, l) = {}
    BY <1>6, <1>7, <1>10
  <2>5. UNCHANGED <<problem, disequalities, undo_trail, euf_scopes, lims>>
    BY <1>1, <1>5, <1>10 DEF eufData
  <2> QED BY <1>1, <1>2, <2>3, <2>4, <2>5, HarmlessDenials
<1> QED BY <1>1, <1>4, <1>8, <1>9, <1>10 DEF EufAssert

LEMMA TwoMore ==
  ASSUME NEW S, NEW s \in Seq(S), NEW x, NEW y
  PROVE  /\ Len(s \o <<x, y>>) = Len(s) + 2 /\ \A i \in 1..Len(s) : (s \o <<x, y>>)[i] = s[i]
         /\ (s \o <<x, y>>)[Len(s) + 1] = x /\ (s \o <<x, y>>)[Len(s) + 2] = y
OBVIOUS

LEMMA OneMore ==
  ASSUME NEW S, NEW s \in Seq(S), NEW x
  PROVE  /\ Len(Append(s, x)) = Len(s) + 1 /\ \A i \in 1..Len(s) : Append(s, x)[i] = s[i]
         /\ Append(s, x)[Len(s) + 1] = x
OBVIOUS

\* Links and signatures leave entries of the trail, not of disequalities.
LEMMA LinkDenials ==
  ASSUME Theories, Theories', Denials, MergeLink, UNCHANGED <<problem, asserted, lims, facts>>
  PROVE  Denials'
<1>1. undo_trail \in Seq(UndoIn(problem)) /\ undo_trail' \in Seq(UndoIn(problem))
  <2>1. undo_trail' \in Seq(UndoIn(problem'))
    BY DEF Theories, Equality, History, HistoryTypes, TrailOK
  <2> QED BY <2>1, ScopedFacts
<1>2. PICK x, y : undo_trail' = undo_trail \o <<x, y>> /\ x.kind # "AddDisequality" /\ y.kind # "AddDisequality"
  <2>1. \E a, b, c, d, e : undo_trail' = undo_trail \o <<ProofEdge(a, b), Linking(c, d, e)>>
    BY DEF MergeLink
  <2>2. \A a, b, c, d, e : ProofEdge(a, b).kind # "AddDisequality" /\ Linking(c, d, e).kind # "AddDisequality"
    BY DEF ProofEdge, Linking
  <2> QED BY <2>1, <2>2
<1>3. PICK ws : ws = undo_trail'
  OBVIOUS
<1>4. /\ Len(ws) = Len(undo_trail) + 2 /\ \A i \in 1..Len(undo_trail) : ws[i] = undo_trail[i]
      /\ ws[Len(undo_trail) + 1] = x /\ ws[Len(undo_trail) + 2] = y /\ Len(undo_trail) \in Nat
  <2> DEFINE S == UndoIn(problem)
  <2>1. undo_trail \in Seq(S)
    BY <1>1
  <2> HIDE DEF S
  <2> QED BY <1>2, <1>3, <2>1, TwoMore
<1>5. ASSUME NEW i \in 1..Len(ws), i > Len(undo_trail) PROVE ws[i].kind # "AddDisequality"
  <2>1. i = Len(undo_trail) + 1 \/ i = Len(undo_trail) + 2
    BY <1>4, <1>5
  <2> QED BY <1>2, <1>4, <2>1
<1>6. DeniedIn(problem, disequalities, undo_trail, euf_scopes, asserted, lims) /\ ws \in Seq(UndoIn(problem))
  BY <1>1, <1>3 DEF Denials
<1>7. Len(undo_trail) <= Len(ws)
  BY <1>4
<1>8. DeniedIn(problem, disequalities, ws, euf_scopes, asserted, lims)
  BY <1>4, <1>5, <1>6, <1>7, DeniedKept
<1> QED BY <1>3, <1>8 DEF MergeLink, Denials

LEMMA VisitDenials ==
  ASSUME Theories, Theories', Denials, VisitUse, UNCHANGED <<problem, asserted, lims, facts>>
  PROVE  Denials'
<1>1. CASE UNCHANGED undo_trail
  BY <1>1, KeptDenials DEF VisitUse, DenialsVars
<1>2. ASSUME NEW s, undo_trail' = Append(undo_trail, Lookup(s)) PROVE Denials'
  <2>1. undo_trail \in Seq(UndoIn(problem)) /\ undo_trail' \in Seq(UndoIn(problem))
    <3>1. undo_trail' \in Seq(UndoIn(problem'))
      BY DEF Theories, Equality, History, HistoryTypes, TrailOK
    <3> QED BY <3>1, ScopedFacts
  <2>2. PICK ws : ws = undo_trail'
    OBVIOUS
  <2>3. PICK x : x = Lookup(s)
    OBVIOUS
  <2>4. x.kind # "AddDisequality"
    BY <2>3 DEF Lookup
  <2>5. /\ Len(ws) = Len(undo_trail) + 1 /\ \A i \in 1..Len(undo_trail) : ws[i] = undo_trail[i]
        /\ ws[Len(undo_trail) + 1] = x /\ Len(undo_trail) \in Nat
    <3> DEFINE S == UndoIn(problem)
    <3>1. undo_trail \in Seq(S)
      BY <2>1
    <3> HIDE DEF S
    <3> QED BY <1>2, <2>2, <2>3, <3>1, OneMore
  <2>6. ASSUME NEW i \in 1..Len(ws), i > Len(undo_trail) PROVE ws[i].kind # "AddDisequality"
    <3>1. i = Len(undo_trail) + 1
      BY <2>5, <2>6
    <3> QED BY <2>4, <2>5, <3>1
  <2>7. DeniedIn(problem, disequalities, undo_trail, euf_scopes, asserted, lims) /\ ws \in Seq(UndoIn(problem))
    BY <2>1, <2>2 DEF Denials
  <2>8. Len(undo_trail) <= Len(ws)
    BY <2>5
  <2>9. DeniedIn(problem, disequalities, ws, euf_scopes, asserted, lims)
    BY <2>5, <2>6, <2>7, <2>8, DeniedKept
  <2> QED BY <2>2, <2>9 DEF VisitUse, Denials
<1> QED BY <1>1, <1>2 DEF VisitUse

\* What pop undoes takes its disequality along, and no other entry does.
LEMMA UndoingFacts ==
  ASSUME Theories, Theories', NEW kind, Undoing(kind), UNCHANGED problem
  PROVE  /\ undo_trail' \in Seq(UndoIn(problem)) /\ Len(undo_trail) = Len(undo_trail') + 1
         /\ \A i \in 1..Len(undo_trail') : undo_trail[i] = undo_trail'[i]
         /\ undo_trail[Len(undo_trail') + 1].kind = kind
         /\ Len(euf_scopes) = Len(lims) + 1 /\ euf_scopes[Len(euf_scopes)] <= Len(undo_trail')
         /\ UNCHANGED euf_scopes
<1>1. /\ euf_pc = "undo" /\ Len(undo_trail) > Last(euf_scopes) /\ Last(undo_trail).kind = kind
      /\ undo_trail' = Front(undo_trail) /\ UNCHANGED euf_scopes
  BY DEF Undoing
<1>2. PICK ws : ws = Front(undo_trail)
  OBVIOUS
<1>3. /\ Len(ws) \in Nat /\ Len(undo_trail) = Len(ws) + 1 /\ \A i \in 1..Len(ws) : undo_trail[i] = ws[i]
      /\ undo_trail[Len(ws) + 1] = Last(undo_trail)
  BY <1>1, <1>2, LastEntry DEF Theories
<1>4. undo_trail' \in Seq(UndoIn(problem))
  BY DEF Theories, Equality, History, HistoryTypes, TrailOK
<1>5. Len(euf_scopes) = Len(lims) + 1
  BY <1>1 DEF Theories, Equality
<1>6. euf_scopes \in Seq(Nat) /\ lims \in Seq(Limits)
  BY ScopedFacts DEF Scoped
<1>7. euf_scopes[Len(euf_scopes)] \in Nat /\ euf_scopes[Len(euf_scopes)] = Last(euf_scopes)
  BY <1>5, <1>6 DEF Last
<1>8. euf_scopes[Len(euf_scopes)] <= Len(ws)
  BY <1>1, <1>3, <1>7
<1> QED BY <1>1, <1>2, <1>3, <1>4, <1>5, <1>8

LEMMA UndoOtherDenials ==
  ASSUME Theories, Theories', Denials, UndoLink \/ UndoProofEdge \/ UndoLookup,
         UNCHANGED <<problem, asserted, lims, facts>>
  PROVE  Denials'
<1>1. PICK kind : Undoing(kind) /\ kind # "AddDisequality" /\ UNCHANGED disequalities
  BY DEF UndoLink, UndoProofEdge, UndoLookup
<1>2. PICK ws : ws = undo_trail'
  OBVIOUS
<1>3. /\ ws \in Seq(UndoIn(problem)) /\ Len(undo_trail) = Len(ws) + 1 /\ \A i \in 1..Len(ws) : undo_trail[i] = ws[i]
      /\ undo_trail[Len(ws) + 1].kind # "AddDisequality" /\ UNCHANGED euf_scopes
  BY <1>1, <1>2, UndoingFacts
<1>4. DeniedIn(problem, disequalities, undo_trail, euf_scopes, asserted, lims)
  BY DEF Denials
<1>5. DeniedIn(problem, disequalities, ws, euf_scopes, asserted, lims)
  BY <1>3, <1>4, DeniedCut
<1> QED BY <1>1, <1>2, <1>3, <1>5 DEF Denials

LEMMA UndoDisequalityDenials ==
  ASSUME Theories, Theories', Denials, UndoDisequality, UNCHANGED <<problem, asserted, lims, facts>>
  PROVE  Denials'
<1>1. Undoing("AddDisequality") /\ disequalities' = Front(disequalities)
  BY DEF UndoDisequality
<1>2. PICK ws : ws = undo_trail'
  OBVIOUS
<1>3. /\ ws \in Seq(UndoIn(problem)) /\ Len(undo_trail) = Len(ws) + 1 /\ \A i \in 1..Len(ws) : undo_trail[i] = ws[i]
      /\ undo_trail[Len(ws) + 1].kind = "AddDisequality" /\ UNCHANGED euf_scopes
      /\ Len(euf_scopes) = Len(lims) + 1 /\ euf_scopes[Len(euf_scopes)] <= Len(ws)
  BY <1>1, <1>2, UndoingFacts
<1>4. /\ DeniedIn(problem, disequalities, undo_trail, euf_scopes, asserted, lims)
      /\ Scoped(problem, euf_scopes, asserted, lims)
  BY ScopedFacts DEF Denials
<1>5. DeniedIn(problem, Front(disequalities), ws, euf_scopes, asserted, lims)
  BY <1>3, <1>4, DeniedDropped
<1> QED BY <1>1, <1>2, <1>3, <1>5 DEF Denials

LEMMA ReturnDenials ==
  ASSUME Theories, Denials, PopReturn, UNCHANGED <<problem, asserted, lims, facts>>
  PROVE  Denials'
<1>1. Len(euf_scopes) = Len(lims) + 1 /\ Scoped(problem, euf_scopes, asserted, lims)
  BY ScopedFacts DEF PopReturn, Theories, Equality
<1>2. DeniedIn(problem, disequalities, undo_trail, Front(euf_scopes), asserted, lims)
  BY <1>1, DeniedReturned DEF Denials
<1> QED BY <1>2 DEF PopReturn, Denials, eufData

LEMMA PushedDenials ==
  ASSUME Theories, Denials, Push
  PROVE  Denials'
<1>1. /\ euf_pc = "ready" /\ euf_scopes' = Append(euf_scopes, Len(undo_trail))
      /\ lims' = Append(lims, [asserted |-> Len(asserted), facts |-> Len(facts)])
      /\ UNCHANGED <<problem, facts, asserted, undo_trail, disequalities>>
  BY DEF Push, EufPush, eufData, eufControl
<1>2. /\ Scoped(problem, euf_scopes, asserted, lims) /\ Len(euf_scopes) = Len(lims) /\ Len(facts) \in Nat
  BY <1>1, ScopedFacts, ReadyFacts DEF Theories
<1>3. DeniedIn(problem, disequalities, undo_trail, euf_scopes', asserted, lims')
  BY <1>1, <1>2, DeniedPushed DEF Denials
<1>4. MergedIn(problem, facts, asserted, lims')
  BY <1>1, <1>2, MergedPushed DEF Denials
<1> QED BY <1>1, <1>3, <1>4 DEF Denials

LEMMA PoppedDenials ==
  ASSUME Theories, Denials, Pop
  PROVE  Denials'
<1>1. /\ euf_pc = "ready" /\ lims # << >> /\ lims' = Front(lims)
      /\ facts' = SubSeq(facts, 1, Last(lims).facts) /\ asserted' = SubSeq(asserted, 1, Last(lims).asserted)
      /\ UNCHANGED <<problem, undo_trail, disequalities, euf_scopes>>
  BY DEF Pop, Idle, Quiet, EufPop, eufData
<1>2. /\ Scoped(problem, euf_scopes, asserted, lims) /\ Len(euf_scopes) = Len(lims)
      /\ facts \in Seq(MergesIn(problem)) /\ \A k \in 1..Len(lims) : lims[k].facts <= Len(facts)
  BY <1>1, ScopedFacts, ReadyFacts DEF Theories
<1>3. DeniedIn(problem, disequalities, undo_trail, euf_scopes, asserted', lims')
  BY <1>1, <1>2, DeniedPopped DEF Denials
<1>4. MergedIn(problem, facts', asserted', lims')
  BY <1>1, <1>2, MergedPopped DEF Denials
<1> QED BY <1>1, <1>3, <1>4 DEF Denials

LEMMA SharedDenials ==
  ASSUME Theories, Theories', Denials, UNCHANGED <<problem, disequalities, undo_trail, euf_scopes, asserted, lims>>,
         facts' = facts \o merges', merges' \in Seq(MergesIn(problem))
  PROVE  Denials'
<1>1. PICK gs : gs = facts'
  OBVIOUS
<1>2. /\ Len(facts) \in Nat /\ Len(gs) \in Nat /\ Len(facts) <= Len(gs) /\ \A i \in 1..Len(facts) : gs[i] = facts[i]
  <2> DEFINE S == MergesIn(problem)
  <2>1. PICK new \in Seq(S) : gs = facts \o new
    BY <1>1
  <2>2. facts \in Seq(S)
    BY ScopedFacts
  <2> HIDE DEF S
  <2>3. Len(gs) = Len(facts) + Len(new) /\ Len(facts) \in Nat /\ Len(new) \in Nat
    BY <2>1, <2>2, ConcatFacts
  <2> QED BY <2>1, <2>2, <2>3, ConcatFacts
<1>3. MergedIn(problem, gs, asserted, lims)
  BY <1>2, MergedMore DEF Denials
<1> QED BY <1>1, <1>3 DEF Denials

LEMMA DenialsStep ==
  ASSUME Theories, Theories', Denials, [Next]_vars
  PROVE  Denials'
<1>1. ASSUME NEW l \in AtomLits, AssertLit(l) PROVE Denials'
  BY <1>1, AssertedDenials
<1>2. CASE Push
  BY <1>2, PushedDenials
<1>3. CASE Pop
  BY <1>3, PoppedDenials
<1>4. CASE Check \/ SimplexReturned \/ Recheck
  <2>1. UNCHANGED DenialsVars
    BY <1>4 DEF Check, SimplexReturned, Recheck, KeepCalls, DenialsVars, eufVars, eufData
  <2> QED BY <2>1, KeptDenials
<1>5. ASSUME NEW i \in 1..Len(SharedPairs), SharedVars(i) \/ Resolve(i) \/ MergeShared(i)
      PROVE  Denials'
  <2>1. CASE SharedVars(i) \/ Resolve(i)
    <3>1. UNCHANGED DenialsVars
      BY <2>1 DEF SharedVars, Resolve, Sharing, KeepCalls, DenialsVars, eufVars, eufData
    <3> QED BY <3>1, KeptDenials
  <2>2. CASE MergeShared(i)
    <3>1. facts' = facts \o merges' /\ UNCHANGED <<problem, disequalities, undo_trail, euf_scopes, asserted, lims>>
      BY <2>2 DEF MergeShared, Sharing, KeepCalls, CallMerge, eufData
    <3>2. merges' \in Seq(MergesIn(problem))
      <4>1. ControlOK(problem', euf_pc', merges', link')
        BY DEF Theories, Equality
      <4> QED BY <3>1, <4>1 DEF ControlOK
    <3> QED BY <3>1, <3>2, SharedDenials
  <2> QED BY <1>5, <2>1, <2>2
<1>6. CASE EufStep /\ UNCHANGED <<problem, simplexVars, coordinatorVars>>
  <2>1. UNCHANGED <<problem, asserted, lims, facts>>
    BY <1>6 DEF coordinatorVars
  <2>2. CASE MergeSame \/ UsesVisited \/ MergeReturn
    BY <2>1, <2>2, KeptDenials DEF MergeSame, UsesVisited, MergeReturn, DenialsVars, eufData
  <2> QED BY <1>6, <2>1, <2>2, LinkDenials, VisitDenials, UndoOtherDenials, UndoDisequalityDenials,
             ReturnDenials DEF EufStep
<1>7. CASE SimplexStep /\ UNCHANGED <<problem, eufVars, coordinatorVars>>
  <2>1. UNCHANGED DenialsVars
    BY <1>7 DEF coordinatorVars, DenialsVars, eufVars, eufData
  <2> QED BY <2>1, KeptDenials
<1>8. CASE UNCHANGED vars
  <2>1. UNCHANGED DenialsVars
    BY <1>8 DEF vars, coordinatorVars, DenialsVars, eufVars, eufData
  <2> QED BY <2>1, KeptDenials
<1> QED BY <1>1, <1>2, <1>3, <1>4, <1>5, <1>6, <1>7, <1>8 DEF Next

\* The trail begins with the signatures of the arena.
LEMMA DenialsInit ==
  ASSUME Init, Theories
  PROVE  Denials
<1>1. /\ disequalities = << >> /\ asserted = << >> /\ lims = << >> /\ euf_scopes = << >> /\ problem \in Problems
  BY DEF Init, EufInit
<1>2. /\ undo_trail \in Seq(UndoIn(problem)) /\ \A i \in 1..Len(undo_trail) : undo_trail[i].kind # "AddDisequality"
  <2>1. undo_trail \in Seq(UndoIn(problem))
    BY ScopedFacts
  <2>2. \A i \in 1..Len(undo_trail) : undo_trail[i].kind = "AddLookup"
    <3> DEFINE S == [kind : {"AddLookup"}, sig : {Sig(a) : a \in Applications}]
    <3>1. undo_trail \in Seq(S)
      BY <1>1, FirstEntries DEF Init
    <3>2. \A e \in S : e.kind = "AddLookup"
      OBVIOUS
    <3> HIDE DEF S
    <3>3. \A i \in 1..Len(undo_trail) : undo_trail[i] \in S
      BY <3>1
    <3> QED BY <3>2, <3>3
  <2> QED BY <2>1, <2>2
<1>3. PICK pos : pos = [i \in 1..0 |-> 0]
  OBVIOUS
<1>4. disequalities \in Seq(DisequalitiesIn(problem)) /\ Len(disequalities) = 0 /\ Len(asserted) = 0
  BY <1>1
<1>5. Entries(disequalities, undo_trail, pos)
  <2>1. pos \in [1..Len(disequalities) -> 1..Len(undo_trail)]
    BY <1>3, <1>4
  <2> QED BY <1>2, <1>4, <2>1 DEF Entries
<1>6. Forbidden(problem, disequalities, pos, euf_scopes, asserted, lims)
  BY <1>4 DEF Forbidden
<1>7. MergedIn(problem, facts, asserted, lims)
  BY <1>4 DEF MergedIn
<1> QED BY <1>2, <1>4, <1>5, <1>6, <1>7 DEF DeniedIn, Denials

LEMMA SettlesStep ==
  ASSUME Theories, Denials, Settles, [Next]_vars
  PROVE  Settles'
<1>1. disequalities \in Seq(DisequalitiesIn(problem))
  BY DEF Denials, DeniedIn
<1>2. EufConflicts = {} => Violated = {}
  <2> SUFFICES ASSUME Violated # {} PROVE EufConflicts # {}
    OBVIOUS
  <2>1. Violated \in SUBSET Nat
    BY <1>1 DEF Violated
  <2>2. PICK i \in Violated : \A j \in Violated : i <= j
    BY <2>1, Least
  <2>3. Explain(disequalities[i].a, disequalities[i].b) \cup {-disequalities[i].lit} \in EufConflicts
    BY <2>2 DEF EufConflicts
  <2> QED BY <2>3
<1>3. CASE Recheck
  <2>1. answer' = "Ok" => EufConflicts = {} /\ pc' = "idle"
    BY <1>3 DEF Recheck, Return
  <2>2. Quiet /\ UNCHANGED <<problem, eufVars, simplexVars>>
    BY <1>3 DEF Recheck, KeepCalls
  <2>3. Quiet'
    BY <2>2 DEF Quiet, eufVars, eufControl, simplexVars
  <2>4. Violated' = Violated
    BY <2>2 DEF Violated, SameClass, Find, TermIds, terms, eufVars, eufData
  <2> QED BY <1>2, <2>1, <2>3, <2>4 DEF Settles, Idle
<1>4. CASE answer' = "Ok" => UNCHANGED <<problem, parent, disequalities, pc, euf_pc, simplex_pc, answer>>
  <2> SUFFICES ASSUME answer' = "Ok" PROVE Idle' /\ Violated' = {}
    BY DEF Settles
  <2>1. UNCHANGED <<problem, parent, disequalities, pc, euf_pc, simplex_pc, answer>>
    BY <1>4
  <2>2. Violated' = Violated
    BY <2>1 DEF Violated, SameClass, Find, TermIds, terms
  <2> QED BY <2>1, <2>2 DEF Settles, Idle, Quiet
<1>5. ~(Quiet /\ (EufStep \/ SimplexStep))
  <2>1. EufStep => euf_pc # "ready"
    BY DEF EufStep, MergeSame, MergeLink, VisitUse, UsesVisited, MergeReturn, UndoLink, UndoProofEdge,
           UndoLookup, UndoDisequality, Undoing, PopReturn
  <2>2. SimplexStep => simplex_pc # "ready"
    BY DEF SimplexStep, Pivot, Infeasible, Feasible, Round
  <2> QED BY <2>1, <2>2 DEF Quiet
<1>6. ASSUME NEW l \in AtomLits, AssertLit(l) PROVE answer' # "Ok"
  BY <1>6 DEF AssertLit
<1>7. Push \/ Pop => answer' # "Ok"
  BY DEF Push, Pop
<1>8. Check \/ SimplexReturned => answer' # "Ok"
  BY DEF Check, SimplexReturned, Return, Settles, Idle
<1>9. ASSUME NEW i \in 1..Len(SharedPairs), SharedVars(i) \/ Resolve(i) \/ MergeShared(i) PROVE answer' # "Ok"
  BY <1>9 DEF SharedVars, Resolve, MergeShared, Sharing, Settles, Idle
<1>10. CASE (EufStep \/ SimplexStep) /\ UNCHANGED answer
  BY <1>4, <1>5, <1>10 DEF Settles, Idle
<1>11. CASE UNCHANGED vars
  BY <1>4, <1>11 DEF vars, eufVars, eufData, eufControl, simplexVars, coordinatorVars
<1> QED BY <1>3, <1>4, <1>6, <1>7, <1>8, <1>9, <1>10, <1>11 DEF Next, coordinatorVars

LEMMA DenialsHold == Spec => [](Theories /\ Denials /\ Settles)
<1>1. Init /\ Theories => Denials /\ Settles
  BY DenialsInit DEF Init, Settles
<1>2. Theories /\ Theories' /\ Denials /\ Settles /\ [Next]_vars => Denials' /\ Settles'
  BY DenialsStep, SettlesStep
<1> QED BY <1>1, <1>2, TheoriesHold, PTL DEF Spec

-----------------------------------------------------------------------------
(* Ok leaves no contradiction of equality: the classes are a congruence     *)
(* with the asserted equalities, in which no forbidden pair is equal.       *)

\* The arena's constructor of equalities takes two terms (term.rs:276-281),
\* and the engine looks at no others.
BinaryEqualities == \A t \in TermIds : Op(t) = "Eq" => Len(Args(t)) = 2

LEMMA ArgPairsFacts ==
  ASSUME problem \in Problems, NEW t \in TermIds
  PROVE  /\ \A d \in ArgPairs(t) : d \in TermIds \X TermIds /\ d \in ToSet(PairsOf(Args(t)))
         /\ Len(Args(t)) = 2 => ArgPairs(t) = {<<Args(t)[1], Args(t)[2]>>}
<1>1. PICK s : s = Args(t)
  OBVIOUS
<1>2. s \in Seq(TermIds) /\ \A i \in 1..Len(s) : s[i] \in TermIds
  <2>1. s \in Seq(Nat) /\ \A i \in 1..Len(s) : s[i] \in TermIds
    BY <1>1, ArenaFacts
  <2> QED BY <2>1
<1>3. PICK n \in Nat : n = Len(s)
  BY <1>2
<1>4. ASSUME NEW d \in ArgPairs(t)
      PROVE  \E i, j \in 1..n : i < j /\ d = <<s[i], s[j]>>
  BY <1>1, <1>3 DEF ArgPairs
<1>5. ASSUME NEW d \in ArgPairs(t) PROVE d \in TermIds \X TermIds /\ d \in ToSet(PairsOf(s))
  <2>1. PICK i \in 1..n, j \in 1..n : i < j /\ d = <<s[i], s[j]>>
    BY <1>4
  <2>2. j - i \in 1..(n - i) /\ i + (j - i) = j
    BY <2>1
  <2>3. d = <<s[i], s[i + (j - i)]>>
    BY <2>1, <2>2
  <2>4. d \in ToSet(PairsOf(s))
    BY <1>2, <1>3, <2>2, <2>3, PairsFacts
  <2> QED BY <1>2, <1>3, <2>1, <2>4
<1>6. ASSUME n = 2 PROVE ArgPairs(t) = {<<s[1], s[2]>>}
  <2>1. \A i, j \in 1..2 : i < j => i = 1 /\ j = 2
    OBVIOUS
  <2>2. ASSUME NEW d \in ArgPairs(t) PROVE d = <<s[1], s[2]>>
    BY <1>4, <1>6, <2>1
  <2>3. <<s[1], s[2]>> \in ArgPairs(t)
    <3>1. <<1, 2>> \in {p \in (1..Len(Args(t))) \X (1..Len(Args(t))) : p[1] < p[2]}
      BY <1>1, <1>3, <1>6
    <3> QED BY <1>1, <3>1 DEF ArgPairs
  <2> QED BY <2>2, <2>3
<1> QED BY <1>1, <1>3, <1>5, <1>6

LEMMA EqualityFound ==
  ASSUME Theories, Denials, Settles, BinaryEqualities, answer = "Ok", ~DeniedDistincts
  PROVE  ~EqualityInconsistent(Literals)
<1> DEFINE p == problem
           L == Literals
<1>1. /\ p \in Problems /\ TermIds = Ids(p) /\ euf_pc = "ready" /\ Violated = {}
      /\ asserted \in Seq(LitsIn(p))
  BY ScopedFacts, AppsFacts DEF Settles, Idle, Quiet, Scoped
<1>2. PICK f : EqIn(p, parent, f, sig_lookup, use_list, << >>, << >>, facts)
  BY <1>1, ReadyFacts DEF Theories
<1>3. IsCongruence(p, f) /\ Equates(f, facts)
  BY <1>2, RootsAreCongruence
<1>4. \A t \in TermIds : Find(t) = f[t]
  BY <1>1, <1>2, FindIs DEF EqIn
<1>5. PICK pos : Forbidden(p, disequalities, pos, euf_scopes, asserted, lims)
  BY DEF Denials, DeniedIn
<1>6. disequalities \in Seq(DisequalitiesIn(p)) /\ MergedIn(p, facts, asserted, lims)
  BY DEF Denials, DeniedIn
<1>7. ASSUME NEW l \in L PROVE \E q \in 1..Len(asserted) : l = asserted[q]
  BY DEF Literals, ToSet
<1>8. ASSUME NEW t \in Atoms PROVE t \in TermIds /\ t \in Int /\ t > 0 /\ AtomOf(t) = t /\ AtomOf(-t) = t /\ -t < 0
  BY DEF Atoms, TermIds, AtomOf
<1>9. Respects(f, Equal(L))
  <2> SUFFICES ASSUME NEW e \in Equal(L) PROVE f[e[1]] = f[e[2]]
    BY DEF Respects
  <2>1. PICK t \in Asserted("Eq", L) : e \in ArgPairs(t)
    BY DEF Equal
  <2>2. t \in Atoms /\ Op(t) = "Eq" /\ t \in L
    BY <2>1 DEF Asserted
  <2>3. Len(Args(t)) = 2
    BY <1>8, <2>2 DEF BinaryEqualities
  <2>4. e = <<Args(t)[1], Args(t)[2]>>
    BY <1>1, <1>8, <2>1, <2>2, <2>3, ArgPairsFacts
  <2>5. e \in MergedBy(p, t)
    BY <1>8, <2>2, <2>3, <2>4 DEF MergedBy, Op, Args, terms
  <2>6. PICK q \in 1..Len(asserted) : t = asserted[q]
    BY <1>7, <2>2
  <2>7. PICK i \in 1..Len(facts) : KeptAs(facts[i], i, lims, q, e)
    BY <1>6, <2>5, <2>6 DEF MergedIn
  <2> QED BY <1>3, <2>7 DEF KeptAs, Equates
<1>10. ASSUME NEW d \in Different(L) PROVE f[d[1]] # f[d[2]]
  <2>1. PICK t \in Denied("Eq", L) \cup Asserted("Distinct", L) : d \in ArgPairs(t)
    BY DEF Different
  <2>2. /\ t \in Atoms
        /\ (Op(t) = "Eq" /\ -t \in L) \/ (Op(t) = "Distinct" /\ t \in L)
    BY <2>1 DEF Asserted, Denied
  <2>3. d \in TermIds \X TermIds /\ d \in ToSet(PairsOf(Args(t)))
    BY <1>1, <1>8, <2>1, <2>2, ArgPairsFacts
  <2>4. PICK l \in L : d \in ForbiddenBy(p, l)
    <3>1. CASE Op(t) = "Eq" /\ -t \in L
      <4>1. Len(Args(t)) = 2
        BY <1>8, <2>2, <3>1 DEF BinaryEqualities
      <4>2. ForbiddenBy(p, -t) = ToSet(PairsOf(Args(t)))
        BY <1>8, <2>2, <3>1, <4>1 DEF ForbiddenBy, Op, Args, terms
      <4> QED BY <2>3, <3>1, <4>2
    <3>2. CASE Op(t) = "Distinct" /\ t \in L
      <4>1. ForbiddenBy(p, t) = ToSet(PairsOf(Args(t)))
        BY <1>8, <2>2, <3>2 DEF ForbiddenBy, Op, Args, terms
      <4> QED BY <2>3, <3>2, <4>1
    <3> QED BY <2>2, <3>1, <3>2
  <2>5. PICK q \in 1..Len(asserted) : l = asserted[q]
    BY <1>7
  <2>6. PICK i \in 1..Len(disequalities) :
            KeptBy(disequalities[i], i, pos, euf_scopes, asserted, lims, q, d)
    BY <1>5, <2>4, <2>5 DEF Forbidden
  <2>7. disequalities[i].a = d[1] /\ disequalities[i].b = d[2]
    BY <2>6 DEF KeptBy
  <2>8. ~SameClass(disequalities[i].a, disequalities[i].b)
    BY <1>1 DEF Violated
  <2> QED BY <1>4, <2>3, <2>7, <2>8 DEF SameClass
<1>11. Denied("Distinct", L) = {}
  <2> SUFFICES ASSUME NEW t \in Denied("Distinct", L) PROVE FALSE
    OBVIOUS
  <2>1. t \in Atoms /\ Op(t) = "Distinct" /\ -t \in L
    BY DEF Denied
  <2>2. -t < 0 /\ -(-t) = t
    BY <1>8, <2>1
  <2> QED BY <2>1, <2>2 DEF DeniedDistincts
<1> HIDE DEF L
<1>12. PICK g : g = [t \in Denied("Distinct", L) |-> <<t, t>>]
  OBVIOUS
<1>13. g \in Alternatives(L) /\ DOMAIN g = {}
  BY <1>11, <1>12 DEF Alternatives
<1>14. EqualWith(L, g) = Equal(L)
  BY <1>13 DEF EqualWith
<1>15. PICK P : P = CongruenceClosure(EqualWith(L, g))
  OBVIOUS
<1>16. Agrees(f, P)
  <2>1. Finest(Equal(L), P)
    BY <1>1, <1>14, <1>15, ClosureFacts
  <2> QED BY <1>3, <1>9, <2>1 DEF Finest
<1>17. \A d \in Different(L) : ~Joined(P, d[1], d[2])
  BY <1>10, <1>16 DEF Agrees, Joined
<1>18. ~EqualityInconsistent(L)
  BY <1>13, <1>15, <1>17 DEF EqualityInconsistent
<1> QED BY <1>18 DEF L

\* Where every equality is of two terms and no distinct is denied, check never
\* returns Ok over literals that contradict the meaning of equality alone.
THEOREM ConflictsFound == Spec => [](BinaryEqualities => EqualityConflictsFound)
<1>1. Theories /\ Denials /\ Settles => (BinaryEqualities => EqualityConflictsFound)
  BY EqualityFound DEF EqualityConflictsFound
<1> QED BY <1>1, DenialsHold, PTL
=============================================================================
