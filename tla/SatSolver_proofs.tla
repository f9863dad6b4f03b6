-------------------------- MODULE SatSolver_proofs --------------------------
(***************************************************************************)
(* The solver keeps its data structures and its trail consistent, for every*)
(* number of variables, client, theory and restart policy.                 *)
(*                                                                         *)
(* Inv is inductive.  TypeOK carries the strengthening: that what one part *)
(* of the state refers to in another is there (see SatSolver).             *)
(***************************************************************************)
EXTENDS SatSolver, FiniteSetTheorems, FunctionTheorems, TLAPS

-----------------------------------------------------------------------------
(* What the operations on a trail return and preserve.                      *)

\* Literals and variables.
LEMMA LitFacts ==
    ASSUME NEW l \in Lits
    PROVE  /\ VarOf(l) \in Vars /\ Neg(l) \in Lits
           /\ VarOf(Neg(l)) = VarOf(l) /\ Neg(Neg(l)) = l /\ Neg(l) # l
  BY NumVarsAssumption DEF Lits, Vars, VarOf, Neg

LEMMA LitOfVar ==
    ASSUME NEW v \in Vars, NEW b \in BOOLEAN
    PROVE  /\ NewLit(v, b) \in Lits /\ VarOf(NewLit(v, b)) = v
           /\ IsPos(NewLit(v, b)) = ~b
  BY NumVarsAssumption DEF Lits, Vars, VarOf, NewLit, IsPos

LEMMA SameVar ==
    ASSUME NEW k \in Lits, NEW l \in Lits, VarOf(k) = VarOf(l)
    PROVE  k = l \/ k = Neg(l)
  BY NumVarsAssumption DEF Lits, VarOf, Neg

\* The empty trail is consistent.
LEMMA NewTrailOK == NewTrail \in TrailRecords /\ TrailInv(NewTrail)
  BY NumVarsAssumption
  DEF NewTrail, TrailRecords, TrailInv, TrailIsAssignment, LevelsAreSegments, IsAssigned,
      LBool, Reasons, ReasonUnit, Vars

\* Opening a decision level keeps the trail consistent.
LEMMA NewDecisionLevelOK ==
    ASSUME NEW t \in TrailRecords, TrailInv(t)
    PROVE  NewDecisionLevel(t) \in TrailRecords /\ TrailInv(NewDecisionLevel(t))
<1> DEFINE u == NewDecisionLevel(t)
<1>0. /\ Append(t.trail_lim, Len(t.trail)) \in Seq(Nat)
      /\ t = [assigns |-> t.assigns, level |-> t.level, reason |-> t.reason, phase |-> t.phase,
              trail |-> t.trail, trail_lim |-> t.trail_lim, qhead |-> t.qhead]
  BY DEF TrailRecords
<1>1. /\ u \in TrailRecords
      /\ u.trail = t.trail /\ u.assigns = t.assigns /\ u.level = t.level /\ u.qhead = t.qhead
      /\ u.trail_lim = Append(t.trail_lim, Len(t.trail))
  BY <1>0 DEF NewDecisionLevel, TrailRecords
<1>2. t.trail \in Seq(Lits) /\ t.trail_lim \in Seq(Nat) /\ t.level \in [Vars -> Nat]
  BY DEF TrailRecords
<1>3. /\ Len(u.trail_lim) = Len(t.trail_lim) + 1
      /\ u.trail_lim[Len(t.trail_lim) + 1] = Len(t.trail)
      /\ \A k \in 1..Len(t.trail_lim) : u.trail_lim[k] = t.trail_lim[k]
  BY <1>1, <1>2
<1>4. TrailIsAssignment(u)
  BY <1>1 DEF TrailInv, TrailIsAssignment, IsAssigned, IsTrue, LitValue
<1>5. LevelsAreSegments(u)
  <2>1. \A k \in 1..Len(u.trail_lim) : u.trail_lim[k] <= Len(u.trail)
    BY <1>1, <1>2, <1>3 DEF TrailInv, LevelsAreSegments
  <2>2. \A j, k \in 1..Len(u.trail_lim) : j <= k => u.trail_lim[j] <= u.trail_lim[k]
    BY <1>1, <1>2, <1>3 DEF TrailInv, LevelsAreSegments
  <2>3. ASSUME NEW i \in 1..Len(u.trail)
        PROVE  /\ u.level[VarOf(u.trail[i])] <= DecisionLevel(u)
               /\ \A k \in 1..Len(u.trail_lim) :
                    u.level[VarOf(u.trail[i])] >= k <=> i > u.trail_lim[k]
    <3>1. u.trail[i] \in Lits /\ i \in 1..Len(t.trail)
      BY <1>1, <1>2
    <3>2. t.level[VarOf(t.trail[i])] \in Nat
      BY <1>1, <1>2, <3>1, LitFacts
    <3>3. /\ t.level[VarOf(t.trail[i])] <= Len(t.trail_lim)
          /\ \A k \in 1..Len(t.trail_lim) : t.level[VarOf(t.trail[i])] >= k <=> i > t.trail_lim[k]
      BY <3>1 DEF TrailInv, LevelsAreSegments, DecisionLevel
    <3> QED
      BY <1>1, <1>2, <1>3, <3>1, <3>2, <3>3 DEF DecisionLevel
  <2> QED
    BY <2>1, <2>2, <2>3 DEF LevelsAreSegments
<1> QED
  BY <1>1, <1>4, <1>5 DEF TrailInv

\* Assigning an open variable keeps the trail consistent.
LEMMA AssignOK ==
    ASSUME NEW t \in TrailRecords, TrailInv(t), NEW l \in Lits, NEW r \in Reasons,
           ~IsAssigned(t, VarOf(l))
    PROVE  Assign(t, l, r) \in TrailRecords /\ TrailInv(Assign(t, l, r))
<1> DEFINE u == Assign(t, l, r)
           n == Len(t.trail)
<1>0. VarOf(l) \in Vars
  BY LitFacts
<1>2. /\ t.trail \in Seq(Lits) /\ t.trail_lim \in Seq(Nat) /\ t.level \in [Vars -> Nat]
      /\ t.assigns \in [Vars -> LBool] /\ t.reason \in [Vars -> Reasons]
      /\ t.phase \in [Vars -> BOOLEAN] /\ t.qhead \in Nat
  BY DEF TrailRecords
<1>1. /\ u.trail = Append(t.trail, l) /\ u.trail_lim = t.trail_lim /\ u.qhead = t.qhead
      /\ u.assigns = [t.assigns EXCEPT ![VarOf(l)] = IF IsPos(l) THEN "True" ELSE "False"]
      /\ u.level = [t.level EXCEPT ![VarOf(l)] = Len(t.trail_lim)]
      /\ u.reason = [t.reason EXCEPT ![VarOf(l)] = r]
      /\ u.phase = [t.phase EXCEPT ![VarOf(l)] = ~IsPos(l)]
  BY DEF Assign, TrailRecords, DecisionLevel
<1>3. u \in TrailRecords
  <2>1. IsPos(l) \in BOOLEAN
    BY DEF IsPos
  <2>2. /\ u.assigns \in [Vars -> LBool] /\ u.level \in [Vars -> Nat]
        /\ u.reason \in [Vars -> Reasons] /\ u.phase \in [Vars -> BOOLEAN]
        /\ u.trail \in Seq(Lits) /\ u.trail_lim \in Seq(Nat) /\ u.qhead \in Nat
    BY <1>0, <1>1, <1>2, <2>1 DEF LBool
  <2> QED
    BY <2>2 DEF Assign, TrailRecords
<1>4. \A i \in 1..n : u.trail[i] = t.trail[i] /\ t.trail[i] \in Lits
  BY <1>1, <1>2
<1>5. Len(u.trail) = n + 1 /\ u.trail[n + 1] = l /\ n \in Nat
  BY <1>1, <1>2
<1>6. \A i \in 1..n : IsTrue(t, t.trail[i]) /\ VarOf(t.trail[i]) \in Vars /\ VarOf(t.trail[i]) # VarOf(l)
  BY <1>4, LitFacts DEF TrailInv, TrailIsAssignment, IsTrue, LitValue, IsAssigned, NotVal
<1>7. TrailIsAssignment(u)
  <2>1. ASSUME NEW i \in 1..Len(u.trail) PROVE IsTrue(u, u.trail[i])
    <3>1. CASE i = n + 1
      BY <3>1, <1>0, <1>1, <1>2, <1>5 DEF IsTrue, LitValue, NotVal
    <3>2. CASE i \in 1..n
      <4>1. u.assigns[VarOf(t.trail[i])] = t.assigns[VarOf(t.trail[i])]
        BY <3>2, <1>0, <1>1, <1>2, <1>6
      <4> QED
        BY <3>2, <4>1, <1>4, <1>6 DEF IsTrue, LitValue
    <3> QED
      BY <1>5, <3>1, <3>2
  <2>2. ASSUME NEW v \in Vars, IsAssigned(u, v)
        PROVE  \E i \in 1..Len(u.trail) : VarOf(u.trail[i]) = v
    <3>1. CASE v = VarOf(l)
      BY <3>1, <1>5
    <3>2. CASE v # VarOf(l)
      <4>1. IsAssigned(t, v)
        BY <3>2, <2>2, <1>0, <1>1, <1>2 DEF IsAssigned
      <4>2. PICK i \in 1..n : VarOf(t.trail[i]) = v
        BY <4>1 DEF TrailInv, TrailIsAssignment
      <4> QED
        BY <4>2, <1>4, <1>5
    <3> QED
      BY <3>1, <3>2
  <2>3. ASSUME NEW i \in 1..Len(u.trail), NEW j \in 1..Len(u.trail),
               VarOf(u.trail[i]) = VarOf(u.trail[j])
        PROVE  i = j
    BY <2>3, <1>4, <1>5, <1>6, SMTT(40) DEF TrailInv, TrailIsAssignment
  <2> QED
    BY <2>1, <2>2, <2>3 DEF TrailIsAssignment
<1>8. LevelsAreSegments(u)
  <2>1. \A k \in 1..Len(u.trail_lim) : u.trail_lim[k] \in Nat /\ u.trail_lim[k] <= n
    BY <1>1, <1>2 DEF TrailInv, LevelsAreSegments
  <2>2. \A j, k \in 1..Len(u.trail_lim) : j <= k => u.trail_lim[j] <= u.trail_lim[k]
    BY <1>1 DEF TrailInv, LevelsAreSegments
  <2>3. ASSUME NEW i \in 1..Len(u.trail)
        PROVE  /\ u.level[VarOf(u.trail[i])] <= DecisionLevel(u)
               /\ \A k \in 1..Len(u.trail_lim) :
                    u.level[VarOf(u.trail[i])] >= k <=> i > u.trail_lim[k]
    <3>1. CASE i = n + 1
      <4>1. u.level[VarOf(u.trail[i])] = Len(u.trail_lim)
        BY <3>1, <1>0, <1>1, <1>2, <1>5
      <4> QED
        BY <4>1, <3>1, <2>1, <1>1, <1>2, <1>5 DEF DecisionLevel
    <3>2. CASE i \in 1..n
      <4>1. u.level[VarOf(u.trail[i])] = t.level[VarOf(t.trail[i])]
        BY <3>2, <1>0, <1>1, <1>2, <1>4, <1>6
      <4> QED
        BY <3>2, <4>1, <1>1 DEF TrailInv, LevelsAreSegments, DecisionLevel
    <3> QED
      BY <1>5, <3>1, <3>2
  <2>4. \A k \in 1..Len(u.trail_lim) : u.trail_lim[k] <= Len(u.trail)
    BY <1>5, <2>1
  <2> HIDE DEF u
  <2> QED
    BY <2>2, <2>3, <2>4 DEF LevelsAreSegments
<1> QED
  BY <1>1, <1>2, <1>3, <1>5, <1>7, <1>8 DEF TrailInv

\* Handing a literal to propagation keeps the trail consistent.
LEMMA DequeueOK ==
    ASSUME NEW t \in TrailRecords, TrailInv(t), HasUnpropagated(t)
    PROVE  /\ Dequeue(t) \in TrailRecords /\ TrailInv(Dequeue(t))
           /\ NextUnpropagated(t) \in Lits
<1> DEFINE u == Dequeue(t)
<1>1. t.trail \in Seq(Lits) /\ t.qhead \in Nat /\ t.qhead < Len(t.trail)
  BY DEF TrailRecords, HasUnpropagated
<1>0. /\ t.qhead + 1 \in Nat
      /\ t = [assigns |-> t.assigns, level |-> t.level, reason |-> t.reason, phase |-> t.phase,
              trail |-> t.trail, trail_lim |-> t.trail_lim, qhead |-> t.qhead]
  BY <1>1 DEF TrailRecords
<1>2. /\ u \in TrailRecords
      /\ u.trail = t.trail /\ u.assigns = t.assigns /\ u.level = t.level
      /\ u.trail_lim = t.trail_lim /\ u.qhead = t.qhead + 1
  BY <1>0 DEF Dequeue, TrailRecords
<1>3. TrailIsAssignment(u) /\ LevelsAreSegments(u)
  BY <1>2 DEF TrailInv, TrailIsAssignment, LevelsAreSegments, IsAssigned, IsTrue, LitValue,
              DecisionLevel
<1> QED
  BY <1>1, <1>2, <1>3 DEF TrailInv, NextUnpropagated

\* What a prefix of a sequence is.
LEMMA PrefixFacts ==
    ASSUME NEW S, NEW s \in Seq(S), NEW m \in 0..Len(s)
    PROVE  /\ SubSeq(s, 1, m) \in Seq(S) /\ Len(SubSeq(s, 1, m)) = m
           /\ \A i \in 1..m : SubSeq(s, 1, m)[i] = s[i]
  OBVIOUS

\* Backtracking keeps the trail consistent and unassigns the variables that
\* Undone names.
LEMMA BacktrackOK ==
    ASSUME NEW t \in TrailRecords, TrailInv(t), NEW level \in Nat
    PROVE  /\ BacktrackTo(t, level) \in TrailRecords /\ TrailInv(BacktrackTo(t, level))
           /\ Undone(t, level) \subseteq Vars
<1> DEFINE u == BacktrackTo(t, level)
           n == t.trail_lim[level + 1]
           gone == Undone(t, level)
<1>1. /\ t.trail \in Seq(Lits) /\ t.trail_lim \in Seq(Nat) /\ t.level \in [Vars -> Nat]
      /\ t.assigns \in [Vars -> LBool] /\ t.reason \in [Vars -> Reasons]
      /\ t.phase \in [Vars -> BOOLEAN] /\ t.qhead \in Nat
      /\ t = [assigns |-> t.assigns, level |-> t.level, reason |-> t.reason, phase |-> t.phase,
              trail |-> t.trail, trail_lim |-> t.trail_lim, qhead |-> t.qhead]
  BY DEF TrailRecords
<1>2. CASE ~(DecisionLevel(t) > level)
  BY <1>2 DEF BacktrackTo, Undone
<1>3. CASE DecisionLevel(t) > level
  <2>1. /\ level + 1 \in 1..Len(t.trail_lim) /\ level \in 0..Len(t.trail_lim)
        /\ n \in Nat /\ n <= Len(t.trail) /\ Len(t.trail) \in Nat
    BY <1>1, <1>3 DEF DecisionLevel, TrailInv, LevelsAreSegments
  <2>2. gone = {VarOf(t.trail[i]) : i \in (n + 1)..Len(t.trail)}
    BY <1>3 DEF Undone
  <2>3. \A i \in 1..Len(t.trail) : t.trail[i] \in Lits /\ VarOf(t.trail[i]) \in Vars
    BY <1>1, LitFacts
  <2>4. gone \subseteq Vars
    BY <2>1, <2>2, <2>3
  <2>5. /\ u.trail = SubSeq(t.trail, 1, n) /\ u.trail_lim = SubSeq(t.trail_lim, 1, level)
        /\ u.qhead = n /\ u.level = t.level /\ u.reason = t.reason /\ u.phase = t.phase
        /\ u.assigns = [v \in Vars |-> IF v \in gone THEN "Undef" ELSE t.assigns[v]]
        /\ u = [assigns |-> u.assigns, level |-> u.level, reason |-> u.reason, phase |-> u.phase,
                trail |-> u.trail, trail_lim |-> u.trail_lim, qhead |-> u.qhead]
    BY <1>1, <1>3 DEF BacktrackTo
  <2>6. /\ u.trail \in Seq(Lits) /\ Len(u.trail) = n
        /\ \A i \in 1..n : u.trail[i] = t.trail[i]
    <3>1. t.trail \in Seq(Lits) /\ n \in 0..Len(t.trail)
      BY <1>1, <2>1
    <3> QED
      BY <3>1, <2>5, PrefixFacts
  <2>7. /\ u.trail_lim \in Seq(Nat) /\ Len(u.trail_lim) = level
        /\ \A k \in 1..level : u.trail_lim[k] = t.trail_lim[k]
    <3>1. t.trail_lim \in Seq(Nat) /\ level \in 0..Len(t.trail_lim)
      BY <1>1, <2>1
    <3> QED
      BY <3>1, <2>5, PrefixFacts
  <2>8. u \in TrailRecords
    <3>1. u.assigns \in [Vars -> LBool]
      BY <1>1, <2>5 DEF LBool
    <3> QED
      BY <1>1, <2>1, <2>5, <2>6, <2>7, <3>1 DEF TrailRecords
  <2>9. \A i, j \in 1..Len(t.trail) : VarOf(t.trail[i]) = VarOf(t.trail[j]) => i = j
    BY DEF TrailInv, TrailIsAssignment
  <2>10. \A i \in 1..n : VarOf(t.trail[i]) \notin gone
    BY <2>1, <2>2, <2>9
  <2>11. TrailIsAssignment(u)
    <3>1. ASSUME NEW i \in 1..Len(u.trail) PROVE IsTrue(u, u.trail[i])
      <4>1. i \in 1..Len(t.trail) /\ u.trail[i] = t.trail[i] /\ i \in 1..n
        BY <2>1, <2>6
      <4>2. u.assigns[VarOf(t.trail[i])] = t.assigns[VarOf(t.trail[i])]
        BY <4>1, <2>3, <2>5, <2>10
      <4>3. IsTrue(t, t.trail[i])
        BY <4>1 DEF TrailInv, TrailIsAssignment
      <4> QED
        BY <4>1, <4>2, <4>3 DEF IsTrue, LitValue
    <3>2. ASSUME NEW v \in Vars, IsAssigned(u, v)
          PROVE  \E i \in 1..Len(u.trail) : VarOf(u.trail[i]) = v
      <4>1. v \notin gone /\ IsAssigned(t, v)
        BY <3>2, <2>5 DEF IsAssigned
      <4>2. PICK i \in 1..Len(t.trail) : VarOf(t.trail[i]) = v
        BY <4>1 DEF TrailInv, TrailIsAssignment
      <4>3. i \in 1..n
        BY <4>1, <4>2, <2>1, <2>2
      <4> QED
        BY <4>2, <4>3, <2>6
    <3>3. ASSUME NEW i \in 1..Len(u.trail), NEW j \in 1..Len(u.trail),
                 VarOf(u.trail[i]) = VarOf(u.trail[j])
          PROVE  i = j
      <4>1. i \in 1..Len(t.trail) /\ j \in 1..Len(t.trail)
        BY <2>1, <2>6
      <4> QED
        BY <4>1, <3>3, <2>6, <2>9
    <3> QED
      BY <3>1, <3>2, <3>3 DEF TrailIsAssignment
  <2>12. LevelsAreSegments(u)
    <3>1. \A j, k \in 1..Len(t.trail_lim) : j <= k => t.trail_lim[j] <= t.trail_lim[k]
      BY DEF TrailInv, LevelsAreSegments
    <3>2. \A k \in 1..Len(u.trail_lim) : u.trail_lim[k] <= Len(u.trail)
      <4>1. ASSUME NEW k \in 1..level PROVE t.trail_lim[k] <= n
        <5>1. k \in 1..Len(t.trail_lim) /\ k <= level + 1
          BY <2>1
        <5> QED
          BY <5>1, <2>1, <3>1
      <4> QED
        BY <4>1, <2>6, <2>7
    <3>3. \A j, k \in 1..Len(u.trail_lim) : j <= k => u.trail_lim[j] <= u.trail_lim[k]
      <4>1. 1..level \subseteq 1..Len(t.trail_lim)
        BY <2>1
      <4>2. ASSUME NEW j \in 1..level, NEW k \in 1..level, j <= k PROVE u.trail_lim[j] <= u.trail_lim[k]
        <5>1. t.trail_lim[j] <= t.trail_lim[k]
          BY ONLY <3>1, <4>1, <4>2, j \in 1..level, k \in 1..level
        <5>2. u.trail_lim[j] = t.trail_lim[j] /\ u.trail_lim[k] = t.trail_lim[k]
          BY <2>7
        <5> QED BY ONLY <5>1, <5>2
      <4>3. Len(u.trail_lim) = level
        BY <2>7
      <4> QED BY ONLY <4>2, <4>3
    <3>4. ASSUME NEW i \in 1..Len(u.trail)
          PROVE  /\ u.level[VarOf(u.trail[i])] <= DecisionLevel(u)
                 /\ \A k \in 1..Len(u.trail_lim) :
                      u.level[VarOf(u.trail[i])] >= k <=> i > u.trail_lim[k]
      <4>1. i \in 1..n /\ i \in 1..Len(t.trail) /\ u.trail[i] = t.trail[i]
        BY <2>1, <2>6
      <4>2. \A k \in 1..Len(t.trail_lim) : t.level[VarOf(t.trail[i])] >= k <=> i > t.trail_lim[k]
        BY <4>1 DEF TrailInv, LevelsAreSegments
      <4>3. t.level[VarOf(t.trail[i])] \in Nat
        BY <4>1, <1>1, <2>3
      <4>4. ~(t.level[VarOf(t.trail[i])] >= level + 1)
        BY <4>1, <4>2, <2>1
      <4>5. /\ u.level[VarOf(u.trail[i])] = t.level[VarOf(t.trail[i])]
            /\ t.level[VarOf(t.trail[i])] <= level
        BY <4>1, <4>3, <4>4, <2>5
      <4>6. ASSUME NEW k \in 1..Len(u.trail_lim)
            PROVE  k \in 1..Len(t.trail_lim) /\ u.trail_lim[k] = t.trail_lim[k]
        BY <2>1, <2>7
      <4> QED
        BY <4>2, <4>5, <4>6, <2>7 DEF DecisionLevel
    <3> QED
      BY <3>2, <3>3, <3>4 DEF LevelsAreSegments
  <2> QED
    BY <2>1, <2>4, <2>5, <2>6, <2>8, <2>11, <2>12 DEF TrailInv
<1> QED
  BY <1>2, <1>3
-----------------------------------------------------------------------------
(* The solver.                                                              *)

Inv == TypeOK /\ TrailConsistent

-----------------------------------------------------------------------------
(* Lemmas about the operators of the solver.                                *)

\* An element of a sequence.
LEMMA ElementFact ==
    ASSUME NEW S, NEW s \in Seq(S), NEW i \in 1..Len(s) PROVE s[i] \in S
  OBVIOUS

\* Sequences over a larger set.
LEMMA SeqGrows ==
    ASSUME NEW S, NEW T, S \subseteq T PROVE Seq(S) \subseteq Seq(T)
  OBVIOUS

\* Joining two sequences.
LEMMA ConcatFact ==
    ASSUME NEW S, NEW s \in Seq(S), NEW t \in Seq(S) PROVE s \o t \in Seq(S)
  OBVIOUS

\* Replacing an element of a sequence.
LEMMA ExceptFact ==
    ASSUME NEW S, NEW s \in Seq(S), NEW i \in 1..Len(s), NEW x \in S
    PROVE  [s EXCEPT ![i] = x] \in Seq(S) /\ Len([s EXCEPT ![i] = x]) = Len(s)
  OBVIOUS

\* Clauses are only added to the arena, and keep their length: what watches
\* one still does.
LEMMA WatchersGrow ==
    ASSUME NEW a, NEW b, Len(a) \in Nat, Len(b) \in Nat, Len(a) <= Len(b),
           \A c \in 1..Len(a) : Len(b[c].lits) = Len(a[c].lits)
    PROVE  WatchersIn(a) \subseteq WatchersIn(b)
  BY DEF WatchersIn

\* A stored clause.
LEMMA ClauseFacts ==
    ASSUME NEW a \in Seq(ArenaClauses), NEW c \in 1..Len(a)
    PROVE  /\ a[c] \in ArenaClauses /\ a[c].lits \in Seq(Lits) /\ a[c].learned \in BOOLEAN
           /\ a[c].lbd \in Nat /\ a[c].deleted \in BOOLEAN
           /\ a[c] = [lits |-> a[c].lits, learned |-> a[c].learned, lbd |-> a[c].lbd,
                      deleted |-> a[c].deleted]
<1>1. a[c] \in ArenaClauses
  OBVIOUS
<1> QED
  BY <1>1 DEF ArenaClauses

\* A watcher of an arena.
LEMMA WatcherFacts ==
    ASSUME NEW a, NEW w \in WatchersIn(a)
    PROVE  w.clause \in 1..Len(a) /\ Len(a[w.clause].lits) > 1 /\ w.blocker \in Lits
  BY DEF WatchersIn

\* A new clause.
LEMMA NewClauseOK ==
    ASSUME NEW lits \in Seq(Lits), NEW learned \in BOOLEAN, NEW lbd \in Nat
    PROVE  NewClause(lits, learned, lbd) \in ArenaClauses /\ NewClause(lits, learned, lbd).lits = lits
  BY DEF NewClause, ArenaClauses

\* Adding a clause to the arena.
LEMMA AppendClauseOK ==
    ASSUME NEW a \in Seq(ArenaClauses), NEW x \in ArenaClauses
    PROVE  /\ Append(a, x) \in Seq(ArenaClauses) /\ Len(Append(a, x)) = Len(a) + 1
           /\ Append(a, x)[Len(a) + 1] = x
           /\ \A c \in 1..Len(a) : Append(a, x)[c] = a[c]
           /\ WatchersIn(a) \subseteq WatchersIn(Append(a, x))
<1> DEFINE b == Append(a, x)
<1>2. /\ b \in Seq(ArenaClauses) /\ Len(b) = Len(a) + 1 /\ Len(a) \in Nat
      /\ b[Len(a) + 1] = x
      /\ \A c \in 1..Len(a) : b[c] = a[c]
  OBVIOUS
<1> HIDE DEF b
<1>3. WatchersIn(a) \subseteq WatchersIn(b)
  <2>1. /\ Len(a) \in Nat /\ Len(b) \in Nat /\ Len(a) <= Len(b)
        /\ \A c \in 1..Len(a) : Len(b[c].lits) = Len(a[c].lits)
    BY <1>2
  <2> QED
    BY <2>1, WatchersGrow
<1> QED
  BY <1>2, <1>3 DEF b

\* Replacing the literals of a clause by as many others.
LEMMA SetLitsOK ==
    ASSUME NEW a \in Seq(ArenaClauses), NEW c \in 1..Len(a), NEW lits \in Seq(Lits),
           Len(lits) = Len(a[c].lits)
    PROVE  /\ [a EXCEPT ![c].lits = lits] \in Seq(ArenaClauses)
           /\ Len([a EXCEPT ![c].lits = lits]) = Len(a)
           /\ WatchersIn(a) \subseteq WatchersIn([a EXCEPT ![c].lits = lits])
<1> DEFINE d == [a[c] EXCEPT !.lits = lits]
           b == [a EXCEPT ![c].lits = lits]
<1>1. d \in ArenaClauses /\ d.lits = lits
  BY ClauseFacts, ZenonT(60) DEF ArenaClauses
<1>2. b = [a EXCEPT ![c] = d]
  OBVIOUS
<1>3. b \in Seq(ArenaClauses) /\ Len(b) = Len(a) /\ Len(a) \in Nat
      /\ \A i \in 1..Len(a) : b[i] = IF i = c THEN d ELSE a[i]
  BY <1>1, <1>2
<1> HIDE DEF b, d
<1>4. WatchersIn(a) \subseteq WatchersIn(b)
  <2>1. /\ Len(a) \in Nat /\ Len(b) \in Nat /\ Len(a) <= Len(b)
        /\ \A i \in 1..Len(a) : Len(b[i].lits) = Len(a[i].lits)
    BY <1>1, <1>3
  <2> QED
    BY <2>1, WatchersGrow
<1> QED
  BY <1>3, <1>4 DEF b

\* Attaching a clause of two literals or more.
LEMMA AttachOK ==
    ASSUME NEW a, NEW w \in [Lits -> Seq(WatchersIn(a))], NEW id \in 1..Len(a),
           NEW c \in Seq(Lits), Len(c) > 1, Len(a[id].lits) > 1
    PROVE  Attach(w, id, c) \in [Lits -> Seq(WatchersIn(a))]
<1>1. c[1] \in Lits /\ c[2] \in Lits
  OBVIOUS
<1>2. Watcher(id, c[1]) \in WatchersIn(a) /\ Watcher(id, c[2]) \in WatchersIn(a)
  BY <1>1 DEF Watcher, WatchersIn
<1> QED
  BY <1>2 DEF Attach

\* A listing of a set of literals.
LEMMA SortedOK ==
    ASSUME NEW S, IsFiniteSet(S), NEW s \in [1..Cardinality(S) -> S]
    PROVE  s \in Seq(S) /\ Len(s) = Cardinality(S)
<1>1. Cardinality(S) \in Nat
  BY FS_CardinalityType
<1> QED
  BY <1>1

\* Any set of literals of the solver is finite.
LEMMA LitsFinite ==
    ASSUME NEW S \in SUBSET Lits PROVE IsFiniteSet(S)
<1>1. IsFiniteSet(-NumVars..NumVars)
  BY NumVarsAssumption, FS_Interval
<1>2. S \in SUBSET (-NumVars..NumVars)
  BY DEF Lits
<1> QED
  BY <1>1, <1>2, FS_Subset

\* What add_clause keeps of a clause: literals of it that are not false.
LEMMA CleanedFacts ==
    ASSUME NEW lits \in Seq(Lits), NEW c \in Cleaned(lits)
    PROVE  /\ c \in Seq(Lits)
           /\ \A i \in 1..Len(c) : c[i] \in ToSet(lits) /\ ~IsFalse(tr, c[i])
<1> DEFINE S == {l \in ToSet(lits) : ~IsFalse(tr, l)}
<1>1. ToSet(lits) \subseteq Lits
  BY DEF ToSet
<1>2. IsFiniteSet(S) /\ S \subseteq Lits
  BY <1>1, LitsFinite
<1>3. c \in [1..Cardinality(S) -> S]
  BY DEF Cleaned, Sorted
<1> HIDE DEF S
<1>4. c \in Seq(S)
  BY <1>2, <1>3, SortedOK
<1>5. c \in Seq(Lits) /\ \A i \in 1..Len(c) : c[i] \in S
  BY <1>2, <1>4
<1> QED
  BY <1>5 DEF S

\* The client's next call.
LEMMA CallFacts ==
    ASSUME ClientOK, NEW op, Call(op)
    PROVE  /\ calls' \in Seq(Calls) /\ Head(calls) \in Calls /\ Head(calls).op = op
           /\ op = "add_clause" => Head(calls).lits \in Seq(Lits)
           /\ op = "solve" => /\ Head(calls).assumptions \in Seq(Lits)
                              /\ Head(calls).budget \in BOOLEAN
<1>1. /\ calls' \in Seq(Calls) /\ Head(calls) \in Calls /\ Head(calls).op = op
  BY DEF ClientOK, Call
<1>2. \A x \in [op : {"new_var", "push", "pop"}] : x.op \in {"new_var", "push", "pop"}
  OBVIOUS
<1>3. \A x \in [op : {"add_clause"}, lits : Seq(Lits)] : x.op = "add_clause" /\ x.lits \in Seq(Lits)
  OBVIOUS
<1>4. \A x \in [op : {"solve"}, assumptions : Seq(Lits), budget : BOOLEAN] :
        x.op = "solve" /\ x.assumptions \in Seq(Lits) /\ x.budget \in BOOLEAN
  OBVIOUS
<1>5. \A x \in Calls : /\ x.op = "add_clause" => x.lits \in Seq(Lits)
                       /\ x.op = "solve" => x.assumptions \in Seq(Lits) /\ x.budget \in BOOLEAN
  BY <1>2, <1>3, <1>4 DEF Calls
<1> QED
  BY <1>1, <1>5

\* The records of the local variables, field by field.
LEMMA BcpFacts ==
    ASSUME NEW a, NEW x \in BcpRecords(a)
    PROVE  /\ x.lit \in Lits /\ x.todo \in Seq(WatchersIn(a)) /\ x.keep \in Seq(WatchersIn(a))
           /\ x.caller \in {"add_clause", "solve_with_theory", "solve_internal"}
           /\ x = [lit |-> x.lit, todo |-> x.todo, keep |-> x.keep, caller |-> x.caller]
  BY DEF BcpRecords

LEMMA AnFacts ==
    ASSUME NEW x \in AnRecords
    PROVE  /\ x.conflict \in Nat /\ x.origin \in {"bcp", "theory"} /\ x.learned \in Seq(Lits)
           /\ x.seen \in SUBSET Vars /\ x.path_count \in Int /\ x.backtrack_level \in Nat
           /\ x.lits \in Seq(Lits) /\ x.pivot \in Nat /\ x.trail_idx \in Nat /\ x.lbd \in Nat
           /\ x = [conflict |-> x.conflict, origin |-> x.origin, learned |-> x.learned,
                   seen |-> x.seen, path_count |-> x.path_count,
                   backtrack_level |-> x.backtrack_level, lits |-> x.lits, pivot |-> x.pivot,
                   trail_idx |-> x.trail_idx, lbd |-> x.lbd]
  BY DEF AnRecords

LEMMA SvFacts ==
    ASSUME NEW x \in SvRecords
    PROVE  /\ x.assumptions \in Seq(Lits) /\ x.cur \in Nat /\ x.budget \in BOOLEAN
           /\ x.old_trail_len \in Nat /\ x.result \in LBool
           /\ x = [assumptions |-> x.assumptions, cur |-> x.cur, budget |-> x.budget,
                   old_trail_len |-> x.old_trail_len, result |-> x.result]
  BY DEF SvRecords

\* More clauses, as long as before: the lists of watchers keep their types.
LEMMA DatabaseGrows ==
    ASSUME NEW a, NEW b, WatchersIn(a) \subseteq WatchersIn(b), NEW x \in BcpRecords(a)
    PROVE  /\ x \in BcpRecords(b)
           /\ \A w \in [Lits -> Seq(WatchersIn(a))] : w \in [Lits -> Seq(WatchersIn(b))]
<1>1. Seq(WatchersIn(a)) \subseteq Seq(WatchersIn(b))
  OBVIOUS
<1> QED
  BY <1>1 DEF BcpRecords

\* The initial state.
LEMMA InitOK == Init => Inv
<1> SUFFICES ASSUME Init PROVE Inv
  OBVIOUS
<1> USE DEF Init
<1>1. ClientOK
  BY SolverAssumption DEF ClientOK
<1>2. DatabaseOK
  <2>1. LitZero \in Lits
    BY NumVarsAssumption DEF LitZero, Lits
  <2> QED
    BY <2>1 DEF DatabaseOK, BcpRecords
<1>3. TrailOK /\ TrailConsistent
  <2>1. \A v \in Vars : tr.reason[v] = 0
    BY DEF NewTrail, ReasonUnit
  <2> QED
    BY <2>1, NewTrailOK DEF TrailOK, TrailConsistent
<1>4. TheoryScopesOK
  BY DEF TheoryScopesOK, NewTheory
<1>5. ControlOK
  BY DEF ControlOK, LocalPcs, AnRecords, SvRecords, LBool
<1>6. RestOK
  BY NumVarsAssumption, SolverAssumption DEF RestOK, NewRestarts, RestartRecords
<1> QED
  BY <1>1, <1>2, <1>3, <1>4, <1>5, <1>6 DEF Inv, TypeOK

-----------------------------------------------------------------------------
(* One lemma per action.                                                    *)

\* What an action leaves alone stays as it should be.
LEMMA Frame ==
    ASSUME Inv
    PROVE  /\ UNCHANGED <<calls, inputs, scopes>> => ClientOK'
           /\ UNCHANGED <<arena, watches, bcp>> => DatabaseOK'
           /\ UNCHANGED <<arena, tr>> => TrailOK' /\ TrailConsistent'
           /\ UNCHANGED th => TheoryScopesOK'
           /\ UNCHANGED <<num_vars, ok, heap, restarts, proof, max_learned, model>> => RestOK'
           /\ UNCHANGED <<arena, tr, pc, an, sv>> => ControlOK'
<1>1. UNCHANGED <<calls, inputs, scopes>> => ClientOK'
  BY DEF Inv, TypeOK, ClientOK
<1>2. UNCHANGED <<arena, watches, bcp>> => DatabaseOK'
  BY DEF Inv, TypeOK, DatabaseOK
<1>3. UNCHANGED <<arena, tr>> => TrailOK' /\ TrailConsistent'
  BY DEF Inv, TypeOK, TrailOK, TrailConsistent
<1>4. UNCHANGED th => TheoryScopesOK'
  BY DEF Inv, TypeOK, TheoryScopesOK
<1>5. UNCHANGED <<num_vars, ok, heap, restarts, proof, max_learned, model>> => RestOK'
  BY DEF Inv, TypeOK, RestOK
<1>6. UNCHANGED <<arena, tr, pc, an, sv>> => ControlOK'
  BY DEF Inv, TypeOK, ControlOK, ClauseIds
<1> QED
  BY <1>1, <1>2, <1>3, <1>4, <1>5, <1>6

LEMMA NewVarOK == ASSUME Inv, NewVar PROVE Inv'
<1>1. ClientOK'
  BY CallFacts DEF NewVar, ClientOK, Inv, TypeOK
<1>2. RestOK'
  BY NumVarsAssumption DEF NewVar, RestOK, Inv, TypeOK, Vars
<1> QED
  BY <1>1, <1>2, Frame DEF NewVar, db, Inv, TypeOK

\* A scope that covers everything so far keeps the scopes nested.
LEMMA ScopesGrow ==
    ASSUME NEW s \in Seq([clause_count : Nat, inputs : Nat]), NEW k \in Nat, NEW n \in Nat,
           \A i, j \in 1..Len(s) : s[i].inputs <= n /\ (i <= j => s[i].inputs <= s[j].inputs),
           NEW t, t = Append(s, [clause_count |-> k, inputs |-> n])
    PROVE  /\ t \in Seq([clause_count : Nat, inputs : Nat])
           /\ \A i, j \in 1..Len(t) : t[i].inputs <= n /\ (i <= j => t[i].inputs <= t[j].inputs)
<1>1. t \in Seq([clause_count : Nat, inputs : Nat]) /\ Len(t) = Len(s) + 1 /\ Len(s) \in Nat
  OBVIOUS
<1>2. /\ \A i \in 1..Len(s) : t[i] = s[i]
      /\ t[Len(s) + 1] = [clause_count |-> k, inputs |-> n]
  OBVIOUS
<1>3. t[Len(s) + 1].inputs = n
  BY <1>2
<1>4. ASSUME NEW i \in 1..Len(t) PROVE t[i].inputs <= n
  <2>1. CASE i \in 1..Len(s)
    BY <1>2, <2>1
  <2>2. CASE i = Len(s) + 1
    BY <1>3, <2>2
  <2> QED
    BY <1>1, <2>1, <2>2
<1>5. ASSUME NEW i \in 1..Len(t), NEW j \in 1..Len(t), i <= j PROVE t[i].inputs <= t[j].inputs
  <2>1. CASE j \in 1..Len(s)
    <3>1. i \in 1..Len(s)
      BY <1>1, <1>5, <2>1
    <3>2. s[i].inputs <= s[j].inputs
      BY <1>5, <2>1, <3>1
    <3> QED
      BY <1>2, <2>1, <3>1, <3>2
  <2>2. CASE j = Len(s) + 1
    BY <1>3, <1>4, <2>2
  <2> QED
    BY <1>1, <2>1, <2>2
<1> QED
  BY <1>1, <1>4, <1>5

LEMMA PushScope ==
    ASSUME Inv, calls' \in Seq(Calls), inputs' = inputs,
           scopes' = Append(scopes, [clause_count |-> Len(arena), inputs |-> Len(inputs)])
    PROVE  ClientOK'
<1>1. /\ inputs \in Seq(Seq(Lits)) /\ Len(inputs) \in Nat /\ Len(arena) \in Nat
      /\ scopes \in Seq([clause_count : Nat, inputs : Nat])
      /\ \A i, j \in 1..Len(scopes) :
           scopes[i].inputs <= Len(inputs) /\ (i <= j => scopes[i].inputs <= scopes[j].inputs)
  BY DEF Inv, TypeOK, ClientOK, DatabaseOK
<1>2. /\ scopes' \in Seq([clause_count : Nat, inputs : Nat])
      /\ \A i, j \in 1..Len(scopes') :
           scopes'[i].inputs <= Len(inputs) /\ (i <= j => scopes'[i].inputs <= scopes'[j].inputs)
  BY <1>1, ScopesGrow
<1> QED
  BY <1>1, <1>2 DEF ClientOK

LEMMA PushOK == ASSUME Inv, Push PROVE Inv'
<1>1. calls' \in Seq(Calls)
  BY CallFacts DEF Push, Inv, TypeOK
<1>2. ClientOK'
  BY <1>1, PushScope DEF Push
<1> QED
  BY <1>2, Frame DEF Push, db, Inv, TypeOK

\* Backtracking.
LEMMA BacktrackStep ==
    ASSUME Inv, NEW level \in Nat, tr' = BacktrackTo(tr, level), Len(arena') = Len(arena)
    PROVE  TrailOK' /\ TrailConsistent' /\ Reinserted(level) \subseteq Vars
<1>1. tr \in TrailRecords /\ TrailInv(tr) /\ \A v \in Vars : tr.reason[v] <= Len(arena)
  BY DEF Inv, TypeOK, TrailOK, TrailConsistent
<1>2. tr' \in TrailRecords /\ TrailInv(tr') /\ Undone(tr, level) \subseteq Vars
  BY <1>1, BacktrackOK
<1>3. tr'.reason = tr.reason
  BY <1>1 DEF BacktrackTo, TrailRecords
<1>4. heap \subseteq Vars
  BY DEF Inv, TypeOK, RestOK
<1> QED
  BY <1>1, <1>2, <1>3, <1>4 DEF TrailOK, TrailConsistent, Reinserted

\* Assigning an open variable, with a reason that is in the arena.
LEMMA AssignStep ==
    ASSUME Inv, NEW l \in Lits, NEW r \in Reasons, ~IsAssigned(tr, VarOf(l)),
           tr' = Assign(tr, l, r), Len(arena') \in Nat, Len(arena) <= Len(arena'), r <= Len(arena')
    PROVE  TrailOK' /\ TrailConsistent'
<1>1. /\ tr \in TrailRecords /\ TrailInv(tr) /\ \A v \in Vars : tr.reason[v] <= Len(arena)
      /\ Len(arena) \in Nat /\ VarOf(l) \in Vars
  BY LitFacts DEF Inv, TypeOK, TrailOK, TrailConsistent, DatabaseOK
<1>2. tr' \in TrailRecords /\ TrailInv(tr')
  BY <1>1, AssignOK
<1>3. tr'.reason = [tr.reason EXCEPT ![VarOf(l)] = r] /\ tr.reason \in [Vars -> Reasons]
  BY <1>1 DEF Assign, TrailRecords
<1>4. \A v \in Vars : tr'.reason[v] <= Len(arena')
  BY <1>1, <1>3 DEF Reasons, ReasonDecision
<1> QED
  BY <1>2, <1>4 DEF TrailOK, TrailConsistent

\* Marking clauses deleted.
LEMMA DeleteStep ==
    ASSUME Inv, NEW S, arena' = WithDeleted(S), UNCHANGED <<watches, bcp>>
    PROVE  DatabaseOK' /\ Len(arena') = Len(arena)
<1>1. arena \in Seq(ArenaClauses) /\ Len(arena) \in Nat
  BY DEF Inv, TypeOK, DatabaseOK
<1>2. ASSUME NEW i \in 1..Len(arena)
      PROVE  arena'[i] \in ArenaClauses /\ arena'[i].lits = arena[i].lits
  <2>1. CASE i \in S
    <3>1. arena'[i] = [arena[i] EXCEPT !.deleted = TRUE]
      BY <2>1 DEF WithDeleted
    <3> QED
      BY <1>1, <3>1, ClauseFacts DEF ArenaClauses
  <2>2. CASE i \notin S
    BY <2>2, <1>1 DEF WithDeleted
  <2> QED
    BY <2>1, <2>2
<1>3. arena' \in Seq(ArenaClauses) /\ Len(arena') = Len(arena)
  BY <1>1, <1>2 DEF WithDeleted
<1>4. WatchersIn(arena) \subseteq WatchersIn(arena')
  BY <1>1, <1>2, <1>3, WatchersGrow
<1>5. watches' \in [Lits -> Seq(WatchersIn(arena'))] /\ bcp' \in BcpRecords(arena')
  BY <1>4, DatabaseGrows DEF Inv, TypeOK, DatabaseOK
<1> QED
  BY <1>3, <1>5 DEF DatabaseOK

LEMMA PopOK == ASSUME Inv, Pop PROVE Inv'
<1>1. CASE scopes = << >>
  <2>1. ClientOK'
    BY <1>1, CallFacts DEF Pop, rest, ClientOK, Inv, TypeOK
  <2> QED
    BY <1>1, <2>1, Frame DEF Pop, db, rest, Inv, TypeOK
<1>2. CASE scopes # << >>
  <2> DEFINE scope == scopes[Len(scopes)]
  <2>1. /\ scopes' = Front(scopes) /\ tr' = BacktrackTo(tr, 0) /\ heap' = Reinserted(0)
        /\ max_learned' = MaxLearned /\ arena' = WithDeleted(ClausesSince(scope))
        /\ inputs' = SubSeq(inputs, 1, scope.inputs)
        /\ UNCHANGED <<watches, num_vars, ok, restarts, model, proof, th, pc, bcp, an, sv>>
    BY <1>2 DEF Pop
  <2>2. ClientOK'
    <3>1. /\ scopes \in Seq([clause_count : Nat, inputs : Nat]) /\ inputs \in Seq(Seq(Lits))
          /\ Len(scopes) \in Nat /\ Len(scopes) \in 1..Len(scopes) /\ Len(inputs) \in Nat
      BY <1>2 DEF Inv, TypeOK, ClientOK
    <3> DEFINE Nested(ss, n) == \A i, j \in 1..Len(ss) :
                    ss[i].inputs <= n /\ (i <= j => ss[i].inputs <= ss[j].inputs)
    <3>0. Nested(scopes, Len(inputs))
      BY DEF Inv, TypeOK, ClientOK
    <3>2. scope.inputs \in 0..Len(inputs)
      <4>1. scope \in [clause_count : Nat, inputs : Nat]
        BY <3>1, ElementFact
      <4>2. scope.inputs \in Nat
        BY <4>1
      <4>3. scope.inputs <= Len(inputs)
        BY <3>0, <3>1
      <4> QED
        BY <3>1, <4>2, <4>3
    <3>3. inputs' \in Seq(Seq(Lits)) /\ Len(inputs') = scope.inputs
      BY <2>1, <3>1, <3>2, PrefixFacts
    <3>4. /\ scopes' \in Seq([clause_count : Nat, inputs : Nat])
          /\ Len(scopes') = Len(scopes) - 1
          /\ \A i \in 1..(Len(scopes) - 1) : scopes'[i] = scopes[i]
      <4>1. Len(scopes) - 1 \in 0..Len(scopes)
        BY <3>1
      <4> QED
        BY <2>1, <3>1, <4>1, PrefixFacts DEF Front
    <3>5. Nested(scopes', Len(inputs'))
      <4>1. \A i \in 1..Len(scopes') :
              i \in 1..Len(scopes) /\ scopes'[i] = scopes[i] /\ i <= Len(scopes)
        BY <3>1, <3>4, SMTT(20)
      <4> QED
        BY <3>0, <3>1, <3>3, <4>1
    <3>6. calls' \in Seq(Calls)
      BY CallFacts DEF Pop, Inv, TypeOK
    <3> QED
      BY <3>3, <3>4, <3>5, <3>6 DEF ClientOK
  <2>3. DatabaseOK' /\ Len(arena') = Len(arena)
    BY <2>1, DeleteStep
  <2>4. TrailOK' /\ TrailConsistent' /\ Reinserted(0) \subseteq Vars
    BY <2>1, <2>3, BacktrackStep
  <2>5. ControlOK'
    BY <2>1 DEF Pop, Call, Inv, TypeOK, ControlOK
  <2>6. RestOK'
    BY <2>1, <2>4, SolverAssumption DEF Inv, TypeOK, RestOK, Pop
  <2> QED
    BY <2>1, <2>2, <2>3, <2>4, <2>5, <2>6, Frame DEF Inv, TypeOK
<1> QED
  BY <1>1, <1>2

\* Recording a line of the certificate.
LEMMA LogOK ==
    ASSUME Inv, NEW lits \in Seq(Lits) PROVE Log(AddLine(lits)) \in Seq(ProofSteps)
<1>1. AddLine(lits) \in ProofSteps
  BY DEF AddLine, ProofSteps
<1>2. proof \in Seq(ProofSteps)
  BY DEF Inv, TypeOK, RestOK
<1> QED
  BY <1>1, <1>2 DEF Log

\* Storing a clause of two literals or more and watching it.
LEMMA StoreStep ==
    ASSUME Inv, NEW x \in ArenaClauses, Len(x.lits) > 1, arena' = Append(arena, x),
           watches' = Attach(watches, Len(arena) + 1, x.lits), UNCHANGED bcp
    PROVE  DatabaseOK' /\ Len(arena') = Len(arena) + 1
<1>1. arena \in Seq(ArenaClauses) /\ Len(arena) \in Nat /\ x.lits \in Seq(Lits)
  BY DEF Inv, TypeOK, DatabaseOK, ArenaClauses
<1>2. /\ arena' \in Seq(ArenaClauses) /\ Len(arena') = Len(arena) + 1
      /\ arena'[Len(arena) + 1] = x
      /\ WatchersIn(arena) \subseteq WatchersIn(arena')
  BY <1>1, AppendClauseOK
<1>3. watches \in [Lits -> Seq(WatchersIn(arena'))] /\ bcp' \in BcpRecords(arena')
  BY <1>2, DatabaseGrows DEF Inv, TypeOK, DatabaseOK
<1>4. watches' \in [Lits -> Seq(WatchersIn(arena'))]
  <2>1. Len(arena) + 1 \in 1..Len(arena')
    BY <1>1, <1>2
  <2> QED
    BY <1>1, <1>2, <1>3, <2>1, AttachOK
<1> QED
  BY <1>2, <1>3, <1>4 DEF DatabaseOK

\* New variables.
LEMMA AddVarsStep ==
    ASSUME Inv, NEW lits \in Seq(Lits), AddVars(lits)
    PROVE  num_vars' \in 0..NumVars /\ heap' \subseteq Vars
<1>1. PICK top \in {num_vars} \cup {VarOf(l) : l \in ToSet(lits)} :
        num_vars' = top /\ heap' = heap \cup ((num_vars + 1)..top)
  BY DEF AddVars
<1>2. \A l \in ToSet(lits) : VarOf(l) \in Vars
  BY LitFacts DEF ToSet
<1> QED
  BY <1>1, <1>2, NumVarsAssumption DEF Inv, TypeOK, RestOK, Vars

LEMMA AddClauseOK == ASSUME Inv, AddClause PROVE Inv'
<1> DEFINE lits == Head(calls).lits
<1>1. /\ Call("add_clause") /\ pc = "idle" /\ inputs' = Append(inputs, lits)
      /\ UNCHANGED <<th, an, sv>> /\ calls' \in Seq(Calls) /\ lits \in Seq(Lits)
  BY CallFacts DEF AddClause, Call, Inv, TypeOK
<1>2. ASSUME UNCHANGED scopes PROVE ClientOK'
  <2>1. inputs \in Seq(Seq(Lits)) /\ Len(inputs) \in Nat
    BY DEF Inv, TypeOK, ClientOK
  <2>2. inputs' \in Seq(Seq(Lits)) /\ Len(inputs') = Len(inputs) + 1
    BY <1>1, <2>1
  <2>3. /\ scopes \in Seq([clause_count : Nat, inputs : Nat])
        /\ \A i \in 1..Len(scopes) : scopes[i] \in [clause_count : Nat, inputs : Nat]
    BY ElementFact DEF Inv, TypeOK, ClientOK
  <2>4. \A i \in 1..Len(scopes) : scopes[i].inputs \in Nat
    BY <2>3
  <2>5. \A i, j \in 1..Len(scopes) : /\ scopes[i].inputs <= Len(inputs')
                                     /\ i <= j => scopes[i].inputs <= scopes[j].inputs
    <3>1. \A i, j \in 1..Len(scopes) : /\ scopes[i].inputs <= Len(inputs)
                                       /\ i <= j => scopes[i].inputs <= scopes[j].inputs
      BY DEF Inv, TypeOK, ClientOK
    <3>2. ASSUME NEW a \in Nat, a <= Len(inputs) PROVE a <= Len(inputs')
      BY <2>1, <2>2, <3>2
    <3> QED
      BY <2>4, <3>1, <3>2
  <2> QED
    BY <1>1, <1>2, <2>2, <2>3, <2>5 DEF ClientOK
<1>3. ASSUME pc' \in {"idle", "bcp"} PROVE ControlOK'
  BY <1>1, <1>3 DEF Inv, TypeOK, ControlOK, LocalPcs
<1>4. CASE ~ok /\ UNCHANGED <<db, rest, tr, heap, proof, pc, bcp>>
  BY <1>1, <1>2, <1>3, <1>4, Frame DEF db, rest, Inv, TypeOK
<1>5. ASSUME AddVars(lits) PROVE ClientOK' /\ (ok' \in BOOLEAN /\ proof' \in Seq(ProofSteps) => RestOK')
  <2>1. num_vars' \in 0..NumVars /\ heap' \subseteq Vars
    BY <1>1, <1>5, AddVarsStep
  <2>2. UNCHANGED <<restarts, max_learned, scopes, model>>
    BY <1>5 DEF AddVars
  <2> QED
    BY <1>2, <2>1, <2>2 DEF Inv, TypeOK, RestOK
<1>6. CASE AddVars(lits) /\ UNCHANGED <<db, ok, tr, proof, pc, bcp>>
  <2>1. ok' \in BOOLEAN /\ proof' \in Seq(ProofSteps)
    BY <1>6 DEF Inv, TypeOK, RestOK
  <2> QED
    BY <1>1, <1>3, <1>5, <1>6, <2>1, Frame DEF db, Inv, TypeOK
<1>7. ASSUME AddVars(lits), ~Redundant(lits), NEW c \in Cleaned(lits), AddCleaned(c) PROVE Inv'
  <2>1. ok \in BOOLEAN /\ proof \in Seq(ProofSteps)
    BY DEF Inv, TypeOK, RestOK
  <2>2. c \in Seq(Lits) /\ \A i \in 1..Len(c) : c[i] \in ToSet(lits) /\ ~IsFalse(tr, c[i])
    BY <1>1, <1>7, CleanedFacts
  <2>3. CASE /\ c = << >> /\ proof' = Log(AddLine(<< >>)) /\ ok' = FALSE
             /\ UNCHANGED <<db, tr, pc, bcp>>
    <3>1. proof' \in Seq(ProofSteps)
      <4>1. << >> \in Seq(Lits)
        OBVIOUS
      <4> QED
        BY <2>3, <4>1, LogOK
    <3> QED
      BY <1>1, <1>3, <1>5, <1>7, <2>3, <3>1, Frame DEF db, Inv, TypeOK
  <2>4. CASE /\ Len(c) = 1 /\ tr' = Assign(tr, c[1], ReasonUnit)
             /\ pc' = "bcp" /\ bcp' = [bcp EXCEPT !.caller = "add_clause"]
             /\ UNCHANGED <<db, ok, proof>>
    <3>1. c[1] \in Lits /\ c[1] \in ToSet(lits) /\ ~IsFalse(tr, c[1]) /\ ~IsTrue(tr, c[1])
      BY <1>7, <2>2, <2>4, SMTT(20) DEF Redundant
    <3>2. ~IsAssigned(tr, VarOf(c[1]))
      <4>1. tr.assigns[VarOf(c[1])] \in LBool
        BY <3>1, LitFacts DEF Inv, TypeOK, TrailOK, TrailRecords
      <4> QED
        BY <3>1, <4>1 DEF IsAssigned, IsTrue, IsFalse, LitValue, NotVal, LBool
    <3>3. TrailOK' /\ TrailConsistent'
      <4>1. ReasonUnit \in Reasons /\ ReasonUnit <= Len(arena') /\ arena' = arena /\ Len(arena) \in Nat
        BY <2>4 DEF ReasonUnit, Reasons, db, Inv, TypeOK, DatabaseOK
      <4> QED
        BY <2>4, <3>1, <3>2, <4>1, AssignStep
    <3>4. DatabaseOK'
      BY <2>4, BcpFacts DEF Inv, TypeOK, DatabaseOK, db, BcpRecords
    <3> QED
      BY <1>1, <1>3, <1>5, <1>7, <2>1, <2>4, <3>3, <3>4, Frame DEF Inv, TypeOK
  <2>5. CASE /\ Len(c) > 1 /\ arena' = Append(arena, NewClause(c, FALSE, 0))
             /\ watches' = Attach(watches, Len(arena) + 1, c)
             /\ UNCHANGED <<ok, tr, proof, pc, bcp>>
    <3>1. DatabaseOK' /\ Len(arena') = Len(arena) + 1 /\ Len(arena) \in Nat
      <4>1. NewClause(c, FALSE, 0) \in ArenaClauses /\ NewClause(c, FALSE, 0).lits = c
        BY <2>2, NewClauseOK
      <4>2. Len(arena) \in Nat
        BY DEF Inv, TypeOK, DatabaseOK
      <4>3. Len(NewClause(c, FALSE, 0).lits) > 1 /\ UNCHANGED bcp
        BY <2>5, <4>1
      <4> QED
        BY <2>5, <4>1, <4>2, <4>3, StoreStep
    <3>2. TrailOK' /\ TrailConsistent'
      <4>1. tr \in TrailRecords /\ \A v \in Vars : tr.reason[v] \in Reasons /\ tr.reason[v] <= Len(arena)
        BY DEF Inv, TypeOK, TrailOK, TrailRecords
      <4>2. \A v \in Vars : tr.reason[v] <= Len(arena')
        BY <3>1, <4>1 DEF Reasons, ReasonDecision
      <4> QED
        BY <2>5, <4>1, <4>2 DEF TrailOK, TrailConsistent, Inv
    <3> QED
      BY <1>1, <1>3, <1>5, <1>7, <2>1, <2>5, <3>1, <3>2, Frame DEF Inv, TypeOK
  <2> QED
    BY <1>7, <2>3, <2>4, <2>5 DEF AddCleaned
<1> QED
  BY <1>4, <1>6, <1>7 DEF AddClause

LEMMA SolveOK == ASSUME Inv, Solve PROVE Inv'
<1> DEFINE call == Head(calls)
<1>1. /\ Call("solve") /\ calls' \in Seq(Calls) /\ call.assumptions \in Seq(Lits)
      /\ call.budget \in BOOLEAN /\ UNCHANGED <<inputs, db, rest, proof, an>>
      /\ th' = NewTheory
      /\ sv' = [assumptions |-> call.assumptions, cur |-> 0, budget |-> call.budget,
                old_trail_len |-> 0, result |-> IF ok THEN "Undef" ELSE "False"]
  BY CallFacts DEF Solve, Inv, TypeOK
<1>2. ClientOK'
  BY <1>1 DEF Inv, TypeOK, ClientOK, rest
<1>3. TheoryScopesOK'
  BY <1>1 DEF TheoryScopesOK, NewTheory
<1>4. sv' \in SvRecords
  BY <1>1 DEF SvRecords, LBool
<1>5. ASSUME pc' \in {"bcp", "answered"} PROVE ControlOK'
  BY <1>1, <1>4, <1>5 DEF Inv, TypeOK, ControlOK, LocalPcs
<1>6. CASE ok
  <2>1. /\ tr' = BacktrackTo(tr, 0) /\ heap' = Reinserted(0)
        /\ pc' = "bcp" /\ bcp' = [bcp EXCEPT !.caller = "solve_with_theory"]
    BY <1>6 DEF Solve
  <2>2. TrailOK' /\ TrailConsistent' /\ Reinserted(0) \subseteq Vars
    BY <1>1, <2>1, BacktrackStep DEF db
  <2>3. DatabaseOK'
    BY <1>1, <2>1, BcpFacts DEF Inv, TypeOK, DatabaseOK, db, BcpRecords
  <2>4. RestOK'
    BY <1>1, <2>1, <2>2 DEF Inv, TypeOK, RestOK, rest
  <2> QED
    BY <1>2, <1>3, <1>5, <2>1, <2>2, <2>3, <2>4 DEF Inv, TypeOK
<1>7. CASE ~ok
  BY <1>1, <1>2, <1>3, <1>5, <1>7, Frame DEF Solve, Inv, TypeOK, db, rest
<1> QED
  BY <1>6, <1>7

\* Changing the fields of bcp().
LEMMA BcpUpdate ==
    ASSUME NEW a, NEW x \in BcpRecords(a), NEW todo \in Seq(WatchersIn(a)),
           NEW keep \in Seq(WatchersIn(a)), NEW lit \in Lits
    PROVE  /\ [x EXCEPT !.todo = todo] \in BcpRecords(a)
           /\ [x EXCEPT !.keep = keep] \in BcpRecords(a)
           /\ [x EXCEPT !.todo = todo, !.keep = keep] \in BcpRecords(a)
           /\ [x EXCEPT !.lit = lit, !.todo = todo, !.keep = keep] \in BcpRecords(a)
  BY BcpFacts DEF BcpRecords

\* What propagation leaves alone.
LEMMA KeepRestOK ==
    ASSUME Inv, KeepRest
    PROVE  /\ ClientOK' /\ TheoryScopesOK' /\ RestOK'
           /\ pc' \in {"visit", "bcp"} => ControlOK'
<1>1. ClientOK' /\ TheoryScopesOK' /\ RestOK'
  BY Frame DEF KeepRest, client, rest
<1>2. ASSUME pc' \in {"visit", "bcp"} PROVE ControlOK'
  BY <1>2 DEF KeepRest, Inv, TypeOK, ControlOK, LocalPcs
<1> QED
  BY <1>1, <1>2

LEMMA BcpDequeueOK == ASSUME Inv, BcpDequeue PROVE Inv'
<1> DEFINE p == NextUnpropagated(tr)
<1>1. /\ tr \in TrailRecords /\ TrailInv(tr) /\ HasUnpropagated(tr) /\ tr' = Dequeue(tr)
      /\ UNCHANGED arena
  BY DEF BcpDequeue, Inv, TypeOK, TrailOK, TrailConsistent
<1>2. p \in Lits /\ tr' \in TrailRecords /\ TrailInv(tr')
  BY <1>1, DequeueOK
<1>3. TrailOK' /\ TrailConsistent'
  <2>1. tr'.reason = tr.reason
    BY <1>1 DEF Dequeue, TrailRecords
  <2> QED
    BY <1>1, <1>2, <2>1 DEF Inv, TypeOK, TrailOK, TrailConsistent
<1>4. DatabaseOK'
  <2>1. /\ bcp \in BcpRecords(arena) /\ watches \in [Lits -> Seq(WatchersIn(arena))]
        /\ arena \in Seq(ArenaClauses)
    BY DEF Inv, TypeOK, DatabaseOK
  <2>2. watches[p] \in Seq(WatchersIn(arena)) /\ << >> \in Seq(WatchersIn(arena))
    BY <1>2, <2>1
  <2>3. bcp' = [bcp EXCEPT !.lit = p, !.todo = watches[p], !.keep = << >>]
        /\ watches' = [watches EXCEPT ![p] = << >>]
    BY DEF BcpDequeue
  <2>4. bcp' \in BcpRecords(arena)
    BY <1>2, <2>1, <2>2, <2>3, BcpUpdate
  <2>5. watches' \in [Lits -> Seq(WatchersIn(arena))]
    BY <2>1, <2>2, <2>3
  <2> QED
    BY <1>1, <2>1, <2>4, <2>5 DEF DatabaseOK
<1>5. KeepRest /\ pc' = "visit"
  BY DEF BcpDequeue, KeepRest
<1> QED
  BY <1>3, <1>4, <1>5, KeepRestOK DEF Inv, TypeOK

\* The watcher at hand and its clause.
LEMMA AtHandFacts ==
    ASSUME Inv, bcp.todo # << >>
    PROVE  /\ AtHand \in WatchersIn(arena) /\ AtHand.clause \in 1..Len(arena)
           /\ ClauseAtHand \in Seq(Lits) /\ Len(ClauseAtHand) > 1
           /\ Len(ClauseAtHand) = Len(arena[AtHand.clause].lits)
           /\ First \in Lits
           /\ Watcher(AtHand.clause, First) \in WatchersIn(arena)
           /\ Tail(bcp.todo) \in Seq(WatchersIn(arena))
<1>1. /\ bcp.todo \in Seq(WatchersIn(arena)) /\ bcp.lit \in Lits /\ arena \in Seq(ArenaClauses)
  BY BcpFacts DEF Inv, TypeOK, DatabaseOK
<1>2. AtHand \in WatchersIn(arena) /\ Tail(bcp.todo) \in Seq(WatchersIn(arena))
  BY <1>1 DEF AtHand
<1> DEFINE c == arena[AtHand.clause].lits
<1>3. AtHand.clause \in 1..Len(arena) /\ Len(c) > 1
  BY <1>2, WatcherFacts
<1>4. c \in Seq(Lits)
  BY <1>1, <1>3, ClauseFacts
<1>5. Swapped(c) \in Seq(Lits) /\ Len(Swapped(c)) = Len(c)
  <2>1. Neg(bcp.lit) \in Lits /\ c[2] \in Lits
    BY <1>1, <1>3, <1>4, LitFacts
  <2> HIDE DEF c
  <2> QED
    BY <1>3, <1>4, <2>1 DEF Swapped
<1>6. ClauseAtHand = Swapped(c)
  BY DEF ClauseAtHand
<1> HIDE DEF c
<1>7. First \in Lits
  BY <1>3, <1>5, <1>6 DEF First
<1>8. Watcher(AtHand.clause, First) \in WatchersIn(arena)
  BY <1>3, <1>7 DEF Watcher, WatchersIn, c
<1> QED
  BY <1>2, <1>3, <1>5, <1>6, <1>7, <1>8 DEF c

LEMMA VisitSkipOK == ASSUME Inv, VisitSkip PROVE Inv'
<1>1. /\ bcp.todo # << >> /\ KeepRest /\ pc' = "visit" /\ UNCHANGED <<arena, watches, tr>>
      /\ bcp' = [bcp EXCEPT !.todo = Tail(@),
                   !.keep = IF arena[AtHand.clause].deleted THEN @ ELSE Append(@, AtHand)]
  BY DEF VisitSkip, Visit, db
<1>2. bcp \in BcpRecords(arena) /\ bcp.keep \in Seq(WatchersIn(arena))
  BY BcpFacts DEF Inv, TypeOK, DatabaseOK
<1>3. /\ Tail(bcp.todo) \in Seq(WatchersIn(arena))
      /\ Append(bcp.keep, AtHand) \in Seq(WatchersIn(arena))
  BY <1>1, <1>2, AtHandFacts
<1>4. bcp' \in BcpRecords(arena)
  BY <1>1, <1>2, <1>3, BcpUpdate, NumVarsAssumption, BcpFacts
<1> QED
  BY <1>1, <1>4, Frame, KeepRestOK DEF Inv, TypeOK, DatabaseOK

\* Writing the clause at hand back, in another order, keeps what watches it.
LEMMA WriteBack ==
    ASSUME Inv, bcp.todo # << >>, NEW lits \in Seq(Lits), Len(lits) = Len(ClauseAtHand),
           arena' = [arena EXCEPT ![AtHand.clause].lits = lits]
    PROVE  /\ arena' \in Seq(ArenaClauses) /\ Len(arena') = Len(arena) /\ Len(arena) \in Nat
           /\ WatchersIn(arena) \subseteq WatchersIn(arena')
           /\ Seq(WatchersIn(arena)) \subseteq Seq(WatchersIn(arena'))
           /\ bcp \in BcpRecords(arena') /\ watches \in [Lits -> Seq(WatchersIn(arena'))]
<1>1. /\ arena \in Seq(ArenaClauses) /\ Len(arena) \in Nat /\ AtHand.clause \in 1..Len(arena)
      /\ bcp \in BcpRecords(arena) /\ watches \in [Lits -> Seq(WatchersIn(arena))]
      /\ Len(lits) = Len(arena[AtHand.clause].lits)
  BY AtHandFacts DEF Inv, TypeOK, DatabaseOK
<1> DEFINE b == [arena EXCEPT ![AtHand.clause].lits = lits]
<1>2. /\ b \in Seq(ArenaClauses) /\ Len(b) = Len(arena)
      /\ WatchersIn(arena) \subseteq WatchersIn(b)
  BY <1>1, SetLitsOK, ZenonT(60)
<1>3. arena' = b
  OBVIOUS
<1> HIDE DEF b
<1>4. bcp \in BcpRecords(b) /\ watches \in [Lits -> Seq(WatchersIn(b))]
  <2>1. bcp \in BcpRecords(b)
    BY <1>1, <1>2, DatabaseGrows
  <2>2. watches \in [Lits -> Seq(WatchersIn(b))]
    BY <1>1, <1>2, SeqGrows
  <2> QED
    BY <2>1, <2>2
<1>5. Seq(WatchersIn(arena)) \subseteq Seq(WatchersIn(b))
  BY <1>2, SeqGrows
<1> QED
  BY <1>1, <1>2, <1>3, <1>4, <1>5

\* The watcher of the clause at hand is kept.
LEMMA KeepStep ==
    ASSUME Inv, bcp.todo # << >>, arena' = [arena EXCEPT ![AtHand.clause].lits = ClauseAtHand],
           UNCHANGED watches,
           bcp' = [bcp EXCEPT !.todo = Tail(@), !.keep = Append(@, Watcher(AtHand.clause, First))]
    PROVE  DatabaseOK' /\ Len(arena') = Len(arena) /\ Len(arena) \in Nat
<1>1. /\ arena' \in Seq(ArenaClauses) /\ Len(arena') = Len(arena) /\ Len(arena) \in Nat
      /\ WatchersIn(arena) \subseteq WatchersIn(arena')
      /\ Seq(WatchersIn(arena)) \subseteq Seq(WatchersIn(arena'))
      /\ bcp \in BcpRecords(arena') /\ watches \in [Lits -> Seq(WatchersIn(arena'))]
  BY WriteBack, AtHandFacts
<1>2. /\ Append(bcp.keep, Watcher(AtHand.clause, First)) \in Seq(WatchersIn(arena'))
      /\ Tail(bcp.todo) \in Seq(WatchersIn(arena')) /\ bcp.lit \in Lits
  <2>1. bcp.keep \in Seq(WatchersIn(arena')) /\ bcp.lit \in Lits
    BY <1>1, BcpFacts
  <2>2. /\ Watcher(AtHand.clause, First) \in WatchersIn(arena')
        /\ Tail(bcp.todo) \in Seq(WatchersIn(arena'))
    BY <1>1, AtHandFacts
  <2> QED
    BY <2>1, <2>2
<1>3. bcp' \in BcpRecords(arena')
  BY <1>1, <1>2, BcpUpdate
<1> QED
  BY <1>1, <1>3 DEF DatabaseOK

\* A step that changes neither the trail nor the length of the arena.
LEMMA TrailStays ==
    ASSUME Inv, UNCHANGED tr, Len(arena') \in Nat, Len(arena) <= Len(arena')
    PROVE  TrailOK' /\ TrailConsistent'
<1>1. /\ tr \in TrailRecords /\ TrailInv(tr) /\ Len(arena) \in Nat
      /\ \A v \in Vars : tr.reason[v] \in Reasons /\ tr.reason[v] <= Len(arena)
  BY DEF Inv, TypeOK, TrailOK, TrailConsistent, TrailRecords, DatabaseOK
<1>2. \A v \in Vars : tr.reason[v] <= Len(arena')
  BY <1>1 DEF Reasons, ReasonDecision
<1> QED
  BY <1>1, <1>2 DEF TrailOK, TrailConsistent

LEMMA VisitSatisfiedOK == ASSUME Inv, VisitSatisfied PROVE Inv'
<1>1. /\ bcp.todo # << >> /\ KeepRest /\ pc' = "visit" /\ UNCHANGED <<watches, tr>>
      /\ arena' = [arena EXCEPT ![AtHand.clause].lits = ClauseAtHand]
      /\ bcp' = [bcp EXCEPT !.todo = Tail(@), !.keep = Append(@, Watcher(AtHand.clause, First))]
  BY DEF VisitSatisfied, Visit
<1>2. DatabaseOK' /\ Len(arena') = Len(arena) /\ Len(arena) \in Nat
  BY <1>1, KeepStep
<1>3. TrailOK' /\ TrailConsistent'
  BY <1>1, <1>2, TrailStays
<1> QED
  BY <1>1, <1>2, <1>3, KeepRestOK DEF Inv, TypeOK

LEMMA VisitUnitOK == ASSUME Inv, VisitUnit PROVE Inv'
<1>1. /\ bcp.todo # << >> /\ KeepRest /\ pc' = "visit" /\ UNCHANGED watches
      /\ LitValue(tr, First) = "Undef" /\ tr' = Assign(tr, First, AtHand.clause)
      /\ arena' = [arena EXCEPT ![AtHand.clause].lits = ClauseAtHand]
      /\ bcp' = [bcp EXCEPT !.todo = Tail(@), !.keep = Append(@, Watcher(AtHand.clause, First))]
  BY DEF VisitUnit, Visit
<1>2. DatabaseOK' /\ Len(arena') = Len(arena) /\ Len(arena) \in Nat
  BY <1>1, KeepStep
<1>3. First \in Lits /\ AtHand.clause \in 1..Len(arena)
  BY <1>1, AtHandFacts
<1>4. ~IsAssigned(tr, VarOf(First))
  <2>1. tr.assigns[VarOf(First)] \in LBool
    BY <1>3, LitFacts DEF Inv, TypeOK, TrailOK, TrailRecords
  <2> QED
    BY <1>1, <2>1 DEF IsAssigned, LitValue, NotVal, LBool
<1>5. TrailOK' /\ TrailConsistent'
  <2>1. AtHand.clause \in Reasons /\ AtHand.clause <= Len(arena')
    BY <1>2, <1>3 DEF Reasons
  <2> QED
    BY <1>1, <1>2, <1>3, <1>4, <2>1, AssignStep
<1> QED
  BY <1>1, <1>2, <1>5, KeepRestOK DEF Inv, TypeOK

LEMMA VisitRewatchOK == ASSUME Inv, VisitRewatch PROVE Inv'
<1>1. /\ bcp.todo # << >> /\ KeepRest /\ pc' = "visit" /\ UNCHANGED tr
      /\ bcp' = [bcp EXCEPT !.todo = Tail(@)]
  BY DEF VisitRewatch, Visit
<1>2. PICK i \in NewWatches :
        LET cand == ClauseAtHand[i]
        IN  /\ arena' = [arena EXCEPT ![AtHand.clause].lits =
                           [ClauseAtHand EXCEPT ![2] = cand, ![i] = Neg(bcp.lit)]]
            /\ watches' = [watches EXCEPT ![Neg(cand)] =
                             Append(@, Watcher(AtHand.clause, First))]
  BY DEF VisitRewatch
<1> DEFINE cand == ClauseAtHand[i]
           lits == [ClauseAtHand EXCEPT ![2] = cand, ![i] = Neg(bcp.lit)]
<1>3. ClauseAtHand \in Seq(Lits) /\ cand \in Lits /\ i \in 1..Len(ClauseAtHand)
  BY <1>1, AtHandFacts DEF NewWatches
<1>4. lits \in Seq(Lits) /\ Len(lits) = Len(ClauseAtHand)
  <2>1. Neg(bcp.lit) \in Lits
    BY BcpFacts, LitFacts DEF Inv, TypeOK, DatabaseOK
  <2>2. 2 \in 1..Len(ClauseAtHand)
    BY <1>1, <1>3, AtHandFacts
  <2>3. /\ [ClauseAtHand EXCEPT ![2] = cand] \in Seq(Lits)
        /\ Len([ClauseAtHand EXCEPT ![2] = cand]) = Len(ClauseAtHand)
    BY <1>3, <2>2, ExceptFact
  <2>4. lits = [[ClauseAtHand EXCEPT ![2] = cand] EXCEPT ![i] = Neg(bcp.lit)]
    OBVIOUS
  <2> QED
    BY <1>3, <2>1, <2>3, <2>4, ExceptFact
<1>5. /\ arena' \in Seq(ArenaClauses) /\ Len(arena') = Len(arena) /\ Len(arena) \in Nat
      /\ WatchersIn(arena) \subseteq WatchersIn(arena')
      /\ bcp \in BcpRecords(arena') /\ watches \in [Lits -> Seq(WatchersIn(arena'))]
  <2> HIDE DEF lits
  <2>1. arena' = [arena EXCEPT ![AtHand.clause].lits = lits]
    BY <1>2 DEF lits
  <2> QED
    BY <1>1, <1>4, <2>1, WriteBack
<1>6. watches' \in [Lits -> Seq(WatchersIn(arena'))]
  <2>1. Neg(cand) \in Lits /\ Watcher(AtHand.clause, First) \in WatchersIn(arena')
    BY <1>1, <1>3, <1>5, AtHandFacts, LitFacts
  <2>2. Append(watches[Neg(cand)], Watcher(AtHand.clause, First)) \in Seq(WatchersIn(arena'))
    BY <1>5, <2>1
  <2> QED
    BY <1>2, <1>5, <2>1, <2>2
<1>7. bcp' \in BcpRecords(arena')
  <2>1. Tail(bcp.todo) \in Seq(WatchersIn(arena'))
    BY <1>1, <1>5, AtHandFacts
  <2> QED
    BY <1>1, <1>5, <2>1, BcpFacts DEF BcpRecords
<1>8. TrailOK' /\ TrailConsistent'
  BY <1>1, <1>5, TrailStays
<1> QED
  BY <1>1, <1>5, <1>6, <1>7, <1>8, KeepRestOK DEF Inv, TypeOK, DatabaseOK

LEMMA VisitConflictOK == ASSUME Inv, VisitConflict PROVE Inv'
<1>1. /\ bcp.todo # << >> /\ pc' = "conflict" /\ UNCHANGED <<client, rest, tr, heap, proof, th, sv>>
      /\ arena' = [arena EXCEPT ![AtHand.clause].lits = ClauseAtHand]
      /\ watches' = [watches EXCEPT ![bcp.lit] =
                        Append(bcp.keep, Watcher(AtHand.clause, First)) \o Tail(bcp.todo)]
      /\ bcp' = [bcp EXCEPT !.todo = << >>, !.keep = << >>]
      /\ an' = [an EXCEPT !.conflict = AtHand.clause, !.origin = "bcp"]
  BY DEF VisitConflict, Visit
<1>2. /\ arena' \in Seq(ArenaClauses) /\ Len(arena') = Len(arena) /\ Len(arena) \in Nat
      /\ WatchersIn(arena) \subseteq WatchersIn(arena')
      /\ bcp \in BcpRecords(arena') /\ watches \in [Lits -> Seq(WatchersIn(arena'))]
  BY <1>1, WriteBack, AtHandFacts
<1>3. /\ bcp.keep \in Seq(WatchersIn(arena')) /\ bcp.lit \in Lits
      /\ Watcher(AtHand.clause, First) \in WatchersIn(arena')
      /\ Tail(bcp.todo) \in Seq(WatchersIn(arena')) /\ AtHand.clause \in 1..Len(arena)
  <2>1. bcp.keep \in Seq(WatchersIn(arena')) /\ bcp.lit \in Lits
    BY <1>2, BcpFacts
  <2>2. Seq(WatchersIn(arena)) \subseteq Seq(WatchersIn(arena'))
    BY <1>2
  <2> QED
    BY <1>1, <1>2, <2>1, <2>2, AtHandFacts
<1>4. DatabaseOK'
  <2>1. bcp' \in BcpRecords(arena')
    <3>1. << >> \in Seq(WatchersIn(arena'))
      OBVIOUS
    <3> QED
      BY <1>1, <1>2, <1>3, <3>1, BcpUpdate
  <2>2. watches' \in [Lits -> Seq(WatchersIn(arena'))]
    <3>1. Append(bcp.keep, Watcher(AtHand.clause, First)) \in Seq(WatchersIn(arena'))
      BY <1>3
    <3>2. Append(bcp.keep, Watcher(AtHand.clause, First)) \o Tail(bcp.todo)
             \in Seq(WatchersIn(arena'))
      BY <1>3, <3>1, ConcatFact
    <3> QED
      BY <1>1, <1>2, <1>3, <3>2
  <2> QED
    BY <1>2, <2>1, <2>2 DEF DatabaseOK
<1>5. TrailOK' /\ TrailConsistent'
  BY <1>1, <1>2, TrailStays
<1>6. ControlOK'
  <2>1. an' \in AnRecords /\ an'.conflict = AtHand.clause
    <3>1. an \in AnRecords /\ AtHand.clause \in Nat
      BY <1>2, <1>3 DEF Inv, TypeOK, ControlOK
    <3> QED
      BY <1>1, <3>1, AnFacts DEF AnRecords
  <2> QED
    BY <1>1, <1>2, <1>3, <2>1 DEF Inv, TypeOK, ControlOK, LocalPcs, ClauseIds
<1> QED
  BY <1>1, <1>4, <1>5, <1>6, Frame DEF Inv, TypeOK, client, rest

LEMMA VisitEndOK == ASSUME Inv, VisitEnd PROVE Inv'
<1>1. /\ KeepRest /\ pc' = "bcp" /\ UNCHANGED <<arena, tr>>
      /\ watches' = [watches EXCEPT ![bcp.lit] = bcp.keep]
      /\ bcp' = [bcp EXCEPT !.keep = << >>]
  BY DEF VisitEnd
<1>2. /\ bcp \in BcpRecords(arena) /\ bcp.keep \in Seq(WatchersIn(arena)) /\ bcp.lit \in Lits
      /\ arena \in Seq(ArenaClauses) /\ watches \in [Lits -> Seq(WatchersIn(arena))]
  BY BcpFacts DEF Inv, TypeOK, DatabaseOK
<1>3. bcp' \in BcpRecords(arena)
  <2>1. << >> \in Seq(WatchersIn(arena))
    OBVIOUS
  <2> QED
    BY <1>1, <1>2, <2>1, BcpUpdate
<1> QED
  BY <1>1, <1>2, <1>3, Frame, KeepRestOK DEF Inv, TypeOK, DatabaseOK

\* A subsequence that ends within its sequence.
LEMMA SubSeqFact ==
    ASSUME NEW S, NEW s \in Seq(S), NEW m \in Nat \ {0}, NEW n \in 0..Len(s)
    PROVE  SubSeq(s, m, n) \in Seq(S)
  OBVIOUS

\* Telling the theory literals, opening a scope and popping scopes.
LEMMA TheoryAssertStep ==
    ASSUME Inv, NEW lits \in Seq(Lits), th' = TheoryAssert(th, lits) PROVE TheoryScopesOK'
<1>1. /\ th \in [asserted : Seq(Lits), lims : Seq(Nat)]
      /\ th.asserted \in Seq(Lits) /\ th.lims \in Seq(Nat)
      /\ Len(th.asserted) \in Nat /\ Len(lits) \in Nat
  BY DEF Inv, TypeOK, TheoryScopesOK
<1>2. th'.asserted = th.asserted \o lits /\ th'.lims = th.lims
      /\ th' \in [asserted : Seq(Lits), lims : Seq(Nat)]
  <2>1. th.asserted \o lits \in Seq(Lits)
    BY <1>1, ConcatFact
  <2>2. th = [asserted |-> th.asserted, lims |-> th.lims]
    BY <1>1
  <2> QED
    BY <1>1, <2>1, <2>2 DEF TheoryAssert
<1>3. Len(th'.asserted) = Len(th.asserted) + Len(lits)
  BY <1>1, <1>2
<1>4. \A i \in 1..Len(th.lims) : th.lims[i] \in Nat
  BY <1>1
<1> QED
  BY <1>1, <1>2, <1>3, <1>4 DEF Inv, TypeOK, TheoryScopesOK

LEMMA TheoryPopStep ==
    ASSUME Inv, NEW level \in Nat, th' = TheoryPopTo(th, level) PROVE TheoryScopesOK'
<1>1. /\ th \in [asserted : Seq(Lits), lims : Seq(Nat)]
      /\ th.asserted \in Seq(Lits) /\ th.lims \in Seq(Nat)
      /\ Len(th.asserted) \in Nat /\ Len(th.lims) \in Nat
      /\ \A i, j \in 1..Len(th.lims) :
           th.lims[i] <= Len(th.asserted) /\ (i <= j => th.lims[i] <= th.lims[j])
  BY DEF Inv, TypeOK, TheoryScopesOK
<1>2. CASE Len(th.lims) > level
  <2> DEFINE n == th.lims[level + 1]
  <2>1. level + 1 \in 1..Len(th.lims) /\ level \in 0..Len(th.lims) /\ n \in 0..Len(th.asserted)
    BY <1>1, <1>2
  <2>2. th' = [asserted |-> SubSeq(th.asserted, 1, n), lims |-> SubSeq(th.lims, 1, level)]
    BY <1>2 DEF TheoryPopTo
  <2>3. th'.asserted \in Seq(Lits) /\ Len(th'.asserted) = n
    BY <1>1, <2>1, <2>2, PrefixFacts
  <2>4. /\ th'.lims \in Seq(Nat) /\ Len(th'.lims) = level
        /\ \A i \in 1..level : th'.lims[i] = th.lims[i]
    BY <1>1, <2>1, <2>2, PrefixFacts, SMTT(20)
  <2>5. \A i, j \in 1..Len(th'.lims) :
          th'.lims[i] <= Len(th'.asserted) /\ (i <= j => th'.lims[i] <= th'.lims[j])
    <3>1. \A i \in 1..level : i \in 1..Len(th.lims) /\ i <= level + 1
      BY <2>1
    <3> QED
      BY <1>1, <2>1, <2>3, <2>4, <3>1
  <2>6. th' \in [asserted : Seq(Lits), lims : Seq(Nat)]
    BY <2>2, <2>3, <2>4
  <2> QED
    BY <2>5, <2>6 DEF TheoryScopesOK
<1>3. CASE ~(Len(th.lims) > level)
  BY <1>3, Frame DEF TheoryPopTo
<1> QED
  BY <1>2, <1>3

\* bcp() returns Ok.
LEMMA BcpOkOK == ASSUME Inv, BcpOk PROVE Inv'
<1>1. UNCHANGED <<client, db, num_vars, ok, restarts, max_learned, model, tr, heap, proof, bcp, an, sv>>
  BY DEF BcpOk
<1>2. DatabaseOK' /\ TrailOK' /\ TrailConsistent' /\ RestOK'
  BY <1>1, Frame DEF db
<1>3. ASSUME pc' \in {"idle", "loop", "theory"} PROVE ControlOK'
  BY <1>1, <1>3 DEF Inv, TypeOK, ControlOK, LocalPcs
<1>4. tr.trail \in Seq(Lits) /\ Len(tr.trail) \in 0..Len(tr.trail) /\ sv.old_trail_len + 1 \in Nat \ {0}
  BY SvFacts DEF Inv, TypeOK, TrailOK, TrailRecords, ControlOK
<1>5. CASE pc' = "idle" /\ UNCHANGED <<th, scopes>>
  BY <1>1, <1>2, <1>3, <1>5, Frame DEF client, Inv, TypeOK
<1>6. CASE /\ pc' = "loop" /\ th' = TheoryAssert(th, tr.trail)
           /\ scopes' = IF sv.assumptions = << >> THEN scopes
                        ELSE Append(scopes, [clause_count |-> Len(arena), inputs |-> Len(inputs)])
  <2>1. TheoryScopesOK'
    BY <1>4, <1>6, TheoryAssertStep
  <2>2. ClientOK'
    <3>1. CASE UNCHANGED scopes
      BY <1>1, <3>1, Frame DEF client
    <3>2. CASE scopes' = Append(scopes, [clause_count |-> Len(arena), inputs |-> Len(inputs)])
      <4>1. calls' \in Seq(Calls) /\ inputs' = inputs
        BY <1>1 DEF client, Inv, TypeOK, ClientOK
      <4> QED
        BY <3>2, <4>1, PushScope
    <3> QED
      BY <1>6, <3>1, <3>2
  <2> QED
    BY <1>2, <1>3, <1>6, <2>1, <2>2 DEF Inv, TypeOK
<1>7. CASE /\ pc' = "theory" /\ UNCHANGED scopes
           /\ th' = TheoryAssert(th, SubSeq(tr.trail, sv.old_trail_len + 1, Len(tr.trail)))
  <2>1. SubSeq(tr.trail, sv.old_trail_len + 1, Len(tr.trail)) \in Seq(Lits)
    BY <1>4, SubSeqFact
  <2>2. TheoryScopesOK'
    BY <1>7, <2>1, TheoryAssertStep
  <2> QED
    BY <1>1, <1>2, <1>3, <1>7, <2>2, Frame DEF client, Inv, TypeOK
<1> QED
  BY <1>5, <1>6, <1>7 DEF BcpOk

\* The answer of a call.
LEMMA AnswerOK ==
    ASSUME Inv, NEW r \in LBool, Answer(r), UNCHANGED an, pc' \in {"answered", "finish"}
    PROVE  ControlOK'
<1>1. sv \in SvRecords
  BY DEF Inv, TypeOK, ControlOK
<1>2. sv' \in SvRecords
  BY <1>1, SvFacts DEF Answer, SvRecords
<1> QED
  BY <1>2 DEF Inv, TypeOK, ControlOK, LocalPcs

LEMMA ConflictInAddClauseOK == ASSUME Inv, ConflictInAddClause PROVE Inv'
<1>1. /\ proof' = Log(AddLine(<< >>)) /\ ok' = FALSE /\ pc' = "idle"
      /\ UNCHANGED <<client, db, num_vars, restarts, max_learned, scopes, model, tr, heap, th,
                     bcp, an, sv>>
  BY DEF ConflictInAddClause
<1>2. RestOK'
  <2>1. << >> \in Seq(Lits)
    OBVIOUS
  <2>2. proof' \in Seq(ProofSteps)
    BY <1>1, <2>1, LogOK
  <2> QED
    BY <1>1, <2>2 DEF Inv, TypeOK, RestOK
<1>3. ControlOK'
  BY <1>1 DEF Inv, TypeOK, ControlOK, LocalPcs
<1> QED
  BY <1>1, <1>2, <1>3, Frame DEF client, db, Inv, TypeOK

LEMMA ConflictBeforeSearchOK == ASSUME Inv, ConflictBeforeSearch PROVE Inv'
<1>1. /\ ok' = FALSE /\ Answer("False") /\ pc' = "answered"
      /\ UNCHANGED <<client, db, num_vars, restarts, max_learned, scopes, model, tr, heap, proof,
                     th, bcp, an>>
  BY DEF ConflictBeforeSearch
<1>2. RestOK'
  BY <1>1 DEF Inv, TypeOK, RestOK
<1>3. ControlOK'
  BY <1>1, AnswerOK DEF LBool
<1> QED
  BY <1>1, <1>2, <1>3, Frame DEF client, db, Inv, TypeOK

LEMMA ConflictAtLevelZeroOK == ASSUME Inv, ConflictAtLevelZero PROVE Inv'
<1>1. /\ proof' = IF an.origin = "bcp" THEN Log(AddLine(<< >>)) ELSE proof
      /\ ok' = (ok /\ AssumptionRun) /\ Answer("False") /\ pc' = "finish"
      /\ UNCHANGED <<client, db, num_vars, restarts, max_learned, scopes, model, tr, heap, th,
                     bcp, an>>
  BY DEF ConflictAtLevelZero
<1>2. RestOK'
  <2>1. << >> \in Seq(Lits)
    OBVIOUS
  <2>2. Log(AddLine(<< >>)) \in Seq(ProofSteps)
    BY <2>1, LogOK
  <2>3. proof' \in Seq(ProofSteps) /\ ok' \in BOOLEAN
    BY <1>1, <2>2 DEF Inv, TypeOK, RestOK
  <2> QED
    BY <1>1, <2>3 DEF Inv, TypeOK, RestOK
<1>3. ControlOK'
  BY <1>1, AnswerOK DEF LBool
<1> QED
  BY <1>1, <1>2, <1>3, Frame DEF client, db, Inv, TypeOK

LEMMA StartAnalysisOK == ASSUME Inv, StartAnalysis PROVE Inv'
<1>1. /\ pc = "conflict" /\ DecisionLevel(tr) > 0 /\ pc' = "mark"
      /\ an' = [an EXCEPT !.learned = <<LitZero>>, !.seen = {}, !.path_count = 0,
                          !.backtrack_level = 0, !.lits = arena[an.conflict].lits,
                          !.pivot = 0, !.trail_idx = Len(tr.trail)]
      /\ UNCHANGED <<client, db, rest, tr, heap, proof, th, bcp, sv>>
  BY DEF StartAnalysis
<1>2. an \in AnRecords /\ an.conflict \in 1..Len(arena) /\ arena \in Seq(ArenaClauses)
      /\ Len(tr.trail) \in Nat
  BY <1>1 DEF Inv, TypeOK, ControlOK, ClauseIds, DatabaseOK, TrailOK, TrailRecords
<1> DEFINE c == arena[an.conflict].lits
           slot == <<LitZero>>
<1>3. c \in Seq(Lits) /\ slot \in Seq(Lits) /\ Len(slot) > 0
  <2>1. LitZero \in Lits
    BY NumVarsAssumption DEF LitZero, Lits
  <2>2. slot \in Seq(Lits) /\ Len(slot) > 0
    BY <2>1
  <2>3. c \in Seq(Lits)
    BY <1>2, ClauseFacts
  <2> QED
    BY <2>2, <2>3
<1>6. an' = [conflict |-> an.conflict, origin |-> an.origin, learned |-> slot, seen |-> {},
             path_count |-> 0, backtrack_level |-> 0, lits |-> c, pivot |-> 0,
             trail_idx |-> Len(tr.trail), lbd |-> an.lbd]
  <2>1. an = [conflict |-> an.conflict, origin |-> an.origin, learned |-> an.learned,
              seen |-> an.seen, path_count |-> an.path_count,
              backtrack_level |-> an.backtrack_level, lits |-> an.lits, pivot |-> an.pivot,
              trail_idx |-> an.trail_idx, lbd |-> an.lbd]
    BY <1>2, AnFacts
  <2>2. an' = [an EXCEPT !.learned = slot, !.seen = {}, !.path_count = 0, !.backtrack_level = 0,
                         !.lits = c, !.pivot = 0, !.trail_idx = Len(tr.trail)]
    BY <1>1
  <2> HIDE DEF c, slot
  <2> QED
    BY <2>1, <2>2
<1> HIDE DEF c, slot
<1>4. an' \in AnRecords /\ an'.trail_idx = Len(tr.trail) /\ an'.learned = slot
  BY <1>2, <1>3, <1>6, AnFacts DEF AnRecords
<1>5. ControlOK'
  BY <1>1, <1>2, <1>3, <1>4 DEF Inv, TypeOK, ControlOK, LocalPcs
<1> QED
  BY <1>1, <1>5, Frame DEF client, db, rest, Inv, TypeOK

\* The analysis after one literal.
LEMMA MarkedOK ==
    ASSUME Inv, NEW x \in AnRecords, Len(x.learned) > 0, NEW l \in Lits
    PROVE  /\ Marked(x, l) \in AnRecords /\ Len(Marked(x, l).learned) > 0
           /\ Marked(x, l).trail_idx = x.trail_idx /\ Marked(x, l).lits = x.lits
<1> DEFINE v == VarOf(l)
           lvl == tr.level[v]
<1>1. v \in Vars /\ lvl \in Nat
  BY LitFacts DEF Inv, TypeOK, TrailOK, TrailRecords
<1> DEFINE more == Append(x.learned, l)
           top == IF lvl > x.backtrack_level THEN lvl ELSE x.backtrack_level
<1>2. /\ x.seen \cup {v} \in SUBSET Vars /\ x.path_count + 1 \in Int
      /\ more \in Seq(Lits) /\ Len(more) > 0 /\ top \in Nat
  BY <1>1, AnFacts
<1>3. CASE Marked(x, l) = x
  BY <1>3
<1>4. CASE Marked(x, l) = [x EXCEPT !.seen = @ \cup {v}, !.path_count = @ + 1]
  BY <1>2, <1>4, AnFacts, ZenonT(60) DEF AnRecords
<1>5. CASE Marked(x, l) = [x EXCEPT !.seen = @ \cup {v}, !.learned = Append(@, l),
                                   !.backtrack_level = IF lvl > @ THEN lvl ELSE @]
  <2>1. Marked(x, l) = [x EXCEPT !.seen = x.seen \cup {v}, !.learned = more,
                                 !.backtrack_level = top]
    BY <1>5
  <2> HIDE DEF more, top
  <2>2. x = [conflict |-> x.conflict, origin |-> x.origin, learned |-> x.learned,
              seen |-> x.seen, path_count |-> x.path_count,
              backtrack_level |-> x.backtrack_level, lits |-> x.lits, pivot |-> x.pivot,
              trail_idx |-> x.trail_idx, lbd |-> x.lbd]
    BY AnFacts
  <2>3. Marked(x, l) =
          [conflict |-> x.conflict, origin |-> x.origin, learned |-> more,
           seen |-> x.seen \cup {v}, path_count |-> x.path_count, backtrack_level |-> top,
           lits |-> x.lits, pivot |-> x.pivot, trail_idx |-> x.trail_idx, lbd |-> x.lbd]
    BY <2>1, <2>2
  <2> QED
    BY <1>2, <2>3, AnFacts, SMTT(40) DEF AnRecords
<1>6. CASE Marked(x, l) = [x EXCEPT !.seen = @ \cup {v}]
  BY <1>2, <1>6, AnFacts, SMTT(60) DEF AnRecords
<1> QED
  BY <1>3, <1>4, <1>5, <1>6 DEF Marked

LEMMA MarkLitOK == ASSUME Inv, MarkLit PROVE Inv'
<1>1. /\ pc = "mark" /\ an.lits # << >>
      /\ an' = [Marked(an, Head(an.lits)) EXCEPT !.lits = Tail(@)]
      /\ UNCHANGED <<client, db, rest, tr, heap, proof, th, pc, bcp, sv>>
  BY DEF MarkLit
<1> DEFINE x == Marked(an, Head(an.lits))
<1>2. an \in AnRecords /\ Len(an.learned) > 0 /\ an.lits \in Seq(Lits) /\ an.trail_idx <= Len(tr.trail)
  BY <1>1, AnFacts DEF Inv, TypeOK, ControlOK
<1>3. Head(an.lits) \in Lits /\ Tail(an.lits) \in Seq(Lits)
  BY <1>1, <1>2
<1>4. x \in AnRecords /\ Len(x.learned) > 0 /\ x.trail_idx = an.trail_idx /\ x.lits = an.lits
  BY <1>2, <1>3, MarkedOK
<1> HIDE DEF x
<1>5. an' = [x EXCEPT !.lits = Tail(an.lits)]
  BY <1>1, <1>4 DEF x
<1>6. an' \in AnRecords /\ an'.learned = x.learned /\ an'.trail_idx = x.trail_idx
  BY <1>3, <1>4, <1>5, AnFacts DEF AnRecords
<1>7. ControlOK'
  BY <1>1, <1>2, <1>4, <1>6 DEF Inv, TypeOK, ControlOK
<1> QED
  BY <1>1, <1>7, Frame DEF client, db, rest, Inv, TypeOK

LEMMA PickLitOK == ASSUME Inv, PickLit PROVE Inv'
<1>1. /\ pc = "mark" /\ UNCHANGED <<client, db, rest, tr, heap, proof, th, bcp, sv>>
  BY DEF PickLit
<1>2. /\ an \in AnRecords /\ Len(an.learned) > 0 /\ an.trail_idx <= Len(tr.trail)
      /\ arena \in Seq(ArenaClauses) /\ tr.trail \in Seq(Lits) /\ Len(tr.trail) \in Nat
      /\ \A v \in Vars : tr.reason[v] \in Reasons /\ tr.reason[v] <= Len(arena)
  BY <1>1 DEF Inv, TypeOK, ControlOK, DatabaseOK, TrailOK, TrailRecords
<1>3. ASSUME an' \in AnRecords, an'.trail_idx <= Len(tr.trail), Len(an'.learned) > 0,
             pc' \in {"mark", "learned"}
      PROVE  Inv'
  <2>1. ControlOK'
    BY <1>1, <1>3 DEF Inv, TypeOK, ControlOK, LocalPcs
  <2> QED
    BY <1>1, <2>1, Frame DEF client, db, rest, Inv, TypeOK
<1>4. CASE an' = [an EXCEPT !.trail_idx = 0] /\ pc' = "learned"
  <2>1. an' \in AnRecords /\ an'.trail_idx = 0 /\ an'.learned = an.learned
    BY <1>2, <1>4, AnFacts DEF AnRecords
  <2> QED
    BY <1>2, <1>3, <1>4, <2>1
<1>5. ASSUME NEW i \in SeenBelow,
             LET l == tr.trail[i]
                 x == [an EXCEPT !.trail_idx = i - 1, !.seen = @ \ {VarOf(l)},
                                 !.path_count = @ - 1]
             IN  \/ /\ x.path_count = 0
                    /\ an' = [x EXCEPT !.learned[1] = Neg(l)] /\ pc' = "learned"
                 \/ /\ x.path_count # 0 /\ tr.reason[VarOf(l)] > 0
                    /\ an' = [x EXCEPT !.lits = arena[tr.reason[VarOf(l)]].lits,
                                       !.pivot = VarOf(l)]
                    /\ UNCHANGED pc
                 \/ /\ x.path_count # 0 /\ tr.reason[VarOf(l)] <= 0
                    /\ an' = x /\ pc' = "learned"
      PROVE  Inv'
  <2> DEFINE l == tr.trail[i]
             x == [an EXCEPT !.trail_idx = i - 1, !.seen = @ \ {VarOf(l)}, !.path_count = @ - 1]
  <2>1. i \in 1..Len(tr.trail) /\ i - 1 \in Nat /\ i - 1 <= Len(tr.trail)
    BY <1>2, AnFacts, SMTT(20) DEF SeenBelow
  <2>2. l \in Lits /\ VarOf(l) \in Vars /\ Neg(l) \in Lits
    BY <1>2, <2>1, LitFacts
  <2>3. x \in AnRecords /\ x.trail_idx = i - 1 /\ x.learned = an.learned
    <3>1. an.seen \ {VarOf(l)} \in SUBSET Vars /\ an.path_count - 1 \in Int
      BY <1>2, AnFacts
    <3> QED
      BY <1>2, <2>1, <3>1, AnFacts DEF AnRecords
  <2>4. /\ l = tr.trail[i]
        /\ \/ an' = [x EXCEPT !.learned[1] = Neg(l)] /\ pc' = "learned"
           \/ /\ tr.reason[VarOf(l)] > 0 /\ UNCHANGED pc
              /\ an' = [x EXCEPT !.lits = arena[tr.reason[VarOf(l)]].lits, !.pivot = VarOf(l)]
           \/ an' = x /\ pc' = "learned"
    BY <1>5
  <2> HIDE DEF x, l
  <2>5. CASE an' = [x EXCEPT !.learned[1] = Neg(l)] /\ pc' = "learned"
    <3> DEFINE c == [x.learned EXCEPT ![1] = Neg(l)]
    <3>1. c \in Seq(Lits) /\ Len(c) > 0
      <4>1. x.learned \in Seq(Lits) /\ 1 \in 1..Len(x.learned)
        BY <1>2, <2>3, AnFacts
      <4> QED
        BY <2>2, <4>1, ExceptFact
    <3>2. an' = [x EXCEPT !.learned = c]
      BY <2>5
    <3> HIDE DEF c
    <3>3. an' \in AnRecords /\ an'.learned = c /\ an'.trail_idx = x.trail_idx
      BY <2>3, <3>1, <3>2, AnFacts DEF AnRecords
    <3> QED
      BY <1>3, <2>1, <2>3, <2>5, <3>1, <3>3
  <2>6. CASE /\ tr.reason[VarOf(l)] > 0 /\ UNCHANGED pc
             /\ an' = [x EXCEPT !.lits = arena[tr.reason[VarOf(l)]].lits, !.pivot = VarOf(l)]
    <3>1. tr.reason[VarOf(l)] \in 1..Len(arena)
      BY <1>2, <2>2, <2>6 DEF Reasons, ReasonDecision
    <3>2. arena[tr.reason[VarOf(l)]].lits \in Seq(Lits) /\ VarOf(l) \in Nat
      <4>1. arena[tr.reason[VarOf(l)]].lits \in Seq(Lits)
        BY <1>2, <3>1, ClauseFacts
      <4> QED
        BY <2>2, <4>1 DEF Vars
    <3>3. an' \in AnRecords /\ an'.learned = x.learned /\ an'.trail_idx = x.trail_idx
      BY <2>3, <2>6, <3>2, AnFacts DEF AnRecords
    <3> QED
      BY <1>1, <1>2, <1>3, <2>1, <2>3, <2>6, <3>3
  <2>7. CASE an' = x /\ pc' = "learned"
    BY <1>2, <1>3, <2>1, <2>3, <2>7
  <2> QED
    BY <2>4, <2>5, <2>6, <2>7
<1> QED
  BY <1>4, <1>5 DEF PickLit

LEMMA AssumptionsRefutedOK == ASSUME Inv, AssumptionsRefuted PROVE Inv'
<1>1. /\ Answer("False") /\ pc' = "finish"
      /\ UNCHANGED <<client, db, rest, tr, heap, proof, th, bcp, an>>
  BY DEF AssumptionsRefuted
<1>2. ControlOK'
  BY <1>1, AnswerOK DEF LBool
<1> QED
  BY <1>1, <1>2, Frame DEF client, db, rest, Inv, TypeOK

\* The number of levels in a clause.
LEMMA LbdOK ==
    ASSUME Inv, NEW learned \in Seq(Lits) PROVE Lbd(learned) \in Nat
<1> DEFINE S == {tr.level[VarOf(learned[i])] : i \in 1..Len(learned)}
<1>1. tr.level \in [Vars -> Nat]
  BY DEF Inv, TypeOK, TrailOK, TrailRecords
<1>2. IsFiniteSet(Vars)
  BY NumVarsAssumption, FS_Interval DEF Vars
<1>3. IsFiniteSet(Range(tr.level))
  <2>1. tr.level \in Surjection(Vars, Range(tr.level))
    BY <1>1, Fun_RangeProperties
  <2> QED
    BY <1>2, <2>1, FS_Surjection
<1>4. S \subseteq Range(tr.level)
  BY <1>1, LitFacts DEF Range
<1> QED
  BY <1>3, <1>4, FS_Subset, FS_CardinalityType DEF Lbd

\* The restart controller after a conflict.
LEMMA RecordConflictOK ==
    ASSUME NEW rs \in RestartRecords, NEW degraded
    PROVE  RecordConflict(rs, degraded) \in RestartRecords
  BY DEF RecordConflict, RestartRecords

LEMMA BackjumpOK == ASSUME Inv, Backjump PROVE Inv'
<1>1. PICK degraded \in BOOLEAN, level \in {0, an.backtrack_level} :
        /\ restarts' = IF an.origin = "bcp" THEN RecordConflict(restarts, degraded) ELSE restarts
        /\ tr' = BacktrackTo(tr, level) /\ heap' = Reinserted(level)
        /\ th' = TheoryPopTo(th, level)
  BY DEF Backjump
<1>2. /\ pc = "learned" /\ an' = [an EXCEPT !.lbd = Lbd(an.learned)] /\ pc' \in {"reduce", "learn"}
      /\ UNCHANGED <<client, db, num_vars, ok, max_learned, scopes, model, proof, bcp, sv>>
  BY DEF Backjump
<1>3. an \in AnRecords /\ an.learned \in Seq(Lits) /\ Len(an.learned) > 0 /\ level \in Nat
  BY <1>2, AnFacts DEF Inv, TypeOK, ControlOK
<1>4. TrailOK' /\ TrailConsistent' /\ heap' \subseteq Vars
  BY <1>1, <1>2, <1>3, BacktrackStep DEF db
<1>5. TheoryScopesOK'
  BY <1>1, <1>3, TheoryPopStep
<1>6. RestOK'
  BY <1>1, <1>2, <1>4, RecordConflictOK DEF Inv, TypeOK, RestOK
<1>7. ControlOK'
  <2>1. an' \in AnRecords /\ an'.learned = an.learned
    BY <1>2, <1>3, LbdOK, AnFacts DEF AnRecords
  <2> QED
    BY <1>2, <1>3, <2>1 DEF Inv, TypeOK, ControlOK, LocalPcs
<1> QED
  BY <1>2, <1>4, <1>5, <1>6, <1>7, Frame DEF client, db, Inv, TypeOK

LEMMA ReduceDbOK == ASSUME Inv, ReduceDb PROVE Inv'
<1>1. /\ pc = "reduce" /\ pc' = "learn"
      /\ UNCHANGED <<client, watches, num_vars, ok, restarts, scopes, model, tr, heap, th, bcp,
                     an, sv>>
  BY DEF ReduceDb
<1>2. arena \in Seq(ArenaClauses) /\ Len(arena) \in Nat /\ Len(an.learned) > 0
  BY <1>1 DEF Inv, TypeOK, DatabaseOK, ControlOK
<1>3. ControlOK'
  BY <1>1, <1>2 DEF Inv, TypeOK, ControlOK, LocalPcs
<1>4. CASE UNCHANGED <<arena, proof, max_learned>>
  BY <1>1, <1>3, <1>4, Frame DEF client, Inv, TypeOK
<1>5. ASSUME arena' = WithDeleted(Evicted), max_learned' = max_learned + LearnedStep,
             NEW order \in Sorted(Evicted, WorseThan),
             proof' = IF DratEnabled
                      THEN proof \o [i \in DOMAIN order |-> DeleteLine(arena[order[i]].lits)]
                      ELSE proof
      PROVE  Inv'
  <2> DEFINE lines == [i \in DOMAIN order |-> DeleteLine(arena[order[i]].lits)]
  <2>1. DatabaseOK' /\ Len(arena') = Len(arena)
    BY <1>1, <1>5, DeleteStep
  <2>2. TrailOK' /\ TrailConsistent'
    BY <1>1, <1>2, <2>1, TrailStays
  <2>3. Evicted \subseteq 1..Len(arena)
    BY DEF Evicted, Reducible
  <2>4. order \in Seq(1..Len(arena))
    <3>1. IsFiniteSet(Evicted)
      <4>1. IsFiniteSet(1..Len(arena)) /\ Evicted \in SUBSET (1..Len(arena))
        BY <1>2, <2>3, FS_Interval
      <4> QED
        BY <4>1, FS_Subset
    <3>2. order \in [1..Cardinality(Evicted) -> Evicted]
      BY DEF Sorted
    <3>3. order \in Seq(Evicted)
      BY <3>1, <3>2, SortedOK
    <3> QED
      BY <2>3, <3>3, SeqGrows
  <2>5. lines \in Seq(ProofSteps)
    <3>1. \A i \in DOMAIN order : arena[order[i]].lits \in Seq(Lits)
      <4>1. \A i \in DOMAIN order : order[i] \in 1..Len(arena)
        BY <2>4
      <4> QED
        BY <1>2, <4>1, ClauseFacts
    <3>2. \A i \in DOMAIN order : DeleteLine(arena[order[i]].lits) \in ProofSteps
      BY <3>1 DEF DeleteLine, ProofSteps
    <3> QED
      BY <2>4, <3>2
  <2> HIDE DEF lines
  <2>6. proof' \in Seq(ProofSteps)
    <3>1. proof \in Seq(ProofSteps) /\ proof' = IF DratEnabled THEN proof \o lines ELSE proof
      BY <1>5 DEF Inv, TypeOK, RestOK, lines
    <3> QED
      BY <2>5, <3>1, ConcatFact
  <2>7. RestOK'
    BY <1>1, <1>5, <2>6, SolverAssumption DEF Inv, TypeOK, RestOK
  <2> QED
    BY <1>1, <1>3, <2>1, <2>2, <2>7, Frame DEF client, Inv, TypeOK
<1> QED
  BY <1>4, <1>5 DEF ReduceDb

LEMMA LearnOK == ASSUME Inv, Learn PROVE Inv'
<1> DEFINE lit == an.learned[1]
           id == Len(arena) + 1
           unit == Len(an.learned) = 1
           x == NewClause(an.learned, TRUE, an.lbd)
<1>1. pc = "learn" /\ UNCHANGED <<client, rest, heap, bcp, an, sv>>
  BY DEF Learn
<1>2. /\ an \in AnRecords /\ an.learned \in Seq(Lits) /\ Len(an.learned) > 0 /\ an.lbd \in Nat
      /\ arena \in Seq(ArenaClauses) /\ Len(arena) \in Nat /\ lit \in Lits
  BY <1>1, AnFacts DEF Inv, TypeOK, ControlOK, DatabaseOK
<1>3. /\ DatabaseOK' /\ Len(arena') \in Nat /\ Len(arena) <= Len(arena')
      /\ ~unit => Len(arena') = id
  <2>1. CASE unit
    <3>1. UNCHANGED <<arena, watches, bcp>>
      BY <1>1, <2>1 DEF Learn, db
    <3> QED
      BY <1>2, <2>1, <3>1, Frame
  <2>2. CASE ~unit
    <3>1. arena' = Append(arena, x) /\ watches' = Attach(watches, Len(arena) + 1, an.learned)
      BY <2>2 DEF Learn
    <3>2. x \in ArenaClauses /\ x.lits = an.learned
      BY <1>2, NewClauseOK
    <3> HIDE DEF x
    <3>3. Len(x.lits) > 1
      <4>1. Len(an.learned) \in Nat /\ Len(an.learned) > 0
        BY <1>2
      <4>2. Len(an.learned) # 1
        BY <2>2
      <4>3. ASSUME NEW n \in Nat, n > 0, n # 1 PROVE n > 1
        BY <4>3
      <4>4. Len(an.learned) > 1
        BY ONLY <4>1, <4>2, <4>3
      <4> QED
        BY <3>2, <4>4
    <3>4. DatabaseOK' /\ Len(arena') = Len(arena) + 1
      BY <1>1, <3>1, <3>2, <3>3, StoreStep
    <3> QED
      BY <1>2, <3>4
  <2> QED
    BY <2>1, <2>2
<1>4. RestOK'
  <2>1. proof' = proof \/ proof' = Log(AddLine(an.learned))
    BY DEF Learn
  <2>2. proof' \in Seq(ProofSteps)
    BY <1>2, <2>1, LogOK DEF Inv, TypeOK, RestOK
  <2> QED
    BY <1>1, <2>2 DEF rest, Inv, TypeOK, RestOK
<1>5. ClientOK'
  BY <1>1, Frame DEF client, rest
<1>6. ASSUME pc' \in {"panic", "loop"} PROVE ControlOK'
  BY <1>1, <1>6 DEF Inv, TypeOK, ControlOK, LocalPcs
<1>7. CASE IsAssigned(tr, VarOf(lit))
  <2>1. pc' = "panic" /\ UNCHANGED <<tr, th>>
    BY <1>7 DEF Learn
  <2>2. TrailOK' /\ TrailConsistent'
    BY <1>3, <2>1, TrailStays
  <2> QED
    BY <1>3, <1>4, <1>5, <1>6, <2>1, <2>2, Frame DEF Inv, TypeOK
<1>8. CASE ~IsAssigned(tr, VarOf(lit))
  <2> DEFINE r == IF unit THEN ReasonUnit ELSE id
  <2>1. tr' = Assign(tr, lit, r) /\ th' = TheoryAssert(th, <<lit>>) /\ pc' = "loop"
    BY <1>8 DEF Learn
  <2>2. r \in Reasons /\ r <= Len(arena')
    BY <1>2, <1>3 DEF Reasons, ReasonUnit
  <2> HIDE DEF r
  <2>3. TrailOK' /\ TrailConsistent'
    BY <1>2, <1>3, <1>8, <2>1, <2>2, AssignStep
  <2>4. TheoryScopesOK'
    <3>1. <<lit>> \in Seq(Lits)
      BY <1>2
    <3> QED
      BY <2>1, <3>1, TheoryAssertStep
  <2> QED
    BY <1>3, <1>4, <1>5, <1>6, <2>1, <2>3, <2>4 DEF Inv, TypeOK
<1> QED
  BY <1>7, <1>8

LEMMA BudgetExhaustedOK == ASSUME Inv, BudgetExhausted PROVE Inv'
<1>1. /\ Answer("Undef") /\ pc' = "finish"
      /\ UNCHANGED <<client, db, rest, tr, heap, proof, th, bcp, an>>
  BY DEF BudgetExhausted
<1>2. ControlOK'
  BY <1>1, AnswerOK DEF LBool
<1> QED
  BY <1>1, <1>2, Frame DEF client, db, rest, Inv, TypeOK

LEMMA LoopOK == ASSUME Inv, Loop PROVE Inv'
<1>1. /\ pc' = "bcp" /\ bcp' = [bcp EXCEPT !.caller = "solve_internal"]
      /\ sv' = [sv EXCEPT !.old_trail_len = Len(tr.trail)]
      /\ UNCHANGED <<client, db, rest, tr, heap, proof, th, an>>
  BY DEF Loop
<1>2. DatabaseOK'
  BY <1>1, BcpFacts DEF Inv, TypeOK, DatabaseOK, db, BcpRecords
<1>3. ControlOK'
  <2>1. sv \in SvRecords /\ Len(tr.trail) \in Nat
    BY DEF Inv, TypeOK, ControlOK, TrailOK, TrailRecords
  <2>2. sv' \in SvRecords
    BY <1>1, <2>1, SvFacts DEF SvRecords
  <2> QED
    BY <1>1, <2>2 DEF Inv, TypeOK, ControlOK, LocalPcs
<1> QED
  BY <1>1, <1>2, <1>3, Frame DEF client, db, rest, Inv, TypeOK

LEMMA TheoryConflictOK == ASSUME Inv, TheoryConflict PROVE Inv'
<1>1. /\ pc' = "conflict"
      /\ an' = [an EXCEPT !.conflict = Len(arena) + 1, !.origin = "theory"]
      /\ UNCHANGED <<client, watches, rest, tr, heap, proof, th, bcp, sv>>
  BY DEF TheoryConflict
<1>2. PICK c \in FalseTheoryClauses :
        arena' = IF DecisionLevel(tr) = 0 THEN arena ELSE Append(arena, NewClause(c, TRUE, 2))
  BY DEF TheoryConflict
<1>3. c \in Seq(Lits) /\ NewClause(c, TRUE, 2) \in ArenaClauses
  BY SolverAssumption, NewClauseOK DEF FalseTheoryClauses
<1>4. /\ arena \in Seq(ArenaClauses) /\ Len(arena) \in Nat /\ bcp \in BcpRecords(arena)
      /\ watches \in [Lits -> Seq(WatchersIn(arena))]
  BY DEF Inv, TypeOK, DatabaseOK
<1>5. /\ arena' \in Seq(ArenaClauses) /\ Len(arena') \in Nat /\ Len(arena) <= Len(arena')
      /\ DecisionLevel(tr) # 0 => Len(arena') = Len(arena) + 1
      /\ WatchersIn(arena) \subseteq WatchersIn(arena')
  <2> DEFINE x == NewClause(c, TRUE, 2)
  <2>1. x \in ArenaClauses
    BY <1>3
  <2> HIDE DEF x
  <2>2. /\ Append(arena, x) \in Seq(ArenaClauses) /\ Len(Append(arena, x)) = Len(arena) + 1
        /\ WatchersIn(arena) \subseteq WatchersIn(Append(arena, x))
    BY <1>4, <2>1, AppendClauseOK
  <2>3. CASE DecisionLevel(tr) = 0
    <3>1. arena' = arena
      BY <1>2, <2>3
    <3> QED
      BY <1>4, <2>3, <3>1
  <2>4. CASE DecisionLevel(tr) # 0
    <3> DEFINE b == Append(arena, x)
    <3>1. arena' = b
      BY <1>2, <2>4 DEF x
    <3>2. b \in Seq(ArenaClauses) /\ Len(b) = Len(arena) + 1 /\ WatchersIn(arena) \subseteq WatchersIn(b)
      BY <2>2
    <3> HIDE DEF b
    <3> QED
      BY <1>4, <3>1, <3>2
  <2> QED
    BY <2>3, <2>4
<1>6. DatabaseOK'
  <2>1. bcp \in BcpRecords(arena')
    BY <1>4, <1>5, DatabaseGrows
  <2>2. watches \in [Lits -> Seq(WatchersIn(arena'))]
    BY <1>4, <1>5, SeqGrows
  <2> QED
    BY <1>1, <1>5, <2>1, <2>2 DEF DatabaseOK
<1>7. TrailOK' /\ TrailConsistent'
  BY <1>1, <1>5, TrailStays
<1>8. ControlOK'
  <2>1. an \in AnRecords /\ Len(arena) + 1 \in Nat
    BY <1>4 DEF Inv, TypeOK, ControlOK
  <2>2. an' \in AnRecords /\ an'.conflict = Len(arena) + 1
    BY <1>1, <2>1, AnFacts DEF AnRecords
  <2>3. DecisionLevel(tr') > 0 => an'.conflict \in 1..Len(arena')
    BY <1>1, <1>4, <1>5, <2>2
  <2> QED
    BY <1>1, <2>2, <2>3 DEF Inv, TypeOK, ControlOK, LocalPcs, ClauseIds
<1> QED
  BY <1>1, <1>6, <1>7, <1>8, Frame DEF client, rest, Inv, TypeOK

LEMMA TheoryOkOK == ASSUME Inv, TheoryOk PROVE Inv'
<1>1. pc' = "decide" /\ UNCHANGED <<client, db, rest, tr, heap, proof, th, bcp, an, sv>>
  BY DEF TheoryOk
<1>2. ControlOK'
  BY <1>1 DEF Inv, TypeOK, ControlOK, LocalPcs, db
<1> QED
  BY <1>1, <1>2, Frame DEF client, db, rest, Inv, TypeOK

\* A decision.
LEMMA DecideStep ==
    ASSUME Inv, NEW lit \in Lits, ~IsAssigned(tr, VarOf(lit)), Decide(lit), UNCHANGED arena
    PROVE  TrailOK' /\ TrailConsistent' /\ TheoryScopesOK' /\ pc' = "loop"
<1> DEFINE t == NewDecisionLevel(tr)
<1>1. tr' = Assign(t, lit, ReasonDecision) /\ pc' = "loop"
      /\ th' = TheoryAssert(TheoryPush(th), <<lit>>)
  BY DEF Decide
<1>2. /\ tr \in TrailRecords /\ TrailInv(tr) /\ \A v \in Vars : tr.reason[v] <= Len(arena)
      /\ Len(arena) \in Nat /\ VarOf(lit) \in Vars
  BY LitFacts DEF Inv, TypeOK, TrailOK, TrailConsistent, DatabaseOK
<1>3. t \in TrailRecords /\ TrailInv(t)
  BY <1>2, NewDecisionLevelOK
<1>4. t.assigns = tr.assigns /\ t.reason = tr.reason
  BY <1>2 DEF NewDecisionLevel, TrailRecords
<1> HIDE DEF t
<1>5. ReasonDecision \in Reasons /\ ~IsAssigned(t, VarOf(lit))
  BY <1>4 DEF Reasons, IsAssigned
<1>6. tr' \in TrailRecords /\ TrailInv(tr')
  BY <1>1, <1>3, <1>5, AssignOK
<1>7. \A v \in Vars : tr'.reason[v] <= Len(arena)
  <2>1. t.reason \in [Vars -> Reasons]
    BY <1>3 DEF TrailRecords
  <2>2. tr'.reason = [t.reason EXCEPT ![VarOf(lit)] = ReasonDecision]
    BY <1>1, <1>3 DEF Assign, TrailRecords
  <2> QED
    BY <1>2, <1>4, <2>1, <2>2 DEF ReasonDecision
<1>8. TheoryScopesOK'
  <2>1. /\ th \in [asserted : Seq(Lits), lims : Seq(Nat)]
        /\ th.asserted \in Seq(Lits) /\ th.lims \in Seq(Nat)
        /\ Len(th.asserted) \in Nat /\ Len(th.lims) \in Nat
        /\ \A i, j \in 1..Len(th.lims) :
             th.lims[i] <= Len(th.asserted) /\ (i <= j => th.lims[i] <= th.lims[j])
    BY DEF Inv, TypeOK, TheoryScopesOK
  <2>2. th = [asserted |-> th.asserted, lims |-> th.lims]
    BY <2>1
  <2>3. th' = [asserted |-> th.asserted \o <<lit>>, lims |-> Append(th.lims, Len(th.asserted))]
    BY <1>1, <2>2 DEF TheoryAssert, TheoryPush
  <2>4. /\ th'.asserted \in Seq(Lits) /\ Len(th'.asserted) = Len(th.asserted) + 1
    <3>1. <<lit>> \in Seq(Lits) /\ Len(<<lit>>) = 1
      OBVIOUS
    <3> QED
      BY <2>1, <2>3, <3>1
  <2>5. /\ th'.lims \in Seq(Nat) /\ Len(th'.lims) = Len(th.lims) + 1
        /\ th'.lims[Len(th.lims) + 1] = Len(th.asserted)
        /\ \A i \in 1..Len(th.lims) : th'.lims[i] = th.lims[i]
    BY <2>1, <2>3
  <2>6. \A i, j \in 1..Len(th'.lims) :
          th'.lims[i] <= Len(th'.asserted) /\ (i <= j => th'.lims[i] <= th'.lims[j])
    <3>1. ASSUME NEW i \in 1..Len(th'.lims)
          PROVE  /\ i \in 1..Len(th.lims) => th'.lims[i] = th.lims[i]
                 /\ i \notin 1..Len(th.lims) => i = Len(th.lims) + 1 /\ th'.lims[i] = Len(th.asserted)
                 /\ th'.lims[i] \in Nat /\ th'.lims[i] <= Len(th.asserted)
      BY <2>1, <2>5, SMTT(20)
    <3>2. ASSUME NEW i \in 1..Len(th'.lims), NEW j \in 1..Len(th'.lims), i <= j
          PROVE  th'.lims[i] <= th'.lims[j]
      <4>1. CASE j \in 1..Len(th.lims)
        <5>1. i \in 1..Len(th.lims)
          BY <2>1, <2>5, <3>2, <4>1
        <5>2. th.lims[i] <= th.lims[j]
          BY <2>1, <3>2, <4>1, <5>1
        <5> QED
          BY <2>5, <4>1, <5>1, <5>2
      <4>2. CASE j \notin 1..Len(th.lims)
        BY <3>1, <4>2
      <4> QED
        BY <4>1, <4>2
    <3>3. \A i \in 1..Len(th'.lims) : th'.lims[i] <= Len(th'.asserted)
      BY <2>1, <2>4, <3>1
    <3> QED
      BY <3>2, <3>3
  <2>7. th' \in [asserted : Seq(Lits), lims : Seq(Nat)]
    BY <2>3, <2>4, <2>5
  <2> QED
    BY <2>6, <2>7 DEF TheoryScopesOK
<1> QED
  BY <1>1, <1>2, <1>6, <1>7, <1>8 DEF TrailOK, TrailConsistent

LEMMA DecideAssumptionOK == ASSUME Inv, DecideAssumption PROVE Inv'
<1> DEFINE p == sv.assumptions[sv.cur + 1]
           next == [sv EXCEPT !.cur = @ + 1]
<1>1. /\ pc = "decide" /\ AssumptionsLeft
      /\ UNCHANGED <<client, db, rest, heap, proof, bcp, an>>
      /\ \/ sv' = [next EXCEPT !.result = "False"] /\ pc' = "finish" /\ UNCHANGED <<tr, th>>
         \/ sv' = next /\ pc' = "loop" /\ UNCHANGED <<tr, th>>
         \/ ~IsAssigned(tr, VarOf(p)) /\ sv' = next /\ Decide(p)
  BY DEF DecideAssumption
<1>2. sv \in SvRecords /\ p \in Lits /\ sv.cur + 1 \in Nat
  <2>1. sv \in SvRecords /\ sv.cur \in Nat /\ sv.assumptions \in Seq(Lits)
    BY SvFacts DEF Inv, TypeOK, ControlOK
  <2> QED
    BY <1>1, <2>1 DEF AssumptionsLeft
<1>3. next \in SvRecords /\ [next EXCEPT !.result = "False"] \in SvRecords
  BY <1>2, SvFacts DEF SvRecords, LBool
<1>4. ClientOK' /\ DatabaseOK' /\ RestOK'
  BY <1>1, Frame DEF client, db, rest
<1>5. ASSUME pc' \in {"finish", "loop"}, sv' \in SvRecords PROVE ControlOK'
  BY <1>1, <1>5 DEF Inv, TypeOK, ControlOK, LocalPcs
<1> HIDE DEF next, p
<1>6. CASE sv' = [next EXCEPT !.result = "False"] /\ pc' = "finish" /\ UNCHANGED <<tr, th>>
  BY <1>1, <1>3, <1>4, <1>5, <1>6, Frame DEF db, Inv, TypeOK
<1>8. CASE sv' = next /\ pc' = "loop" /\ UNCHANGED <<tr, th>>
  BY <1>1, <1>3, <1>4, <1>5, <1>8, Frame DEF db, Inv, TypeOK
<1>7. CASE ~IsAssigned(tr, VarOf(p)) /\ sv' = next /\ Decide(p)
  BY <1>1, <1>2, <1>3, <1>4, <1>5, <1>7, DecideStep DEF db, Inv, TypeOK
<1> QED
  BY <1>1, <1>6, <1>7, <1>8

LEMMA DecideVarOK == ASSUME Inv, DecideVar PROVE Inv'
<1>1. PICK v \in Selected :
        /\ Decide(NewLit(v, tr.phase[v]))
        /\ \E popped \in SUBSET {u \in heap : IsAssigned(tr, u)} : heap' = heap \ (popped \cup {v})
  BY DEF DecideVar
<1>2. UNCHANGED <<client, db, rest, proof, bcp, an, sv>>
  BY DEF DecideVar
<1>3. v \in Vars /\ ~IsAssigned(tr, v)
  <2>1. heap \subseteq Vars /\ num_vars \in 0..NumVars /\ NumVars \in Nat
    BY NumVarsAssumption DEF Inv, TypeOK, RestOK
  <2> QED
    BY <2>1 DEF Selected, Open, Vars
<1>4. /\ NewLit(v, tr.phase[v]) \in Lits /\ VarOf(NewLit(v, tr.phase[v])) = v
  <2>1. tr.phase[v] \in BOOLEAN
    BY <1>3 DEF Inv, TypeOK, TrailOK, TrailRecords
  <2> QED
    BY <1>3, <2>1, LitOfVar
<1>5. TrailOK' /\ TrailConsistent' /\ TheoryScopesOK' /\ pc' = "loop"
  BY <1>1, <1>2, <1>3, <1>4, DecideStep DEF db
<1>6. RestOK'
  BY <1>1, <1>2 DEF Inv, TypeOK, RestOK, rest
<1>7. ControlOK'
  BY <1>2, <1>5 DEF Inv, TypeOK, ControlOK, LocalPcs
<1> QED
  BY <1>2, <1>5, <1>6, <1>7, Frame DEF client, db, rest, Inv, TypeOK

LEMMA AllAssignedOK == ASSUME Inv, AllAssigned PROVE Inv'
<1>1. /\ Answer("True") /\ pc' = "finish" /\ heap' = {}
      /\ UNCHANGED <<client, db, rest, tr, proof, th, bcp, an>>
  BY DEF AllAssigned
<1>2. ControlOK'
  BY <1>1, AnswerOK DEF LBool
<1>3. RestOK'
  BY <1>1 DEF Inv, TypeOK, RestOK, rest
<1> QED
  BY <1>1, <1>2, <1>3, Frame DEF client, db, rest, Inv, TypeOK

LEMMA FinishOK == ASSUME Inv, Finish PROVE Inv'
<1>1. /\ pc' = "answered" /\ tr' = BacktrackTo(tr, 0) /\ heap' = Reinserted(0)
      /\ model' = IF sv.result = "True" THEN [v \in 1..num_vars |-> tr.assigns[v]] ELSE << >>
      /\ UNCHANGED <<client, watches, num_vars, ok, restarts, proof, th, bcp, an, sv>>
  BY DEF Finish
<1>2. /\ scopes' = Front(scopes) /\ max_learned' = MaxLearned
         /\ arena' = WithDeleted(ClausesSince(scopes[Len(scopes)]))
      \/ UNCHANGED <<scopes, max_learned, arena>>
  BY DEF Finish
<1>3. DatabaseOK' /\ Len(arena') = Len(arena)
  <2>1. CASE UNCHANGED arena
    BY <1>1, <2>1, Frame
  <2>2. CASE arena' = WithDeleted(ClausesSince(scopes[Len(scopes)]))
    BY <1>1, <2>2, DeleteStep
  <2> QED
    BY <1>2, <2>1, <2>2
<1>4. TrailOK' /\ TrailConsistent' /\ heap' \subseteq Vars
  BY <1>1, <1>3, BacktrackStep
<1>5. RestOK'
  <2>1. model' \in Seq(LBool)
    <3>1. tr.assigns \in [Vars -> LBool] /\ num_vars \in 0..NumVars /\ NumVars \in Nat
      BY NumVarsAssumption DEF Inv, TypeOK, TrailOK, TrailRecords, RestOK
    <3>2. [v \in 1..num_vars |-> tr.assigns[v]] \in Seq(LBool)
      BY <3>1 DEF Vars
    <3> QED
      BY <1>1, <3>2
  <2>2. max_learned' \in Nat
    BY <1>2, SolverAssumption DEF Inv, TypeOK, RestOK
  <2> QED
    BY <1>1, <1>4, <2>1, <2>2 DEF Inv, TypeOK, RestOK
<1>6. ClientOK'
  <2>1. CASE UNCHANGED scopes
    BY <1>1, <2>1, Frame DEF client
  <2>2. CASE scopes' = Front(scopes)
    <3>1. /\ scopes \in Seq([clause_count : Nat, inputs : Nat]) /\ Len(scopes) \in Nat
          /\ \A i, j \in 1..Len(scopes) :
               scopes[i].inputs <= Len(inputs) /\ (i <= j => scopes[i].inputs <= scopes[j].inputs)
      BY DEF Inv, TypeOK, ClientOK
    <3>2. CASE scopes = << >>
      <4>1. scopes' = << >>
        BY <2>2, <3>2 DEF Front
      <4> QED
        BY <1>1, <4>1 DEF client, Inv, TypeOK, ClientOK
    <3>3. CASE scopes # << >>
      <4>1. Len(scopes) - 1 \in 0..Len(scopes)
        BY <3>1, <3>3
      <4>2. /\ scopes' \in Seq([clause_count : Nat, inputs : Nat])
            /\ Len(scopes') = Len(scopes) - 1
            /\ \A i \in 1..(Len(scopes) - 1) : scopes'[i] = scopes[i]
        BY <2>2, <3>1, <4>1, PrefixFacts DEF Front
      <4>3. \A i \in 1..Len(scopes') : i \in 1..Len(scopes) /\ scopes'[i] = scopes[i]
        BY <3>1, <4>2, SMTT(20)
      <4>4. \A i, j \in 1..Len(scopes') :
              /\ scopes'[i].inputs <= Len(inputs)
              /\ i <= j => scopes'[i].inputs <= scopes'[j].inputs
        BY <3>1, <4>3
      <4> QED
        BY <1>1, <4>2, <4>4 DEF client, Inv, TypeOK, ClientOK
    <3> QED
      BY <3>2, <3>3
  <2> QED
    BY <1>2, <2>1, <2>2
<1>7. ControlOK'
  BY <1>1 DEF Inv, TypeOK, ControlOK, LocalPcs
<1> QED
  BY <1>1, <1>3, <1>4, <1>5, <1>6, <1>7, Frame DEF Inv, TypeOK

LEMMA ReturnOK == ASSUME Inv, Return PROVE Inv'
<1>1. pc' = "idle" /\ UNCHANGED <<client, db, rest, tr, heap, proof, th, bcp, an, sv>>
  BY DEF Return
<1>2. ControlOK'
  BY <1>1 DEF Inv, TypeOK, ControlOK, LocalPcs, db
<1> QED
  BY <1>1, <1>2, Frame DEF client, db, rest, Inv, TypeOK

-----------------------------------------------------------------------------
(* The theorems.                                                            *)

\* Inv is inductive.
LEMMA NextOK == ASSUME Inv, [Next]_vars PROVE Inv'
<1>1. CASE Client
  BY <1>1, NewVarOK, AddClauseOK, PushOK, PopOK, SolveOK DEF Client
<1>2. CASE Propagate
  BY <1>2, BcpDequeueOK, VisitSkipOK, VisitSatisfiedOK, VisitRewatchOK, VisitUnitOK,
     VisitConflictOK, VisitEndOK, BcpOkOK DEF Propagate
<1>3. CASE Conflict
  BY <1>3, ConflictInAddClauseOK, ConflictBeforeSearchOK, ConflictAtLevelZeroOK,
     StartAnalysisOK, MarkLitOK, PickLitOK, AssumptionsRefutedOK, BackjumpOK, ReduceDbOK,
     LearnOK DEF Conflict
<1>4. CASE Search
  BY <1>4, BudgetExhaustedOK, LoopOK, TheoryConflictOK, TheoryOkOK, DecideAssumptionOK,
     DecideVarOK, AllAssignedOK, FinishOK, ReturnOK DEF Search
<1>5. CASE UNCHANGED vars
  BY <1>5, Frame DEF vars, client, db, rest, Inv, TypeOK
<1> QED
  BY <1>1, <1>2, <1>3, <1>4, <1>5 DEF Next, Step

\* Every variable of the solver keeps its type, and what one part of the state
\* refers to in another is there: watchers, reasons, conflicts and scopes never
\* dangle, in whatever order calls, propagation, analysis, eviction, restarts
\* and theory conflicts follow each other.
THEOREM TypesHold == Spec => []TypeOK
<1>1. Inv => TypeOK
  BY DEF Inv
<1> QED
  BY <1>1, InitOK, NextOK, PTL DEF Spec

\* The trail stays the assignment, cut into decision levels, with the queue
\* head inside it: every place where a literal is assigned finds its variable
\* open, and every backtracking takes back exactly the levels above its target.
THEOREM TrailHolds == Spec => []TrailConsistent
<1>1. Inv => TrailConsistent
  BY DEF Inv
<1> QED
  BY <1>1, InitOK, NextOK, PTL DEF Spec

-----------------------------------------------------------------------------
(* What the search relies on when it propagates and explains a conflict:   *)
(* the watchers of a clause, the reason of each literal on the trail, the  *)
(* literals of the clause being analysed, what analysis has collected so   *)
(* far, and what the theory has been told.  All but the first two hold     *)
(* until a restart assigns a learned literal at level 0.                   *)

-----------------------------------------------------------------------------
(* Watchers.  Every clause is watched by its first two literals, once each, *)
(* while propagation takes lists out, moves watchers between them and       *)
(* writes lists back.  They are counted: a step of bcp() takes one away     *)
(* here and puts one back there.                                            *)

\* How many watchers of clause c a list has.
Occ(s, c) == Cardinality({i \in 1..Len(s) : s[i].clause = c})
\* One if it does.
Is(w, c) == IF w.clause = c THEN 1 ELSE 0

LEMMA PositionsFinite ==
    ASSUME NEW n \in Nat, NEW S \in SUBSET (1..n) PROVE IsFiniteSet(S) /\ Cardinality(S) \in Nat
<1>1. IsFiniteSet(1..n)
  BY FS_Interval
<1>2. IsFiniteSet(S)
  BY <1>1, FS_Subset
<1> QED
  BY <1>2, FS_CardinalityType

LEMMA OccNat == ASSUME NEW W, NEW s \in Seq(W), NEW c PROVE Occ(s, c) \in Nat
<1>1. Len(s) \in Nat /\ {i \in 1..Len(s) : s[i].clause = c} \in SUBSET (1..Len(s))
  OBVIOUS
<1> QED
  BY <1>1, PositionsFinite DEF Occ

LEMMA OccEmpty == ASSUME NEW c PROVE Occ(<< >>, c) = 0
<1>1. {i \in 1..Len(<< >>) : << >>[i].clause = c} = {}
  OBVIOUS
<1> QED
  BY <1>1, FS_EmptySet DEF Occ

LEMMA OccAppend ==
    ASSUME NEW W, NEW s \in Seq(W), NEW w \in W, NEW c
    PROVE  Occ(Append(s, w), c) = Occ(s, c) + Is(w, c)
<1> DEFINE n == Len(s)
           t == Append(s, w)
           S == {i \in 1..n : s[i].clause = c}
           T == {i \in 1..(n + 1) : t[i].clause = c}
<1>1. n \in Nat /\ Len(t) = n + 1 /\ t[n + 1] = w /\ \A i \in 1..n : t[i] = s[i]
  OBVIOUS
<1>2. IsFiniteSet(S) /\ n + 1 \notin S /\ Cardinality(S) \in Nat
  <2>1. S \in SUBSET (1..n) /\ n + 1 \notin S
    BY <1>1
  <2> HIDE DEF n, S
  <2> QED
    BY <1>1, <2>1, PositionsFinite
<1>3. T = IF w.clause = c THEN S \cup {n + 1} ELSE S
  BY <1>1
<1>4. Cardinality(T) = Cardinality(S) + Is(w, c)
  <2> HIDE DEF n, S, T
  <2>1. Cardinality(S \cup {n + 1}) = Cardinality(S) + 1
    BY <1>2, FS_AddElement
  <2> QED
    BY <1>2, <1>3, <2>1 DEF Is
<1> QED
  BY <1>1, <1>4 DEF Occ

LEMMA OccTail ==
    ASSUME NEW W, NEW s \in Seq(W), s # << >>, NEW c
    PROVE  Occ(s, c) = Is(Head(s), c) + Occ(Tail(s), c)
<1> DEFINE n == Len(s)
           t == Tail(s)
           S == {i \in 1..n : s[i].clause = c}
           R == S \ {1}
           T == {i \in 1..(n - 1) : t[i].clause = c}
           f == [i \in T |-> i + 1]
<1>1. n \in Nat \ {0} /\ Len(t) = n - 1 /\ Head(s) = s[1] /\ \A i \in 1..(n - 1) : t[i] = s[i + 1]
  OBVIOUS
<1>2. IsFiniteSet(S) /\ IsFiniteSet(T) /\ Cardinality(S) \in Nat
  <2>1. S \in SUBSET (1..n) /\ T \in SUBSET (1..(n - 1)) /\ n - 1 \in Nat
    BY <1>1
  <2> HIDE DEF n, S, T
  <2> QED
    BY <1>1, <2>1, PositionsFinite
<1>3. f \in Bijection(T, R)
  <2>1. \A i \in T : i + 1 \in R
    BY <1>1
  <2>2. \A j \in R : j - 1 \in T /\ (j - 1) + 1 = j
    BY <1>1
  <2>3. \A i, j \in T : i + 1 = j + 1 => i = j
    BY <1>1
  <2> HIDE DEF R, T
  <2>4. f \in [T -> R]
    BY <2>1
  <2> QED
    BY <2>1, <2>2, <2>3, <2>4 DEF Bijection, Injection, Surjection, IsInjective
<1>4. Cardinality(R) = Cardinality(T)
  <2> HIDE DEF R, T, f
  <2> QED
    BY <1>2, <1>3, FS_Bijection DEF ExistsBijection
<1>5. Cardinality(R) = IF 1 \in S THEN Cardinality(S) - 1 ELSE Cardinality(S)
  <2> HIDE DEF S
  <2> QED
    BY <1>2, FS_RemoveElement
<1>6. 1 \in S <=> Head(s).clause = c
  BY <1>1
<1>7. Cardinality(S) = Is(Head(s), c) + Cardinality(T)
  <2> HIDE DEF S, T, R
  <2> QED
    BY <1>2, <1>4, <1>5, <1>6 DEF Is
<1> QED
  BY <1>1, <1>7 DEF Occ

LEMMA OccConcat ==
    ASSUME NEW W, NEW s \in Seq(W), NEW t \in Seq(W), NEW c
    PROVE  Occ(s \o t, c) = Occ(s, c) + Occ(t, c)
<1> DEFINE n == Len(s)
           m == Len(t)
           u == s \o t
           S == {i \in 1..n : s[i].clause = c}
           T == {i \in 1..m : t[i].clause = c}
           R == {i \in (n + 1)..(n + m) : u[i].clause = c}
           U == {i \in 1..(n + m) : u[i].clause = c}
           f == [i \in T |-> i + n]
<1>1. /\ n \in Nat /\ m \in Nat /\ Len(u) = n + m
      /\ \A i \in 1..n : u[i] = s[i]
      /\ \A i \in 1..m : u[i + n] = t[i]
  OBVIOUS
<1>2. IsFiniteSet(S) /\ IsFiniteSet(T) /\ Cardinality(S) \in Nat /\ Cardinality(T) \in Nat
  <2>1. S \in SUBSET (1..n) /\ T \in SUBSET (1..m)
    OBVIOUS
  <2> HIDE DEF n, m, S, T
  <2> QED
    BY <1>1, <2>1, PositionsFinite
<1>3. f \in Bijection(T, R)
  <2>1. \A i \in T : i + n \in R
    BY <1>1
  <2>2. \A j \in R : j - n \in T /\ (j - n) + n = j
    <3> TAKE j \in R
    <3>1. j - n \in 1..m /\ (j - n) + n = j
      BY <1>1
    <3> QED
      BY <1>1, <3>1
  <2>3. \A i, j \in T : i + n = j + n => i = j
    BY <1>1
  <2> HIDE DEF R, T
  <2>4. f \in [T -> R]
    BY <2>1
  <2> QED
    BY <2>1, <2>2, <2>3, <2>4 DEF Bijection, Injection, Surjection, IsInjective
<1>4. IsFiniteSet(R) /\ Cardinality(R) = Cardinality(T)
  <2> HIDE DEF R, T, f
  <2> QED
    BY <1>2, <1>3, FS_Bijection DEF ExistsBijection
<1>5. U = S \cup R /\ S \cap R = {}
  BY <1>1
<1>6. Cardinality(U) = Cardinality(S) + Cardinality(T)
  <2> HIDE DEF S, T, R, U
  <2>1. Cardinality(S \cup R) = Cardinality(S) + Cardinality(R) - Cardinality(S \cap R)
    BY <1>2, <1>4, FS_Union
  <2>2. Cardinality({}) = 0
    BY FS_EmptySet
  <2>3. Cardinality(U) = Cardinality(S \cup R) /\ Cardinality(S \cap R) = 0
    BY <1>5, <2>2
  <2> QED
    BY <1>2, <1>4, <2>1, <2>3
<1> QED
  BY <1>1, <1>6 DEF Occ

\* A list that does not mention a clause.
LEMMA OccNone ==
    ASSUME NEW W, NEW s \in Seq(W), NEW c, \A i \in 1..Len(s) : s[i].clause # c
    PROVE  Occ(s, c) = 0
<1>1. {i \in 1..Len(s) : s[i].clause = c} = {}
  OBVIOUS
<1> QED
  BY <1>1, FS_EmptySet DEF Occ

-----------------------------------------------------------------------------
(* The invariant.                                                           *)

\* The watchers clause c has for l, in the list and in what bcp() took out of it.
Total(c, l) ==
    Occ(watches[l], c)
    + (IF pc = "visit" /\ l = bcp.lit THEN Occ(bcp.keep, c) + Occ(bcp.todo, c) ELSE 0)

\* How many of the first two literals say that l watches the clause.
Places(lits, l) == (IF Neg(lits[1]) = l THEN 1 ELSE 0) + (IF Neg(lits[2]) = l THEN 1 ELSE 0)

\* A deleted clause may have lost watchers; one the theory gave has none.
WatchedRight(c) ==
    \A l \in Lits : IF arena[c].deleted THEN Total(c, l) <= Places(arena[c].lits, l)
                                        ELSE Total(c, l) = Places(arena[c].lits, l)
Unwatched(c) == arena[c].learned /\ \A l \in Lits : Total(c, l) = 0
Watching == \A c \in ClauseIds : WatchedRight(c) \/ Unwatched(c)

\* The list that is visited is the one of a true literal, and is empty meanwhile.
Visiting == pc = "visit" => IsTrue(tr, bcp.lit) /\ watches[bcp.lit] = << >>

WatchInv == Inv /\ Watching /\ Visiting

\* The types the lemmas below need.
LEMMA WatchTypes ==
    ASSUME Inv
    PROVE  /\ arena \in Seq(ArenaClauses) /\ Len(arena) \in Nat /\ ClauseIds = 1..Len(arena)
           /\ watches \in [Lits -> Seq(WatchersIn(arena))]
           /\ bcp.lit \in Lits /\ bcp.todo \in Seq(WatchersIn(arena))
           /\ bcp.keep \in Seq(WatchersIn(arena))
           /\ bcp \in BcpRecords(arena)
  BY BcpFacts DEF Inv, TypeOK, DatabaseOK, ClauseIds

LEMMA CountsNat ==
    ASSUME Inv, NEW c, NEW l \in Lits
    PROVE  /\ Occ(watches[l], c) \in Nat /\ Occ(bcp.keep, c) \in Nat /\ Occ(bcp.todo, c) \in Nat
<1>1. watches[l] \in Seq(WatchersIn(arena))
  BY WatchTypes
<1> QED
  BY <1>1, WatchTypes, OccNat

\* Steps outside propagation that leave the lists alone and at most delete clauses.
LEMMA ListsStay ==
    ASSUME WatchInv, pc # "visit", pc' # "visit", UNCHANGED watches, Len(arena') = Len(arena),
           \A c \in ClauseIds : /\ arena'[c].lits = arena[c].lits
                                /\ arena'[c].learned = arena[c].learned
                                /\ arena[c].deleted => arena'[c].deleted
    PROVE  Watching' /\ Visiting'
<1>1. \A c, l : Total(c, l)' = Total(c, l)
  BY DEF Total
<1>2. ClauseIds' = ClauseIds
  BY DEF ClauseIds
<1>3. ASSUME NEW c \in ClauseIds PROVE WatchedRight(c)' \/ Unwatched(c)'
  <2>1. \A l \in Lits : Total(c, l) \in Nat
    BY CountsNat DEF Total, WatchInv
  <2>2. \A l \in Lits : Places(arena[c].lits, l) \in Nat
    BY DEF Places
  <2>3. CASE WatchedRight(c)
    BY <1>1, <1>3, <2>1, <2>2, <2>3 DEF WatchedRight
  <2>4. CASE Unwatched(c)
    BY <1>1, <1>3, <2>4 DEF Unwatched
  <2> QED
    BY <1>3, <2>3, <2>4 DEF WatchInv, Watching
<1> QED
  BY <1>2, <1>3 DEF Watching, Visiting

\* Clauses marked deleted are otherwise as they were.
LEMMA Deleting ==
    ASSUME Inv, NEW S, arena' = WithDeleted(S)
    PROVE  /\ Len(arena') = Len(arena)
           /\ \A c \in ClauseIds : /\ arena'[c].lits = arena[c].lits
                                   /\ arena'[c].learned = arena[c].learned
                                   /\ arena[c].deleted => arena'[c].deleted
<1>1. Len(arena') = Len(arena)
  BY WatchTypes DEF WithDeleted
<1>2. ASSUME NEW c \in ClauseIds
      PROVE  /\ arena'[c].lits = arena[c].lits /\ arena'[c].learned = arena[c].learned
             /\ arena[c].deleted => arena'[c].deleted
  <2>1. c \in 1..Len(arena) /\ arena'[c] = IF c \in S THEN [arena[c] EXCEPT !.deleted = TRUE] ELSE arena[c]
    BY WatchTypes DEF WithDeleted
  <2>2. arena[c] = [lits |-> arena[c].lits, learned |-> arena[c].learned, lbd |-> arena[c].lbd,
                    deleted |-> arena[c].deleted]
    BY <2>1, WatchTypes, ClauseFacts
  <2> QED
    BY <2>1, <2>2
<1> QED
  BY <1>1, <1>2

\* The counts of a new clause.
LEMMA NewIdUnwatched ==
    ASSUME Inv, NEW l \in Lits, pc # "visit"
    PROVE  Total(Len(arena) + 1, l) = 0
<1>1. watches[l] \in Seq(WatchersIn(arena))
  BY WatchTypes
<1>2. \A i \in 1..Len(watches[l]) : watches[l][i].clause # Len(arena) + 1
  <2> TAKE i \in 1..Len(watches[l])
  <2>1. watches[l][i] \in WatchersIn(arena)
    BY <1>1
  <2>2. watches[l][i].clause \in 1..Len(arena)
    BY <2>1, WatcherFacts
  <2> QED
    BY <2>2, WatchTypes
<1>3. Occ(watches[l], Len(arena) + 1) = 0
  BY <1>1, <1>2, OccNone
<1> QED
  BY <1>3 DEF Total

\* What attaching a clause with first literals k and m adds to a list.
LEMMA AttachCounts ==
    ASSUME NEW W, NEW u \in Seq(W), NEW k \in Lits, NEW m \in Lits, NEW id,
           Watcher(id, k) \in W, Watcher(id, m) \in W, NEW d, NEW l \in Lits
    PROVE  Occ(u \o (IF l = Neg(k) THEN <<Watcher(id, m)>> ELSE << >>)
                 \o (IF l = Neg(m) THEN <<Watcher(id, k)>> ELSE << >>), d)
           = Occ(u, d) + (IF d = id THEN Places(<<k, m>>, l) ELSE 0)
<1> DEFINE s == IF l = Neg(k) THEN <<Watcher(id, m)>> ELSE << >>
           t == IF l = Neg(m) THEN <<Watcher(id, k)>> ELSE << >>
<1>1. s \in Seq(W) /\ t \in Seq(W)
  OBVIOUS
<1>2. u \o s \in Seq(W)
  <2> HIDE DEF s, t
  <2> QED
    BY <1>1
<1>3. ASSUME NEW x \in W PROVE Occ(<<x>>, d) = Is(x, d)
  <2>1. << >> \in Seq(W) /\ <<x>> = Append(<< >>, x)
    OBVIOUS
  <2>2. Occ(Append(<< >>, x), d) = Occ(<< >>, d) + Is(x, d)
    BY <2>1, OccAppend
  <2>3. Is(x, d) \in Nat
    BY DEF Is
  <2> QED
    BY <2>1, <2>2, <2>3, OccEmpty
<1>4. /\ Occ(s, d) = IF d = id /\ l = Neg(k) THEN 1 ELSE 0
      /\ Occ(t, d) = IF d = id /\ l = Neg(m) THEN 1 ELSE 0
  BY <1>3, OccEmpty DEF Is, Watcher
<1>5. Occ((u \o s) \o t, d) = Occ(u, d) + Occ(s, d) + Occ(t, d)
  <2> HIDE DEF s, t
  <2>1. Occ((u \o s) \o t, d) = Occ(u \o s, d) + Occ(t, d)
    BY <1>1, <1>2, OccConcat
  <2>2. Occ(u \o s, d) = Occ(u, d) + Occ(s, d)
    BY <1>1, OccConcat
  <2> QED
    BY <2>1, <2>2
<1>6. Occ(u, d) \in Nat
  BY OccNat
<1>7. Places(<<k, m>>, l) = (IF Neg(k) = l THEN 1 ELSE 0) + (IF Neg(m) = l THEN 1 ELSE 0)
  BY DEF Places
<1>8. Occ((u \o s) \o t, d) = Occ(u, d) + (IF d = id THEN Places(<<k, m>>, l) ELSE 0)
  <2> HIDE DEF s, t
  <2> QED
    BY <1>4, <1>5, <1>6, <1>7
<1> QED
  BY <1>8

\* Storing a clause with its watchers.
LEMMA StoreWatched ==
    ASSUME WatchInv, NEW x \in ArenaClauses, Len(x.lits) > 1, ~x.deleted, pc # "visit",
           pc' # "visit", arena' = Append(arena, x),
           watches' = Attach(watches, Len(arena) + 1, x.lits)
    PROVE  Watching' /\ Visiting'
<1>0. PICK id : id = Len(arena) + 1
  OBVIOUS
<1>1. Inv
  BY DEF WatchInv
<1>2. /\ Len(arena') = id /\ arena'[id] = x /\ \A c \in 1..Len(arena) : arena'[c] = arena[c]
      /\ WatchersIn(arena) \subseteq WatchersIn(arena') /\ id \in 1..Len(arena')
  BY <1>0, <1>1, WatchTypes, AppendClauseOK
<1>3. x.lits \in Seq(Lits)
  BY DEF ArenaClauses
<1>4. watches \in [Lits -> Seq(WatchersIn(arena))] /\ Len(arena'[id].lits) > 1
  BY <1>1, <1>2, WatchTypes
<1>5. ASSUME NEW d, NEW l \in Lits
      PROVE  Total(d, l)' = Total(d, l) + (IF d = id THEN Places(x.lits, l) ELSE 0)
  <2>1. Occ(Attach(watches, id, x.lits)[l], d)
          = Occ(watches[l], d) + (IF d = id THEN Places(x.lits, l) ELSE 0)
    <3> DEFINE W == WatchersIn(arena')
               k == x.lits[1]
               m == x.lits[2]
    <3>1. k \in Lits /\ m \in Lits
      BY <1>3
    <3>2. Watcher(id, k) \in W /\ Watcher(id, m) \in W
      BY <1>2, <1>4, <3>1 DEF Watcher, WatchersIn
    <3>3. watches[l] \in Seq(W)
      <4>1. watches[l] \in Seq(WatchersIn(arena))
        BY <1>4
      <4> QED
        BY <1>2, <4>1, SeqGrows
    <3>4. Places(<<k, m>>, l) = Places(x.lits, l)
      BY DEF Places
    <3>5. Attach(watches, id, x.lits)[l]
            = watches[l] \o (IF l = Neg(k) THEN <<Watcher(id, m)>> ELSE << >>)
                         \o (IF l = Neg(m) THEN <<Watcher(id, k)>> ELSE << >>)
      BY DEF Attach
    <3> HIDE DEF W, k, m
    <3> QED
      BY <3>1, <3>2, <3>3, <3>4, <3>5, AttachCounts
  <2>2. Total(d, l)' = Occ(watches'[l], d) + 0
    BY DEF Total
  <2>3. Total(d, l) = Occ(watches[l], d) + 0
    BY DEF Total
  <2>4. Occ(watches[l], d) \in Nat /\ Places(x.lits, l) \in Nat
    BY <1>1, CountsNat DEF Places
  <2>5. Occ(watches'[l], d) = Occ(watches[l], d) + (IF d = id THEN Places(x.lits, l) ELSE 0)
    BY <1>0, <2>1
  <2>6. (IF d = id THEN Places(x.lits, l) ELSE 0) \in Nat
    BY <2>4
  <2> QED
    BY <2>2, <2>3, <2>4, <2>5, <2>6
<1>6. ASSUME NEW c \in 1..Len(arena) PROVE WatchedRight(c)' \/ Unwatched(c)'
  <2>1. \A l \in Lits : Total(c, l)' = Total(c, l)
    <3>1. c # id
      BY <1>0, <1>1, WatchTypes
    <3>2. \A l \in Lits : Total(c, l) \in Nat
      BY <1>1, CountsNat DEF Total
    <3> QED
      BY <1>5, <3>1, <3>2
  <2>2. WatchedRight(c) \/ Unwatched(c)
    BY DEF WatchInv, Watching, ClauseIds
  <2> QED
    BY <1>2, <2>1, <2>2 DEF WatchedRight, Unwatched
<1>7. WatchedRight(id)'
  <2>1. \A l \in Lits : Total(id, l) = 0
    BY <1>0, <1>1, NewIdUnwatched
  <2>2. \A l \in Lits : Places(x.lits, l) \in Nat
    BY DEF Places
  <2>3. \A l \in Lits : Total(id, l)' = Places(x.lits, l)
    BY <1>5, <2>1, <2>2
  <2>4. arena'[id] = x /\ ~x.deleted
    BY <1>2
  <2> QED
    BY <2>3, <2>4 DEF WatchedRight
<1>8. ClauseIds' = 1..id /\ \A c \in 1..id : c \in 1..Len(arena) \/ c = id
  BY <1>1, <1>2, WatchTypes DEF ClauseIds
<1> QED
  BY <1>6, <1>7, <1>8 DEF Watching, Visiting

\* Storing a learned clause without watchers: the theory's.
LEMMA StoreUnwatched ==
    ASSUME WatchInv, NEW x \in ArenaClauses, x.learned, pc # "visit", pc' # "visit",
           arena' = Append(arena, x), UNCHANGED watches
    PROVE  Watching' /\ Visiting'
<1>0. PICK id : id = Len(arena) + 1
  OBVIOUS
<1>1. Inv
  BY DEF WatchInv
<1>2. Len(arena') = id /\ arena'[id] = x /\ \A c \in 1..Len(arena) : arena'[c] = arena[c]
  BY <1>0, <1>1, WatchTypes, AppendClauseOK
<1>3. \A d, l : Total(d, l)' = Total(d, l)
  BY DEF Total
<1>4. ASSUME NEW c \in 1..Len(arena) PROVE WatchedRight(c)' \/ Unwatched(c)'
  <2>1. WatchedRight(c) \/ Unwatched(c)
    BY DEF WatchInv, Watching, ClauseIds
  <2> QED
    BY <1>2, <1>3, <2>1 DEF WatchedRight, Unwatched
<1>5. Unwatched(id)'
  <2>1. \A l \in Lits : Total(id, l) = 0
    BY <1>0, <1>1, NewIdUnwatched
  <2> QED
    BY <1>2, <1>3, <2>1 DEF Unwatched
<1>6. ClauseIds' = 1..id /\ \A c \in 1..id : c \in 1..Len(arena) \/ c = id
  BY <1>0, <1>1, <1>2, WatchTypes DEF ClauseIds
<1> QED
  BY <1>4, <1>5, <1>6 DEF Watching, Visiting

\* Taking the watchers of a literal off its list.
LEMMA DequeueWatched == ASSUME WatchInv, BcpDequeue PROVE Watching' /\ Visiting'
<1> DEFINE p == NextUnpropagated(tr)
<1>1. Inv
  BY DEF WatchInv
<1>2. /\ pc = "bcp" /\ pc' = "visit" /\ UNCHANGED arena /\ HasUnpropagated(tr)
      /\ tr' = Dequeue(tr) /\ watches' = [watches EXCEPT ![p] = << >>]
      /\ bcp' = [bcp EXCEPT !.lit = p, !.todo = watches[p], !.keep = << >>]
  BY DEF BcpDequeue
<1>3. tr \in TrailRecords /\ TrailInv(tr)
  BY <1>1 DEF Inv, TypeOK, TrailOK, TrailConsistent
<1>4. p \in Lits
  BY <1>2, <1>3, DequeueOK
<1>5. IsTrue(tr', p)
  <2>1. tr.qhead + 1 \in 1..Len(tr.trail)
    BY <1>2, <1>3 DEF HasUnpropagated, TrailRecords
  <2>2. IsTrue(tr, p)
    BY <1>3, <2>1 DEF TrailInv, TrailIsAssignment, NextUnpropagated
  <2>3. tr'.assigns = tr.assigns
    BY <1>2, <1>3 DEF Dequeue, TrailRecords
  <2> QED
    BY <2>2, <2>3 DEF IsTrue, LitValue
<1>6. bcp'.lit = p /\ bcp'.todo = watches[p] /\ bcp'.keep = << >>
  BY <1>1, <1>2, WatchTypes DEF BcpRecords
<1>7. watches'[p] = << >> /\ \A l \in Lits : l # p => watches'[l] = watches[l]
  BY <1>1, <1>2, <1>4, WatchTypes
<1> HIDE DEF p
<1>8. ASSUME NEW c, NEW l \in Lits PROVE Total(c, l)' = Total(c, l)
  <2>1. Total(c, l) = Occ(watches[l], c)
    <3>1. Occ(watches[l], c) \in Nat
      BY <1>1, CountsNat
    <3> QED
      BY <1>2, <3>1 DEF Total
  <2>2. CASE l = p
    <3>1. Total(c, l)' = Occ(<< >>, c) + (Occ(<< >>, c) + Occ(watches[p], c))
      BY <1>2, <1>6, <1>7, <2>2 DEF Total
    <3>2. Occ(<< >>, c) = 0 /\ Occ(watches[p], c) \in Nat
      BY <1>1, <1>4, CountsNat, OccEmpty
    <3> QED
      BY <2>1, <2>2, <3>1, <3>2
  <2>3. CASE l # p
    <3>1. Total(c, l)' = Occ(watches[l], c) + 0
      BY <1>6, <1>7, <2>3 DEF Total
    <3> QED
      BY <1>1, <2>1, <3>1, CountsNat
  <2> QED
    BY <2>2, <2>3
<1>9. Watching'
  BY <1>2, <1>8 DEF WatchInv, Watching, WatchedRight, Unwatched, ClauseIds
<1> QED
  BY <1>5, <1>6, <1>7, <1>9 DEF Visiting

\* The list that is rebuilt counts what is kept and what is left to visit.
LEMMA TotalInVisit ==
    ASSUME WatchInv, pc = "visit", NEW c
    PROVE  /\ Total(c, bcp.lit) = Occ(bcp.keep, c) + Occ(bcp.todo, c)
           /\ \A l \in Lits : l # bcp.lit => Total(c, l) = Occ(watches[l], c)
           /\ \A l \in Lits : Total(c, l) \in Nat
<1>1. Inv /\ bcp.lit \in Lits /\ watches[bcp.lit] = << >>
  BY WatchTypes DEF WatchInv, Visiting
<1>2. \A l \in Lits : /\ Occ(watches[l], c) \in Nat /\ Occ(bcp.keep, c) \in Nat
                      /\ Occ(bcp.todo, c) \in Nat
  BY <1>1, CountsNat
<1>3. Occ(<< >>, c) = 0
  BY OccEmpty
<1> QED
  BY <1>1, <1>2, <1>3 DEF Total

\* A step of a visit changes the counts of no clause but the one at hand.
LEMMA OthersStay ==
    ASSUME WatchInv, NEW d \in ClauseIds, Len(arena') = Len(arena),
           \A c \in ClauseIds \ {d} : /\ arena'[c] = arena[c]
                                      /\ \A l \in Lits : Total(c, l)' = Total(c, l),
           WatchedRight(d)'
    PROVE  Watching'
<1>1. ASSUME NEW c \in ClauseIds PROVE WatchedRight(c)' \/ Unwatched(c)'
  <2>1. CASE c # d
    BY <1>1, <2>1 DEF WatchInv, Watching, WatchedRight, Unwatched
  <2> QED
    BY <2>1
<1> QED
  BY <1>1 DEF Watching, ClauseIds

\* The clause at hand is watched by the literal that is visited, so the
\* negation of that literal is one of its first two.
LEMMA AtHandWatched ==
    ASSUME WatchInv, pc = "visit", bcp.todo # << >>
    PROVE  LET lits == arena[AtHand.clause].lits
           IN  /\ AtHand.clause \in ClauseIds /\ WatchedRight(AtHand.clause)
               /\ \A c : Occ(bcp.todo, c) = Is(AtHand, c) + Occ(Tail(bcp.todo), c)
               /\ \A c : Occ(Tail(bcp.todo), c) \in Nat
               /\ ClauseAtHand \in Seq(Lits) /\ Len(ClauseAtHand) > 1
               /\ ClauseAtHand[2] = Neg(bcp.lit)
               /\ \A l \in Lits : Places(ClauseAtHand, l) = Places(lits, l)
<1> DEFINE d == AtHand.clause
           lits == arena[d].lits
<1>1. Inv
  BY DEF WatchInv
<1>2. /\ d \in ClauseIds /\ Tail(bcp.todo) \in Seq(WatchersIn(arena))
      /\ ClauseAtHand \in Seq(Lits) /\ Len(ClauseAtHand) > 1 /\ Len(ClauseAtHand) = Len(lits)
  BY <1>1, AtHandFacts DEF ClauseIds
<1>3. \A c : Occ(bcp.todo, c) = Is(AtHand, c) + Occ(Tail(bcp.todo), c)
  BY <1>1, WatchTypes, OccTail DEF AtHand
<1>4. \A c : Occ(Tail(bcp.todo), c) \in Nat
  BY <1>2, OccNat
<1>5. Total(d, bcp.lit) > 0
  <2>1. Is(AtHand, d) = 1
    BY DEF Is
  <2>2. Occ(bcp.keep, d) \in Nat
    BY <1>1, WatchTypes, OccNat
  <2>3. Total(d, bcp.lit) = Occ(bcp.keep, d) + Occ(bcp.todo, d)
    BY TotalInVisit
  <2> HIDE DEF d
  <2> QED
    BY <1>3, <1>4, <2>1, <2>2, <2>3
<1>6. bcp.lit \in Lits
  BY <1>1, WatchTypes
<1>7. WatchedRight(d)
  BY <1>2, <1>5, <1>6 DEF WatchInv, Watching, Unwatched
<1>8. lits \in Seq(Lits)
  BY <1>1, <1>2, WatchTypes, ClauseFacts
<1>9. Neg(lits[1]) = bcp.lit \/ Neg(lits[2]) = bcp.lit
  <2>1. Total(d, bcp.lit) <= Places(lits, bcp.lit)
    BY <1>6, <1>7, TotalInVisit DEF WatchedRight, Places
  <2>2. Total(d, bcp.lit) \in Nat
    BY <1>6, TotalInVisit
  <2> HIDE DEF d, lits
  <2> QED
    BY <1>5, <2>1, <2>2 DEF Places
<1>10. lits[1] \in Lits /\ lits[2] \in Lits
  BY <1>2, <1>8
<1>11. lits[1] = Neg(bcp.lit) \/ lits[2] = Neg(bcp.lit)
  BY <1>6, <1>9, <1>10, LitFacts
<1>12. /\ ClauseAtHand[2] = Neg(bcp.lit)
       /\ {ClauseAtHand[1], ClauseAtHand[2]} = {lits[1], lits[2]}
       /\ ClauseAtHand[1] = lits[1] \/ ClauseAtHand[1] = lits[2]
       /\ ClauseAtHand[1] = lits[1] => ClauseAtHand[2] = lits[2]
       /\ ClauseAtHand[1] # lits[1] => ClauseAtHand[2] = lits[1]
  <2>1. ClauseAtHand = Swapped(lits)
    BY DEF ClauseAtHand
  <2>2. 1 \in 1..Len(lits) /\ 2 \in 1..Len(lits)
    BY <1>2, <1>8
  <2> HIDE DEF lits, d
  <2>3. CASE lits[1] = Neg(bcp.lit)
    <3>1. ClauseAtHand = [lits EXCEPT ![1] = lits[2], ![2] = Neg(bcp.lit)]
      BY <2>1, <2>3 DEF Swapped
    <3>2. ClauseAtHand[1] = lits[2] /\ ClauseAtHand[2] = lits[1]
      BY <1>8, <2>2, <2>3, <3>1
    <3> QED
      BY <2>3, <3>2
  <2>4. CASE lits[1] # Neg(bcp.lit)
    <3>1. ClauseAtHand = lits
      BY <2>1, <2>4 DEF Swapped
    <3> QED
      BY <1>11, <2>4, <3>1
  <2> QED
    BY <2>3, <2>4
<1>13. \A l \in Lits : Places(ClauseAtHand, l) = Places(lits, l)
  BY <1>12 DEF Places
<1> QED
  BY <1>2, <1>3, <1>4, <1>7, <1>12, <1>13

\* A watcher is kept, or dropped with its deleted clause.
LEMMA SkipWatched == ASSUME WatchInv, VisitSkip PROVE Watching' /\ Visiting'
<1>0. PICK d : d = AtHand.clause
  OBVIOUS
<1>1. /\ pc = "visit" /\ bcp.todo # << >> /\ pc' = "visit" /\ UNCHANGED <<arena, watches, tr>>
      /\ bcp' = [bcp EXCEPT !.todo = Tail(@),
                   !.keep = IF arena[d].deleted THEN @ ELSE Append(@, AtHand)]
  BY <1>0 DEF VisitSkip, Visit, db
<1>2. Inv
  BY DEF WatchInv
<1>3. /\ bcp'.lit = bcp.lit /\ bcp'.todo = Tail(bcp.todo)
      /\ bcp'.keep = IF arena[d].deleted THEN bcp.keep ELSE Append(bcp.keep, AtHand)
  BY <1>1, <1>2, WatchTypes DEF BcpRecords
<1>4. \A c : Occ(bcp'.keep, c) = IF arena[d].deleted THEN Occ(bcp.keep, c)
                                 ELSE Occ(bcp.keep, c) + Is(AtHand, c)
  <2>1. AtHand \in WatchersIn(arena) /\ bcp.keep \in Seq(WatchersIn(arena))
    BY <1>1, <1>2, AtHandFacts, WatchTypes
  <2> QED
    BY <1>3, <2>1, OccAppend
<1>5. /\ d \in ClauseIds /\ WatchedRight(d)
      /\ \A c : Occ(bcp.todo, c) = Is(AtHand, c) + Occ(Tail(bcp.todo), c)
      /\ \A c : Occ(Tail(bcp.todo), c) \in Nat
  BY <1>0, <1>1, AtHandWatched
<1>6. \A c : Is(AtHand, c) = IF c = d THEN 1 ELSE 0
  BY <1>0 DEF Is
<1>7. \A c : Occ(bcp.keep, c) \in Nat
  BY <1>2, WatchTypes, OccNat
<1>8. Visiting'
  BY <1>1, <1>3 DEF WatchInv, Visiting
<1>9. ASSUME NEW c, NEW l \in Lits
      PROVE  /\ c # d \/ ~arena[d].deleted => Total(c, l)' = Total(c, l)
             /\ Total(c, l)' \in Nat /\ Total(c, l)' <= Total(c, l)
  <2>1. CASE l = bcp.lit
    <3>1. Total(c, l)' = Occ(watches[l], c) + (Occ(bcp'.keep, c) + Occ(Tail(bcp.todo), c))
      BY <1>1, <1>3, <2>1 DEF Total
    <3>2. watches[l] = << >> /\ Occ(<< >>, c) = 0
      BY <1>1, <2>1, OccEmpty DEF WatchInv, Visiting
    <3>3. Total(c, l)' = Occ(bcp'.keep, c) + Occ(Tail(bcp.todo), c)
      BY <1>4, <1>5, <1>6, <1>7, <3>1, <3>2
    <3>4. Total(c, l) = Occ(bcp.keep, c) + (Is(AtHand, c) + Occ(Tail(bcp.todo), c))
      BY <1>1, <1>5, <2>1, TotalInVisit
    <3> QED
      BY <1>4, <1>5, <1>6, <1>7, <3>3, <3>4
  <2>2. CASE l # bcp.lit
    <3>1. Total(c, l)' = Occ(watches[l], c) + 0
      BY <1>1, <1>3, <2>2 DEF Total
    <3>2. Total(c, l) = Occ(watches[l], c) /\ Total(c, l) \in Nat
      BY <1>1, <2>2, TotalInVisit
    <3> QED
      BY <3>1, <3>2
  <2> QED
    BY <2>1, <2>2
<1>10. WatchedRight(d)'
  <2>1. \A l \in Lits : Total(d, l) \in Nat /\ Places(arena[d].lits, l) \in Nat
    BY <1>1, TotalInVisit DEF Places
  <2> QED
    BY <1>1, <1>5, <1>9, <2>1 DEF WatchedRight
<1> QED
  BY <1>1, <1>5, <1>8, <1>9, <1>10, OthersStay

\* Writing literals back changes nothing but the literals of the clause at hand.
LEMMA WrittenBack ==
    ASSUME Inv, NEW d \in ClauseIds, NEW lits, arena' = [arena EXCEPT ![d].lits = lits]
    PROVE  /\ Len(arena') = Len(arena) /\ arena'[d].lits = lits
           /\ arena'[d].deleted = arena[d].deleted /\ arena'[d].learned = arena[d].learned
           /\ \A c \in ClauseIds \ {d} : arena'[c] = arena[c]
<1>1. arena \in Seq(ArenaClauses) /\ ClauseIds = 1..Len(arena) /\ Len(arena) \in Nat
  BY WatchTypes
<1>2. arena[d] \in ArenaClauses
  BY <1>1
<1>3. arena' = [arena EXCEPT ![d] = [arena[d] EXCEPT !.lits = lits]]
  OBVIOUS
<1>4. /\ arena'[d] = [arena[d] EXCEPT !.lits = lits] /\ Len(arena') = Len(arena)
      /\ \A c \in ClauseIds \ {d} : arena'[c] = arena[c]
  BY <1>1, <1>3
<1> QED
  BY <1>2, <1>4 DEF ArenaClauses

\* The watcher of the clause at hand is kept, with another blocker.
LEMMA KeepWatched ==
    ASSUME WatchInv, VisitSatisfied \/ VisitUnit PROVE Watching'
<1>0. PICK d : d = AtHand.clause
  OBVIOUS
<1>1. /\ pc = "visit" /\ bcp.todo # << >> /\ pc' = "visit" /\ UNCHANGED watches /\ ~arena[d].deleted
      /\ arena' = [arena EXCEPT ![d].lits = ClauseAtHand]
      /\ bcp' = [bcp EXCEPT !.todo = Tail(@), !.keep = Append(@, Watcher(d, First))]
  BY <1>0 DEF VisitSatisfied, VisitUnit, Visit
<1>2. Inv
  BY DEF WatchInv
<1>3. /\ bcp'.lit = bcp.lit /\ bcp'.todo = Tail(bcp.todo)
      /\ bcp'.keep = Append(bcp.keep, Watcher(d, First))
  BY <1>1, <1>2, WatchTypes DEF BcpRecords
<1>4. \A c : Occ(bcp'.keep, c) = Occ(bcp.keep, c) + (IF c = d THEN 1 ELSE 0)
  <2>1. Watcher(d, First) \in WatchersIn(arena) /\ bcp.keep \in Seq(WatchersIn(arena))
    BY <1>0, <1>1, <1>2, AtHandFacts, WatchTypes
  <2>2. \A c : Is(Watcher(d, First), c) = IF c = d THEN 1 ELSE 0
    BY DEF Is, Watcher
  <2> QED
    BY <1>3, <2>1, <2>2, OccAppend
<1>5. /\ d \in ClauseIds /\ WatchedRight(d)
      /\ \A c : Occ(bcp.todo, c) = Is(AtHand, c) + Occ(Tail(bcp.todo), c)
      /\ \A c : Occ(Tail(bcp.todo), c) \in Nat
      /\ \A l \in Lits : Places(ClauseAtHand, l) = Places(arena[d].lits, l)
  BY <1>0, <1>1, AtHandWatched
<1>6. \A c : Is(AtHand, c) = IF c = d THEN 1 ELSE 0
  BY <1>0 DEF Is
<1>7. \A c : Occ(bcp.keep, c) \in Nat
  BY <1>2, WatchTypes, OccNat
<1>8. ASSUME NEW c, NEW l \in Lits PROVE Total(c, l)' = Total(c, l)
  <2>1. CASE l = bcp.lit
    <3>1. Total(c, l)' = Occ(watches[l], c) + (Occ(bcp'.keep, c) + Occ(Tail(bcp.todo), c))
      BY <1>1, <1>3, <2>1 DEF Total
    <3>2. watches[l] = << >> /\ Occ(<< >>, c) = 0
      BY <1>1, <2>1, OccEmpty DEF WatchInv, Visiting
    <3>3. Total(c, l)' = Occ(bcp'.keep, c) + Occ(Tail(bcp.todo), c)
      BY <1>4, <1>5, <1>7, <3>1, <3>2
    <3>4. Total(c, l) = Occ(bcp.keep, c) + (Is(AtHand, c) + Occ(Tail(bcp.todo), c))
      BY <1>1, <1>5, <2>1, TotalInVisit
    <3> QED
      BY <1>4, <1>5, <1>6, <1>7, <3>3, <3>4
  <2>2. CASE l # bcp.lit
    <3>1. Total(c, l)' = Occ(watches[l], c) + 0
      BY <1>1, <1>3, <2>2 DEF Total
    <3>2. Total(c, l) = Occ(watches[l], c) /\ Total(c, l) \in Nat
      BY <1>1, <2>2, TotalInVisit
    <3> QED
      BY <3>1, <3>2
  <2> QED
    BY <2>1, <2>2
<1>9. /\ Len(arena') = Len(arena) /\ arena'[d].lits = ClauseAtHand
      /\ arena'[d].deleted = arena[d].deleted
      /\ \A c \in ClauseIds \ {d} : arena'[c] = arena[c]
  BY <1>1, <1>2, <1>5, WrittenBack
<1>10. WatchedRight(d)'
  BY <1>1, <1>5, <1>8, <1>9 DEF WatchedRight
<1> QED
  BY <1>5, <1>8, <1>9, <1>10, OthersStay

\* The watcher moves to the list of the negated candidate, which is another
\* list: the candidate is not false, the negation of the visited literal is.
LEMMA RewatchWatched == ASSUME WatchInv, VisitRewatch PROVE Watching' /\ Visiting'
<1>0. PICK d, w, first : d = AtHand.clause /\ w = ClauseAtHand /\ first = First
  OBVIOUS
<1>1. /\ pc = "visit" /\ bcp.todo # << >> /\ pc' = "visit" /\ ~arena[d].deleted /\ UNCHANGED tr
      /\ bcp' = [bcp EXCEPT !.todo = Tail(@)]
  BY <1>0 DEF VisitRewatch, Visit
<1>2. PICK i \in NewWatches :
        /\ arena' = [arena EXCEPT ![d].lits = [w EXCEPT ![2] = w[i], ![i] = Neg(bcp.lit)]]
        /\ watches' = [watches EXCEPT ![Neg(w[i])] = Append(@, Watcher(d, first))]
  BY <1>0 DEF VisitRewatch
<1>3. Inv
  BY DEF WatchInv
<1>4. /\ bcp'.lit = bcp.lit /\ bcp'.todo = Tail(bcp.todo) /\ bcp'.keep = bcp.keep
  BY <1>1, <1>3, WatchTypes DEF BcpRecords
<1>5. /\ d \in ClauseIds /\ WatchedRight(d)
      /\ \A c : Occ(bcp.todo, c) = Is(AtHand, c) + Occ(Tail(bcp.todo), c)
      /\ \A c : Occ(Tail(bcp.todo), c) \in Nat
      /\ w \in Seq(Lits) /\ Len(w) > 1 /\ w[2] = Neg(bcp.lit)
      /\ \A l \in Lits : Places(w, l) = Places(arena[d].lits, l)
  BY <1>0, <1>1, AtHandWatched
<1>6. i \in 3..Len(w) /\ ~IsFalse(tr, w[i])
  BY <1>0 DEF NewWatches
<1>7. w[i] \in Lits /\ Neg(w[i]) \in Lits /\ Neg(Neg(w[i])) = w[i]
  <2>1. w[i] \in Lits
    BY <1>5, <1>6
  <2> QED
    BY <2>1, LitFacts
<1>8. Neg(w[i]) # bcp.lit
  <2>1. bcp.lit \in Lits /\ IsTrue(tr, bcp.lit) /\ tr.assigns \in [Vars -> LBool]
    BY <1>1, <1>3, WatchTypes DEF WatchInv, Visiting, Inv, TypeOK, TrailOK, TrailRecords
  <2>2. IsFalse(tr, Neg(bcp.lit))
    BY <2>1, LitFacts DEF IsTrue, IsFalse, LitValue, NotVal, IsPos, Neg, Lits
  <2> QED
    BY <1>6, <1>7, <2>2
<1>9. \A c : Is(AtHand, c) = IF c = d THEN 1 ELSE 0
  BY <1>0 DEF Is
<1>10. \A c : Occ(bcp.keep, c) \in Nat
  BY <1>3, WatchTypes, OccNat
<1>11. watches'[Neg(w[i])] = Append(watches[Neg(w[i])], Watcher(d, first))
       /\ \A l \in Lits : l # Neg(w[i]) => watches'[l] = watches[l]
  BY <1>2, <1>3, <1>7, WatchTypes
<1>12. ASSUME NEW c
       PROVE  Occ(watches'[Neg(w[i])], c) = Occ(watches[Neg(w[i])], c) + (IF c = d THEN 1 ELSE 0)
  <2>1. Watcher(d, first) \in WatchersIn(arena)
    BY <1>0, <1>1, <1>3, AtHandFacts
  <2>2. watches[Neg(w[i])] \in Seq(WatchersIn(arena))
    BY <1>3, <1>7, WatchTypes
  <2>3. Is(Watcher(d, first), c) = IF c = d THEN 1 ELSE 0
    BY DEF Is, Watcher
  <2> QED
    BY <1>11, <2>1, <2>2, <2>3, OccAppend
<1>13. ASSUME NEW c, NEW l \in Lits
       PROVE  Total(c, l)' = IF c # d THEN Total(c, l)
                             ELSE IF l = bcp.lit THEN Total(c, l) - 1
                             ELSE IF l = Neg(w[i]) THEN Total(c, l) + 1 ELSE Total(c, l)
  <2>1. CASE l = bcp.lit
    <3>1. Total(c, l)' = Occ(watches[l], c) + (Occ(bcp.keep, c) + Occ(Tail(bcp.todo), c))
      BY <1>1, <1>4, <1>8, <1>11, <2>1 DEF Total
    <3>2. watches[l] = << >> /\ Occ(<< >>, c) = 0
      BY <1>1, <2>1, OccEmpty DEF WatchInv, Visiting
    <3>3. Total(c, l)' = Occ(bcp.keep, c) + Occ(Tail(bcp.todo), c)
      BY <1>5, <1>10, <3>1, <3>2
    <3>4. Total(c, l) = Occ(bcp.keep, c) + (Is(AtHand, c) + Occ(Tail(bcp.todo), c))
      BY <1>1, <1>5, <2>1, TotalInVisit
    <3> QED
      BY <1>5, <1>9, <1>10, <2>1, <3>3, <3>4
  <2>2. CASE l # bcp.lit
    <3>1. Total(c, l)' = Occ(watches'[l], c) + 0
      BY <1>1, <1>4, <2>2 DEF Total
    <3>2. Total(c, l) = Occ(watches[l], c) /\ Total(c, l) \in Nat
      BY <1>1, <2>2, TotalInVisit
    <3>3. CASE l = Neg(w[i])
      BY <1>12, <2>2, <3>1, <3>2, <3>3
    <3>4. CASE l # Neg(w[i])
      BY <1>11, <2>2, <3>1, <3>2, <3>4
    <3> QED
      BY <3>3, <3>4
  <2> QED
    BY <2>1, <2>2
<1>14. PICK x : x = [w EXCEPT ![2] = w[i], ![i] = Neg(bcp.lit)]
  OBVIOUS
<1>15. x[1] = w[1] /\ x[2] = w[i]
  BY <1>5, <1>6, <1>14
<1>16. /\ Len(arena') = Len(arena) /\ arena'[d].lits = x
       /\ arena'[d].deleted = arena[d].deleted
       /\ \A c \in ClauseIds \ {d} : arena'[c] = arena[c]
  BY <1>2, <1>3, <1>5, <1>14, WrittenBack
<1>17. ASSUME NEW l \in Lits PROVE Total(d, l)' = Places(x, l)
  <2>1. Total(d, l) = Places(w, l) /\ Total(d, l) \in Nat
    BY <1>1, <1>5, TotalInVisit DEF WatchedRight
  <2>2. Neg(w[2]) = bcp.lit
    BY <1>3, <1>5, WatchTypes, LitFacts
  <2>3. Places(w, l) = (IF Neg(w[1]) = l THEN 1 ELSE 0) + (IF bcp.lit = l THEN 1 ELSE 0)
    BY <2>2 DEF Places
  <2>4. Places(x, l) = (IF Neg(w[1]) = l THEN 1 ELSE 0) + (IF Neg(w[i]) = l THEN 1 ELSE 0)
    BY <1>15 DEF Places
  <2>5. Total(d, l)' = IF l = bcp.lit THEN Total(d, l) - 1
                       ELSE IF l = Neg(w[i]) THEN Total(d, l) + 1 ELSE Total(d, l)
    BY <1>13
  <2> QED
    BY <1>8, <2>1, <2>3, <2>4, <2>5
<1>18. WatchedRight(d)'
  BY <1>1, <1>16, <1>17 DEF WatchedRight
<1>19. Visiting'
  <2>1. bcp.lit \in Lits
    BY <1>3, WatchTypes
  <2> QED
    BY <1>1, <1>4, <1>8, <1>11, <2>1 DEF WatchInv, Visiting
<1> QED
  BY <1>5, <1>13, <1>16, <1>18, <1>19, OthersStay

\* Assigning an open variable leaves the values of the others.
LEMMA AssignKeepsValues ==
    ASSUME NEW t \in TrailRecords, NEW l \in Lits, ~IsAssigned(t, VarOf(l)), NEW r, NEW k \in Lits,
           IsAssigned(t, VarOf(k))
    PROVE  LitValue(Assign(t, l, r), k) = LitValue(t, k)
<1>1. VarOf(k) \in Vars /\ VarOf(l) \in Vars /\ VarOf(k) # VarOf(l)
  BY LitFacts
<1>2. Assign(t, l, r).assigns = [t.assigns EXCEPT ![VarOf(l)] = IF IsPos(l) THEN "True" ELSE "False"]
  BY DEF Assign, TrailRecords
<1>3. Assign(t, l, r).assigns[VarOf(k)] = t.assigns[VarOf(k)]
  BY <1>1, <1>2 DEF TrailRecords
<1> QED
  BY <1>3 DEF LitValue

\* The visited literal stays true, and its list empty.
LEMMA KeepVisiting ==
    ASSUME WatchInv, VisitSatisfied \/ VisitUnit PROVE Visiting'
<1>1. /\ pc = "visit" /\ pc' = "visit" /\ UNCHANGED watches /\ bcp.todo # << >>
      /\ bcp' = [bcp EXCEPT !.todo = Tail(@), !.keep = Append(@, Watcher(AtHand.clause, First))]
  BY DEF VisitSatisfied, VisitUnit, Visit
<1>2. Inv /\ IsTrue(tr, bcp.lit) /\ watches[bcp.lit] = << >>
  BY <1>1 DEF WatchInv, Visiting
<1>3. bcp'.lit = bcp.lit /\ bcp.lit \in Lits
  BY <1>1, <1>2, WatchTypes DEF BcpRecords
<1>4. IsTrue(tr', bcp.lit)
  <2>1. CASE UNCHANGED tr
    BY <1>2, <2>1
  <2>2. CASE VisitUnit
    <3>1. tr' = Assign(tr, First, AtHand.clause) /\ LitValue(tr, First) = "Undef"
      BY <2>2 DEF VisitUnit
    <3>2. First \in Lits /\ tr \in TrailRecords
      BY <1>1, <1>2, AtHandFacts DEF Inv, TypeOK, TrailOK
    <3>3. ~IsAssigned(tr, VarOf(First))
      <4>1. tr.assigns[VarOf(First)] \in LBool
        BY <3>2, LitFacts DEF TrailRecords
      <4> QED
        BY <3>1, <4>1 DEF IsAssigned, LitValue, NotVal, LBool
    <3>4. IsAssigned(tr, VarOf(bcp.lit))
      BY <1>2 DEF IsTrue, LitValue, NotVal, IsAssigned
    <3> QED
      BY <1>2, <1>3, <3>1, <3>2, <3>3, <3>4, AssignKeepsValues DEF IsTrue
  <2> QED
    BY <2>1, <2>2 DEF VisitSatisfied, VisitUnit
<1> QED
  BY <1>1, <1>2, <1>3, <1>4 DEF Visiting

\* A conflict writes the list back, whatever is left of it included.
LEMMA ConflictWatched == ASSUME WatchInv, VisitConflict PROVE Watching' /\ Visiting'
<1>0. PICK d : d = AtHand.clause
  OBVIOUS
<1>1. /\ pc = "visit" /\ bcp.todo # << >> /\ pc' = "conflict" /\ ~arena[d].deleted
      /\ arena' = [arena EXCEPT ![d].lits = ClauseAtHand]
      /\ watches' = [watches EXCEPT ![bcp.lit] =
                        Append(bcp.keep, Watcher(d, First)) \o Tail(bcp.todo)]
  BY <1>0 DEF VisitConflict, Visit
<1>2. Inv
  BY DEF WatchInv
<1>3. /\ d \in ClauseIds /\ WatchedRight(d)
      /\ \A c : Occ(bcp.todo, c) = Is(AtHand, c) + Occ(Tail(bcp.todo), c)
      /\ \A c : Occ(Tail(bcp.todo), c) \in Nat
      /\ \A l \in Lits : Places(ClauseAtHand, l) = Places(arena[d].lits, l)
  BY <1>0, <1>1, AtHandWatched
<1>4. \A c : Is(AtHand, c) = IF c = d THEN 1 ELSE 0
  BY <1>0 DEF Is
<1>5. \A c : Occ(bcp.keep, c) \in Nat
  BY <1>2, WatchTypes, OccNat
<1>6. bcp.lit \in Lits
  BY <1>2, WatchTypes
<1>7. /\ watches'[bcp.lit] = Append(bcp.keep, Watcher(d, First)) \o Tail(bcp.todo)
      /\ \A l \in Lits : l # bcp.lit => watches'[l] = watches[l]
  BY <1>1, <1>2, <1>6, WatchTypes
<1>8. ASSUME NEW c
      PROVE  Occ(watches'[bcp.lit], c)
               = Occ(bcp.keep, c) + (IF c = d THEN 1 ELSE 0) + Occ(Tail(bcp.todo), c)
  <2>1. /\ Watcher(d, First) \in WatchersIn(arena) /\ bcp.keep \in Seq(WatchersIn(arena))
        /\ Tail(bcp.todo) \in Seq(WatchersIn(arena))
    BY <1>0, <1>1, <1>2, AtHandFacts, WatchTypes
  <2>2. Append(bcp.keep, Watcher(d, First)) \in Seq(WatchersIn(arena))
    BY <2>1
  <2>3. Is(Watcher(d, First), c) = IF c = d THEN 1 ELSE 0
    BY DEF Is, Watcher
  <2>4. Occ(Append(bcp.keep, Watcher(d, First)), c) = Occ(bcp.keep, c) + Is(Watcher(d, First), c)
    BY <2>1, OccAppend
  <2>5. Occ(Append(bcp.keep, Watcher(d, First)) \o Tail(bcp.todo), c)
          = Occ(Append(bcp.keep, Watcher(d, First)), c) + Occ(Tail(bcp.todo), c)
    BY <2>1, <2>2, OccConcat
  <2> QED
    BY <1>7, <2>3, <2>4, <2>5
<1>9. ASSUME NEW c, NEW l \in Lits PROVE Total(c, l)' = Total(c, l)
  <2>1. Total(c, l)' = Occ(watches'[l], c) + 0
    BY <1>1 DEF Total
  <2>2. CASE l = bcp.lit
    <3>1. Total(c, l) = Occ(bcp.keep, c) + (Is(AtHand, c) + Occ(Tail(bcp.todo), c))
      BY <1>1, <1>3, <2>2, TotalInVisit
    <3>2. Is(AtHand, c) = (IF c = d THEN 1 ELSE 0) /\ (IF c = d THEN 1 ELSE 0) \in Nat
      BY <1>4
    <3> QED
      BY <1>3, <1>5, <1>8, <2>1, <2>2, <3>1, <3>2
  <2>3. CASE l # bcp.lit
    BY <1>1, <1>7, <2>1, <2>3, TotalInVisit
  <2> QED
    BY <2>2, <2>3
<1>10. /\ Len(arena') = Len(arena) /\ arena'[d].lits = ClauseAtHand
       /\ arena'[d].deleted = arena[d].deleted
       /\ \A c \in ClauseIds \ {d} : arena'[c] = arena[c]
  BY <1>1, <1>2, <1>3, WrittenBack
<1>11. WatchedRight(d)'
  BY <1>1, <1>3, <1>9, <1>10 DEF WatchedRight
<1>12. Visiting'
  BY <1>1 DEF Visiting
<1> QED
  BY <1>3, <1>9, <1>10, <1>11, <1>12, OthersStay

\* The list of what was kept is written back.
LEMMA EndWatched == ASSUME WatchInv, VisitEnd PROVE Watching' /\ Visiting'
<1>1. /\ pc = "visit" /\ bcp.todo = << >> /\ pc' = "bcp" /\ UNCHANGED arena
      /\ watches' = [watches EXCEPT ![bcp.lit] = bcp.keep]
  BY DEF VisitEnd
<1>2. Inv
  BY DEF WatchInv
<1>3. bcp.lit \in Lits
  BY <1>2, WatchTypes
<1>4. watches'[bcp.lit] = bcp.keep /\ \A l \in Lits : l # bcp.lit => watches'[l] = watches[l]
  BY <1>1, <1>2, <1>3, WatchTypes
<1>5. ASSUME NEW c, NEW l \in Lits PROVE Total(c, l)' = Total(c, l)
  <2>1. Total(c, l)' = Occ(watches'[l], c) + 0
    BY <1>1 DEF Total
  <2>2. CASE l = bcp.lit
    <3>1. Total(c, l) = Occ(bcp.keep, c) + Occ(<< >>, c)
      BY <1>1, <2>2, TotalInVisit
    <3>2. Occ(<< >>, c) = 0 /\ Occ(bcp.keep, c) \in Nat
      BY <1>2, WatchTypes, OccNat, OccEmpty
    <3> QED
      BY <1>4, <2>1, <2>2, <3>1, <3>2
  <2>3. CASE l # bcp.lit
    BY <1>1, <1>4, <2>1, <2>3, TotalInVisit
  <2> QED
    BY <2>2, <2>3
<1>6. Watching'
  BY <1>1, <1>5 DEF WatchInv, Watching, WatchedRight, Unwatched, ClauseIds
<1> QED
  BY <1>1, <1>6 DEF Visiting

-----------------------------------------------------------------------------
(* The other actions: they leave the lists alone, or store a clause.        *)

\* Nothing changes in the database.
LEMMA SameDatabase ==
    ASSUME WatchInv, pc # "visit", pc' # "visit", UNCHANGED db PROVE Watching' /\ Visiting'
  BY ListsStay DEF db

\* Clauses are at most marked deleted.
LEMMA DeletedWatched ==
    ASSUME WatchInv, pc # "visit", pc' # "visit", UNCHANGED watches, NEW S,
           arena' = WithDeleted(S)
    PROVE  Watching' /\ Visiting'
<1>1. /\ Len(arena') = Len(arena)
      /\ \A c \in ClauseIds : /\ arena'[c].lits = arena[c].lits
                              /\ arena'[c].learned = arena[c].learned
                              /\ arena[c].deleted => arena'[c].deleted
  BY Deleting DEF WatchInv
<1> QED
  BY <1>1, ListsStay

\* A clause of two literals or more is stored with its watchers.
LEMMA ClauseStored ==
    ASSUME WatchInv, pc # "visit", pc' # "visit", NEW c \in Seq(Lits), Len(c) > 1,
           NEW learned \in BOOLEAN, NEW lbd \in Nat,
           arena' = Append(arena, NewClause(c, learned, lbd)),
           watches' = Attach(watches, Len(arena) + 1, c)
    PROVE  Watching' /\ Visiting'
<1>1. PICK x : x = NewClause(c, learned, lbd)
  OBVIOUS
<1>2. x \in ArenaClauses /\ x.lits = c /\ ~x.deleted
  BY <1>1, NewClauseOK DEF NewClause
<1> QED
  BY <1>1, <1>2, StoreWatched

LEMMA ClientWatched == ASSUME WatchInv, Client PROVE Watching' /\ Visiting'
<1>1. pc # "visit"
  BY DEF Client, NewVar, AddClause, Push, Pop, Solve, Call
<1>2. CASE NewVar \/ Push \/ Solve
  BY <1>1, <1>2, SameDatabase DEF NewVar, Push, Solve
<1>3. CASE Pop
  <2>1. pc' # "visit"
    BY <1>1, <1>3 DEF Pop
  <2>2. CASE scopes = << >>
    BY <1>1, <1>3, <2>1, <2>2, SameDatabase DEF Pop
  <2>3. CASE scopes # << >>
    <3>1. UNCHANGED watches /\ arena' = WithDeleted(ClausesSince(scopes[Len(scopes)]))
      BY <1>3, <2>3 DEF Pop
    <3> QED
      BY <1>1, <2>1, <3>1, DeletedWatched
  <2> QED
    BY <2>2, <2>3
<1>4. CASE AddClause
  <2> DEFINE lits == Head(calls).lits
  <2>1. lits \in Seq(Lits)
    BY <1>4, CallFacts DEF AddClause, WatchInv, Inv, TypeOK
  <2>2. CASE UNCHANGED <<db, pc>>
    BY <1>1, <2>2, SameDatabase
  <2>3. ASSUME NEW c \in Cleaned(lits), AddCleaned(c) PROVE Watching' /\ Visiting'
    <3>1. CASE UNCHANGED db /\ (UNCHANGED pc \/ pc' = "bcp")
      BY <1>1, <3>1, SameDatabase
    <3>2. CASE /\ Len(c) > 1 /\ arena' = Append(arena, NewClause(c, FALSE, 0))
               /\ watches' = Attach(watches, Len(arena) + 1, c) /\ UNCHANGED pc
      <4>1. c \in Seq(Lits)
        BY <2>1, CleanedFacts
      <4>2. FALSE \in BOOLEAN /\ 0 \in Nat
        OBVIOUS
      <4> QED
        BY <1>1, <3>2, <4>1, <4>2, ClauseStored
    <3> QED
      BY <2>3, <3>1, <3>2 DEF AddCleaned
  <2> QED
    BY <1>4, <2>2, <2>3 DEF AddClause
<1> QED
  BY <1>2, <1>3, <1>4 DEF Client

LEMMA PropagateWatched == ASSUME WatchInv, Propagate PROVE Watching' /\ Visiting'
<1>1. CASE VisitSatisfied \/ VisitUnit
  BY <1>1, KeepWatched, KeepVisiting
<1>2. CASE BcpOk
  BY <1>2, SameDatabase DEF BcpOk
<1> QED
  BY <1>1, <1>2, DequeueWatched, SkipWatched, RewatchWatched, ConflictWatched, EndWatched
  DEF Propagate

LEMMA LearnWatched == ASSUME WatchInv, Learn PROVE Watching' /\ Visiting'
<1>1. pc = "learn" /\ pc' \in {"panic", "loop"}
  BY DEF Learn
<1>2. an.learned \in Seq(Lits) /\ Len(an.learned) > 0 /\ an.lbd \in Nat
  BY <1>1, AnFacts DEF WatchInv, Inv, TypeOK, ControlOK
<1>3. CASE Len(an.learned) = 1
  BY <1>1, <1>3, SameDatabase DEF Learn
<1>4. CASE Len(an.learned) # 1
  <2>1. /\ arena' = Append(arena, NewClause(an.learned, TRUE, an.lbd))
        /\ watches' = Attach(watches, Len(arena) + 1, an.learned)
    BY <1>4 DEF Learn
  <2>2. ASSUME NEW n \in Nat, n > 0, n # 1 PROVE n > 1
    BY <2>2
  <2>3. Len(an.learned) > 1
    <3>1. Len(an.learned) \in Nat
      BY <1>2
    <3> QED
      BY <1>2, <1>4, <2>2, <3>1
  <2>4. TRUE \in BOOLEAN
    OBVIOUS
  <2> QED
    BY <1>1, <1>2, <2>1, <2>3, <2>4, ClauseStored
<1> QED
  BY <1>3, <1>4

LEMMA ConflictStepsWatched == ASSUME WatchInv, Conflict PROVE Watching' /\ Visiting'
<1>1. CASE ReduceDb
  <2>1. pc = "reduce" /\ pc' = "learn" /\ UNCHANGED watches
    BY <1>1 DEF ReduceDb
  <2>2. CASE UNCHANGED arena
    BY <2>1, <2>2, SameDatabase DEF db
  <2>3. CASE arena' = WithDeleted(Evicted)
    BY <2>1, <2>3, DeletedWatched
  <2> QED
    BY <1>1, <2>2, <2>3 DEF ReduceDb
<1>2. CASE \/ ConflictInAddClause \/ ConflictBeforeSearch \/ ConflictAtLevelZero
           \/ StartAnalysis \/ MarkLit \/ PickLit \/ AssumptionsRefuted \/ Backjump
  BY <1>2, SameDatabase
  DEF ConflictInAddClause, ConflictBeforeSearch, ConflictAtLevelZero, StartAnalysis, MarkLit,
      PickLit, AssumptionsRefuted, Backjump
<1> QED
  BY <1>1, <1>2, LearnWatched DEF Conflict

LEMMA SearchWatched == ASSUME WatchInv, Search PROVE Watching' /\ Visiting'
<1>1. CASE TheoryConflict
  <2>1. pc = "theory" /\ pc' = "conflict" /\ UNCHANGED watches
    BY <1>1 DEF TheoryConflict
  <2>2. CASE UNCHANGED arena
    BY <2>1, <2>2, SameDatabase DEF db
  <2>3. ASSUME NEW c \in FalseTheoryClauses, arena' = Append(arena, NewClause(c, TRUE, 2))
        PROVE  Watching' /\ Visiting'
    <3>1. PICK x : x = NewClause(c, TRUE, 2)
      OBVIOUS
    <3>2. c \in Seq(Lits)
      BY SolverAssumption DEF FalseTheoryClauses
    <3>3. x \in ArenaClauses /\ x.learned
      BY <3>1, <3>2, NewClauseOK DEF NewClause
    <3> QED
      BY <2>1, <2>3, <3>1, <3>3, StoreUnwatched
  <2> QED
    BY <1>1, <2>2, <2>3 DEF TheoryConflict
<1>2. CASE Finish
  <2>1. pc = "finish" /\ pc' = "answered" /\ UNCHANGED watches
    BY <1>2 DEF Finish
  <2>2. CASE UNCHANGED arena
    BY <2>1, <2>2, SameDatabase DEF db
  <2>3. CASE arena' = WithDeleted(ClausesSince(scopes[Len(scopes)]))
    BY <2>1, <2>3, DeletedWatched
  <2> QED
    BY <1>2, <2>2, <2>3 DEF Finish
<1>3. CASE BudgetExhausted \/ Loop \/ TheoryOk \/ DecideAssumption \/ DecideVar \/ AllAssigned \/ Return
  BY <1>3, SameDatabase
  DEF BudgetExhausted, Loop, TheoryOk, DecideAssumption, DecideVar, Decide, AllAssigned, Return
<1> QED
  BY <1>1, <1>2, <1>3 DEF Search

-----------------------------------------------------------------------------
(* The theorem.                                                             *)

LEMMA WatchInit == Init => WatchInv
<1> SUFFICES ASSUME Init PROVE Watching /\ Visiting
  BY InitOK DEF WatchInv
<1> QED
  BY DEF Init, Watching, Visiting, ClauseIds

LEMMA WatchNext == ASSUME WatchInv, [Next]_vars PROVE WatchInv'
<1>1. Inv'
  BY NextOK DEF WatchInv
<1>2. ASSUME UNCHANGED vars PROVE Watching' /\ Visiting'
  <2>1. UNCHANGED <<arena, watches, bcp, pc, tr>>
    BY <1>2 DEF vars, db
  <2>2. \A c, l : Total(c, l)' = Total(c, l)
    BY <2>1 DEF Total
  <2>3. Watching'
    BY <2>1, <2>2 DEF WatchInv, Watching, WatchedRight, Unwatched, ClauseIds
  <2> QED
    BY <2>1, <2>3 DEF WatchInv, Visiting
<1>3. Watching' /\ Visiting'
  BY <1>2, ClientWatched, PropagateWatched, ConflictStepsWatched, SearchWatched DEF Next, Step
<1> QED
  BY <1>1, <1>3 DEF WatchInv

\* The places among two of a literal, counted as the property counts them.
LEMMA PlacesCounted ==
    ASSUME NEW lits, NEW l
    PROVE  Cardinality({i \in 1..2 : Neg(lits[i]) = l}) = Places(lits, l)
<1> DEFINE S == {i \in 1..2 : Neg(lits[i]) = l}
<1>1. /\ Neg(lits[1]) = l /\ Neg(lits[2]) = l => S = 1..2
      /\ Neg(lits[1]) = l /\ Neg(lits[2]) # l => S = {1}
      /\ Neg(lits[1]) # l /\ Neg(lits[2]) = l => S = {2}
      /\ Neg(lits[1]) # l /\ Neg(lits[2]) # l => S = {}
  OBVIOUS
<1>2. Cardinality({1}) = 1 /\ Cardinality({2}) = 1
  BY FS_Singleton
<1>3. Cardinality(1..2) = 2
  <2>1. Cardinality({1} \cup {2}) = Cardinality({1}) + 1
    <3>0. IsFiniteSet({1})
      BY FS_Singleton
    <3>1. IsFiniteSet({1}) /\ 2 \notin {1}
      BY <3>0
    <3>2. \A T : IsFiniteSet(T) /\ 2 \notin T => Cardinality(T \cup {2}) = Cardinality(T) + 1
      BY FS_AddElement
    <3> QED
      BY <3>1, <3>2
  <2>2. {1} \cup {2} = 1..2
    OBVIOUS
  <2> QED
    BY <1>2, <2>1, <2>2
<1>4. Cardinality({}) = 0
  BY FS_EmptySet
<1> HIDE DEF S
<1>5. Cardinality(S) = Places(lits, l)
  BY <1>1, <1>2, <1>3, <1>4 DEF Places
<1> QED
  BY <1>5 DEF S

\* The watchers of the property are the ones counted here.
LEMMA CountsAgree ==
    ASSUME WatchInv, NEW c, NEW l \in Lits PROVE CountIn(c, l) = Total(c, l)
<1>1. /\ watches[l] \in Seq(WatchersIn(arena)) /\ bcp.keep \in Seq(WatchersIn(arena))
      /\ bcp.todo \in Seq(WatchersIn(arena)) /\ << >> \in Seq(WatchersIn(arena))
  BY WatchTypes DEF WatchInv
<1>2. Occ(watches[l], c) \in Nat /\ Occ(bcp.keep, c) \in Nat /\ Occ(bcp.todo, c) \in Nat
  BY CountsNat DEF WatchInv
<1>3. CountIn(c, l) = Occ(WatchersOf(l), c)
  BY DEF CountIn, Occ
<1>4. CASE pc = "visit" /\ l = bcp.lit
  <2>1. WatchersOf(l) = watches[l] \o (bcp.keep \o bcp.todo)
    BY <1>4 DEF WatchersOf
  <2>2. bcp.keep \o bcp.todo \in Seq(WatchersIn(arena))
    BY <1>1, ConcatFact
  <2>3. Occ(WatchersOf(l), c) = Occ(watches[l], c) + Occ(bcp.keep \o bcp.todo, c)
    <3>1. PICK s, t : s = watches[l] /\ t = bcp.keep \o bcp.todo
      OBVIOUS
    <3>2. Occ(s \o t, c) = Occ(s, c) + Occ(t, c)
      <4>1. s \in Seq(WatchersIn(arena)) /\ t \in Seq(WatchersIn(arena))
        BY <1>1, <2>2, <3>1
      <4> QED
        BY <4>1, OccConcat
    <3> QED
      BY <2>1, <3>1, <3>2
  <2>4. Occ(bcp.keep \o bcp.todo, c) = Occ(bcp.keep, c) + Occ(bcp.todo, c)
    BY <1>1, OccConcat
  <2> QED
    BY <1>3, <1>4, <2>3, <2>4 DEF Total
<1>5. CASE ~(pc = "visit" /\ l = bcp.lit)
  <2>1. WatchersOf(l) = watches[l] \o << >>
    BY <1>5 DEF WatchersOf
  <2>2. Occ(WatchersOf(l), c) = Occ(watches[l], c) + Occ(<< >>, c)
    <3>1. PICK s : s = watches[l]
      OBVIOUS
    <3>2. Occ(s \o << >>, c) = Occ(s, c) + Occ(<< >>, c)
      BY <1>1, <3>1, OccConcat
    <3> QED
      BY <2>1, <3>1, <3>2
  <2> QED
    BY <1>2, <1>3, <1>5, <2>2, OccEmpty DEF Total
<1> QED
  BY <1>4, <1>5

\* A live clause that is watched at all stays watched by its first two
\* literals, once each, through every reordering of its literals, every move of
\* a watcher, every conflict that stops a visit half way, and every scope.
THEOREM WatchedTwice == Spec => []TwoWatched
<1>1. ASSUME WatchInv PROVE TwoWatched
  <2>1. ASSUME NEW c \in Live
        PROVE  \/ \A l \in Lits : CountIn(c, l) =
                     Cardinality({i \in 1..2 : Neg(arena[c].lits[i]) = l})
               \/ arena[c].learned /\ \A l \in Lits : CountIn(c, l) = 0
    <3>1. c \in ClauseIds /\ ~arena[c].deleted
      BY DEF Live
    <3>2. WatchedRight(c) \/ Unwatched(c)
      BY <1>1, <3>1 DEF WatchInv, Watching
    <3> QED
      BY <1>1, <3>1, <3>2, CountsAgree, PlacesCounted DEF WatchedRight, Unwatched
  <2> QED
    BY <2>1 DEF TwoWatched
<1>2. WatchInv => TwoWatched
  BY <1>1
<1> QED
  BY <1>2, WatchInit, WatchNext, PTL DEF Spec
-----------------------------------------------------------------------------
(* Reasons.                                                                 *)

\* Literal l is false by one of the first n literals of the trail.
FalseBefore(t, n, l) == \E k \in 1..n : t.trail[k] = Neg(l)
FalseNow(t, l) == FalseBefore(t, Len(t.trail), l)

\* A clause that forces literal i of the trail: it heads the clause, and
\* literals before it make the others false.
Forces(t, lits, i) ==
    /\ lits[1] = t.trail[i]
    /\ \A j \in 2..Len(lits) : FalseBefore(t, i - 1, lits[j])

\* Why literal i is there: a clause forces it, it is fixed at level 0, or it
\* is the decision that its level begins with.
JustifiedAt(t, a, i) ==
    LET v == VarOf(t.trail[i])
    IN  /\ t.reason[v] > 0 => /\ Forces(t, a[t.reason[v]].lits, i)
                              /\ t.level[v] > 0 => ~a[t.reason[v]].deleted
        /\ t.reason[v] = ReasonUnit => t.level[v] = 0
        /\ t.reason[v] = ReasonDecision => t.level[v] > 0 /\ t.trail_lim[t.level[v]] = i - 1
Justified(t, a) == \A i \in 1..Len(t.trail) : JustifiedAt(t, a, i)

-----------------------------------------------------------------------------
(* The operations of the trail, literal by literal.                         *)

LEMMA TrailTypes ==
    ASSUME NEW t \in TrailRecords
    PROVE  /\ t.assigns \in [Vars -> LBool] /\ t.level \in [Vars -> Nat]
           /\ t.reason \in [Vars -> Reasons] /\ t.trail \in Seq(Lits) /\ Len(t.trail) \in Nat
           /\ t.trail_lim \in Seq(Nat) /\ Len(t.trail_lim) \in Nat /\ t.qhead \in Nat
           /\ \A i \in 1..Len(t.trail) : t.trail[i] \in Lits /\ VarOf(t.trail[i]) \in Vars
           /\ DecisionLevel(t) = Len(t.trail_lim)
<1>1. /\ t.assigns \in [Vars -> LBool] /\ t.level \in [Vars -> Nat]
      /\ t.reason \in [Vars -> Reasons] /\ t.trail \in Seq(Lits)
      /\ t.trail_lim \in Seq(Nat) /\ t.qhead \in Nat
  BY DEF TrailRecords
<1> QED
  BY <1>1, LitFacts DEF DecisionLevel

\* A literal is false exactly when its negation is on the trail.
LEMMA FalseIsOnTrail ==
    ASSUME NEW t \in TrailRecords, TrailInv(t), NEW l \in Lits
    PROVE  IsFalse(t, l) <=> FalseNow(t, l)
<1>1. VarOf(l) \in Vars /\ Neg(l) \in Lits /\ VarOf(Neg(l)) = VarOf(l) /\ Neg(Neg(l)) = l
  BY LitFacts
<1>2. t.assigns[VarOf(l)] \in LBool /\ IsPos(l) = ~IsPos(Neg(l))
  BY <1>1, TrailTypes DEF IsPos, Neg, Lits
<1>3. IsFalse(t, l) <=> IsTrue(t, Neg(l))
  BY <1>1, <1>2 DEF IsFalse, IsTrue, LitValue, NotVal, LBool
<1>4. ASSUME IsTrue(t, Neg(l)) PROVE FalseNow(t, l)
  <2>1. IsAssigned(t, VarOf(l))
    BY <1>1, <1>4 DEF IsTrue, LitValue, IsAssigned, NotVal
  <2>2. PICK i \in 1..Len(t.trail) : VarOf(t.trail[i]) = VarOf(l)
    BY <1>1, <2>1 DEF TrailInv, TrailIsAssignment
  <2>3. t.trail[i] \in Lits /\ IsTrue(t, t.trail[i])
    BY TrailTypes DEF TrailInv, TrailIsAssignment
  <2>4. t.trail[i] = l \/ t.trail[i] = Neg(l)
    BY <2>2, <2>3, SameVar
  <2>5. t.trail[i] # l
    BY <2>3, <1>3, <1>4 DEF IsTrue, IsFalse
  <2> QED
    BY <2>4, <2>5 DEF FalseNow, FalseBefore
<1>5. ASSUME FalseNow(t, l) PROVE IsTrue(t, Neg(l))
  BY <1>5 DEF FalseNow, FalseBefore, TrailInv, TrailIsAssignment
<1> QED
  BY <1>3, <1>4, <1>5

\* What is false by a prefix stays false where the prefix stays.
LEMMA FalsePrefix ==
    ASSUME NEW t, NEW u, NEW n, \A k \in 1..n : u.trail[k] = t.trail[k], NEW l
    PROVE  FalseBefore(u, n, l) <=> FalseBefore(t, n, l)
  BY DEF FalseBefore
LEMMA FalseLonger ==
    ASSUME NEW t, NEW m \in Nat, NEW n \in Nat, m <= n, NEW l, FalseBefore(t, m, l)
    PROVE  FalseBefore(t, n, l)
  BY DEF FalseBefore

\* The position of a false literal and its level.
LEMMA FalsePosition ==
    ASSUME NEW t \in TrailRecords, TrailInv(t), NEW n \in 0..Len(t.trail), NEW l \in Lits,
           FalseBefore(t, n, l)
    PROVE  /\ \E k \in 1..n : t.trail[k] = Neg(l) /\ VarOf(t.trail[k]) = VarOf(l)
           /\ t.level[VarOf(l)] \in 0..DecisionLevel(t)
<1>1. PICK k \in 1..n : t.trail[k] = Neg(l)
  BY DEF FalseBefore
<1>2. k \in 1..Len(t.trail) /\ VarOf(t.trail[k]) = VarOf(l) /\ VarOf(l) \in Vars
  BY <1>1, TrailTypes, LitFacts
<1>3. t.level[VarOf(l)] <= DecisionLevel(t)
  BY <1>2 DEF TrailInv, LevelsAreSegments
<1> QED
  BY <1>1, <1>2, <1>3, TrailTypes

LEMMA AssignFacts ==
    ASSUME NEW t \in TrailRecords, TrailInv(t), NEW l \in Lits, NEW r \in Reasons,
           ~IsAssigned(t, VarOf(l)), NEW u, u = Assign(t, l, r)
    PROVE  /\ u.trail = Append(t.trail, l) /\ Len(u.trail) = Len(t.trail) + 1
           /\ u.trail[Len(t.trail) + 1] = l
           /\ u.trail_lim = t.trail_lim /\ u.qhead = t.qhead
           /\ u.reason[VarOf(l)] = r /\ u.level[VarOf(l)] = DecisionLevel(t)
           /\ \A v \in Vars : v # VarOf(l) =>
                u.level[v] = t.level[v] /\ u.reason[v] = t.reason[v] /\ u.assigns[v] = t.assigns[v]
           /\ \A i \in 1..Len(t.trail) :
                /\ u.trail[i] = t.trail[i] /\ VarOf(t.trail[i]) # VarOf(l)
                /\ u.level[VarOf(t.trail[i])] = t.level[VarOf(t.trail[i])]
                /\ u.reason[VarOf(t.trail[i])] = t.reason[VarOf(t.trail[i])]
<1>1. VarOf(l) \in Vars
  BY LitFacts
<1>2. /\ u.trail = Append(t.trail, l) /\ u.trail_lim = t.trail_lim /\ u.qhead = t.qhead
      /\ u.assigns = [t.assigns EXCEPT ![VarOf(l)] = IF IsPos(l) THEN "True" ELSE "False"]
      /\ u.level = [t.level EXCEPT ![VarOf(l)] = Len(t.trail_lim)]
      /\ u.reason = [t.reason EXCEPT ![VarOf(l)] = r]
  BY DEF Assign, TrailRecords, DecisionLevel
<1>3. ASSUME NEW i \in 1..Len(t.trail) PROVE VarOf(t.trail[i]) # VarOf(l)
  <2>1. IsTrue(t, t.trail[i])
    BY DEF TrailInv, TrailIsAssignment
  <2> QED
    BY <2>1 DEF IsTrue, LitValue, IsAssigned, NotVal
<1> QED
  BY <1>1, <1>2, <1>3, TrailTypes

LEMMA NewLevelFacts ==
    ASSUME NEW t \in TrailRecords, NEW u, u = NewDecisionLevel(t)
    PROVE  /\ u.trail = t.trail /\ u.reason = t.reason /\ u.level = t.level
           /\ u.assigns = t.assigns /\ u.qhead = t.qhead
           /\ u.trail_lim = Append(t.trail_lim, Len(t.trail))
           /\ Len(u.trail_lim) = Len(t.trail_lim) + 1
           /\ u.trail_lim[Len(t.trail_lim) + 1] = Len(t.trail)
           /\ \A k \in 1..Len(t.trail_lim) : u.trail_lim[k] = t.trail_lim[k]
<1>1. /\ u.trail = t.trail /\ u.reason = t.reason /\ u.level = t.level
      /\ u.assigns = t.assigns /\ u.qhead = t.qhead
      /\ u.trail_lim = Append(t.trail_lim, Len(t.trail))
  BY DEF NewDecisionLevel, TrailRecords
<1> QED
  BY <1>1, TrailTypes

LEMMA DequeueFacts ==
    ASSUME NEW t \in TrailRecords, NEW u, u = Dequeue(t)
    PROVE  /\ u.trail = t.trail /\ u.reason = t.reason /\ u.level = t.level
           /\ u.assigns = t.assigns /\ u.qhead = t.qhead + 1 /\ u.trail_lim = t.trail_lim
  BY DEF Dequeue, TrailRecords

LEMMA BacktrackFacts ==
    ASSUME NEW t \in TrailRecords, TrailInv(t), NEW level \in Nat, NEW u, u = BacktrackTo(t, level)
    PROVE  /\ Len(u.trail) \in Nat /\ Len(u.trail) <= Len(t.trail)
           /\ \A i \in 1..Len(u.trail) : u.trail[i] = t.trail[i]
           /\ u.trail = SubSeq(t.trail, 1, Len(u.trail))
           /\ u.reason = t.reason /\ u.level = t.level
           /\ Len(u.trail_lim) \in Nat /\ Len(u.trail_lim) <= level
           /\ Len(u.trail_lim) <= Len(t.trail_lim)
           /\ \A k \in 1..Len(u.trail_lim) : u.trail_lim[k] = t.trail_lim[k]
           /\ Len(t.trail_lim) <= level => u = t
           /\ level < Len(t.trail_lim) =>
                /\ Len(u.trail_lim) = level /\ u.trail_lim = SubSeq(t.trail_lim, 1, level)
                /\ Len(u.trail) = t.trail_lim[level + 1] /\ u.qhead = Len(u.trail)
<1>1. /\ t.trail \in Seq(Lits) /\ t.trail_lim \in Seq(Nat) /\ Len(t.trail) \in Nat
      /\ Len(t.trail_lim) \in Nat
      /\ t = [assigns |-> t.assigns, level |-> t.level, reason |-> t.reason, phase |-> t.phase,
              trail |-> t.trail, trail_lim |-> t.trail_lim, qhead |-> t.qhead]
  BY DEF TrailRecords
<1>2. CASE ~(DecisionLevel(t) > level)
  <2>1. u = t /\ Len(t.trail_lim) <= level
    BY <1>1, <1>2 DEF BacktrackTo, DecisionLevel
  <2>2. t.trail = SubSeq(t.trail, 1, Len(t.trail))
    BY <1>1
  <2> QED
    BY <1>1, <2>1, <2>2
<1>3. CASE DecisionLevel(t) > level
  <2>1. PICK n : n = t.trail_lim[level + 1]
    OBVIOUS
  <2>2. /\ level + 1 \in 1..Len(t.trail_lim) /\ level \in 0..Len(t.trail_lim)
        /\ n \in 0..Len(t.trail) /\ level < Len(t.trail_lim)
    BY <1>1, <1>3, <2>1 DEF DecisionLevel, TrailInv, LevelsAreSegments
  <2>3. /\ u.trail = SubSeq(t.trail, 1, n) /\ u.trail_lim = SubSeq(t.trail_lim, 1, level)
        /\ u.qhead = n /\ u.level = t.level /\ u.reason = t.reason
    BY <1>1, <1>3, <2>1 DEF BacktrackTo
  <2>4. Len(u.trail) = n /\ \A i \in 1..n : u.trail[i] = t.trail[i]
    BY <1>1, <2>2, <2>3, PrefixFacts
  <2>5. Len(u.trail_lim) = level /\ \A i \in 1..level : u.trail_lim[i] = t.trail_lim[i]
    BY <1>1, <2>2, <2>3, PrefixFacts
  <2>6. Len(u.trail) = t.trail_lim[level + 1] /\ u.qhead = Len(u.trail)
    BY <2>1, <2>3, <2>4
  <2>7. Len(u.trail) \in Nat /\ Len(u.trail) <= Len(t.trail)
    BY <1>1, <2>2, <2>4
  <2>8. \A i \in 1..Len(u.trail) : u.trail[i] = t.trail[i]
    BY <2>4
  <2>9. \A k \in 1..Len(u.trail_lim) : u.trail_lim[k] = t.trail_lim[k]
    BY <2>5
  <2>10. u.trail = SubSeq(t.trail, 1, Len(u.trail))
    BY <2>3, <2>4
  <2>11. ~(Len(t.trail_lim) <= level)
    BY <1>1, <2>2
  <2>12. Len(u.trail_lim) \in Nat /\ Len(u.trail_lim) <= level /\ Len(u.trail_lim) <= Len(t.trail_lim)
    BY <1>1, <2>2, <2>5
  <2> QED
    BY <2>3, <2>5, <2>6, <2>7, <2>8, <2>9, <2>10, <2>11, <2>12
<1> QED
  BY <1>2, <1>3

-----------------------------------------------------------------------------
(* Justifications, operation by operation.                                  *)

\* What the reasons of an arena need to stay.
KeepsReasons(t, a, b) ==
    \A i \in 1..Len(t.trail) :
        LET v == VarOf(t.trail[i])
            c == t.reason[v]
        IN  c > 0 => b[c].lits = a[c].lits /\ (t.level[v] > 0 /\ b[c].deleted => a[c].deleted)

\* A justification stays where its part of the trail and its reason stay.
LEMMA JustificationStays ==
    ASSUME NEW t \in TrailRecords, TrailInv(t), NEW a, NEW b, NEW u, KeepsReasons(t, a, b),
           NEW i \in 1..Len(t.trail), JustifiedAt(t, a, i),
           \A k \in 1..i : u.trail[k] = t.trail[k],
           u.reason[VarOf(t.trail[i])] = t.reason[VarOf(t.trail[i])],
           u.level[VarOf(t.trail[i])] = t.level[VarOf(t.trail[i])],
           \A k \in 1..t.level[VarOf(t.trail[i])] : u.trail_lim[k] = t.trail_lim[k]
    PROVE  JustifiedAt(u, b, i)
<1> DEFINE v == VarOf(t.trail[i])
           c == t.reason[v]
<1>1. i \in Nat \ {0} /\ v \in Vars /\ t.level[v] \in Nat /\ u.trail[i] = t.trail[i]
  BY TrailTypes
<1>2. c > 0 => b[c].lits = a[c].lits /\ (t.level[v] > 0 /\ b[c].deleted => a[c].deleted)
  BY DEF KeepsReasons
<1>3. \A l : FalseBefore(u, i - 1, l) <=> FalseBefore(t, i - 1, l)
  BY <1>1, FalsePrefix
<1>4. c > 0 => Forces(u, b[c].lits, i)
  BY <1>1, <1>2, <1>3 DEF JustifiedAt, Forces
<1>5. t.level[v] > 0 => u.trail_lim[t.level[v]] = t.trail_lim[t.level[v]]
  BY <1>1
<1> QED
  BY <1>1, <1>2, <1>4, <1>5 DEF JustifiedAt

LEMMA SameReasons ==
    ASSUME NEW t, NEW a, NEW b, a = b PROVE KeepsReasons(t, a, b)
  BY DEF KeepsReasons

\* The trail stays, at most its queue head moves.
LEMMA JustifiedSame ==
    ASSUME NEW t \in TrailRecords, TrailInv(t), NEW a, NEW b, KeepsReasons(t, a, b),
           Justified(t, a), NEW u, u.trail = t.trail, u.reason = t.reason, u.level = t.level,
           u.trail_lim = t.trail_lim
    PROVE  Justified(u, b)
<1> SUFFICES ASSUME NEW i \in 1..Len(t.trail) PROVE JustifiedAt(u, b, i)
  BY DEF Justified
<1> QED
  BY JustificationStays DEF Justified

LEMMA JustifiedBacktrack ==
    ASSUME NEW t \in TrailRecords, TrailInv(t), NEW a, NEW b, KeepsReasons(t, a, b),
           Justified(t, a), NEW level \in Nat, NEW u, u = BacktrackTo(t, level)
    PROVE  Justified(u, b)
<1> SUFFICES ASSUME NEW i \in 1..Len(u.trail) PROVE JustifiedAt(u, b, i)
  BY DEF Justified
<1>1. /\ Len(u.trail) \in Nat /\ Len(u.trail) <= Len(t.trail)
      /\ \A k \in 1..Len(u.trail) : u.trail[k] = t.trail[k]
      /\ u.reason = t.reason /\ u.level = t.level
      /\ \A k \in 1..Len(u.trail_lim) : u.trail_lim[k] = t.trail_lim[k]
      /\ u \in TrailRecords /\ TrailInv(u)
  <2>1. u \in TrailRecords /\ TrailInv(u)
    BY BacktrackOK
  <2> QED
    BY <2>1, BacktrackFacts
<1>2. i \in 1..Len(t.trail) /\ u.trail[i] = t.trail[i]
  BY <1>1, TrailTypes
<1>3. u.level[VarOf(u.trail[i])] <= Len(u.trail_lim) /\ u.level[VarOf(u.trail[i])] \in Nat
  BY <1>1, TrailTypes DEF TrailInv, LevelsAreSegments, DecisionLevel
<1>4. \A k \in 1..t.level[VarOf(t.trail[i])] : u.trail_lim[k] = t.trail_lim[k]
  <2>1. Len(u.trail_lim) \in Nat
    BY <1>1, TrailTypes
  <2> QED
    BY <1>1, <1>2, <1>3, <2>1
<1>5. \A k \in 1..i : u.trail[k] = t.trail[k]
  BY <1>1
<1> QED
  BY <1>1, <1>2, <1>4, <1>5, JustificationStays DEF Justified

LEMMA JustifiedAssign ==
    ASSUME NEW t \in TrailRecords, TrailInv(t), NEW a, NEW b, KeepsReasons(t, a, b),
           Justified(t, a), NEW l \in Lits, NEW r \in Reasons, ~IsAssigned(t, VarOf(l)),
           NEW u, u = Assign(t, l, r),
           r > 0 => /\ ~b[r].deleted /\ b[r].lits[1] = l
                    /\ \A j \in 2..Len(b[r].lits) : FalseNow(t, b[r].lits[j]),
           r = ReasonUnit => DecisionLevel(t) = 0,
           r = ReasonDecision => /\ DecisionLevel(t) > 0
                                 /\ t.trail_lim[DecisionLevel(t)] = Len(t.trail)
    PROVE  Justified(u, b)
<1> DEFINE n == Len(t.trail)
<1>1. /\ Len(u.trail) = n + 1 /\ u.trail[n + 1] = l /\ u.trail_lim = t.trail_lim
      /\ u.reason[VarOf(l)] = r /\ u.level[VarOf(l)] = DecisionLevel(t)
      /\ \A i \in 1..n : /\ u.trail[i] = t.trail[i]
                         /\ u.level[VarOf(t.trail[i])] = t.level[VarOf(t.trail[i])]
                         /\ u.reason[VarOf(t.trail[i])] = t.reason[VarOf(t.trail[i])]
  BY AssignFacts
<1>2. n \in Nat
  BY TrailTypes
<1>3. ASSUME NEW i \in 1..n PROVE JustifiedAt(u, b, i)
  <2>1. i \in 1..Len(t.trail) /\ JustifiedAt(t, a, i)
    BY DEF Justified
  <2>2. \A k \in 1..i : u.trail[k] = t.trail[k]
    BY <1>1, <1>2
  <2>3. \A k \in 1..t.level[VarOf(t.trail[i])] : u.trail_lim[k] = t.trail_lim[k]
    BY <1>1
  <2> QED
    BY <1>1, <2>1, <2>2, <2>3, JustificationStays
<1>4. JustifiedAt(u, b, n + 1)
  <2>1. \A x : FalseBefore(u, n, x) <=> FalseBefore(t, n, x)
    BY <1>1, FalsePrefix
  <2>2. (n + 1) - 1 = n
    BY <1>2
  <2>3. r > 0 => Forces(u, b[r].lits, n + 1)
    BY <1>1, <2>1, <2>2 DEF Forces, FalseNow
  <2> HIDE DEF n
  <2> QED
    BY <1>1, <2>2, <2>3 DEF JustifiedAt, n
<1> QED
  BY <1>1, <1>2, <1>3, <1>4 DEF Justified

LEMMA JustifiedNewLevel ==
    ASSUME NEW t \in TrailRecords, TrailInv(t), NEW a, Justified(t, a),
           NEW u, u = NewDecisionLevel(t)
    PROVE  Justified(u, a)
<1>1. /\ u.trail = t.trail /\ u.reason = t.reason /\ u.level = t.level
      /\ \A k \in 1..Len(t.trail_lim) : u.trail_lim[k] = t.trail_lim[k]
  BY NewLevelFacts
<1> SUFFICES ASSUME NEW i \in 1..Len(t.trail) PROVE JustifiedAt(u, a, i)
  BY <1>1 DEF Justified
<1>2. t.level[VarOf(t.trail[i])] <= Len(t.trail_lim) /\ t.level[VarOf(t.trail[i])] \in Nat
  BY TrailTypes DEF TrailInv, LevelsAreSegments, DecisionLevel
<1>3. \A k \in 1..t.level[VarOf(t.trail[i])] : u.trail_lim[k] = t.trail_lim[k]
  BY <1>1, <1>2, TrailTypes
<1> QED
  BY <1>1, <1>3, SameReasons, JustificationStays DEF Justified

-----------------------------------------------------------------------------
(* The invariant.                                                           *)

\* Outside a search no level is open.
Resting ==
    /\ pc \in {"idle", "answered"} => tr.trail_lim = << >>
    /\ pc \in {"bcp", "visit", "conflict"} /\ ~InSearch => tr.trail_lim = << >>
    /\ pc = "theory" => InSearch

\* The theory has been told the first n literals, in scopes that match the levels.
Told(n) == th.lims = tr.trail_lim /\ n <= Len(tr.trail) /\ th.asserted = SubSeq(tr.trail, 1, n)
ToldAll == th.lims = tr.trail_lim /\ th.asserted = tr.trail

\* Propagation runs ahead of the theory, a backjump undoes both.
Mirror ==
    /\ pc \in {"bcp", "visit"} /\ bcp.caller = "solve_with_theory" => th = NewTheory
    /\ pc \in {"bcp", "visit"} /\ InSearch => Told(sv.old_trail_len)
    /\ pc = "conflict" /\ InSearch => Told(Len(th.asserted))
    /\ pc \in {"mark", "learned"} => Told(Len(th.asserted))
    /\ pc \in {"reduce", "learn", "loop", "theory", "decide"} => ToldAll

\* The clause in conflict is false; at level 0 the theory's is not in the arena.
AllFalse(t, lits) == \A j \in 1..Len(lits) : FalseNow(t, lits[j])
ConflictFalse ==
    pc = "conflict" =>
        IF an.origin = "theory" /\ DecisionLevel(tr) = 0
        THEN \E c \in TheoryClauses : AllFalse(tr, c)
        ELSE an.conflict \in ClauseIds /\ AllFalse(tr, arena[an.conflict].lits)

\* The clause at hand is false below trail_idx, but for the literal it is
\* resolved on, and so are the variables seen.
Analysing ==
    pc = "mark" =>
        /\ \A j \in 1..Len(an.lits) :
             VarOf(an.lits[j]) = an.pivot \/ FalseBefore(tr, an.trail_idx, an.lits[j])
        /\ \A v \in an.seen : \E k \in 1..an.trail_idx : VarOf(tr.trail[k]) = v

\* The learned literals but the first are false at levels that the backjump
\* leaves, which are below the current one.
Low(l) == FalseNow(tr, l) /\ tr.level[VarOf(l)] \in 1..an.backtrack_level
Learned ==
    /\ pc \in {"mark", "learned"} =>
         /\ \A j \in 2..Len(an.learned) : Low(an.learned[j])
         /\ an.backtrack_level < DecisionLevel(tr)
         /\ Len(an.learned) = 1 => an.backtrack_level = 0
    /\ pc \in {"reduce", "learn"} =>
         /\ \A j \in 2..Len(an.learned) :
              FalseNow(tr, an.learned[j]) /\ tr.level[VarOf(an.learned[j])] > 0
         /\ Len(an.learned) = 1 => DecisionLevel(tr) = 0

Undisturbed == Unrestarted /\ pc # "panic"
SearchOK == Justified(tr, arena) /\ Mirror /\ ConflictFalse /\ Analysing /\ Learned
ReasonInv == WatchInv /\ Resting /\ (Undisturbed => SearchOK)

LEMMA ReasonTypes ==
    ASSUME Inv
    PROVE  /\ tr \in TrailRecords /\ TrailInv(tr)
           /\ \A v \in Vars : tr.reason[v] \in Reasons /\ tr.reason[v] <= Len(arena)
           /\ arena \in Seq(ArenaClauses) /\ Len(arena) \in Nat /\ ClauseIds = 1..Len(arena)
           /\ bcp \in BcpRecords(arena) /\ an \in AnRecords /\ sv \in SvRecords
           /\ restarts \in RestartRecords
<1>1. tr \in TrailRecords /\ \A v \in Vars : tr.reason[v] <= Len(arena)
  BY DEF Inv, TypeOK, TrailOK
<1> QED
  BY <1>1, TrailTypes DEF Inv, TypeOK, DatabaseOK, ControlOK, RestOK, TrailConsistent, ClauseIds

\* Away from conflicts there is nothing to say of them.
LEMMA Quiet ==
    ASSUME pc' \notin {"conflict", "mark", "learned", "reduce", "learn"}
    PROVE  ConflictFalse' /\ Analysing' /\ Learned'
  BY DEF ConflictFalse, Analysing, Learned

\* The reasons after an arena has grown or lost clauses.
LEMMA ReasonsGrow ==
    ASSUME Inv, NEW x, arena' = Append(arena, x) PROVE KeepsReasons(tr, arena, arena')
<1> SUFFICES ASSUME NEW i \in 1..Len(tr.trail), tr.reason[VarOf(tr.trail[i])] > 0
             PROVE  arena'[tr.reason[VarOf(tr.trail[i])]] = arena[tr.reason[VarOf(tr.trail[i])]]
  BY DEF KeepsReasons
<1>1. VarOf(tr.trail[i]) \in Vars
  BY ReasonTypes, TrailTypes
<1>2. tr.reason[VarOf(tr.trail[i])] \in 1..Len(arena)
  BY <1>1, ReasonTypes DEF Reasons, ReasonDecision
<1>3. arena \in Seq(ArenaClauses) /\ Len(arena) \in Nat
  BY ReasonTypes
<1> QED
  BY <1>2, <1>3

LEMMA Deletes ==
    ASSUME Inv, NEW S, arena' = WithDeleted(S), NEW c \in ClauseIds
    PROVE  arena'[c].lits = arena[c].lits /\ (arena'[c].deleted => arena[c].deleted \/ c \in S)
<1>1. c \in 1..Len(arena) /\ arena[c] \in ArenaClauses
  BY ReasonTypes, ElementFact
<1>2. arena'[c] = IF c \in S THEN [arena[c] EXCEPT !.deleted = TRUE] ELSE arena[c]
  BY <1>1 DEF WithDeleted
<1> QED
  BY <1>1, <1>2 DEF ArenaClauses

LEMMA ReasonsKept ==
    ASSUME Inv, NEW S, arena' = WithDeleted(S),
           \A i \in 1..Len(tr.trail) :
               LET v == VarOf(tr.trail[i]) IN tr.level[v] > 0 => tr.reason[v] \notin S
    PROVE  KeepsReasons(tr, arena, arena')
<1> SUFFICES ASSUME NEW i \in 1..Len(tr.trail), NEW v, v = VarOf(tr.trail[i]),
                    NEW c, c = tr.reason[v], c > 0
             PROVE  /\ arena'[c].lits = arena[c].lits
                    /\ tr.level[v] > 0 /\ arena'[c].deleted => arena[c].deleted
  BY DEF KeepsReasons
<1>1. v \in Vars
  BY ReasonTypes, TrailTypes
<1>2. c \in ClauseIds
  BY <1>1, ReasonTypes DEF Reasons, ReasonDecision
<1> QED
  BY <1>2, Deletes

\* Backtracking to level 0 leaves no level, whatever is deleted then.
LEMMA BackToZero ==
    ASSUME Inv, tr' = BacktrackTo(tr, 0)
    PROVE  /\ tr'.trail_lim = << >> /\ tr' \in TrailRecords /\ TrailInv(tr')
           /\ \A i \in 1..Len(tr'.trail) : tr'.level[VarOf(tr'.trail[i])] = 0
<1>1. tr \in TrailRecords /\ TrailInv(tr) /\ 0 \in Nat
  BY ReasonTypes
<1>2. tr' \in TrailRecords /\ TrailInv(tr')
  BY <1>1, BacktrackOK
<1>3. Len(tr'.trail_lim) \in Nat /\ Len(tr'.trail_lim) <= 0
  BY <1>1, BacktrackFacts
<1>4. tr'.trail_lim \in Seq(Nat)
  BY <1>2, TrailTypes
<1>5. tr'.trail_lim = << >>
  BY <1>3, <1>4
<1>6. ASSUME NEW i \in 1..Len(tr'.trail) PROVE tr'.level[VarOf(tr'.trail[i])] = 0
  <2>1. tr'.level[VarOf(tr'.trail[i])] \in Nat /\ tr'.level[VarOf(tr'.trail[i])] <= DecisionLevel(tr')
    BY <1>2, TrailTypes DEF TrailInv, LevelsAreSegments
  <2> QED
    BY <1>3, <2>1 DEF DecisionLevel
<1> QED
  BY <1>2, <1>5, <1>6

LEMMA JustifiedAtZero ==
    ASSUME Inv, Justified(tr, arena), tr' = BacktrackTo(tr, 0),
           \/ UNCHANGED arena
           \/ \E S : arena' = WithDeleted(S)
    PROVE  Justified(tr', arena')
<1>1. tr \in TrailRecords /\ TrailInv(tr) /\ 0 \in Nat
  BY ReasonTypes
<1>2. tr' \in TrailRecords /\ TrailInv(tr') /\ \A i \in 1..Len(tr'.trail) : tr'.level[VarOf(tr'.trail[i])] = 0
  BY BackToZero
<1>3. Justified(tr', arena)
  BY <1>1, JustifiedBacktrack, SameReasons
<1>4. KeepsReasons(tr', arena, arena')
  <2>1. CASE UNCHANGED arena
    BY <2>1, SameReasons
  <2>2. ASSUME NEW S, arena' = WithDeleted(S) PROVE KeepsReasons(tr', arena, arena')
    <3> SUFFICES ASSUME NEW i \in 1..Len(tr'.trail), NEW v, v = VarOf(tr'.trail[i]),
                        NEW c, c = tr'.reason[v], c > 0
                 PROVE  arena'[c].lits = arena[c].lits /\ tr'.level[v] = 0
      BY DEF KeepsReasons
    <3>1. v \in Vars
      BY <1>2, TrailTypes
    <3>2. tr'.reason = tr.reason
      BY <1>1, BacktrackFacts
    <3>3. c \in ClauseIds
      BY <3>1, <3>2, ReasonTypes DEF Reasons, ReasonDecision
    <3> QED
      BY <1>2, <2>2, <3>3, Deletes
  <2> QED
    BY <2>1, <2>2
<1> QED
  BY <1>2, <1>3, <1>4, JustifiedSame

-----------------------------------------------------------------------------
(* The client's calls, made when no level is open.                          *)

\* A literal assigned at level 0 needs no clause.
LEMMA FixedAtZero ==
    ASSUME Inv, tr.trail_lim = << >>, NEW l \in Lits, ~IsAssigned(tr, VarOf(l)),
           tr' = Assign(tr, l, ReasonUnit), UNCHANGED arena
    PROVE  tr'.trail_lim = << >> /\ (Justified(tr, arena) => Justified(tr', arena'))
<1>1. tr \in TrailRecords /\ TrailInv(tr) /\ ReasonUnit \in Reasons /\ DecisionLevel(tr) = 0
  BY ReasonTypes DEF ReasonUnit, Reasons, DecisionLevel
<1>2. tr'.trail_lim = tr.trail_lim
  BY <1>1, AssignFacts
<1>3. ~(ReasonUnit > 0) /\ ReasonUnit # ReasonDecision /\ arena' = arena
  BY DEF ReasonUnit, ReasonDecision
<1>4. ASSUME Justified(tr, arena) PROVE Justified(tr', arena')
  BY <1>1, <1>3, <1>4, SameReasons, JustifiedAssign
<1> QED
  BY <1>2, <1>4

LEMMA AddClauseReasons ==
    ASSUME ReasonInv, AddClause PROVE Resting' /\ (Undisturbed' => SearchOK')
<1>1. Inv /\ pc = "idle" /\ tr.trail_lim = << >> /\ UNCHANGED <<restarts, th, an, sv>>
  <2>1. Inv /\ pc = "idle"
    BY DEF ReasonInv, WatchInv, AddClause, Call
  <2>2. UNCHANGED restarts
    BY DEF AddClause, AddVars, rest
  <2> QED
    BY <2>1, <2>2 DEF ReasonInv, Resting, AddClause
<1>2. Undisturbed' => Justified(tr, arena)
  BY <1>1 DEF ReasonInv, Undisturbed, Unrestarted, SearchOK
<1> DEFINE lits == Head(calls).lits
<1>3. lits \in Seq(Lits)
  BY <1>1, CallFacts DEF AddClause, Inv, TypeOK
<1> DEFINE Outcome ==
             \/ UNCHANGED <<arena, tr, pc, bcp>>
             \/ UNCHANGED <<tr, pc, bcp>> /\ \E x : arena' = Append(arena, x)
             \/ \E l \in Lits : /\ ~IsAssigned(tr, VarOf(l)) /\ tr' = Assign(tr, l, ReasonUnit)
                                /\ pc' = "bcp" /\ bcp' = [bcp EXCEPT !.caller = "add_clause"]
                                /\ UNCHANGED arena
<1>4. Outcome
  <2>1. CASE UNCHANGED <<db, tr, pc, bcp>>
    BY <2>1 DEF db
  <2>2. ASSUME ~Redundant(lits), NEW c \in Cleaned(lits), AddCleaned(c) PROVE Outcome
    <3>1. c \in Seq(Lits) /\ \A i \in 1..Len(c) : c[i] \in ToSet(lits) /\ ~IsFalse(tr, c[i])
      BY <1>3, CleanedFacts
    <3> HIDE DEF lits
    <3>2. CASE UNCHANGED <<db, tr, pc, bcp>>
      BY <3>2 DEF db
    <3>3. CASE UNCHANGED <<tr, pc, bcp>> /\ arena' = Append(arena, NewClause(c, FALSE, 0))
      BY <3>3
    <3>4. CASE /\ Len(c) = 1 /\ tr' = Assign(tr, c[1], ReasonUnit) /\ pc' = "bcp"
               /\ bcp' = [bcp EXCEPT !.caller = "add_clause"] /\ UNCHANGED db
      <4>1. 1 \in 1..Len(c)
        BY <3>4
      <4>2. c[1] \in Lits /\ ~IsFalse(tr, c[1]) /\ c[1] \in ToSet(lits)
        BY <3>1, <4>1, ElementFact
      <4>3. ~IsTrue(tr, c[1])
        BY <2>2, <4>2 DEF Redundant
      <4>4. ~IsAssigned(tr, VarOf(c[1]))
        <5>1. tr.assigns[VarOf(c[1])] \in LBool
          BY <1>1, <4>2, ReasonTypes, TrailTypes, LitFacts
        <5> QED
          BY <4>2, <4>3, <5>1 DEF IsTrue, IsFalse, LitValue, NotVal, LBool, IsAssigned
      <4> QED
        BY <3>4, <4>2, <4>4 DEF db
    <3> QED
      BY <2>2, <3>2, <3>3, <3>4 DEF AddCleaned
  <2> QED
    BY <2>1, <2>2 DEF AddClause
<1>5. CASE UNCHANGED <<arena, tr, pc, bcp>>
  BY <1>1, <1>2, <1>5, Quiet DEF Resting, SearchOK, Mirror, InSearch
<1>6. ASSUME UNCHANGED <<tr, pc, bcp>>, NEW x, arena' = Append(arena, x)
      PROVE  Resting' /\ (Undisturbed' => SearchOK')
  <2>1. Undisturbed' => Justified(tr', arena')
    BY <1>1, <1>2, <1>6, ReasonsGrow, ReasonTypes, JustifiedSame
  <2> QED
    BY <1>1, <1>6, <2>1, Quiet DEF Resting, SearchOK, Mirror, InSearch
<1>7. ASSUME NEW l \in Lits, ~IsAssigned(tr, VarOf(l)), tr' = Assign(tr, l, ReasonUnit),
             pc' = "bcp", bcp' = [bcp EXCEPT !.caller = "add_clause"], UNCHANGED arena
      PROVE  Resting' /\ (Undisturbed' => SearchOK')
  <2>1. tr'.trail_lim = << >> /\ (Undisturbed' => Justified(tr', arena'))
    BY <1>1, <1>2, <1>7, FixedAtZero
  <2>2. bcp'.caller = "add_clause"
    BY <1>1, <1>7, ReasonTypes DEF BcpRecords
  <2> QED
    BY <1>7, <2>1, <2>2, Quiet DEF Resting, SearchOK, Mirror, InSearch
<1> QED
  BY <1>4, <1>5, <1>6, <1>7

LEMMA ClientReasons ==
    ASSUME ReasonInv, Client PROVE Resting' /\ (Undisturbed' => SearchOK')
<1>1. Inv /\ pc = "idle" /\ tr.trail_lim = << >>
  <2>1. Inv /\ pc = "idle"
    BY DEF ReasonInv, WatchInv, Client, NewVar, AddClause, Push, Pop, Solve, Call
  <2> QED
    BY <2>1 DEF ReasonInv, Resting
<1>2. CASE NewVar \/ Push
  <2>1. UNCHANGED <<arena, tr, pc, bcp, restarts>>
    BY <1>2 DEF NewVar, Push, db
  <2> QED
    BY <1>1, <2>1, Quiet
    DEF ReasonInv, Resting, Undisturbed, Unrestarted, SearchOK, Mirror, InSearch
<1>3. CASE Pop
  <2>0. UNCHANGED <<pc, bcp, restarts>>
    BY <1>3 DEF Pop, rest
  <2>1. CASE UNCHANGED <<arena, tr>>
    BY <1>1, <2>0, <2>1, Quiet
    DEF ReasonInv, Resting, Undisturbed, Unrestarted, SearchOK, Mirror, InSearch
  <2>2. CASE tr' = BacktrackTo(tr, 0) /\ \E S : arena' = WithDeleted(S)
    <3>1. Undisturbed' => Justified(tr', arena')
      BY <1>1, <2>0, <2>2, JustifiedAtZero DEF ReasonInv, Undisturbed, Unrestarted, SearchOK
    <3> QED
      BY <1>1, <2>0, <2>2, <3>1, BackToZero, Quiet DEF Resting, SearchOK, Mirror, InSearch
  <2> QED
    BY <1>3, <2>1, <2>2 DEF Pop, db
<1>4. CASE Solve
  <2>0. UNCHANGED <<arena, restarts>> /\ th' = NewTheory
    BY <1>4 DEF Solve, db, rest
  <2>1. CASE tr' = tr /\ pc' = "answered"
    BY <1>1, <2>0, <2>1, Quiet
    DEF ReasonInv, Resting, Undisturbed, Unrestarted, SearchOK, Mirror, InSearch
  <2>2. CASE /\ tr' = BacktrackTo(tr, 0) /\ pc' = "bcp"
             /\ bcp' = [bcp EXCEPT !.caller = "solve_with_theory"]
    <3>1. Undisturbed' => Justified(tr', arena')
      BY <1>1, <2>0, <2>2, JustifiedAtZero DEF ReasonInv, Undisturbed, Unrestarted, SearchOK
    <3>2. bcp'.caller = "solve_with_theory"
      BY <1>1, <2>2, ReasonTypes DEF BcpRecords
    <3> QED
      BY <1>1, <2>0, <2>2, <3>1, <3>2, BackToZero, Quiet DEF Resting, SearchOK, Mirror, InSearch
  <2> QED
    BY <1>4, <2>1, <2>2 DEF Solve
<1> QED
  BY <1>2, <1>3, <1>4, AddClauseReasons DEF Client

-----------------------------------------------------------------------------
(* Propagation.                                                             *)

\* A visit moves literals only in clauses that force nothing: the first
\* literal of a reason is true, so it is not the false literal looked for.
LEMMA VisitKeepsReasons ==
    ASSUME WatchInv, pc = "visit", bcp.todo # << >>, Justified(tr, arena), NEW lits,
           arena' = [arena EXCEPT ![AtHand.clause].lits = lits],
           IsTrue(tr, First) => lits = ClauseAtHand
    PROVE  KeepsReasons(tr, arena, arena')
<1> SUFFICES ASSUME NEW i \in 1..Len(tr.trail), NEW v, v = VarOf(tr.trail[i]),
                    NEW c, c = tr.reason[v], c > 0
             PROVE  arena'[c].lits = arena[c].lits /\ arena'[c].deleted = arena[c].deleted
  BY DEF KeepsReasons
<1>0. PICK d : d = AtHand.clause
  OBVIOUS
<1>1. Inv /\ d \in ClauseIds /\ bcp.lit \in Lits
  BY <1>0, AtHandWatched, WatchTypes DEF WatchInv
<1>2. v \in Vars /\ tr.trail[i] \in Lits /\ IsTrue(tr, tr.trail[i])
  BY <1>1, ReasonTypes, TrailTypes DEF TrailInv, TrailIsAssignment
<1>3. c \in ClauseIds
  BY <1>1, <1>2, ReasonTypes DEF Reasons, ReasonDecision
<1>4. /\ arena'[d].lits = lits /\ arena'[d].deleted = arena[d].deleted
      /\ \A e \in ClauseIds \ {d} : arena'[e] = arena[e]
  BY <1>0, <1>1, WrittenBack
<1>5. CASE c # d
  BY <1>3, <1>4, <1>5
<1>6. CASE c = d
  <2>1. arena[d].lits[1] = tr.trail[i]
    BY <1>6 DEF Justified, JustifiedAt, Forces
  <2>2. IsTrue(tr, bcp.lit)
    BY DEF WatchInv, Visiting
  <2>3. ~IsTrue(tr, Neg(bcp.lit))
    <3>1. VarOf(bcp.lit) \in Vars /\ VarOf(Neg(bcp.lit)) = VarOf(bcp.lit) /\ IsPos(Neg(bcp.lit)) = ~IsPos(bcp.lit)
      BY <1>1, LitFacts DEF IsPos, Neg, Lits
    <3> QED
      BY <2>2, <3>1 DEF IsTrue, LitValue, NotVal
  <2>4. arena[d].lits[1] # Neg(bcp.lit)
    BY <1>2, <2>1, <2>3
  <2>5. ClauseAtHand = arena[d].lits
    BY <1>0, <2>4 DEF ClauseAtHand, Swapped
  <2>6. IsTrue(tr, First)
    BY <1>2, <2>1, <2>5 DEF First
  <2> QED
    BY <1>4, <1>6, <2>5, <2>6
<1> QED
  BY <1>5, <1>6

\* Without a literal to watch instead, all but the first are false.
LEMMA OthersFalse ==
    ASSUME WatchInv, pc = "visit", bcp.todo # << >>, NewWatches = {}
    PROVE  \A j \in 2..Len(ClauseAtHand) :
               ClauseAtHand[j] \in Lits /\ IsFalse(tr, ClauseAtHand[j]) /\ FalseNow(tr, ClauseAtHand[j])
<1>1. /\ Inv /\ ClauseAtHand \in Seq(Lits) /\ ClauseAtHand[2] = Neg(bcp.lit) /\ bcp.lit \in Lits
      /\ tr \in TrailRecords /\ TrailInv(tr)
  BY AtHandWatched, WatchTypes, ReasonTypes DEF WatchInv
<1> SUFFICES ASSUME NEW j \in 2..Len(ClauseAtHand)
             PROVE  ClauseAtHand[j] \in Lits /\ IsFalse(tr, ClauseAtHand[j])
  BY <1>1, FalseIsOnTrail
<1>2. ClauseAtHand[j] \in Lits
  <2>1. j \in 1..Len(ClauseAtHand)
    OBVIOUS
  <2> QED
    BY <1>1, <2>1, ElementFact
<1>3. CASE j = 2
  <2>1. IsTrue(tr, bcp.lit)
    BY DEF WatchInv, Visiting
  <2>2. /\ VarOf(bcp.lit) \in Vars /\ VarOf(Neg(bcp.lit)) = VarOf(bcp.lit)
        /\ IsPos(Neg(bcp.lit)) = ~IsPos(bcp.lit) /\ tr.assigns[VarOf(bcp.lit)] \in LBool
    BY <1>1, LitFacts, TrailTypes DEF IsPos, Neg, Lits
  <2> QED
    BY <1>1, <1>2, <1>3, <2>1, <2>2 DEF IsTrue, IsFalse, LitValue, NotVal, LBool
<1>4. CASE j # 2
  <2>1. j \in 3..Len(ClauseAtHand)
    BY <1>4
  <2> QED
    BY <1>2, <2>1 DEF NewWatches
<1> QED
  BY <1>2, <1>3, <1>4

\* While propagation runs only the trail grows.
LEMMA ToldStays ==
    ASSUME NEW t \in TrailRecords, TrailInv(t), NEW l \in Lits, NEW r \in Reasons,
           ~IsAssigned(t, VarOf(l)), NEW u, u = Assign(t, l, r), NEW n \in Nat, n <= Len(t.trail)
    PROVE  n <= Len(u.trail) /\ SubSeq(u.trail, 1, n) = SubSeq(t.trail, 1, n)
<1>1. u.trail = Append(t.trail, l) /\ t.trail \in Seq(Lits) /\ Len(u.trail) = Len(t.trail) + 1
  BY AssignFacts, TrailTypes
<1> QED
  BY <1>1

LEMMA SameTrailSearch ==
    ASSUME ReasonInv, pc \in {"bcp", "visit"}, pc' \in {"bcp", "visit"}, UNCHANGED <<th, sv, restarts>>,
           tr'.trail = tr.trail, tr'.reason = tr.reason, tr'.level = tr.level,
           tr'.trail_lim = tr.trail_lim, bcp'.caller = bcp.caller,
           Undisturbed => KeepsReasons(tr, arena, arena')
    PROVE  Resting' /\ (Undisturbed' => SearchOK')
<1>1. tr \in TrailRecords /\ TrailInv(tr)
  BY ReasonTypes DEF ReasonInv, WatchInv
<1>2. ASSUME Undisturbed PROVE Justified(tr', arena')
  BY <1>1, <1>2, JustifiedSame DEF ReasonInv, SearchOK
<1>3. ASSUME Undisturbed PROVE Mirror'
  BY <1>3 DEF ReasonInv, SearchOK, Mirror, Told, InSearch
<1>4. Undisturbed' => Undisturbed
  BY DEF Undisturbed, Unrestarted
<1> QED
  BY <1>2, <1>3, <1>4, Quiet DEF ReasonInv, Resting, SearchOK, InSearch

LEMMA VisitUnitReasons ==
    ASSUME ReasonInv, VisitUnit PROVE Resting' /\ (Undisturbed' => SearchOK')
<1>0. PICK d : d = AtHand.clause
  OBVIOUS
<1>1. /\ WatchInv /\ Inv /\ pc = "visit" /\ pc' = "visit" /\ bcp.todo # << >> /\ NewWatches = {}
      /\ UNCHANGED <<restarts, th, sv>> /\ tr' = Assign(tr, First, d) /\ ~arena[d].deleted
      /\ arena' = [arena EXCEPT ![AtHand.clause].lits = ClauseAtHand]
      /\ LitValue(tr, First) = "Undef"
      /\ bcp' = [bcp EXCEPT !.todo = Tail(@), !.keep = Append(@, Watcher(AtHand.clause, First))]
  BY <1>0 DEF ReasonInv, WatchInv, VisitUnit, Visit, KeepRest, rest
<1>2. /\ d \in ClauseIds /\ ClauseAtHand \in Seq(Lits) /\ Len(ClauseAtHand) > 1 /\ First \in Lits
      /\ tr \in TrailRecords /\ TrailInv(tr) /\ d \in Reasons /\ d > 0 /\ d # ReasonDecision
      /\ d # ReasonUnit
  BY <1>0, <1>1, AtHandWatched, AtHandFacts, ReasonTypes DEF Reasons, ReasonDecision, ReasonUnit
<1>3. ~IsAssigned(tr, VarOf(First))
  <2>1. tr.assigns[VarOf(First)] \in LBool
    BY <1>2, TrailTypes, LitFacts
  <2> QED
    BY <1>1, <2>1 DEF LitValue, NotVal, LBool, IsAssigned
<1>4. /\ arena'[d].lits = ClauseAtHand /\ arena'[d].deleted = arena[d].deleted
  BY <1>0, <1>1, <1>2, WrittenBack
<1>5. ASSUME Justified(tr, arena) PROVE Justified(tr', arena')
  <2>1. KeepsReasons(tr, arena, arena')
    <3>1. IsTrue(tr, First) => ClauseAtHand = ClauseAtHand
      OBVIOUS
    <3> QED
      BY <1>1, <1>5, <3>1, VisitKeepsReasons
  <2>2. /\ ~arena'[d].deleted /\ arena'[d].lits[1] = First
        /\ \A j \in 2..Len(arena'[d].lits) : FalseNow(tr, arena'[d].lits[j])
    BY <1>1, <1>4, OthersFalse DEF First
  <2> QED
    BY <1>1, <1>2, <1>3, <1>5, <2>1, <2>2, JustifiedAssign
<1>6. tr'.trail_lim = tr.trail_lim
  BY <1>1, <1>2, <1>3, AssignFacts
<1>7. bcp'.caller = bcp.caller
  BY <1>1, ReasonTypes DEF BcpRecords
<1>8. ASSUME Mirror PROVE Mirror'
  <2>1. \A n \in Nat : n <= Len(tr.trail) =>
           n <= Len(tr'.trail) /\ SubSeq(tr'.trail, 1, n) = SubSeq(tr.trail, 1, n)
    BY <1>1, <1>2, <1>3, ToldStays
  <2>2. sv.old_trail_len \in Nat
    BY <1>1, ReasonTypes, SvFacts
  <2>3. Told(sv.old_trail_len) => Told(sv.old_trail_len)'
    BY <1>1, <1>6, <2>1, <2>2 DEF Told
  <2> QED
    BY <1>1, <1>7, <1>8, <2>3 DEF Mirror, InSearch
<1>9. Undisturbed' => Undisturbed
  BY <1>1 DEF Undisturbed, Unrestarted
<1> QED
  BY <1>1, <1>5, <1>6, <1>7, <1>8, <1>9, Quiet DEF ReasonInv, Resting, SearchOK, InSearch

LEMMA VisitConflictReasons ==
    ASSUME ReasonInv, VisitConflict PROVE Resting' /\ (Undisturbed' => SearchOK')
<1>0. PICK d : d = AtHand.clause
  OBVIOUS
<1>1. /\ WatchInv /\ Inv /\ pc = "visit" /\ pc' = "conflict" /\ bcp.todo # << >> /\ NewWatches = {}
      /\ UNCHANGED <<tr, restarts, th, sv>> /\ IsFalse(tr, First)
      /\ arena' = [arena EXCEPT ![AtHand.clause].lits = ClauseAtHand]
      /\ bcp' = [bcp EXCEPT !.todo = << >>, !.keep = << >>]
      /\ an' = [an EXCEPT !.conflict = d, !.origin = "bcp"]
  BY <1>0 DEF ReasonInv, WatchInv, VisitConflict, Visit, rest
<1>2. /\ d \in ClauseIds /\ ClauseAtHand \in Seq(Lits) /\ First \in Lits
      /\ tr \in TrailRecords /\ TrailInv(tr)
  BY <1>0, <1>1, AtHandWatched, AtHandFacts, ReasonTypes
<1>3. arena'[d].lits = ClauseAtHand /\ Len(arena') = Len(arena)
  BY <1>0, <1>1, <1>2, WrittenBack
<1>4. bcp'.caller = bcp.caller /\ an'.conflict = d /\ an'.origin = "bcp"
  BY <1>1, ReasonTypes DEF BcpRecords, AnRecords
<1>5. AllFalse(tr', arena'[d].lits)
  <2>1. FalseNow(tr, First)
    BY <1>1, <1>2, FalseIsOnTrail
  <2>2. \A j \in 2..Len(ClauseAtHand) : FalseNow(tr, ClauseAtHand[j])
    BY <1>1, OthersFalse
  <2>3. \A j \in 1..Len(ClauseAtHand) : j = 1 \/ j \in 2..Len(ClauseAtHand)
    BY <1>2
  <2> QED
    BY <1>1, <1>3, <2>1, <2>2, <2>3 DEF AllFalse, First
<1>6. ConflictFalse'
  BY <1>2, <1>3, <1>4, <1>5 DEF ConflictFalse, ClauseIds
<1>7. ASSUME Undisturbed PROVE Justified(tr', arena')
  <2>1. KeepsReasons(tr, arena, arena')
    <3>1. IsTrue(tr, First) => ClauseAtHand = ClauseAtHand
      OBVIOUS
    <3> QED
      BY <1>1, <1>7, <3>1, VisitKeepsReasons DEF ReasonInv, SearchOK
  <2> QED
    BY <1>1, <1>2, <1>7, <2>1, JustifiedSame DEF ReasonInv, SearchOK
<1>8. ASSUME Undisturbed PROVE Mirror'
  <2>1. InSearch => Told(sv.old_trail_len)
    BY <1>1, <1>8 DEF ReasonInv, SearchOK, Mirror
  <2>2. ASSUME Told(sv.old_trail_len) PROVE Told(Len(th.asserted))
    <3>1. tr.trail \in Seq(Lits) /\ sv.old_trail_len \in Nat
      BY <1>1, <1>2, TrailTypes, ReasonTypes, SvFacts
    <3>2. Len(th.asserted) = sv.old_trail_len
      BY <2>2, <3>1 DEF Told
    <3> QED
      BY <2>2, <3>2
  <2> QED
    BY <1>1, <1>4, <2>1, <2>2 DEF Mirror, InSearch, Told
<1>9. Undisturbed' => Undisturbed
  BY <1>1 DEF Undisturbed, Unrestarted
<1> QED
  BY <1>1, <1>4, <1>6, <1>7, <1>8, <1>9
  DEF ReasonInv, Resting, SearchOK, InSearch, Analysing, Learned

\* What has been told and what is told now make up the trail.
LEMMA PrefixAndRest ==
    ASSUME NEW S, NEW s \in Seq(S), NEW n \in 0..Len(s)
    PROVE  SubSeq(s, 1, n) \o SubSeq(s, n + 1, Len(s)) = s
<1>0. PICK u, w, r : /\ u = SubSeq(s, 1, n) /\ w = SubSeq(s, n + 1, Len(s)) /\ r = u \o w
  OBVIOUS
<1>1. Len(s) \in Nat /\ n \in Nat /\ n + 1 \in Nat \ {0} /\ Len(s) \in 0..Len(s) /\ n <= Len(s)
  OBVIOUS
<1>2. u \in Seq(S) /\ Len(u) = n /\ \A i \in 1..n : u[i] = s[i]
  BY <1>0, PrefixFacts
<1>3. w \in Seq(S)
  BY <1>0, <1>1, SubSeqFact
<1>4. Len(w) = Len(s) - n /\ \A i \in 1..(Len(s) - n) : w[i] = s[n + i]
  BY <1>0, <1>1
<1>5. r \in Seq(S) /\ Len(r) = Len(u) + Len(w)
  BY <1>0, <1>2, <1>3
<1>6. Len(r) = Len(s)
  BY <1>1, <1>2, <1>4, <1>5
<1>9. \A i \in 1..(Len(u) + Len(w)) : r[i] = IF i <= Len(u) THEN u[i] ELSE w[i - Len(u)]
  <2>1. u \in Seq(S) /\ w \in Seq(S) /\ r = u \o w
    BY <1>0, <1>2, <1>3
  <2> QED
    BY <2>1
<1>7. ASSUME NEW i \in 1..Len(s) PROVE r[i] = s[i]
  <2>1. CASE i \in 1..n
    BY <1>1, <1>2, <1>4, <1>9, <2>1
  <2>2. CASE i \notin 1..n
    <3>1. i - n \in 1..(Len(s) - n) /\ n + (i - n) = i
      BY <1>1, <2>2
    <3>2. r[i] = w[i - n]
      BY <1>1, <1>2, <1>4, <1>9, <2>2
    <3> QED
      BY <1>4, <3>1, <3>2
  <2> QED
    BY <2>1, <2>2
<1>8. r = s
  BY <1>5, <1>6, <1>7
<1> QED
  BY <1>0, <1>8

LEMMA BcpOkReasons ==
    ASSUME ReasonInv, BcpOk PROVE Resting' /\ (Undisturbed' => SearchOK')
<1>1. /\ Inv /\ pc = "bcp" /\ UNCHANGED <<arena, tr, restarts, bcp, sv>>
      /\ tr \in TrailRecords /\ TrailInv(tr)
  BY ReasonTypes DEF ReasonInv, WatchInv, BcpOk, db
<1>2. Undisturbed' => Justified(tr', arena') /\ Mirror
  BY <1>1 DEF ReasonInv, SearchOK, Undisturbed, Unrestarted
<1>3. CASE bcp.caller = "add_clause" /\ pc' = "idle"
  BY <1>1, <1>2, <1>3, Quiet DEF ReasonInv, Resting, SearchOK, Mirror, InSearch
<1>4. CASE bcp.caller = "solve_with_theory" /\ pc' = "loop" /\ th' = TheoryAssert(th, tr.trail)
  <2>1. tr.trail_lim = << >> /\ tr.trail \in Seq(Lits)
    BY <1>1, <1>4, TrailTypes DEF ReasonInv, Resting, InSearch
  <2>2. ASSUME th = NewTheory PROVE ToldAll'
    BY <1>1, <1>4, <2>1, <2>2 DEF ToldAll, TheoryAssert, NewTheory
  <2> QED
    BY <1>1, <1>2, <1>4, <2>2, Quiet DEF ReasonInv, Resting, SearchOK, Mirror, InSearch
<1>5. CASE /\ bcp.caller = "solve_internal" /\ pc' = "theory"
           /\ th' = TheoryAssert(th, SubSeq(tr.trail, sv.old_trail_len + 1, Len(tr.trail)))
  <2>1. ASSUME Told(sv.old_trail_len) PROVE ToldAll'
    <3>1. tr.trail \in Seq(Lits) /\ sv.old_trail_len \in 0..Len(tr.trail)
      BY <1>1, <2>1, TrailTypes, ReasonTypes, SvFacts DEF Told
    <3>2. SubSeq(tr.trail, 1, sv.old_trail_len)
            \o SubSeq(tr.trail, sv.old_trail_len + 1, Len(tr.trail)) = tr.trail
      BY <3>1, PrefixAndRest
    <3>3. th \in [asserted : Seq(Lits), lims : Seq(Nat)]
      BY <1>1 DEF Inv, TypeOK, TheoryScopesOK
    <3> QED
      BY <1>1, <1>5, <2>1, <3>2, <3>3 DEF ToldAll, Told, TheoryAssert
  <2> QED
    BY <1>1, <1>2, <1>5, <2>1, Quiet DEF ReasonInv, Resting, SearchOK, Mirror, InSearch
<1> QED
  BY <1>3, <1>4, <1>5 DEF BcpOk

LEMMA PropagateReasons ==
    ASSUME ReasonInv, Propagate PROVE Resting' /\ (Undisturbed' => SearchOK')
<1>0. WatchInv /\ Inv /\ tr \in TrailRecords /\ bcp \in BcpRecords(arena)
  BY ReasonTypes DEF ReasonInv, WatchInv
<1>1. CASE BcpDequeue
  <2>1. /\ UNCHANGED <<arena, th, sv, restarts>> /\ pc = "bcp" /\ pc' = "visit"
        /\ tr' = Dequeue(tr) /\ bcp'.caller = bcp.caller
    BY <1>0, <1>1 DEF BcpDequeue, rest, BcpRecords
  <2> QED
    BY <1>0, <2>1, DequeueFacts, SameReasons, SameTrailSearch
<1>2. CASE VisitSkip \/ VisitEnd
  <2>1. /\ UNCHANGED <<arena, tr, th, sv, restarts>> /\ pc = "visit" /\ pc' \in {"bcp", "visit"}
        /\ bcp'.caller = bcp.caller
    BY <1>0, <1>2 DEF VisitSkip, VisitEnd, Visit, KeepRest, rest, db, BcpRecords
  <2> QED
    BY <2>1, SameReasons, SameTrailSearch
<1>3. CASE VisitSatisfied \/ VisitRewatch
  <2>1. /\ UNCHANGED <<tr, th, sv, restarts>> /\ pc = "visit" /\ pc' = "visit"
        /\ bcp'.caller = bcp.caller /\ bcp.todo # << >>
    BY <1>0, <1>3 DEF VisitSatisfied, VisitRewatch, Visit, KeepRest, rest, BcpRecords
  <2>2. PICK lits : /\ arena' = [arena EXCEPT ![AtHand.clause].lits = lits]
                    /\ IsTrue(tr, First) => lits = ClauseAtHand
    BY <1>3 DEF VisitSatisfied, VisitRewatch
  <2>3. Undisturbed => KeepsReasons(tr, arena, arena')
    BY <1>0, <2>1, <2>2, VisitKeepsReasons DEF ReasonInv, SearchOK
  <2> QED
    BY <2>1, <2>3, SameTrailSearch
<1> QED
  BY <1>1, <1>2, <1>3, VisitUnitReasons, VisitConflictReasons, BcpOkReasons DEF Propagate

-----------------------------------------------------------------------------
(* Conflict analysis.                                                       *)

\* What marking one literal does.
LEMMA MarkedCases ==
    ASSUME Inv, NEW x \in AnRecords, NEW l \in Lits, NEW v, v = VarOf(l), NEW y, y = Marked(x, l)
    PROVE  /\ y.lits = x.lits /\ y.pivot = x.pivot /\ y.trail_idx = x.trail_idx
           /\ y.origin = x.origin /\ y.conflict = x.conflict /\ y.lbd = x.lbd
           /\ \/ v \in x.seen \cup {x.pivot} /\ y = x
              \/ /\ v \notin x.seen \cup {x.pivot} /\ y.seen = x.seen \cup {v}
                 /\ y.learned = x.learned /\ y.backtrack_level = x.backtrack_level
                 /\ \/ tr.level[v] = DecisionLevel(tr) /\ y.path_count = x.path_count + 1
                    \/ /\ tr.level[v] # DecisionLevel(tr) /\ ~(tr.level[v] > 0)
                       /\ y.path_count = x.path_count
              \/ /\ v \notin x.seen \cup {x.pivot} /\ y.seen = x.seen \cup {v}
                 /\ tr.level[v] # DecisionLevel(tr) /\ tr.level[v] > 0
                 /\ y.path_count = x.path_count /\ y.learned = Append(x.learned, l)
                 /\ y.backtrack_level = IF tr.level[v] > x.backtrack_level THEN tr.level[v]
                                        ELSE x.backtrack_level
<1>1. CASE v \in x.seen \cup {x.pivot}
  BY <1>1 DEF Marked
<1>2. CASE v \notin x.seen \cup {x.pivot} /\ tr.level[v] = DecisionLevel(tr)
  <2>1. y = [x EXCEPT !.seen = @ \cup {v}, !.path_count = @ + 1]
    BY <1>2 DEF Marked
  <2> QED
    BY <1>2, <2>1 DEF AnRecords
<1>3. CASE v \notin x.seen \cup {x.pivot} /\ tr.level[v] # DecisionLevel(tr) /\ tr.level[v] > 0
  <2>1. y = [x EXCEPT !.seen = @ \cup {v}, !.learned = Append(@, l),
                      !.backtrack_level = IF tr.level[v] > @ THEN tr.level[v] ELSE @]
    BY <1>3 DEF Marked
  <2> QED
    BY <1>3, <2>1 DEF AnRecords
<1>4. CASE v \notin x.seen \cup {x.pivot} /\ tr.level[v] # DecisionLevel(tr) /\ ~(tr.level[v] > 0)
  <2>1. y = [x EXCEPT !.seen = @ \cup {v}]
    BY <1>4 DEF Marked
  <2> QED
    BY <1>4, <2>1 DEF AnRecords
<1> QED
  BY <1>1, <1>2, <1>3, <1>4

LEMMA MarkFacts ==
    ASSUME Inv, MarkLit
    PROVE  \E l \in Lits, y \in AnRecords :
              /\ l = Head(an.lits) /\ l = an.lits[1] /\ an.lits # << >>
              /\ y = Marked(an, l) /\ an' = [y EXCEPT !.lits = Tail(@)]
              /\ an'.lits = Tail(an.lits) /\ an'.seen = y.seen /\ an'.learned = y.learned
              /\ an'.backtrack_level = y.backtrack_level /\ an'.pivot = an.pivot
              /\ an'.trail_idx = an.trail_idx /\ an'.path_count = y.path_count
              /\ an'.origin = an.origin /\ an'.conflict = an.conflict
<1>1. an \in AnRecords /\ an.lits \in Seq(Lits) /\ an.lits # << >> /\ Len(an.learned) > 0
  BY ReasonTypes, AnFacts DEF MarkLit, Inv, TypeOK, ControlOK
<1>2. PICK l : l = Head(an.lits)
  OBVIOUS
<1>3. l \in Lits /\ l = an.lits[1]
  BY <1>1, <1>2
<1>4. PICK y : y = Marked(an, l)
  OBVIOUS
<1>5. y \in AnRecords
  BY <1>1, <1>3, <1>4, MarkedOK
<1>6. /\ y.lits = an.lits /\ y.pivot = an.pivot /\ y.trail_idx = an.trail_idx
      /\ y.origin = an.origin /\ y.conflict = an.conflict
  BY <1>1, <1>3, <1>4, MarkedCases
<1>7. an' = [y EXCEPT !.lits = Tail(@)]
  BY <1>2, <1>4 DEF MarkLit
<1>8. /\ an'.lits = Tail(an.lits) /\ an'.seen = y.seen /\ an'.learned = y.learned
      /\ an'.backtrack_level = y.backtrack_level /\ an'.pivot = an.pivot
      /\ an'.trail_idx = an.trail_idx /\ an'.path_count = y.path_count
      /\ an'.origin = an.origin /\ an'.conflict = an.conflict
  BY <1>5, <1>6, <1>7 DEF AnRecords
<1> QED
  BY <1>1, <1>2, <1>3, <1>4, <1>5, <1>7, <1>8

LEMMA MarkLitReasons ==
    ASSUME ReasonInv, MarkLit PROVE Resting' /\ (Undisturbed' => SearchOK')
<1>1. /\ Inv /\ pc = "mark" /\ pc' = "mark" /\ UNCHANGED <<arena, tr, restarts, th, bcp, sv>>
      /\ tr \in TrailRecords /\ TrailInv(tr) /\ an \in AnRecords
  BY ReasonTypes DEF ReasonInv, WatchInv, MarkLit, rest, db
<1>2. Resting'
  BY <1>1 DEF Resting
<1> SUFFICES ASSUME Undisturbed PROVE SearchOK'
  BY <1>1, <1>2 DEF Undisturbed, Unrestarted
<1>3. Justified(tr', arena') /\ Mirror' /\ ConflictFalse'
  BY <1>1 DEF ReasonInv, SearchOK, Mirror, Told, ConflictFalse
<1>4. PICK l \in Lits, y \in AnRecords :
        /\ l = Head(an.lits) /\ l = an.lits[1] /\ an.lits # << >> /\ y = Marked(an, l)
        /\ an'.lits = Tail(an.lits) /\ an'.seen = y.seen /\ an'.learned = y.learned
        /\ an'.backtrack_level = y.backtrack_level /\ an'.pivot = an.pivot
        /\ an'.trail_idx = an.trail_idx
  BY <1>1, MarkFacts
<1>5. PICK v : v = VarOf(l)
  OBVIOUS
<1>6. /\ \A j \in 1..Len(an.lits) :
           VarOf(an.lits[j]) = an.pivot \/ FalseBefore(tr, an.trail_idx, an.lits[j])
      /\ \A u \in an.seen : \E k \in 1..an.trail_idx : VarOf(tr.trail[k]) = u
  BY <1>1 DEF ReasonInv, SearchOK, Analysing
<1>7. an.lits \in Seq(Lits) /\ an.trail_idx \in 0..Len(tr.trail) /\ an.learned \in Seq(Lits)
  <2>1. an.trail_idx \in Nat /\ an.trail_idx <= Len(tr.trail) /\ Len(tr.trail) \in Nat
    BY <1>1, AnFacts, TrailTypes DEF Inv, TypeOK, ControlOK
  <2> QED
    BY <1>1, <2>1, AnFacts
<1>8. v # an.pivot => /\ FalseBefore(tr, an.trail_idx, l)
                      /\ \E k \in 1..an.trail_idx : VarOf(tr.trail[k]) = v
                      /\ FalseNow(tr, l) /\ tr.level[v] \in 0..DecisionLevel(tr)
  <2>1. v # an.pivot => FalseBefore(tr, an.trail_idx, l)
    BY <1>4, <1>5, <1>6, <1>7
  <2>2. ASSUME FalseBefore(tr, an.trail_idx, l)
        PROVE  /\ \E k \in 1..an.trail_idx : VarOf(tr.trail[k]) = v
               /\ tr.level[v] \in 0..DecisionLevel(tr)
    BY <1>1, <1>5, <1>7, <2>2, FalsePosition
  <2>3. ASSUME FalseBefore(tr, an.trail_idx, l) PROVE FalseNow(tr, l)
    BY <1>1, <1>7, <2>3, FalseLonger, TrailTypes DEF FalseNow
  <2> QED
    BY <2>1, <2>2, <2>3
<1>9. \/ y = an
      \/ /\ v # an.pivot /\ y.seen = an.seen \cup {v}
         /\ y.learned = an.learned /\ y.backtrack_level = an.backtrack_level
      \/ /\ v # an.pivot /\ y.seen = an.seen \cup {v}
         /\ tr.level[v] # DecisionLevel(tr) /\ tr.level[v] > 0
         /\ y.learned = Append(an.learned, l)
         /\ y.backtrack_level = IF tr.level[v] > an.backtrack_level THEN tr.level[v]
                                ELSE an.backtrack_level
  BY <1>1, <1>4, <1>5, MarkedCases
<1>10. Analysing'
  <2>1. ASSUME NEW j \in 1..Len(an'.lits)
        PROVE  VarOf(an'.lits[j]) = an.pivot \/ FalseBefore(tr, an.trail_idx, an'.lits[j])
    <3>1. j + 1 \in 1..Len(an.lits) /\ an'.lits[j] = an.lits[j + 1]
      BY <1>4, <1>7
    <3> QED
      BY <1>6, <3>1
  <2>2. \A u \in y.seen : \E k \in 1..an.trail_idx : VarOf(tr.trail[k]) = u
    BY <1>6, <1>8, <1>9
  <2> QED
    BY <1>1, <1>4, <2>1, <2>2 DEF Analysing
<1>11. Learned'
  <2>1. /\ \A j \in 2..Len(an.learned) : Low(an.learned[j])
        /\ an.backtrack_level < DecisionLevel(tr)
        /\ Len(an.learned) = 1 => an.backtrack_level = 0
    BY <1>1 DEF ReasonInv, SearchOK, Learned
  <2>2. CASE y.learned = an.learned /\ y.backtrack_level = an.backtrack_level
    BY <1>1, <1>4, <2>1, <2>2 DEF Learned, Low
  <2>3. CASE /\ v # an.pivot /\ tr.level[v] # DecisionLevel(tr) /\ tr.level[v] > 0
             /\ y.learned = Append(an.learned, l)
             /\ y.backtrack_level = IF tr.level[v] > an.backtrack_level THEN tr.level[v]
                                    ELSE an.backtrack_level
    <3>0. Len(an.learned) \in Nat /\ Len(an.learned) > 0 /\ an.backtrack_level \in Nat
          /\ DecisionLevel(tr) \in Nat
      <4>1. DecisionLevel(tr) \in Nat
        BY <1>1, TrailTypes
      <4>2. Len(an.learned) \in Nat /\ Len(an.learned) > 0
        BY <1>1, <1>7 DEF Inv, TypeOK, ControlOK
      <4> QED
        BY <1>1, <4>1, <4>2, AnFacts
    <3>1. /\ tr.level[v] \in Nat /\ tr.level[v] < DecisionLevel(tr) /\ y.backtrack_level \in Nat
          /\ an.backtrack_level <= y.backtrack_level /\ tr.level[v] <= y.backtrack_level
          /\ y.backtrack_level < DecisionLevel(tr)
      BY <1>8, <2>1, <2>3, <3>0
    <3>2. /\ Len(y.learned) = Len(an.learned) + 1 /\ y.learned[Len(an.learned) + 1] = l
          /\ \A j \in 1..Len(an.learned) : y.learned[j] = an.learned[j]
      BY <1>7, <2>3
    <3>3. ASSUME NEW j \in 2..Len(y.learned)
          PROVE  FalseNow(tr, y.learned[j]) /\ tr.level[VarOf(y.learned[j])] \in 1..y.backtrack_level
      <4>1. CASE j \in 2..Len(an.learned)
        <5>1. Low(an.learned[j]) /\ y.learned[j] = an.learned[j]
          BY <2>1, <3>2, <4>1
        <5> QED
          BY <3>0, <3>1, <5>1 DEF Low
      <4>2. CASE j = Len(an.learned) + 1
        BY <1>5, <1>8, <2>3, <3>1, <3>2, <4>2
      <4> QED
        BY <3>0, <3>2, <4>1, <4>2
    <3> QED
      <4>1. /\ pc' = "mark" /\ tr' = tr /\ an'.learned = y.learned
            /\ an'.backtrack_level = y.backtrack_level
        BY <1>1, <1>4
      <4>2. \A j \in 2..Len(an'.learned) : Low(an.learned[j])'
        BY <3>3, <4>1 DEF Low
      <4>3. Len(an'.learned) # 1
        BY <3>0, <3>2, <4>1
      <4>4. an'.backtrack_level < DecisionLevel(tr')
        BY <3>1, <4>1
      <4> QED
        BY <4>1, <4>2, <4>3, <4>4 DEF Learned
  <2> QED
    BY <1>9, <2>2, <2>3
<1> QED
  BY <1>3, <1>10, <1>11 DEF SearchOK

\* The ways analysis goes on or ends at a seen literal.
LEMMA PickFacts ==
    ASSUME Inv, PickLit
    PROVE  /\ pc = "mark" /\ an.lits = << >>
           /\ an'.backtrack_level = an.backtrack_level /\ an'.origin = an.origin
           /\ an'.learned \in Seq(Lits) /\ Len(an'.learned) = Len(an.learned)
           /\ \A j \in 2..Len(an.learned) : an'.learned[j] = an.learned[j]
           /\ \/ /\ SeenBelow = {} /\ pc' = "learned"
                 /\ an'.learned = an.learned /\ an'.seen = an.seen
              \/ \E i \in SeenBelow :
                   /\ i \in 1..Len(tr.trail) /\ VarOf(tr.trail[i]) \in an.seen
                   /\ \A j \in SeenBelow : j <= i
                   /\ an'.seen = an.seen \ {VarOf(tr.trail[i])}
                   /\ an'.path_count = an.path_count - 1
                   /\ an'.trail_idx = i - 1
                   /\ \/ /\ an.path_count - 1 = 0 /\ pc' = "learned"
                         /\ an'.learned[1] = Neg(tr.trail[i])
                      \/ /\ an.path_count - 1 # 0 /\ tr.reason[VarOf(tr.trail[i])] > 0
                         /\ an'.lits = arena[tr.reason[VarOf(tr.trail[i])]].lits
                         /\ an'.pivot = VarOf(tr.trail[i]) /\ pc' = "mark"
                         /\ an'.learned = an.learned
                      \/ /\ an.path_count - 1 # 0 /\ tr.reason[VarOf(tr.trail[i])] <= 0
                         /\ pc' = "learned" /\ an'.learned = an.learned
<1>1. /\ pc = "mark" /\ an.lits = << >> /\ an \in AnRecords /\ an.learned \in Seq(Lits)
      /\ Len(an.learned) > 0 /\ an.trail_idx \in Nat /\ an.trail_idx <= Len(tr.trail)
      /\ tr \in TrailRecords
  BY ReasonTypes, AnFacts DEF PickLit, Inv, TypeOK, ControlOK
<1>2. CASE SeenBelow = {} /\ an' = [an EXCEPT !.trail_idx = 0] /\ pc' = "learned"
  BY <1>1, <1>2 DEF AnRecords
<1>3. ASSUME NEW i \in SeenBelow, \A j \in SeenBelow : j <= i,
             NEW x, x = [an EXCEPT !.trail_idx = i - 1, !.seen = @ \ {VarOf(tr.trail[i])},
                                   !.path_count = @ - 1],
             \/ /\ x.path_count = 0
                /\ an' = [x EXCEPT !.learned[1] = Neg(tr.trail[i])] /\ pc' = "learned"
             \/ /\ x.path_count # 0 /\ tr.reason[VarOf(tr.trail[i])] > 0
                /\ an' = [x EXCEPT !.lits = arena[tr.reason[VarOf(tr.trail[i])]].lits,
                                   !.pivot = VarOf(tr.trail[i])]
                /\ UNCHANGED pc
             \/ /\ x.path_count # 0 /\ tr.reason[VarOf(tr.trail[i])] <= 0
                /\ an' = x /\ pc' = "learned"
      PROVE  /\ an'.backtrack_level = an.backtrack_level /\ an'.origin = an.origin
             /\ an'.learned \in Seq(Lits) /\ Len(an'.learned) = Len(an.learned)
             /\ \A j \in 2..Len(an.learned) : an'.learned[j] = an.learned[j]
             /\ i \in 1..Len(tr.trail) /\ VarOf(tr.trail[i]) \in an.seen
             /\ an'.seen = an.seen \ {VarOf(tr.trail[i])}
             /\ an'.path_count = an.path_count - 1
             /\ an'.trail_idx = i - 1
             /\ \/ /\ an.path_count - 1 = 0 /\ pc' = "learned"
                   /\ an'.learned[1] = Neg(tr.trail[i])
                \/ /\ an.path_count - 1 # 0 /\ tr.reason[VarOf(tr.trail[i])] > 0
                   /\ an'.lits = arena[tr.reason[VarOf(tr.trail[i])]].lits
                   /\ an'.pivot = VarOf(tr.trail[i]) /\ pc' = "mark"
                   /\ an'.learned = an.learned
                \/ /\ an.path_count - 1 # 0 /\ tr.reason[VarOf(tr.trail[i])] <= 0
                   /\ pc' = "learned" /\ an'.learned = an.learned
  <2>1. i \in 1..Len(tr.trail) /\ i \in 1..an.trail_idx /\ VarOf(tr.trail[i]) \in an.seen
    BY <1>1, TrailTypes DEF SeenBelow
  <2>2. /\ x.path_count = an.path_count - 1 /\ x.seen = an.seen \ {VarOf(tr.trail[i])}
        /\ x.trail_idx = i - 1 /\ x.learned = an.learned /\ x.lits = an.lits
        /\ x.backtrack_level = an.backtrack_level /\ x.origin = an.origin
        /\ x = [conflict |-> x.conflict, origin |-> x.origin, learned |-> x.learned,
                seen |-> x.seen, path_count |-> x.path_count,
                backtrack_level |-> x.backtrack_level, lits |-> x.lits, pivot |-> x.pivot,
                trail_idx |-> x.trail_idx, lbd |-> x.lbd]
    BY <1>1, <1>3 DEF AnRecords
  <2>3. CASE /\ x.path_count = 0
             /\ an' = [x EXCEPT !.learned[1] = Neg(tr.trail[i])] /\ pc' = "learned"
    <3>1. an'.learned = [an.learned EXCEPT ![1] = Neg(tr.trail[i])]
      BY <2>2, <2>3
    <3>2. Neg(tr.trail[i]) \in Lits /\ 1 \in 1..Len(an.learned)
      BY <1>1, <2>1, TrailTypes, LitFacts
    <3>3. an'.learned \in Seq(Lits) /\ Len(an'.learned) = Len(an.learned)
      BY <1>1, <3>1, <3>2, ExceptFact
    <3>4. /\ an'.learned[1] = Neg(tr.trail[i])
          /\ \A j \in 2..Len(an.learned) : an'.learned[j] = an.learned[j]
      BY <1>1, <3>1, <3>2
    <3>5. /\ an'.backtrack_level = an.backtrack_level /\ an'.origin = an.origin
          /\ an'.seen = x.seen /\ an'.path_count = x.path_count /\ an'.trail_idx = x.trail_idx
      BY <2>2, <2>3
    <3> QED
      BY <2>1, <2>2, <2>3, <3>3, <3>4, <3>5
  <2>4. CASE /\ x.path_count # 0 /\ tr.reason[VarOf(tr.trail[i])] > 0
             /\ an' = [x EXCEPT !.lits = arena[tr.reason[VarOf(tr.trail[i])]].lits,
                                !.pivot = VarOf(tr.trail[i])]
             /\ UNCHANGED pc
    BY <1>1, <2>1, <2>2, <2>4
  <2>5. CASE x.path_count # 0 /\ tr.reason[VarOf(tr.trail[i])] <= 0 /\ an' = x /\ pc' = "learned"
    BY <1>1, <2>1, <2>2, <2>5
  <2> QED
    BY <1>3, <2>3, <2>4, <2>5
<1>4. CASE SeenBelow = {} /\ an' = [an EXCEPT !.trail_idx = 0] /\ pc' = "learned"
  BY <1>1, <1>2, <1>4
<1>5. CASE ~(SeenBelow = {} /\ an' = [an EXCEPT !.trail_idx = 0] /\ pc' = "learned")
  <2>1. PICK i, x :
          /\ i \in SeenBelow /\ \A j \in SeenBelow : j <= i
          /\ x = [an EXCEPT !.trail_idx = i - 1, !.seen = @ \ {VarOf(tr.trail[i])},
                            !.path_count = @ - 1]
          /\ \/ /\ x.path_count = 0
                /\ an' = [x EXCEPT !.learned[1] = Neg(tr.trail[i])] /\ pc' = "learned"
             \/ /\ x.path_count # 0 /\ tr.reason[VarOf(tr.trail[i])] > 0
                /\ an' = [x EXCEPT !.lits = arena[tr.reason[VarOf(tr.trail[i])]].lits,
                                   !.pivot = VarOf(tr.trail[i])]
                /\ UNCHANGED pc
             \/ /\ x.path_count # 0 /\ tr.reason[VarOf(tr.trail[i])] <= 0
                /\ an' = x /\ pc' = "learned"
    BY <1>5 DEF PickLit
  <2> QED
    BY <1>1, <1>3, <2>1
<1> QED
  BY <1>4, <1>5

LEMMA PickLitReasons ==
    ASSUME ReasonInv, PickLit PROVE Resting' /\ (Undisturbed' => SearchOK')
<1>1. /\ Inv /\ pc = "mark" /\ pc' \in {"mark", "learned"}
      /\ UNCHANGED <<arena, tr, restarts, th, bcp, sv>>
      /\ tr \in TrailRecords /\ TrailInv(tr)
  BY ReasonTypes DEF ReasonInv, WatchInv, PickLit, rest, db
<1>2. Resting'
  BY <1>1 DEF Resting
<1> SUFFICES ASSUME Undisturbed PROVE SearchOK'
  BY <1>1, <1>2 DEF Undisturbed, Unrestarted
<1>3. Justified(tr', arena') /\ Mirror' /\ ConflictFalse'
  BY <1>1 DEF ReasonInv, SearchOK, Mirror, Told, ConflictFalse
<1>4. Learned'
  <2>1. /\ \A j \in 2..Len(an.learned) : Low(an.learned[j])
        /\ an.backtrack_level < DecisionLevel(tr)
        /\ Len(an.learned) = 1 => an.backtrack_level = 0
    BY <1>1 DEF ReasonInv, SearchOK, Learned
  <2>2. /\ an'.backtrack_level = an.backtrack_level /\ Len(an'.learned) = Len(an.learned)
        /\ \A j \in 2..Len(an.learned) : an'.learned[j] = an.learned[j]
    BY <1>1, PickFacts
  <2> QED
    BY <1>1, <2>1, <2>2 DEF Learned, Low
<1>5. Analysing'
  <2> SUFFICES ASSUME pc' = "mark" PROVE Analysing'
    BY DEF Analysing
  <2>1. PICK i \in SeenBelow :
           /\ i \in 1..Len(tr.trail) /\ \A j \in SeenBelow : j <= i
           /\ an'.seen = an.seen \ {VarOf(tr.trail[i])} /\ an'.trail_idx = i - 1
           /\ tr.reason[VarOf(tr.trail[i])] > 0 /\ an'.pivot = VarOf(tr.trail[i])
           /\ an'.lits = arena[tr.reason[VarOf(tr.trail[i])]].lits
    BY <1>1, PickFacts
  <2>2. Forces(tr, an'.lits, i)
    BY <2>1 DEF ReasonInv, SearchOK, Justified, JustifiedAt
  <2>3. ASSUME NEW j \in 1..Len(an'.lits)
        PROVE  VarOf(an'.lits[j]) = an'.pivot \/ FalseBefore(tr, an'.trail_idx, an'.lits[j])
    <3>1. j = 1 \/ j \in 2..Len(an'.lits)
      OBVIOUS
    <3> QED
      BY <2>1, <2>2, <3>1 DEF Forces
  <2>4. ASSUME NEW u \in an'.seen PROVE \E k \in 1..an'.trail_idx : VarOf(tr.trail[k]) = u
    <3>1. u \in an.seen /\ u # VarOf(tr.trail[i])
      BY <2>1
    <3>2. PICK k \in 1..an.trail_idx : VarOf(tr.trail[k]) = u
      BY <1>1, <3>1 DEF ReasonInv, SearchOK, Analysing
    <3>3. k \in SeenBelow /\ k # i
      BY <3>1, <3>2 DEF SeenBelow
    <3>4. k \in 1..(i - 1)
      BY <2>1, <3>2, <3>3
    <3> QED
      BY <2>1, <3>2, <3>4
  <2> QED
    BY <1>1, <2>3, <2>4 DEF Analysing
<1> QED
  BY <1>3, <1>4, <1>5 DEF SearchOK

LEMMA StartAnalysisReasons ==
    ASSUME ReasonInv, StartAnalysis PROVE Resting' /\ (Undisturbed' => SearchOK')
<1>1. /\ Inv /\ pc = "conflict" /\ pc' = "mark" /\ InSearch /\ DecisionLevel(tr) > 0
      /\ UNCHANGED <<arena, tr, restarts, th, bcp, sv>> /\ an \in AnRecords
      /\ tr \in TrailRecords /\ TrailInv(tr)
      /\ an' = [an EXCEPT !.learned = <<LitZero>>, !.seen = {}, !.path_count = 0,
                          !.backtrack_level = 0, !.lits = arena[an.conflict].lits,
                          !.pivot = 0, !.trail_idx = Len(tr.trail)]
  BY ReasonTypes DEF ReasonInv, WatchInv, StartAnalysis, rest, db
<1>2. /\ an'.learned = <<LitZero>> /\ an'.seen = {} /\ an'.backtrack_level = 0
      /\ an'.lits = arena[an.conflict].lits /\ an'.trail_idx = Len(tr.trail)
  BY <1>1 DEF AnRecords
<1>3. Resting'
  BY <1>1 DEF Resting
<1> SUFFICES ASSUME Undisturbed PROVE SearchOK'
  BY <1>1, <1>3 DEF Undisturbed, Unrestarted
<1>4. AllFalse(tr, an'.lits)
  BY <1>1, <1>2 DEF ReasonInv, SearchOK, ConflictFalse
<1>5. Analysing'
  BY <1>1, <1>2, <1>4 DEF Analysing, AllFalse, FalseNow
<1>6. Learned'
  BY <1>1, <1>2 DEF Learned
<1> QED
  BY <1>1, <1>5, <1>6 DEF ReasonInv, SearchOK, Mirror, Told, ConflictFalse

\* A backjump after which there has been no restart was none itself.
LEMMA NoRestart ==
    ASSUME Inv, Backjump, Unrestarted'
    PROVE  /\ Unrestarted /\ tr' = BacktrackTo(tr, an.backtrack_level)
           /\ th' = TheoryPopTo(th, an.backtrack_level)
<1>1. PICK degraded \in BOOLEAN :
        LET restart == an.origin = "bcp" /\ RestartDue(restarts, degraded)
            level == IF restart THEN 0 ELSE an.backtrack_level
        IN  /\ restarts' = IF an.origin = "bcp" THEN RecordConflict(restarts, degraded)
                           ELSE restarts
            /\ tr' = BacktrackTo(tr, level)
            /\ th' = TheoryPopTo(th, level)
  BY DEF Backjump
<1>2. restarts.restart_count \in Nat
  BY ReasonTypes DEF RestartRecords
<1>3. CASE an.origin = "bcp"
  <2>1. restarts'.restart_count = restarts.restart_count + (IF RestartDue(restarts, degraded) THEN 1 ELSE 0)
    BY <1>1, <1>3 DEF RecordConflict
  <2>2. ~RestartDue(restarts, degraded) /\ Unrestarted
    BY <1>2, <2>1 DEF Unrestarted
  <2> QED
    BY <1>1, <2>2
<1>4. CASE an.origin # "bcp"
  BY <1>1, <1>4 DEF Unrestarted
<1> QED
  BY <1>3, <1>4

\* What backtracking leaves of the false literals: those of the levels it leaves.
LEMMA FalseBelow ==
    ASSUME NEW t \in TrailRecords, TrailInv(t), NEW level \in Nat, level < DecisionLevel(t),
           NEW u, u = BacktrackTo(t, level), NEW l \in Lits, FalseNow(t, l),
           t.level[VarOf(l)] <= level
    PROVE  FalseNow(u, l)
<1>1. PICK k \in 1..Len(t.trail) : t.trail[k] = Neg(l)
  BY DEF FalseNow, FalseBefore
<1>2. VarOf(t.trail[k]) = VarOf(l) /\ VarOf(l) \in Vars /\ t.level[VarOf(l)] \in Nat
  BY <1>1, LitFacts, TrailTypes
<1>3. level + 1 \in 1..Len(t.trail_lim) /\ t.trail_lim[level + 1] \in Nat
  <2>1. level + 1 \in 1..Len(t.trail_lim)
    BY TrailTypes
  <2> QED
    BY <2>1, TrailTypes
<1>4. ~(t.level[VarOf(l)] >= level + 1)
  BY <1>2
<1>5. ~(k > t.trail_lim[level + 1])
  BY <1>2, <1>3, <1>4 DEF TrailInv, LevelsAreSegments
<1>6. /\ Len(u.trail) = t.trail_lim[level + 1]
      /\ \A i \in 1..Len(u.trail) : u.trail[i] = t.trail[i]
  BY BacktrackFacts DEF DecisionLevel
<1>7. k \in 1..Len(u.trail)
  BY <1>3, <1>5, <1>6
<1> QED
  BY <1>1, <1>6, <1>7 DEF FalseNow, FalseBefore

\* A prefix of a prefix.
LEMMA ShorterPrefix ==
    ASSUME NEW S, NEW s \in Seq(S), NEW n \in 0..Len(s), NEW m \in 0..n
    PROVE  SubSeq(SubSeq(s, 1, n), 1, m) = SubSeq(s, 1, m)
  OBVIOUS

LEMMA BackjumpReasons ==
    ASSUME ReasonInv, Backjump PROVE Resting' /\ (Undisturbed' => SearchOK')
<1>1. /\ Inv /\ pc = "learned" /\ pc' \in {"reduce", "learn"} /\ UNCHANGED <<arena, bcp, sv>>
      /\ tr \in TrailRecords /\ TrailInv(tr) /\ an \in AnRecords
      /\ an' = [an EXCEPT !.lbd = Lbd(an.learned)]
  BY ReasonTypes DEF ReasonInv, WatchInv, Backjump, db
<1>2. Resting'
  BY <1>1 DEF Resting
<1> SUFFICES ASSUME Undisturbed' PROVE SearchOK'
  BY <1>2
<1> DEFINE level == an.backtrack_level
<1>3. /\ Undisturbed /\ tr' = BacktrackTo(tr, level) /\ th' = TheoryPopTo(th, level)
  BY <1>1, NoRestart DEF Undisturbed
<1>4. /\ SearchOK /\ level < DecisionLevel(tr) /\ Told(Len(th.asserted))
      /\ \A j \in 2..Len(an.learned) : Low(an.learned[j])
      /\ Len(an.learned) = 1 => level = 0
  BY <1>1, <1>3 DEF ReasonInv, SearchOK, Learned, Mirror
<1>5. an'.learned = an.learned /\ level \in Nat /\ an.learned \in Seq(Lits)
  BY <1>1, AnFacts DEF AnRecords
<1> HIDE DEF level
<1>6. Justified(tr', arena')
  BY <1>1, <1>3, <1>4, <1>5, JustifiedBacktrack, SameReasons DEF SearchOK
<1>7. Mirror'
  <2>1. ToldAll'
    <3>0. PICK n, m : n = Len(th.asserted) /\ m = tr.trail_lim[level + 1]
      OBVIOUS
    <3>1. /\ th.asserted \in Seq(Lits) /\ n \in Nat
          /\ \A k \in 1..Len(th.lims) : th.lims[k] <= Len(th.asserted)
      BY <1>1, <3>0 DEF Inv, TypeOK, TheoryScopesOK
    <3>2. th.lims = tr.trail_lim /\ n <= Len(tr.trail) /\ th.asserted = SubSeq(tr.trail, 1, n)
      BY <1>4, <3>0 DEF Told
    <3>3. /\ tr.trail \in Seq(Lits) /\ Len(tr.trail) \in Nat /\ tr.trail_lim \in Seq(Nat)
          /\ level < Len(tr.trail_lim) /\ level + 1 \in 1..Len(tr.trail_lim)
      BY <1>1, <1>4, <1>5, TrailTypes
    <3>4. m \in 0..n /\ n \in 0..Len(tr.trail)
      <4>1. m \in Nat
        BY <3>0, <3>3, ElementFact
      <4>2. m <= n
        BY <3>0, <3>1, <3>2, <3>3
      <4> QED
        BY <3>1, <3>2, <4>1, <4>2
    <3>5. tr'.trail = SubSeq(tr.trail, 1, Len(tr'.trail))
      BY <1>1, <1>3, <1>5, BacktrackFacts
    <3>6. Len(tr'.trail) = m /\ tr'.trail_lim = SubSeq(tr.trail_lim, 1, level)
      <4>1. Len(tr'.trail) = tr.trail_lim[level + 1]
        BY <1>1, <1>3, <1>5, <3>3, BacktrackFacts
      <4>2. tr'.trail_lim = SubSeq(tr.trail_lim, 1, level)
        BY <1>1, <1>3, <1>5, <3>3, BacktrackFacts, SMTT(40)
      <4> QED
        BY <3>0, <4>1, <4>2
    <3>7. Len(th.lims) > level /\ th.lims[level + 1] = m
      BY <1>5, <3>0, <3>2, <3>3
    <3>8. th'.asserted = SubSeq(th.asserted, 1, m) /\ th'.lims = SubSeq(th.lims, 1, level)
      BY <1>3, <3>7 DEF TheoryPopTo
    <3>9. SubSeq(th.asserted, 1, m) = SubSeq(tr.trail, 1, m)
      BY <3>2, <3>3, <3>4, ShorterPrefix
    <3> QED
      BY <3>2, <3>5, <3>6, <3>8, <3>9 DEF ToldAll
  <2> QED
    BY <1>1, <2>1 DEF Mirror
<1>8. tr'.level = tr.level /\ DecisionLevel(tr') = level
  BY <1>1, <1>3, <1>4, <1>5, BacktrackFacts DEF DecisionLevel
<1>9. ASSUME NEW j \in 2..Len(an.learned)
      PROVE  FalseNow(tr', an.learned[j]) /\ tr'.level[VarOf(an.learned[j])] > 0
  <2>1. Low(an.learned[j]) /\ an.learned[j] \in Lits
    <3>1. j \in 1..Len(an.learned)
      BY <1>5
    <3> QED
      BY <1>4, <1>5, <3>1, ElementFact
  <2>2. /\ FalseNow(tr, an.learned[j]) /\ tr.level[VarOf(an.learned[j])] <= level
        /\ tr.level[VarOf(an.learned[j])] > 0
    BY <1>5, <2>1 DEF Low, level
  <2> QED
    BY <1>1, <1>3, <1>4, <1>5, <1>8, <2>1, <2>2, FalseBelow
<1>10. Learned'
  BY <1>1, <1>4, <1>5, <1>8, <1>9 DEF Learned
<1> QED
  BY <1>1, <1>6, <1>7, <1>10 DEF SearchOK, ConflictFalse, Analysing

LEMMA ReduceDbReasons ==
    ASSUME ReasonInv, ReduceDb PROVE Resting' /\ (Undisturbed' => SearchOK')
<1>1. /\ Inv /\ pc = "reduce" /\ pc' = "learn" /\ UNCHANGED <<tr, th, bcp, an, sv, restarts>>
      /\ tr \in TrailRecords /\ TrailInv(tr)
  BY ReasonTypes DEF ReasonInv, WatchInv, ReduceDb
<1>2. Resting'
  BY <1>1 DEF Resting
<1> SUFFICES ASSUME Undisturbed PROVE SearchOK'
  BY <1>1, <1>2 DEF Undisturbed, Unrestarted
<1>3. KeepsReasons(tr, arena, arena')
  <2>1. CASE UNCHANGED arena
    BY <2>1, SameReasons
  <2>2. CASE arena' = WithDeleted(Evicted)
    <3> SUFFICES ASSUME NEW i \in 1..Len(tr.trail), NEW v, v = VarOf(tr.trail[i]),
                        tr.reason[v] \in Evicted
                 PROVE  FALSE
      BY <1>1, <2>2, ReasonsKept
    <3>1. tr.reason[v] \in 1..Len(arena) /\ ~Locked(tr.reason[v])
      BY DEF Evicted, Reducible
    <3>2. arena[tr.reason[v]].lits[1] = tr.trail[i]
      <4>1. JustifiedAt(tr, arena, i) /\ tr.reason[v] > 0
        BY <1>1, <3>1, ReasonTypes DEF ReasonInv, SearchOK, Justified
      <4> QED
        BY <4>1 DEF JustifiedAt, Forces
    <3>3. IsAssigned(tr, v)
      <4>1. IsTrue(tr, tr.trail[i])
        BY <1>1 DEF TrailInv, TrailIsAssignment
      <4> QED
        BY <4>1 DEF IsTrue, LitValue, IsAssigned, NotVal
    <3> QED
      BY <3>1, <3>2, <3>3 DEF Locked
  <2> QED
    BY <2>1, <2>2 DEF ReduceDb
<1>4. Justified(tr', arena')
  BY <1>1, <1>3, JustifiedSame DEF ReasonInv, SearchOK
<1>5. Mirror' /\ Learned'
  BY <1>1 DEF ReasonInv, SearchOK, Mirror, ToldAll, Learned
<1> QED
  BY <1>1, <1>4, <1>5 DEF SearchOK, ConflictFalse, Analysing

LEMMA LearnReasons ==
    ASSUME ReasonInv, Learn PROVE Resting' /\ (Undisturbed' => SearchOK')
<1>1. /\ Inv /\ pc = "learn" /\ pc' \in {"panic", "loop"} /\ UNCHANGED <<bcp, an, sv, restarts>>
      /\ tr \in TrailRecords /\ TrailInv(tr) /\ an.learned \in Seq(Lits) /\ Len(an.learned) > 0
      /\ an.lbd \in Nat /\ arena \in Seq(ArenaClauses) /\ Len(arena) \in Nat
  BY ReasonTypes, AnFacts DEF ReasonInv, WatchInv, Learn, rest, Inv, TypeOK, ControlOK
<1>2. Resting'
  BY <1>1 DEF Resting
<1> SUFFICES ASSUME Undisturbed, pc' # "panic" PROVE SearchOK'
  BY <1>1, <1>2 DEF Undisturbed, Unrestarted
<1>3. PICK lit, id, r : /\ lit = an.learned[1] /\ id = Len(arena) + 1
                        /\ r = IF Len(an.learned) = 1 THEN ReasonUnit ELSE id
  OBVIOUS
<1>4. /\ lit \in Lits /\ ~IsAssigned(tr, VarOf(lit)) /\ tr' = Assign(tr, lit, r)
      /\ th' = TheoryAssert(th, <<lit>>) /\ pc' = "loop" /\ r \in Reasons
  BY <1>1, <1>3 DEF Learn, Reasons, ReasonUnit
<1>5. /\ \A j \in 2..Len(an.learned) : FalseNow(tr, an.learned[j])
      /\ Len(an.learned) = 1 => DecisionLevel(tr) = 0
      /\ Justified(tr, arena) /\ ToldAll
  BY <1>1 DEF ReasonInv, SearchOK, Learned, Mirror
<1>6. Justified(tr', arena')
  <2>1. CASE Len(an.learned) = 1
    <3>1. arena' = arena /\ r = ReasonUnit /\ ~(r > 0) /\ r # ReasonDecision
      BY <1>3, <2>1 DEF Learn, db, ReasonUnit, ReasonDecision
    <3> QED
      BY <1>1, <1>4, <1>5, <2>1, <3>1, JustifiedAssign, SameReasons
  <2>2. CASE Len(an.learned) # 1
    <3>0. PICK x : x = NewClause(an.learned, TRUE, an.lbd)
      OBVIOUS
    <3>1. arena' = Append(arena, x)
      BY <2>2, <3>0 DEF Learn
    <3>2. r = id /\ r # ReasonUnit /\ r # ReasonDecision /\ arena'[r] = x
      BY <1>1, <1>3, <2>2, <3>1 DEF ReasonUnit, ReasonDecision
    <3>3. x.lits = an.learned /\ ~x.deleted
      BY <3>0 DEF NewClause
    <3>4. KeepsReasons(tr, arena, arena')
      BY <1>1, <3>1, ReasonsGrow
    <3>5. /\ ~arena'[r].deleted /\ arena'[r].lits[1] = lit
          /\ \A j \in 2..Len(arena'[r].lits) : FalseNow(tr, arena'[r].lits[j])
      BY <1>3, <1>5, <3>2, <3>3
    <3> QED
      BY <1>1, <1>4, <1>5, <3>2, <3>4, <3>5, JustifiedAssign
  <2> QED
    BY <2>1, <2>2
<1>7. ToldAll'
  <2>1. tr'.trail = Append(tr.trail, lit) /\ tr'.trail_lim = tr.trail_lim /\ tr.trail \in Seq(Lits)
    BY <1>1, <1>4, AssignFacts, TrailTypes
  <2>2. th \in [asserted : Seq(Lits), lims : Seq(Nat)]
    BY <1>1 DEF Inv, TypeOK, TheoryScopesOK
  <2>3. th'.lims = th.lims /\ th'.asserted = th.asserted \o <<lit>>
    BY <1>4, <2>2 DEF TheoryAssert
  <2>4. tr.trail \o <<lit>> = Append(tr.trail, lit)
    BY <1>4, <2>1
  <2> QED
    BY <1>5, <2>1, <2>3, <2>4 DEF ToldAll
<1> QED
  BY <1>4, <1>6, <1>7, Quiet DEF SearchOK, Mirror

LEMMA ConflictReasons ==
    ASSUME ReasonInv, Conflict PROVE Resting' /\ (Undisturbed' => SearchOK')
<1>1. CASE ConflictInAddClause \/ ConflictBeforeSearch
  <2>1. /\ pc = "conflict" /\ pc' \in {"idle", "answered"} /\ UNCHANGED <<arena, tr, restarts>>
        /\ ~InSearch
    BY <1>1 DEF ConflictInAddClause, ConflictBeforeSearch, db, InSearch
  <2> QED
    BY <2>1, Quiet DEF ReasonInv, Resting, Undisturbed, Unrestarted, SearchOK, Mirror
<1>2. CASE ConflictAtLevelZero \/ AssumptionsRefuted
  <2>1. /\ pc \in {"conflict", "learned"} /\ pc' = "finish" /\ UNCHANGED <<arena, tr, restarts>>
    BY <1>2 DEF ConflictAtLevelZero, AssumptionsRefuted, db, rest
  <2> QED
    BY <2>1, Quiet DEF ReasonInv, Resting, Undisturbed, Unrestarted, SearchOK, Mirror
<1> QED
  BY <1>1, <1>2, StartAnalysisReasons, MarkLitReasons, PickLitReasons, BackjumpReasons,
     ReduceDbReasons, LearnReasons DEF Conflict

-----------------------------------------------------------------------------
(* The search loop.                                                         *)

LEMMA TheoryConflictReasons ==
    ASSUME ReasonInv, TheoryConflict PROVE Resting' /\ (Undisturbed' => SearchOK')
<1>1. /\ Inv /\ pc = "theory" /\ pc' = "conflict" /\ UNCHANGED <<tr, restarts, th, bcp, sv>>
      /\ tr \in TrailRecords /\ TrailInv(tr) /\ arena \in Seq(ArenaClauses) /\ an \in AnRecords
      /\ an' = [an EXCEPT !.conflict = Len(arena) + 1, !.origin = "theory"]
  BY ReasonTypes DEF ReasonInv, WatchInv, TheoryConflict, rest
<1>2. an'.conflict = Len(arena) + 1 /\ an'.origin = "theory"
  BY <1>1 DEF AnRecords
<1>3. Resting'
  BY <1>1 DEF ReasonInv, Resting, InSearch
<1> SUFFICES ASSUME Undisturbed PROVE SearchOK'
  BY <1>1, <1>3 DEF Undisturbed, Unrestarted
<1>4. Justified(tr, arena) /\ ToldAll
  BY <1>1 DEF ReasonInv, SearchOK, Mirror
<1>5. PICK c \in FalseTheoryClauses :
        arena' = IF DecisionLevel(tr) = 0 THEN arena ELSE Append(arena, NewClause(c, TRUE, 2))
  BY DEF TheoryConflict
<1>6. c \in TheoryClauses /\ AllFalse(tr, c)
  <2>1. \A i \in 1..Len(c) : Neg(c[i]) \in ToSet(th.asserted)
    BY DEF FalseTheoryClauses
  <2>2. th.asserted = tr.trail /\ tr.trail \in Seq(Lits)
    BY <1>1, <1>4, TrailTypes DEF ToldAll
  <2> QED
    BY <2>1, <2>2 DEF FalseTheoryClauses, AllFalse, FalseNow, FalseBefore, ToSet
<1>7. Justified(tr', arena')
  <2>1. KeepsReasons(tr, arena, arena')
    BY <1>1, <1>5, SameReasons, ReasonsGrow
  <2> QED
    BY <1>1, <1>4, <2>1, JustifiedSame
<1>8. ConflictFalse'
  <2>1. CASE DecisionLevel(tr) = 0
    BY <1>1, <1>2, <1>6, <2>1 DEF ConflictFalse
  <2>2. CASE DecisionLevel(tr) # 0
    <3>1. PICK x : x = NewClause(c, TRUE, 2)
      OBVIOUS
    <3>2. arena' = Append(arena, x) /\ an'.conflict = Len(arena) + 1
      BY <1>2, <1>5, <2>2, <3>1
    <3>20. x \in ArenaClauses
      BY <1>6, <3>1, NewClauseOK, SolverAssumption
    <3>21. Len(arena') = Len(arena) + 1 /\ arena'[Len(arena) + 1] = x /\ Len(arena) \in Nat
      <4>1. arena \in Seq(ArenaClauses)
        BY <1>1
      <4> QED
        BY <3>2, <3>20, <4>1
    <3>22. an'.conflict \in ClauseIds' /\ arena'[an'.conflict] = x
      BY <3>2, <3>21 DEF ClauseIds
    <3>3. x.lits = c
      BY <3>1 DEF NewClause
    <3> QED
      BY <1>1, <1>6, <2>2, <3>22, <3>3 DEF ConflictFalse
  <2> QED
    BY <2>1, <2>2
<1>9. Mirror'
  <2>1. tr.trail \in Seq(Lits)
    BY <1>1, TrailTypes
  <2>2. SubSeq(tr.trail, 1, Len(tr.trail)) = tr.trail /\ Len(tr.trail) <= Len(tr.trail)
    BY <2>1
  <2> QED
    BY <1>1, <1>4, <2>2 DEF ToldAll, Told, Mirror, InSearch
<1> QED
  BY <1>1, <1>7, <1>8, <1>9 DEF SearchOK, Analysing, Learned

LEMMA DecideReasons ==
    ASSUME ReasonInv, pc = "decide", NEW lit \in Lits, ~IsAssigned(tr, VarOf(lit)), Decide(lit),
           UNCHANGED <<arena, restarts>>
    PROVE  Resting' /\ (Undisturbed' => SearchOK')
<1>1. Inv /\ tr \in TrailRecords /\ TrailInv(tr) /\ pc' = "loop"
  BY ReasonTypes DEF ReasonInv, WatchInv, Decide
<1>2. Resting'
  BY <1>1 DEF Resting
<1> SUFFICES ASSUME Undisturbed PROVE SearchOK'
  BY <1>1, <1>2 DEF Undisturbed, Unrestarted
<1>3. Justified(tr, arena) /\ ToldAll
  BY DEF ReasonInv, SearchOK, Mirror
<1>4. PICK t : t = NewDecisionLevel(tr)
  OBVIOUS
<1>5. /\ t \in TrailRecords /\ TrailInv(t) /\ Justified(t, arena)
      /\ t.trail = tr.trail /\ t.trail_lim = Append(tr.trail_lim, Len(tr.trail))
      /\ t.assigns = tr.assigns /\ DecisionLevel(t) > 0
      /\ t.trail_lim[DecisionLevel(t)] = Len(t.trail)
  <2>1. t \in TrailRecords /\ TrailInv(t)
    BY <1>1, <1>4, NewDecisionLevelOK
  <2>2. Justified(t, arena)
    BY <1>1, <1>3, <1>4, JustifiedNewLevel
  <2>3. /\ t.trail = tr.trail /\ t.trail_lim = Append(tr.trail_lim, Len(tr.trail))
        /\ t.assigns = tr.assigns /\ Len(t.trail_lim) = Len(tr.trail_lim) + 1
        /\ t.trail_lim[Len(tr.trail_lim) + 1] = Len(tr.trail)
    BY <1>1, <1>4, NewLevelFacts
  <2>4. Len(tr.trail_lim) \in Nat
    BY <1>1, TrailTypes
  <2> QED
    BY <2>1, <2>2, <2>3, <2>4 DEF DecisionLevel
<1>6. /\ tr' = Assign(t, lit, ReasonDecision) /\ ~IsAssigned(t, VarOf(lit))
      /\ ReasonDecision \in Reasons /\ ~(ReasonDecision > 0) /\ ReasonDecision # ReasonUnit
  BY <1>4, <1>5 DEF Decide, IsAssigned, Reasons, ReasonDecision, ReasonUnit
<1>7. Justified(tr', arena')
  <2>1. Justified(tr', arena)
    BY <1>5, <1>6, SameReasons, JustifiedAssign
  <2> QED
    BY <2>1
<1>8. ToldAll'
  <2>1. tr'.trail = Append(tr.trail, lit) /\ tr'.trail_lim = Append(tr.trail_lim, Len(tr.trail))
    BY <1>5, <1>6, AssignFacts, SMTT(40)
  <2>2. th \in [asserted : Seq(Lits), lims : Seq(Nat)] /\ tr.trail \in Seq(Lits)
    BY <1>1, TrailTypes DEF Inv, TypeOK, TheoryScopesOK
  <2>3. th'.lims = Append(th.lims, Len(th.asserted)) /\ th'.asserted = th.asserted \o <<lit>>
    BY <2>2 DEF Decide, TheoryAssert, TheoryPush
  <2>4. tr.trail \o <<lit>> = Append(tr.trail, lit)
    BY <2>2
  <2> QED
    BY <1>3, <2>1, <2>3, <2>4 DEF ToldAll
<1> QED
  BY <1>1, <1>7, <1>8, Quiet DEF SearchOK, Mirror

LEMMA SearchReasons ==
    ASSUME ReasonInv, Search PROVE Resting' /\ (Undisturbed' => SearchOK')
<1>0. Inv
  BY DEF ReasonInv, WatchInv
<1>1. CASE BudgetExhausted \/ AllAssigned
  <2>1. pc' = "finish" /\ UNCHANGED <<arena, tr, restarts>> /\ pc # "panic"
    BY <1>1 DEF BudgetExhausted, AllAssigned, db, rest
  <2> QED
    BY <2>1, Quiet DEF ReasonInv, Resting, Undisturbed, Unrestarted, SearchOK, Mirror
<1>2. CASE Loop
  <2>1. /\ pc = "loop" /\ pc' = "bcp" /\ UNCHANGED <<arena, tr, restarts, th>>
        /\ bcp'.caller = "solve_internal" /\ sv'.old_trail_len = Len(tr.trail)
        /\ tr.trail \in Seq(Lits)
    <3>1. bcp \in BcpRecords(arena) /\ sv \in SvRecords /\ tr \in TrailRecords
      BY <1>0, ReasonTypes
    <3> QED
      BY <1>2, <3>1, TrailTypes DEF Loop, db, rest, BcpRecords, SvRecords
  <2>2. Undisturbed => Told(sv.old_trail_len)'
    <3>1. SubSeq(tr.trail, 1, Len(tr.trail)) = tr.trail /\ Len(tr.trail) <= Len(tr.trail)
      BY <2>1
    <3> QED
      BY <2>1, <3>1 DEF ReasonInv, SearchOK, Mirror, ToldAll, Told
  <2> QED
    BY <2>1, <2>2, Quiet DEF ReasonInv, Resting, Undisturbed, Unrestarted, SearchOK, Mirror, InSearch
<1>3. CASE TheoryOk
  <2>1. pc = "theory" /\ pc' = "decide" /\ UNCHANGED <<arena, tr, restarts, th>>
    BY <1>3 DEF TheoryOk, db, rest
  <2> QED
    BY <2>1, Quiet DEF ReasonInv, Resting, Undisturbed, Unrestarted, SearchOK, Mirror, ToldAll
<1>4. CASE DecideAssumption
  <2>1. pc = "decide" /\ UNCHANGED <<arena, restarts>>
    BY <1>4 DEF DecideAssumption, db, rest
  <2>2. CASE pc' \in {"finish", "loop"} /\ UNCHANGED <<tr, th>>
    BY <2>1, <2>2, Quiet
    DEF ReasonInv, Resting, Undisturbed, Unrestarted, SearchOK, Mirror, ToldAll
  <2>3. ASSUME NEW p, p = sv.assumptions[sv.cur + 1], ~IsAssigned(tr, VarOf(p)), Decide(p)
        PROVE  Resting' /\ (Undisturbed' => SearchOK')
    <3>1. sv.assumptions \in Seq(Lits) /\ sv.cur \in Nat /\ sv.cur < Len(sv.assumptions)
      BY <1>0, <1>4, ReasonTypes, SvFacts DEF DecideAssumption, AssumptionsLeft
    <3>2. p \in Lits
      BY <2>3, <3>1
    <3> QED
      BY <2>1, <2>3, <3>2, DecideReasons
  <2> QED
    BY <1>4, <2>2, <2>3 DEF DecideAssumption
<1>5. CASE DecideVar
  <2>1. pc = "decide" /\ UNCHANGED <<arena, restarts>>
    BY <1>5 DEF DecideVar, db, rest
  <2>2. PICK v \in Selected : Decide(NewLit(v, tr.phase[v]))
    BY <1>5 DEF DecideVar
  <2>3. v \in Vars /\ ~IsAssigned(tr, v)
    <3>0. heap \subseteq Vars /\ num_vars \in 0..NumVars
      BY <1>0 DEF Inv, TypeOK, RestOK
    <3>1. heap \subseteq Vars /\ 1..num_vars \subseteq Vars
      BY <3>0, NumVarsAssumption DEF Vars
    <3> QED
      BY <3>1 DEF Selected, Open
  <2>4. tr.phase[v] \in BOOLEAN
    BY <1>0, <2>3 DEF Inv, TypeOK, TrailOK, TrailRecords
  <2>5. NewLit(v, tr.phase[v]) \in Lits /\ VarOf(NewLit(v, tr.phase[v])) = v
    BY <2>3, <2>4, LitOfVar
  <2> QED
    BY <2>1, <2>2, <2>3, <2>5, DecideReasons
<1>6. CASE Finish
  <2>1. /\ pc = "finish" /\ pc' = "answered" /\ tr' = BacktrackTo(tr, 0) /\ UNCHANGED restarts
        /\ UNCHANGED arena \/ \E S : arena' = WithDeleted(S)
    BY <1>6 DEF Finish
  <2>2. Undisturbed' => Justified(tr', arena')
    BY <1>0, <2>1, JustifiedAtZero DEF ReasonInv, Undisturbed, Unrestarted, SearchOK
  <2> QED
    BY <1>0, <2>1, <2>2, BackToZero, Quiet DEF Resting, SearchOK, Mirror
<1>7. CASE Return
  <2>1. pc = "answered" /\ pc' = "idle" /\ UNCHANGED <<arena, tr, restarts>>
    BY <1>7 DEF Return, db, rest
  <2> QED
    BY <2>1, Quiet DEF ReasonInv, Resting, Undisturbed, Unrestarted, SearchOK, Mirror
<1> QED
  BY <1>1, <1>2, <1>3, <1>4, <1>5, <1>6, <1>7, TheoryConflictReasons DEF Search

-----------------------------------------------------------------------------
(* The theorems.                                                            *)

LEMMA ReasonInit == Init => ReasonInv
<1> SUFFICES ASSUME Init PROVE Resting /\ SearchOK
  BY WatchInit DEF ReasonInv
<1>1. tr.trail = << >> /\ tr.trail_lim = << >> /\ pc = "idle"
  BY DEF Init, NewTrail
<1> QED
  BY <1>1 DEF Resting, SearchOK, Justified, Mirror, ConflictFalse, Analysing, Learned

LEMMA ReasonNext == ASSUME ReasonInv, [Next]_vars PROVE ReasonInv'
<1>1. WatchInv'
  BY WatchNext DEF ReasonInv
<1>2. ASSUME UNCHANGED vars PROVE Resting' /\ (Undisturbed' => SearchOK')
  <2>1. UNCHANGED <<arena, tr, pc, bcp, restarts, th, sv, an>>
    BY <1>2 DEF vars, db, rest
  <2> QED
    BY <2>1 DEF ReasonInv, Resting, InSearch, Undisturbed, Unrestarted, SearchOK, Mirror, Told,
                ToldAll, ConflictFalse, ClauseIds, Analysing, Learned, Low
<1>3. Resting' /\ (Undisturbed' => SearchOK')
  BY <1>2, ClientReasons, PropagateReasons, ConflictReasons, SearchReasons DEF Next, Step
<1> QED
  BY <1>1, <1>3 DEF ReasonInv

\* The position of a variable is where it is found.
LEMMA PositionFound ==
    ASSUME Inv, NEW k \in 1..Len(tr.trail) PROVE PositionOf(VarOf(tr.trail[k])) = k
<1>1. \A i, j \in 1..Len(tr.trail) : VarOf(tr.trail[i]) = VarOf(tr.trail[j]) => i = j
  BY ReasonTypes DEF TrailInv, TrailIsAssignment
<1> QED
  BY <1>1 DEF PositionOf

\* The reason of a literal on the trail is a clause it heads, whose other
\* literals were false before it, and reduce_db leaves that clause alone.
LEMMA ReasonsFollow == ReasonInv => ReasonsJustify
<1> SUFFICES ASSUME ReasonInv, Undisturbed, NEW i \in 1..Len(tr.trail),
                    NEW v, v = VarOf(tr.trail[i]), NEW c, c = tr.reason[v], c > 0
             PROVE  /\ arena[c].lits[1] = tr.trail[i]
                    /\ \A l \in LitsOf(c) \ {tr.trail[i]} :
                         IsFalse(tr, l) /\ PositionOf(VarOf(l)) < i
                    /\ tr.level[v] > 0 => ~arena[c].deleted
  BY DEF ReasonsJustify, Undisturbed
<1>1. Inv /\ tr \in TrailRecords /\ TrailInv(tr) /\ Len(tr.trail) \in Nat /\ v \in Vars
  BY ReasonTypes, TrailTypes DEF ReasonInv, WatchInv
<1>2. Forces(tr, arena[c].lits, i) /\ (tr.level[v] > 0 => ~arena[c].deleted)
  BY DEF ReasonInv, SearchOK, Justified, JustifiedAt
<1>3. arena[c].lits \in Seq(Lits)
  <2>1. c \in 1..Len(arena)
    BY <1>1, ReasonTypes DEF Reasons, ReasonDecision
  <2> QED
    BY <1>1, <2>1, ReasonTypes, ClauseFacts
<1>4. ASSUME NEW l \in LitsOf(c) \ {tr.trail[i]}
      PROVE  IsFalse(tr, l) /\ PositionOf(VarOf(l)) < i
  <2>1. PICK j \in 1..Len(arena[c].lits) : arena[c].lits[j] = l
    BY <1>3, SMTT(40) DEF LitsOf, ToSet
  <2>2. j # 1 /\ j \in 2..Len(arena[c].lits) /\ l \in Lits
    <3>1. arena[c].lits[1] = tr.trail[i] /\ l # tr.trail[i]
      BY <1>2 DEF Forces
    <3>2. arena[c].lits \in Seq(Lits) /\ j # 1
      BY <1>3, <2>1, <3>1
    <3>3. j \in 2..Len(arena[c].lits)
      BY <3>2
    <3> QED
      BY <2>1, <3>2, <3>3, ElementFact
  <2>3. FalseBefore(tr, i - 1, l)
    BY <1>2, <2>1, <2>2 DEF Forces
  <2>4. i - 1 \in 0..Len(tr.trail)
    BY <1>1
  <2>5. PICK k \in 1..(i - 1) : tr.trail[k] = Neg(l) /\ VarOf(tr.trail[k]) = VarOf(l)
    BY <1>1, <2>2, <2>3, <2>4, FalsePosition
  <2>6. k \in 1..Len(tr.trail) /\ k < i
    BY <1>1
  <2>7. PositionOf(VarOf(l)) = k
    BY <1>1, <2>5, <2>6, PositionFound
  <2>8. FalseNow(tr, l)
    BY <2>5, <2>6 DEF FalseNow, FalseBefore
  <2> QED
    BY <1>1, <2>2, <2>6, <2>7, <2>8, FalseIsOnTrail
<1> QED
  BY <1>2, <1>4 DEF Forces

THEOREM ReasonsHold == Spec => []ReasonsJustify
<1>1. Init => ReasonInv
  BY ReasonInit
<1>2. ReasonInv /\ [Next]_vars => ReasonInv'
  BY ReasonNext
<1>3. ReasonInv => ReasonsJustify
  BY ReasonsFollow
<1> QED
  BY <1>1, <1>2, <1>3, PTL DEF Spec

\* Until a restart, whenever the theory is asked it has been told of exactly
\* the literals on the trail, scope by scope.
THEOREM TheoryFollows == Spec => [](Unrestarted => TheoryMirrorsTrail)
<1>1. Init => ReasonInv
  BY ReasonInit
<1>2. ReasonInv /\ [Next]_vars => ReasonInv'
  BY ReasonNext
<1>3. ReasonInv => (Unrestarted => TheoryMirrorsTrail)
  <2> SUFFICES ASSUME ReasonInv, Unrestarted, pc = "theory"
               PROVE  /\ Len(th.lims) = DecisionLevel(tr)
                      /\ ToSet(th.asserted) = ToSet(tr.trail)
                      /\ \A k \in 1..Len(th.lims) :
                           ToSet(SubSeq(th.asserted, 1, th.lims[k])) =
                               ToSet(SubSeq(tr.trail, 1, tr.trail_lim[k]))
    BY DEF TheoryMirrorsTrail
  <2>1. ToldAll
    BY DEF ReasonInv, Undisturbed, SearchOK, Mirror
  <2> QED
    BY <2>1 DEF ToldAll, DecisionLevel
<1> QED
  BY <1>1, <1>2, <1>3, PTL DEF Spec
=============================================================================
