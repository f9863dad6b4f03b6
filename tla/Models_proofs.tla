---------------------------- MODULE Models_proofs ----------------------------
(***************************************************************************)
(* Propagation is complete, and true comes with a model.                   *)
(***************************************************************************)
EXTENDS SatSolver_proofs

(***************************************************************************)
(* Propagation is complete.  A watched literal that is false and handled   *)
(* leaves its clause true at the latest at its level, so that backtracking *)
(* never leaves a clause with false watches alone, although it touches no  *)
(* watch list.                                                             *)
(***************************************************************************)

\* Literal l is on the trail, at level n at the latest.
TrueAt(t, l, n) == (\E k \in 1..Len(t.trail) : t.trail[k] = l) /\ t.level[VarOf(l)] <= n

\* If l is false and has been handed to propagation, then the clause of the
\* literals S has one that is true at the latest at the level of l.
Guarded(t, S, l) == FalseBefore(t, t.qhead, l) => \E m \in S : TrueAt(t, m, t.level[VarOf(l)])

-----------------------------------------------------------------------------
(* The operations of the trail.                                             *)

LEMMA SegmentFact ==
    ASSUME NEW t \in TrailRecords, TrailInv(t), NEW i \in 1..Len(t.trail)
    PROVE  /\ t.level[VarOf(t.trail[i])] \in Nat
           /\ t.level[VarOf(t.trail[i])] <= DecisionLevel(t)
           /\ \A k \in 1..Len(t.trail_lim) : t.level[VarOf(t.trail[i])] >= k <=> i > t.trail_lim[k]
<1>1. VarOf(t.trail[i]) \in Vars /\ t.level \in [Vars -> Nat]
  BY TrailTypes
<1> QED
  BY <1>1 DEF TrailInv, LevelsAreSegments

\* Assigning an open variable makes nothing false that has been handed on.
LEMMA TrueAtAssign ==
    ASSUME NEW t \in TrailRecords, TrailInv(t), NEW l \in Lits, NEW r \in Reasons,
           ~IsAssigned(t, VarOf(l)), NEW u, u = Assign(t, l, r), NEW m, NEW n, TrueAt(t, m, n)
    PROVE  TrueAt(u, m, n)
<1>1. PICK k \in 1..Len(t.trail) : t.trail[k] = m
  BY DEF TrueAt
<1>2. u.trail[k] = m /\ u.level[VarOf(m)] = t.level[VarOf(m)] /\ Len(u.trail) = Len(t.trail) + 1
  BY <1>1, AssignFacts
<1>3. k \in 1..Len(u.trail)
  BY <1>2, TrailTypes
<1> QED
  BY <1>2, <1>3 DEF TrueAt

LEMMA GuardedAssign ==
    ASSUME NEW t \in TrailRecords, TrailInv(t), NEW l \in Lits, NEW r \in Reasons,
           ~IsAssigned(t, VarOf(l)), NEW u, u = Assign(t, l, r), NEW S, NEW w \in Lits,
           Guarded(t, S, w)
    PROVE  Guarded(u, S, w)
<1> SUFFICES ASSUME FalseBefore(u, u.qhead, w) PROVE \E m \in S : TrueAt(u, m, u.level[VarOf(w)])
  BY DEF Guarded
<1>1. /\ u.qhead = t.qhead /\ t.qhead \in Nat /\ t.qhead <= Len(t.trail) /\ Len(t.trail) \in Nat
      /\ \A i \in 1..Len(t.trail) : u.trail[i] = t.trail[i]
                                    /\ u.level[VarOf(t.trail[i])] = t.level[VarOf(t.trail[i])]
  BY AssignFacts, TrailTypes DEF TrailInv
<1>2. PICK k \in 1..t.qhead : t.trail[k] = Neg(w)
  BY <1>1 DEF FalseBefore
<1>3. FalseBefore(t, t.qhead, w) /\ k \in 1..Len(t.trail)
  BY <1>1, <1>2 DEF FalseBefore
<1>4. VarOf(t.trail[k]) = VarOf(w)
  BY <1>2, LitFacts
<1>5. PICK m \in S : TrueAt(t, m, t.level[VarOf(w)])
  BY <1>3 DEF Guarded
<1>6. TrueAt(u, m, t.level[VarOf(w)])
  BY <1>5, TrueAtAssign
<1> QED
  BY <1>1, <1>3, <1>4, <1>6

\* Nothing is handed on, nothing comes off the trail.
LEMMA GuardedSame ==
    ASSUME NEW t, NEW u, u.trail = t.trail, u.level = t.level, u.qhead = t.qhead, NEW S, NEW w
    PROVE  Guarded(u, S, w) <=> Guarded(t, S, w)
BY DEF Guarded, FalseBefore, TrueAt

\* The next literal is handed on: only its negation needs a new guard.
LEMMA GuardedDequeue ==
    ASSUME NEW t \in TrailRecords, NEW u, u = Dequeue(t), NEW S, NEW w \in Lits,
           t.trail[t.qhead + 1] \in Lits, w # Neg(t.trail[t.qhead + 1]), Guarded(t, S, w)
    PROVE  Guarded(u, S, w)
<1> SUFFICES ASSUME FalseBefore(u, u.qhead, w) PROVE \E m \in S : TrueAt(u, m, u.level[VarOf(w)])
  BY DEF Guarded
<1>1. u.trail = t.trail /\ u.level = t.level /\ u.qhead = t.qhead + 1 /\ t.qhead \in Nat
  BY DequeueFacts, TrailTypes
<1>2. PICK k \in 1..(t.qhead + 1) : t.trail[k] = Neg(w)
  BY <1>1 DEF FalseBefore
<1>3. k # t.qhead + 1
  BY <1>2, LitFacts
<1>4. FalseBefore(t, t.qhead, w)
  BY <1>1, <1>2, <1>3 DEF FalseBefore
<1> QED
  BY <1>1, <1>4 DEF Guarded, TrueAt

\* Backtracking below the current level leaves a false literal with its guard,
\* except one of the current level, which it does not leave.
LEMMA GuardedBacktrack ==
    ASSUME NEW t \in TrailRecords, TrailInv(t), NEW level \in Nat, level < DecisionLevel(t),
           \A k \in 1..DecisionLevel(t) : t.trail_lim[k] <= t.qhead,
           NEW u, u = BacktrackTo(t, level), NEW S, NEW w \in Lits,
           t.level[VarOf(w)] = DecisionLevel(t) \/ Guarded(t, S, w)
    PROVE  Guarded(u, S, w)
<1> SUFFICES ASSUME FalseBefore(u, u.qhead, w) PROVE \E m \in S : TrueAt(u, m, u.level[VarOf(w)])
  BY DEF Guarded
<1>1. Len(t.trail_lim) \in Nat /\ t.trail_lim \in Seq(Nat) /\ DecisionLevel(t) = Len(t.trail_lim)
      /\ t.qhead \in Nat /\ Len(t.trail) \in Nat
  BY TrailTypes
<1>2. level + 1 \in 1..Len(t.trail_lim)
  BY <1>1
<1>3. PICK n : n = t.trail_lim[level + 1]
  OBVIOUS
<1>4. n \in Nat /\ n <= t.qhead
  BY <1>1, <1>2, <1>3, ElementFact
<1>5. Len(u.trail) = n /\ u.qhead = n /\ n <= Len(t.trail)
  BY <1>1, <1>3, BacktrackFacts
<1>6. u.level = t.level /\ \A i \in 1..n : u.trail[i] = t.trail[i]
  BY <1>5, BacktrackFacts
<1>7. PICK k \in 1..n : t.trail[k] = Neg(w)
  BY <1>5, <1>6 DEF FalseBefore
<1>8. k \in 1..Len(t.trail) /\ k \in 1..t.qhead /\ ~(k > t.trail_lim[level + 1])
  <2>1. n \in Nat /\ Len(t.trail) \in Nat /\ t.qhead \in Nat /\ n <= t.qhead /\ n <= Len(t.trail)
    BY <1>1, <1>4, <1>5
  <2>2. k \in 1..Len(t.trail) /\ k \in 1..t.qhead /\ ~(k > n)
    BY <2>1, SMTT(40)
  <2> QED
    BY <1>3, <2>2, Zenon
<1>9. VarOf(t.trail[k]) = VarOf(w)
  BY <1>7, LitFacts
<1>10. t.level[VarOf(w)] \in Nat /\ ~(t.level[VarOf(w)] >= level + 1)
  BY <1>2, <1>8, <1>9, SegmentFact
<1>11. Guarded(t, S, w)
  BY <1>1, <1>10
<1>12. PICK m \in S : TrueAt(t, m, t.level[VarOf(w)])
  BY <1>7, <1>8, <1>11 DEF Guarded, FalseBefore
<1>13. PICK j \in 1..Len(t.trail) : t.trail[j] = m
  BY <1>12 DEF TrueAt
<1>14. t.level[VarOf(m)] \in Nat /\ ~(t.level[VarOf(m)] >= level + 1)
  <2>1. t.level[VarOf(m)] \in Nat
    BY <1>13, SegmentFact
  <2>2. t.level[VarOf(m)] <= t.level[VarOf(w)]
    BY <1>12 DEF TrueAt
  <2> QED
    BY <1>10, <2>1, <2>2, SMTT(40)
<1>15. ~(j > n)
  BY <1>2, <1>3, <1>13, <1>14, SegmentFact
<1>16. j \in 1..Len(u.trail) /\ u.trail[j] = m
  BY <1>4, <1>5, <1>6, <1>13, <1>15
<1> QED
  BY <1>6, <1>12, <1>16 DEF TrueAt

-----------------------------------------------------------------------------
(* The invariant, in parts.                                                 *)

\* Levels begin among the literals handed to propagation, the visited literal
\* is the last of these, and the theory is asked when there are no others.
QueueOK ==
    /\ \A k \in 1..DecisionLevel(tr) : tr.trail_lim[k] <= tr.qhead
    /\ pc = "visit" => /\ tr.qhead > 0 /\ tr.trail[tr.qhead] = bcp.lit
                       /\ \A k \in 1..DecisionLevel(tr) : tr.trail_lim[k] < tr.qhead
    /\ pc \in {"theory", "decide"} => tr.qhead = Len(tr.trail)

\* A solver that works is ok.
Busy == pc \notin {"idle", "answered", "finish"} => ok

\* A call with assumptions propagates nothing at level 0 once it searches.
Searching ==
    \/ pc \in {"loop", "theory", "decide", "mark", "learned", "reduce", "learn"}
    \/ pc \in {"bcp", "visit", "conflict"} /\ InSearch
AtZero ==
    (Searching /\ AssumptionRun /\ DecisionLevel(tr) = 0) =>
        /\ tr.qhead = Len(tr.trail)
        /\ pc \in {"loop", "bcp", "theory", "decide", "conflict"}
        /\ pc = "conflict" => an.origin = "theory"

\* Clauses that are not learned have two literals or more, each once.
NoRepeats(lits) == \A i, j \in 1..Len(lits) : lits[i] = lits[j] => i = j
Stored ==
    \A c \in ClauseIds :
        ~arena[c].learned => Len(arena[c].lits) > 1 /\ NoRepeats(arena[c].lits)

\* A conflict leaves watchers of the current level unvisited; the search then
\* leaves the level, or the solver is not ok.
Damaged ==
    \/ pc = "conflict" /\ an.origin = "bcp"
    \/ pc \in {"conflict", "mark", "learned", "finish"} /\ DecisionLevel(tr) > 0

\* A watcher of clause c is still to be visited.
Waits(c) == pc = "visit" /\ \E i \in 1..Len(bcp.todo) : bcp.todo[i].clause = c

\* What can be said of a literal that watches clause c.
Handled(c, l) ==
    \/ Damaged /\ tr.level[VarOf(l)] = DecisionLevel(tr)
    \/ Waits(c) /\ l = Neg(bcp.lit)
    \/ Guarded(tr, LitsOf(c), l)

\* Input clauses have two good watches, all that are watched have one, and
\* a blocker is a literal of its clause.
OneGood(c) == Handled(c, arena[c].lits[1]) \/ Handled(c, arena[c].lits[2])
BothGood(c) == Handled(c, arena[c].lits[1]) /\ Handled(c, arena[c].lits[2])
WellWatched ==
    {w \in WatchersIn(arena) :
        w.blocker \in LitsOf(w.clause) /\ (arena[w.clause].deleted \/ OneGood(w.clause))}
ListsIn(W) ==
    /\ watches \in [Lits -> Seq(W)]
    /\ pc = "visit" => bcp.todo \in Seq(W) /\ bcp.keep \in Seq(W)
WatchesGood ==
    /\ ListsIn(WellWatched)
    /\ \A c \in Live : ~arena[c].learned => BothGood(c)

PropInv ==
    /\ ReasonInv /\ QueueOK /\ Busy /\ Stored
    /\ Undisturbed => AtZero
    /\ Undisturbed /\ ok => WatchesGood

-----------------------------------------------------------------------------
(* The queue.                                                               *)

LEMMA QueueQuiet ==
    ASSUME QueueOK, pc' \notin {"visit", "theory", "decide"}, tr'.trail_lim = tr.trail_lim,
           tr'.qhead = tr.qhead
    PROVE  QueueOK'
BY DEF QueueOK, DecisionLevel

LEMMA QueueBacktrack ==
    ASSUME Inv, QueueOK, NEW level \in Nat, tr' = BacktrackTo(tr, level),
           pc' \notin {"visit", "theory", "decide"}
    PROVE  QueueOK'
<1>1. tr \in TrailRecords /\ TrailInv(tr) /\ Len(tr.trail_lim) \in Nat
      /\ DecisionLevel(tr) = Len(tr.trail_lim) /\ tr.trail_lim \in Seq(Nat)
  BY ReasonTypes, TrailTypes
<1>2. CASE Len(tr.trail_lim) <= level
  <2>1. tr' = tr
    BY <1>1, <1>2, BacktrackFacts
  <2> QED
    BY <2>1, QueueQuiet
<1>3. CASE level < Len(tr.trail_lim)
  <2>1. /\ tr'.qhead = tr.trail_lim[level + 1] /\ Len(tr'.trail_lim) = level
        /\ \A k \in 1..level : tr'.trail_lim[k] = tr.trail_lim[k]
    <3>1. Len(tr'.trail_lim) = level /\ tr'.qhead = tr.trail_lim[level + 1]
      BY <1>1, <1>3, BacktrackFacts
    <3>2. \A k \in 1..Len(tr'.trail_lim) : tr'.trail_lim[k] = tr.trail_lim[k]
      BY <1>1, BacktrackFacts
    <3> QED
      BY <3>1, <3>2
  <2>2. \A j, k \in 1..Len(tr.trail_lim) : j <= k => tr.trail_lim[j] <= tr.trail_lim[k]
    BY <1>1 DEF TrailInv, LevelsAreSegments
  <2>3. ASSUME NEW k \in 1..level PROVE tr.trail_lim[k] <= tr.trail_lim[level + 1]
    <3>1. /\ k \in 1..Len(tr.trail_lim) /\ level + 1 \in 1..Len(tr.trail_lim)
          /\ k <= level + 1
      BY <1>1, <1>3
    <3> QED
      BY <2>2, <3>1
  <2> QED
    BY <2>1, <2>3 DEF QueueOK, DecisionLevel
<1> QED
  BY <1>1, <1>2, <1>3

LEMMA QueueAssign ==
    ASSUME Inv, QueueOK, NEW l \in Lits, NEW r \in Reasons, ~IsAssigned(tr, VarOf(l)),
           tr' = Assign(tr, l, r), pc' \notin {"theory", "decide"},
           pc' = "visit" => pc = "visit" /\ bcp'.lit = bcp.lit
    PROVE  QueueOK'
<1>1. tr \in TrailRecords /\ TrailInv(tr) /\ tr.qhead \in Nat /\ tr.qhead <= Len(tr.trail)
      /\ Len(tr.trail) \in Nat
  BY ReasonTypes, TrailTypes DEF TrailInv
<1>2. tr'.trail_lim = tr.trail_lim /\ tr'.qhead = tr.qhead
      /\ \A i \in 1..Len(tr.trail) : tr'.trail[i] = tr.trail[i]
  BY <1>1, AssignFacts
<1> QED
  BY <1>1, <1>2 DEF QueueOK, DecisionLevel

LEMMA QueueDecide ==
    ASSUME Inv, QueueOK, pc = "decide", NEW l \in Lits, ~IsAssigned(tr, VarOf(l)), Decide(l)
    PROVE  QueueOK'
<1>1. tr \in TrailRecords /\ TrailInv(tr) /\ tr.qhead = Len(tr.trail) /\ Len(tr.trail) \in Nat
      /\ Len(tr.trail_lim) \in Nat
  BY ReasonTypes, TrailTypes DEF QueueOK
<1>2. PICK t : t = NewDecisionLevel(tr)
  OBVIOUS
<1>3. t \in TrailRecords /\ TrailInv(t) /\ t.assigns = tr.assigns /\ t.qhead = tr.qhead
      /\ Len(t.trail_lim) = Len(tr.trail_lim) + 1
      /\ t.trail_lim[Len(tr.trail_lim) + 1] = Len(tr.trail)
      /\ \A k \in 1..Len(tr.trail_lim) : t.trail_lim[k] = tr.trail_lim[k]
  BY <1>1, <1>2, NewDecisionLevelOK, NewLevelFacts
<1>4. tr' = Assign(t, l, ReasonDecision) /\ ~IsAssigned(t, VarOf(l)) /\ ReasonDecision \in Reasons
      /\ pc' = "loop"
  BY <1>2, <1>3 DEF Decide, IsAssigned, Reasons, ReasonDecision
<1>5. tr'.trail_lim = t.trail_lim /\ tr'.qhead = t.qhead
  BY <1>3, <1>4, AssignFacts
<1> QED
  BY <1>1, <1>3, <1>4, <1>5 DEF QueueOK, DecisionLevel

-----------------------------------------------------------------------------
(* What steps do, for all parts of the invariant.                           *)

\* What add_clause keeps has no literal twice.
LEMMA CleanedOnce ==
    ASSUME NEW lits \in Seq(Lits), NEW c \in Cleaned(lits) PROVE NoRepeats(c)
<1> DEFINE S == {l \in ToSet(lits) : ~IsFalse(tr, l)}
<1>1. c \in [1..Cardinality(S) -> S] /\ \A i, j \in DOMAIN c : i < j => LitBefore(c[i], c[j])
  BY DEF Cleaned, Sorted
<1>2. c \in Seq(Lits) /\ DOMAIN c = 1..Len(c)
  BY CleanedFacts
<1> SUFFICES ASSUME NEW i \in 1..Len(c), NEW j \in 1..Len(c), c[i] = c[j], i < j PROVE FALSE
  BY <1>2 DEF NoRepeats
<1>3. LitBefore(c[i], c[i])
  BY <1>1, <1>2
<1>4. c[i] \in Lits /\ VarOf(c[i]) \in Vars
  BY <1>2, LitFacts
<1> QED
  BY <1>3, <1>4 DEF LitBefore, Vars

\* A literal that is neither true nor false is open.
LEMMA NeitherIsOpen ==
    ASSUME NEW t \in TrailRecords, NEW l \in Lits, ~IsTrue(t, l), ~IsFalse(t, l)
    PROVE  ~IsAssigned(t, VarOf(l))
<1>1. t.assigns[VarOf(l)] \in LBool
  BY TrailTypes, LitFacts
<1> QED
  BY <1>1 DEF IsTrue, IsFalse, LitValue, NotVal, LBool, IsAssigned

\* The outcomes of add_clause.
AddDropped(lits) ==
    /\ UNCHANGED <<db, ok, tr, pc, bcp>>
    /\ \/ ~ok
       \/ Redundant(lits) /\ AddVars(lits)
AddRefuted(lits) == ok' = FALSE /\ UNCHANGED <<db, tr, pc, bcp>>
AddUnit(lits) ==
    \E l \in ToSet(lits) :
        /\ l \in Lits /\ ~IsAssigned(tr, VarOf(l)) /\ tr' = Assign(tr, l, ReasonUnit)
        /\ pc' = "bcp" /\ bcp' = [bcp EXCEPT !.caller = "add_clause"]
        /\ ok /\ UNCHANGED <<db, ok>> /\ AddVars(lits)
AddStored(lits) ==
    \E c \in Seq(Lits) :
        /\ Len(c) > 1 /\ NoRepeats(c)
        /\ \A i \in 1..Len(c) : c[i] \in ToSet(lits) /\ ~IsFalse(tr, c[i])
        /\ arena' = Append(arena, NewClause(c, FALSE, 0))
        /\ watches' = Attach(watches, Len(arena) + 1, c)
        /\ ok /\ UNCHANGED <<ok, tr, pc, bcp>> /\ AddVars(lits)

LEMMA AddClauseCases ==
    ASSUME Inv, AddClause
    PROVE  \E lits \in Seq(Lits) :
              /\ inputs' = Append(inputs, lits) /\ pc = "idle"
              /\ UNCHANGED <<restarts, th, an, sv, scopes, model>>
              /\ AddDropped(lits) \/ AddRefuted(lits) \/ AddUnit(lits) \/ AddStored(lits)
<1>0. PICK lits : lits = Head(calls).lits
  OBVIOUS
<1>1. lits \in Seq(Lits) /\ pc = "idle" /\ inputs' = Append(inputs, lits)
      /\ UNCHANGED <<restarts, th, an, sv, scopes, model>>
  <2>1. lits \in Seq(Lits)
    BY <1>0, CallFacts DEF AddClause, Inv, TypeOK
  <2>2. UNCHANGED <<restarts, scopes, model>>
    BY DEF AddClause, AddVars, rest
  <2> QED
    BY <1>0, <2>1, <2>2 DEF AddClause, Call
<1>2. CASE ~ok /\ UNCHANGED <<db, rest, tr, heap, proof, pc, bcp>>
  <2>1. AddDropped(lits)
    BY <1>2 DEF AddDropped, rest
  <2> QED
    BY <1>1, <2>1
<1>3. CASE AddVars(lits) /\ Redundant(lits) /\ UNCHANGED <<db, ok, tr, proof, pc, bcp>>
  <2>1. AddDropped(lits)
    BY <1>3 DEF AddDropped
  <2> QED
    BY <1>1, <2>1
<1>4. ASSUME ok, AddVars(lits), ~Redundant(lits), NEW c \in Cleaned(lits), AddCleaned(c)
      PROVE  AddRefuted(lits) \/ AddUnit(lits) \/ AddStored(lits)
  <2>1. /\ c \in Seq(Lits) /\ NoRepeats(c)
        /\ \A i \in 1..Len(c) : c[i] \in ToSet(lits) /\ ~IsFalse(tr, c[i])
    BY <1>1, <1>4, CleanedFacts, CleanedOnce
  <2>2. CASE ok' = FALSE /\ UNCHANGED <<db, tr, pc, bcp>>
    BY <2>2 DEF AddRefuted
  <2>3. CASE /\ Len(c) = 1 /\ tr' = Assign(tr, c[1], ReasonUnit) /\ pc' = "bcp"
             /\ bcp' = [bcp EXCEPT !.caller = "add_clause"] /\ UNCHANGED <<db, ok, proof>>
    <3>0. 1 \in 1..Len(c)
      BY <2>3
    <3>4. c[1] \in ToSet(lits) /\ ~IsFalse(tr, c[1])
      BY ONLY <2>1, <3>0
    <3>5. c \in Seq(Lits)
      BY <2>1
    <3>6. c[1] \in Lits
      BY ONLY <3>0, <3>5, ElementFact
    <3>1. c[1] \in Lits /\ c[1] \in ToSet(lits) /\ ~IsFalse(tr, c[1])
      BY ONLY <3>4, <3>6
    <3>2. ~IsTrue(tr, c[1])
      BY <1>4, <3>1 DEF Redundant
    <3>3. ~IsAssigned(tr, VarOf(c[1]))
      BY <3>1, <3>2, NeitherIsOpen, ReasonTypes
    <3> QED
      BY <1>4, <2>3, <3>1, <3>3 DEF AddUnit
  <2>4. CASE /\ Len(c) > 1 /\ arena' = Append(arena, NewClause(c, FALSE, 0))
             /\ watches' = Attach(watches, Len(arena) + 1, c)
             /\ UNCHANGED <<ok, tr, proof, pc, bcp>>
    BY <1>4, <2>1, <2>4 DEF AddStored
  <2> QED
    BY <1>4, <2>2, <2>3, <2>4 DEF AddCleaned
<1>5. AddDropped(lits) \/ AddRefuted(lits) \/ AddUnit(lits) \/ AddStored(lits)
  BY <1>0, <1>2, <1>3, <1>4 DEF AddClause, AddDropped, rest
<1> QED
  BY <1>1, <1>5

\* What a step does to the trail, and what it then does next.
Assigns == \E l \in Lits, r \in Reasons : ~IsAssigned(tr, VarOf(l)) /\ tr' = Assign(tr, l, r)
Decides == \E l \in Lits : pc = "decide" /\ ~IsAssigned(tr, VarOf(l)) /\ Decide(l)
Backtracks == \E level \in Nat : tr' = BacktrackTo(tr, level)
VisitsOn == pc = "visit" /\ pc' = "visit" /\ bcp'.lit = bcp.lit
AsksTheory == tr.qhead = Len(tr.trail) /\ pc' \in {"theory", "decide"}

LEMMA ClientTrail ==
    ASSUME Inv, Client
    PROVE  pc' \notin {"visit", "theory", "decide"} /\ (UNCHANGED tr \/ Assigns \/ Backtracks)
<1>1. pc = "idle"
  BY DEF Client, NewVar, AddClause, Push, Pop, Solve, Call
<1>2. CASE AddClause
  <2>1. PICK lits \in Seq(Lits) :
            AddDropped(lits) \/ AddRefuted(lits) \/ AddUnit(lits) \/ AddStored(lits)
    BY <1>2, AddClauseCases
  <2>2. ReasonUnit \in Reasons
    BY DEF ReasonUnit, Reasons
  <2> QED
    BY <1>1, <2>1, <2>2 DEF AddDropped, AddRefuted, AddUnit, AddStored, Assigns
<1>3. CASE NewVar \/ Push
  BY <1>1, <1>3 DEF NewVar, Push
<1>4. CASE Pop \/ Solve
  <2>1. 0 \in Nat
    OBVIOUS
  <2> QED
    BY <1>1, <1>4, <2>1 DEF Pop, Solve, Backtracks
<1> QED
  BY <1>2, <1>3, <1>4 DEF Client

LEMMA PropagateTrail ==
    ASSUME Inv, Propagate
    PROVE  \/ BcpDequeue
           \/ /\ UNCHANGED tr
              /\ VisitsOn \/ AsksTheory \/ pc' \notin {"visit", "theory", "decide"}
           \/ Assigns /\ VisitsOn
<1>1. bcp \in BcpRecords(arena) /\ tr \in TrailRecords /\ TrailInv(tr)
  BY ReasonTypes
<1>2. CASE VisitSkip \/ VisitSatisfied \/ VisitRewatch
  <2>1. UNCHANGED tr /\ pc = "visit" /\ pc' = "visit" /\ bcp'.lit = bcp.lit
    BY <1>1, <1>2 DEF VisitSkip, VisitSatisfied, VisitRewatch, Visit, BcpRecords
  <2> QED
    BY <2>1 DEF VisitsOn
<1>3. CASE VisitUnit
  <2>1. /\ pc = "visit" /\ pc' = "visit" /\ bcp'.lit = bcp.lit /\ bcp.todo # << >>
        /\ tr' = Assign(tr, First, AtHand.clause) /\ LitValue(tr, First) = "Undef"
    BY <1>1, <1>3 DEF VisitUnit, Visit, BcpRecords
  <2>2. First \in Lits /\ AtHand.clause \in Reasons
    BY <2>1, AtHandFacts DEF Reasons
  <2>3. ~IsAssigned(tr, VarOf(First))
    BY <1>1, <2>1, <2>2, NeitherIsOpen DEF IsTrue, IsFalse
  <2> QED
    BY <2>1, <2>2, <2>3 DEF VisitsOn, Assigns
<1>4. CASE VisitConflict \/ VisitEnd
  BY <1>4 DEF VisitConflict, VisitEnd
<1>5. CASE BcpOk
  <2>1. tr.qhead = Len(tr.trail)
    BY <1>1, <1>5, TrailTypes DEF BcpOk, HasUnpropagated, TrailInv
  <2> QED
    BY <1>5, <2>1 DEF BcpOk, AsksTheory
<1> QED
  BY <1>2, <1>3, <1>4, <1>5 DEF Propagate

LEMMA ConflictTrail ==
    ASSUME Inv, Conflict
    PROVE  pc' \notin {"visit", "theory", "decide"} /\ (UNCHANGED tr \/ Assigns \/ Backtracks)
<1>1. CASE Backjump
  <2>1. an.backtrack_level \in Nat /\ 0 \in Nat
    BY ReasonTypes, AnFacts
  <2>2. tr' = BacktrackTo(tr, an.backtrack_level) \/ tr' = BacktrackTo(tr, 0)
    BY <1>1 DEF Backjump
  <2>3. pc' \in {"reduce", "learn"}
    BY <1>1 DEF Backjump
  <2> QED
    BY <2>1, <2>2, <2>3 DEF Backtracks
<1>2. CASE Learn
  <2>1. an.learned \in Seq(Lits) /\ Len(an.learned) > 0 /\ Len(arena) + 1 \in Reasons
        /\ ReasonUnit \in Reasons
    BY <1>2, ReasonTypes, AnFacts DEF Inv, TypeOK, ControlOK, Learn, Reasons, ReasonUnit
  <2>2. an.learned[1] \in Lits
    BY <2>1
  <2>3. UNCHANGED tr \/ Assigns
    BY <1>2, <2>1, <2>2 DEF Learn, Assigns
  <2> QED
    BY <1>2, <2>3 DEF Learn
<1>3. CASE \/ ConflictInAddClause \/ ConflictBeforeSearch \/ ConflictAtLevelZero
           \/ StartAnalysis \/ MarkLit \/ PickLit \/ AssumptionsRefuted \/ ReduceDb
  BY <1>3 DEF ConflictInAddClause, ConflictBeforeSearch, ConflictAtLevelZero, StartAnalysis,
              MarkLit, PickLit, AssumptionsRefuted, ReduceDb
<1> QED
  BY <1>1, <1>2, <1>3 DEF Conflict

LEMMA SearchTrail ==
    ASSUME Inv, Search
    PROVE  \/ UNCHANGED tr /\ (pc' \notin {"visit", "theory", "decide"} \/ TheoryOk)
           \/ Decides
           \/ pc' = "answered" /\ Backtracks
<1>1. CASE DecideAssumption
  <2>1. CASE UNCHANGED tr /\ pc' \in {"finish", "loop"}
    BY <2>1
  <2>2. ASSUME NEW p, p = sv.assumptions[sv.cur + 1], ~IsAssigned(tr, VarOf(p)), Decide(p)
        PROVE  Decides
    <3>1. sv.assumptions \in Seq(Lits) /\ sv.cur \in Nat /\ sv.cur < Len(sv.assumptions)
      BY <1>1, ReasonTypes, SvFacts DEF DecideAssumption, AssumptionsLeft
    <3>2. p \in Lits
      BY <2>2, <3>1
    <3> QED
      BY <1>1, <2>2, <3>2 DEF DecideAssumption, Decides
  <2> QED
    BY <1>1, <2>1, <2>2 DEF DecideAssumption
<1>2. CASE DecideVar
  <2>1. PICK v \in Selected : Decide(NewLit(v, tr.phase[v]))
    BY <1>2 DEF DecideVar
  <2>2. v \in Vars /\ ~IsAssigned(tr, v)
    <3>0. heap \subseteq Vars /\ num_vars \in 0..NumVars
      BY DEF Inv, TypeOK, RestOK
    <3>1. heap \subseteq Vars /\ 1..num_vars \subseteq Vars
      BY <3>0, NumVarsAssumption DEF Vars
    <3> QED
      BY <3>1 DEF Selected, Open
  <2>3. tr.phase[v] \in BOOLEAN
    BY <2>2 DEF Inv, TypeOK, TrailOK, TrailRecords
  <2>4. NewLit(v, tr.phase[v]) \in Lits /\ VarOf(NewLit(v, tr.phase[v])) = v
    BY <2>2, <2>3, LitOfVar
  <2> QED
    BY <1>2, <2>1, <2>2, <2>4 DEF DecideVar, Decides
<1>3. CASE Finish
  <2>1. 0 \in Nat
    OBVIOUS
  <2> QED
    BY <1>3, <2>1 DEF Finish, Backtracks
<1>4. CASE BudgetExhausted \/ Loop \/ TheoryConflict \/ AllAssigned \/ Return
  BY <1>4 DEF BudgetExhausted, Loop, TheoryConflict, AllAssigned, Return
<1>5. CASE TheoryOk
  BY <1>5 DEF TheoryOk
<1> QED
  BY <1>1, <1>2, <1>3, <1>4, <1>5 DEF Search

-----------------------------------------------------------------------------
(* The queue, and when the solver is ok.                                    *)

LEMMA QueueDequeue ==
    ASSUME Inv, QueueOK, BcpDequeue PROVE QueueOK'
<1>1. tr \in TrailRecords /\ tr.qhead \in Nat /\ tr.trail_lim \in Seq(Nat)
      /\ DecisionLevel(tr) = Len(tr.trail_lim)
  BY ReasonTypes, TrailTypes
<1>2. tr'.trail = tr.trail /\ tr'.trail_lim = tr.trail_lim /\ tr'.qhead = tr.qhead + 1
  BY <1>1, DequeueFacts DEF BcpDequeue
<1>3. bcp'.lit = tr.trail[tr.qhead + 1] /\ pc' = "visit"
  BY ReasonTypes DEF BcpDequeue, BcpRecords, NextUnpropagated
<1>4. \A k \in 1..Len(tr.trail_lim) : tr.trail_lim[k] \in Nat /\ tr.trail_lim[k] <= tr.qhead
  BY <1>1 DEF QueueOK
<1> QED
  BY <1>1, <1>2, <1>3, <1>4 DEF QueueOK, DecisionLevel

LEMMA QueueStep == ASSUME Inv, QueueOK, [Next]_vars PROVE QueueOK'
<1>1. CASE UNCHANGED vars
  BY <1>1 DEF vars, QueueOK, DecisionLevel
<1>2. CASE /\ UNCHANGED tr
           /\ VisitsOn \/ AsksTheory \/ TheoryOk \/ pc' \notin {"visit", "theory", "decide"}
  BY <1>2 DEF QueueOK, DecisionLevel, VisitsOn, AsksTheory, TheoryOk
<1>3. CASE Assigns /\ (VisitsOn \/ pc' \notin {"visit", "theory", "decide"})
  BY <1>3, QueueAssign DEF Assigns, VisitsOn
<1>4. CASE Backtracks /\ pc' \notin {"visit", "theory", "decide"}
  BY <1>4, QueueBacktrack DEF Backtracks
<1>5. CASE Decides
  BY <1>5, QueueDecide DEF Decides
<1> QED
  BY <1>1, <1>2, <1>3, <1>4, <1>5, QueueDequeue, ClientTrail, PropagateTrail, ConflictTrail,
     SearchTrail DEF Next, Step

LEMMA BusyStep == ASSUME Inv, Busy, [Next]_vars PROVE Busy'
<1>1. CASE UNCHANGED vars
  BY <1>1 DEF vars, rest, Busy
<1>2. CASE AddClause
  <2>1. PICK lits \in Seq(Lits) :
            pc = "idle" /\ (AddDropped(lits) \/ AddRefuted(lits) \/ AddUnit(lits) \/ AddStored(lits))
    BY <1>2, AddClauseCases
  <2> QED
    BY <2>1 DEF Busy, AddDropped, AddRefuted, AddUnit, AddStored
<1>3. CASE NewVar \/ Push \/ Pop \/ Solve
  BY <1>3 DEF Busy, NewVar, Push, Pop, Solve, Call, rest
<1>4. CASE Propagate
  BY <1>4 DEF Busy, Propagate, BcpDequeue, VisitSkip, VisitSatisfied, VisitRewatch, VisitUnit,
              VisitConflict, VisitEnd, BcpOk, Visit, KeepRest, rest
<1>5. CASE Conflict
  BY <1>5 DEF Busy, Conflict, ConflictInAddClause, ConflictBeforeSearch, ConflictAtLevelZero,
              StartAnalysis, MarkLit, PickLit, AssumptionsRefuted, Backjump, ReduceDb, Learn, rest
<1>6. CASE Search
  BY <1>6 DEF Busy, Search, BudgetExhausted, Loop, TheoryConflict, TheoryOk, DecideAssumption,
              DecideVar, AllAssigned, Finish, Return, Decide, rest
<1> QED
  BY <1>1, <1>2, <1>3, <1>4, <1>5, <1>6 DEF Next, Step, Client

\* Steps that do not touch the levels.
LEMMA SameLevels ==
    ASSUME Inv, tr' = tr \/ tr' = Dequeue(tr) \/ Assigns
    PROVE  DecisionLevel(tr') = DecisionLevel(tr)
<1>1. tr \in TrailRecords /\ TrailInv(tr)
  BY ReasonTypes
<1>2. CASE Assigns
  BY <1>1, <1>2, AssignFacts DEF Assigns, DecisionLevel
<1> QED
  BY <1>1, <1>2, DequeueFacts DEF DecisionLevel

\* Only a restart ends what holds until one.
LEMMA StaysUndisturbed ==
    ASSUME Inv, [Next]_vars, Undisturbed' PROVE Undisturbed
<1>1. CASE Backjump
  BY <1>1, NoRestart DEF Undisturbed, Backjump
<1>2. CASE UNCHANGED vars
  BY <1>2 DEF vars, rest, Undisturbed, Unrestarted
<1>3. CASE Client
  <2>1. pc = "idle" /\ UNCHANGED restarts
    BY <1>3 DEF Client, NewVar, AddClause, AddVars, Push, Pop, Solve, Call, rest
  <2> QED
    BY <2>1 DEF Undisturbed, Unrestarted
<1>4. CASE Propagate
  <2>1. pc \in {"bcp", "visit"} /\ UNCHANGED restarts
    BY <1>4 DEF Propagate, BcpDequeue, VisitSkip, VisitSatisfied, VisitRewatch, VisitUnit,
                VisitConflict, VisitEnd, BcpOk, Visit, KeepRest, rest
  <2> QED
    BY <2>1 DEF Undisturbed, Unrestarted
<1>5. CASE Conflict /\ ~Backjump
  <2>1. pc \in {"conflict", "mark", "learned", "reduce", "learn"} /\ UNCHANGED restarts
    BY <1>5 DEF Conflict, ConflictInAddClause, ConflictBeforeSearch, ConflictAtLevelZero,
                StartAnalysis, MarkLit, PickLit, AssumptionsRefuted, ReduceDb, Learn, rest
  <2> QED
    BY <2>1 DEF Undisturbed, Unrestarted
<1>6. CASE Search
  <2>1. pc \in {"loop", "theory", "decide", "finish", "answered"} /\ UNCHANGED restarts
    BY <1>6 DEF Search, BudgetExhausted, Loop, TheoryConflict, TheoryOk, DecideAssumption,
                DecideVar, AllAssigned, Finish, Return, rest
  <2> QED
    BY <2>1 DEF Undisturbed, Unrestarted
<1> QED
  BY <1>1, <1>2, <1>3, <1>4, <1>5, <1>6 DEF Next, Step

\* Where a backjump lands.
LEMMA BackjumpLevel ==
    ASSUME ReasonInv, Backjump, Undisturbed'
    PROVE  /\ an.backtrack_level \in Nat /\ an.backtrack_level < DecisionLevel(tr)
           /\ tr' = BacktrackTo(tr, an.backtrack_level)
           /\ DecisionLevel(tr') = an.backtrack_level
           /\ AssumptionRun => Len(sv.assumptions) > 0
                               /\ Len(sv.assumptions) <= an.backtrack_level
<1>1. Inv /\ tr \in TrailRecords /\ TrailInv(tr) /\ pc = "learned" /\ Undisturbed
      /\ an.backtrack_level \in Nat
  BY ReasonTypes, AnFacts, NoRestart DEF ReasonInv, WatchInv, Backjump, Undisturbed
<1>2. tr' = BacktrackTo(tr, an.backtrack_level)
  BY <1>1, NoRestart DEF Undisturbed
<1>3. an.backtrack_level < DecisionLevel(tr)
  BY <1>1 DEF ReasonInv, SearchOK, Learned
<1>4. DecisionLevel(tr') = an.backtrack_level
  BY <1>1, <1>2, <1>3, BacktrackFacts DEF DecisionLevel
<1>5. ASSUME AssumptionRun
      PROVE  Len(sv.assumptions) > 0 /\ Len(sv.assumptions) <= an.backtrack_level
  <2>1. sv.assumptions \in Seq(Lits) /\ sv.assumptions # << >>
    BY <1>1, <1>5, ReasonTypes, SvFacts DEF AssumptionRun
  <2>2. ~(an.backtrack_level < Len(sv.assumptions))
    BY <1>5 DEF Backjump, RefutesAssumptions
  <2> QED
    BY <1>1, <2>1, <2>2
<1> QED
  BY <1>1, <1>2, <1>3, <1>4, <1>5

\* A decision opens a level.
LEMMA DecidesLevel ==
    ASSUME Inv, NEW l \in Lits, ~IsAssigned(tr, VarOf(l)), Decide(l)
    PROVE  DecisionLevel(tr') = DecisionLevel(tr) + 1 /\ DecisionLevel(tr) \in Nat
<1>1. tr \in TrailRecords /\ TrailInv(tr) /\ Len(tr.trail_lim) \in Nat
  BY ReasonTypes, TrailTypes
<1>2. PICK t : t = NewDecisionLevel(tr)
  OBVIOUS
<1>3. t \in TrailRecords /\ TrailInv(t) /\ t.assigns = tr.assigns
      /\ Len(t.trail_lim) = Len(tr.trail_lim) + 1
  BY <1>1, <1>2, NewDecisionLevelOK, NewLevelFacts
<1>4. tr' = Assign(t, l, ReasonDecision) /\ ~IsAssigned(t, VarOf(l)) /\ ReasonDecision \in Reasons
  BY <1>2, <1>3 DEF Decide, IsAssigned, Reasons, ReasonDecision
<1>5. tr'.trail_lim = t.trail_lim
  BY <1>3, <1>4, AssignFacts
<1> QED
  BY <1>1, <1>3, <1>5 DEF DecisionLevel

LEMMA AtZeroStep ==
    ASSUME ReasonInv, QueueOK, Undisturbed => AtZero, [Next]_vars PROVE Undisturbed' => AtZero'
<1>0. Inv /\ bcp \in BcpRecords(arena) /\ sv \in SvRecords /\ an \in AnRecords
  BY ReasonTypes DEF ReasonInv, WatchInv
<1> SUFFICES ASSUME Undisturbed', Searching', AssumptionRun', DecisionLevel(tr') = 0
             PROVE  /\ tr'.qhead = Len(tr'.trail)
                    /\ pc' \in {"loop", "bcp", "theory", "decide", "conflict"}
                    /\ pc' = "conflict" => an'.origin = "theory"
  BY DEF AtZero
<1>1. Undisturbed /\ AtZero /\ SearchOK
  BY <1>0, StaysUndisturbed DEF ReasonInv
<1>2. CASE UNCHANGED vars
  BY <1>1, <1>2
  DEF vars, rest, AtZero, Searching, InSearch, AssumptionRun
<1>3. CASE Client
  <2>1. pc' \in {"idle", "bcp", "answered"} /\ (pc' = "bcp" => bcp'.caller # "solve_internal")
    <3>1. CASE AddClause
      <4>1. PICK lits \in Seq(Lits) :
              pc = "idle" /\ (AddDropped(lits) \/ AddRefuted(lits) \/ AddUnit(lits) \/ AddStored(lits))
        BY <1>0, <3>1, AddClauseCases
      <4> QED
        BY <1>0, <4>1 DEF AddDropped, AddRefuted, AddUnit, AddStored, BcpRecords
    <3>2. CASE NewVar \/ Push \/ Pop
      BY <3>2 DEF NewVar, Push, Pop, Call
    <3>3. CASE Solve
      BY <1>0, <3>3 DEF Solve, BcpRecords
    <3> QED
      BY <1>3, <3>1, <3>2, <3>3 DEF Client
  <2> QED
    BY <2>1 DEF Searching, InSearch
<1>4. CASE BcpOk
  <2>1. UNCHANGED <<tr, bcp, sv>> /\ pc = "bcp" /\ pc' \in {"idle", "loop", "theory"}
    BY <1>4 DEF BcpOk
  <2>2. tr.qhead = Len(tr.trail)
    BY <1>0, <1>4, ReasonTypes, TrailTypes DEF BcpOk, HasUnpropagated, TrailInv
  <2> QED
    BY <2>1, <2>2 DEF Searching
<1>5. CASE Propagate /\ ~BcpOk
  <2>1. /\ pc \in {"bcp", "visit"} /\ UNCHANGED sv /\ bcp'.caller = bcp.caller
        /\ pc' \in {"visit", "bcp", "conflict"}
        /\ pc = "bcp" => HasUnpropagated(tr)
    BY <1>0, <1>5 DEF Propagate, BcpDequeue, VisitSkip, VisitSatisfied, VisitRewatch, VisitUnit,
                VisitConflict, VisitEnd, Visit, KeepRest, rest, BcpRecords
  <2>2. DecisionLevel(tr) = 0
    BY <1>0, <1>5, PropagateTrail, SameLevels DEF BcpDequeue
  <2>3. Searching /\ AssumptionRun
    BY <2>1 DEF Searching, InSearch, AssumptionRun
  <2>4. pc = "bcp" /\ tr.qhead = Len(tr.trail)
    BY <1>1, <2>1, <2>2, <2>3 DEF AtZero
  <2> QED
    BY <1>0, <2>1, <2>4, ReasonTypes, TrailTypes DEF HasUnpropagated
<1>6. CASE Backjump
  BY <1>0, <1>6, BackjumpLevel DEF Backjump, AssumptionRun
<1>7. CASE Conflict /\ ~Backjump
  <2>1. CASE pc' \in {"idle", "answered", "finish", "panic"}
    BY <2>1 DEF Searching
  <2>2. CASE StartAnalysis
    BY <2>2 DEF StartAnalysis
  <2>3. CASE MarkLit \/ PickLit
    <3>1. pc = "mark" /\ UNCHANGED tr
      BY <2>3 DEF MarkLit, PickLit
    <3>2. an.backtrack_level < DecisionLevel(tr) /\ an.backtrack_level \in Nat
      BY <1>0, <1>1, <3>1, AnFacts DEF SearchOK, Learned
    <3> QED
      BY <3>1, <3>2
  <2>4. CASE ReduceDb \/ Learn
    <3>1. pc \in {"reduce", "learn"} /\ UNCHANGED sv
      BY <2>4 DEF ReduceDb, Learn
    <3>2. DecisionLevel(tr) = 0 \/ pc' = "panic"
      <4>1. CASE ReduceDb
        BY <4>1 DEF ReduceDb
      <4>2. CASE Learn
        <5>1. UNCHANGED tr \/ Assigns \/ pc' = "panic"
          <6>1. an.learned \in Seq(Lits) /\ Len(an.learned) > 0 /\ Len(arena) + 1 \in Reasons
                /\ ReasonUnit \in Reasons
            BY <1>0, <4>2, ReasonTypes, AnFacts
            DEF Inv, TypeOK, ControlOK, Learn, Reasons, ReasonUnit
          <6>2. an.learned[1] \in Lits
            BY <6>1
          <6> QED
            BY <4>2, <6>1, <6>2 DEF Learn, Assigns
        <5> QED
          BY <1>0, <5>1, SameLevels
      <4> QED
        BY <2>4, <4>1, <4>2
    <3> QED
      BY <1>1, <3>1, <3>2 DEF AtZero, Searching, AssumptionRun, Undisturbed
  <2> QED
    BY <1>7, <2>1, <2>2, <2>3, <2>4
    DEF Conflict, ConflictInAddClause, ConflictBeforeSearch, ConflictAtLevelZero, AssumptionsRefuted
<1>8. CASE Search
  <2>1. CASE pc' \in {"finish", "answered", "idle"}
    BY <2>1 DEF Searching
  <2>2. CASE Decides
    BY <1>0, <2>2, DecidesLevel DEF Decides
  <2>3. CASE UNCHANGED tr
    <3>1. CASE Loop \/ TheoryConflict \/ TheoryOk
      <4>1. Searching /\ AssumptionRun
        BY <1>0, <3>1
        DEF Loop, TheoryConflict, TheoryOk, Searching, AssumptionRun, SvRecords
      <4> QED
        BY <1>0, <1>1, <2>3, <3>1, <4>1 DEF AtZero, Loop, TheoryConflict, TheoryOk, AnRecords
    <3>2. CASE DecideAssumption \/ DecideVar
      <4>1. pc = "decide" /\ pc' \in {"loop", "finish"}
        BY <3>2 DEF DecideAssumption, DecideVar, Decide
      <4>2. tr.qhead = Len(tr.trail)
        BY <4>1 DEF QueueOK
      <4> QED
        BY <2>1, <2>3, <4>1, <4>2
    <3> QED
      BY <1>8, <2>1, <3>1, <3>2 DEF Search, BudgetExhausted, AllAssigned, Finish, Return
  <2> QED
    BY <1>0, <1>8, <2>1, <2>2, <2>3, SearchTrail DEF TheoryOk
<1> QED
  BY <1>2, <1>3, <1>4, <1>5, <1>6, <1>7, <1>8 DEF Next, Step

-----------------------------------------------------------------------------
(* What becomes of clauses.                                                 *)

\* Two literals of a clause change places.
LEMMA SwapTwo ==
    ASSUME NEW c \in Seq(Lits), NEW i \in 1..Len(c), NEW j \in 1..Len(c), NEW d \in Seq(Lits),
           Len(d) = Len(c), d[i] = c[j], d[j] = c[i],
           \A k \in 1..Len(c) : k # i /\ k # j => d[k] = c[k]
    PROVE  ToSet(d) = ToSet(c) /\ (NoRepeats(c) => NoRepeats(d))
<1>1. DOMAIN c = 1..Len(c) /\ DOMAIN d = 1..Len(c)
  OBVIOUS
<1>2. \A x : (\E k \in 1..Len(c) : c[k] = x) <=> (\E k \in 1..Len(c) : d[k] = x)
  OBVIOUS
<1>3. ToSet(d) = ToSet(c)
  BY <1>1, <1>2 DEF ToSet
<1>4. ASSUME NoRepeats(c) PROVE NoRepeats(d)
  BY <1>4 DEF NoRepeats
<1> QED
  BY <1>3, <1>4

Exchanged(c, d, i, j) == d = [c EXCEPT ![j] = c[i], ![i] = c[j]]
LEMMA TwoExchanged ==
    ASSUME NEW c \in Seq(Lits), NEW i \in 1..Len(c), NEW j \in 1..Len(c), i # j,
           NEW d, Exchanged(c, d, i, j)
    PROVE  /\ d \in Seq(Lits) /\ Len(d) = Len(c) /\ d[i] = c[j] /\ d[j] = c[i]
           /\ \A k \in 1..Len(c) : k # i /\ k # j => d[k] = c[k]
           /\ ToSet(d) = ToSet(c) /\ (NoRepeats(c) => NoRepeats(d))
<1>1. /\ Len(d) = Len(c) /\ d[i] = c[j] /\ d[j] = c[i]
      /\ \A k \in 1..Len(c) : k # i /\ k # j => d[k] = c[k]
  BY DEF Exchanged
<1>2. d \in Seq(Lits)
  <2>1. c[i] \in Lits /\ c[j] \in Lits
    BY ElementFact
  <2> QED
    BY <2>1 DEF Exchanged
<1>3. ToSet(d) = ToSet(c) /\ (NoRepeats(c) => NoRepeats(d))
  BY <1>1, <1>2, SwapTwo
<1> QED
  BY <1>1, <1>2, <1>3

\* The clause at hand, as it is read and as it is written back.
SameLiterals(d, c) ==
    d \in Seq(Lits) /\ Len(d) = Len(c) /\ ToSet(d) = ToSet(c) /\ (NoRepeats(c) => NoRepeats(d))

LEMMA AtHandSame ==
    ASSUME WatchInv, pc = "visit", bcp.todo # << >>
    PROVE  LET c == arena[AtHand.clause].lits
           IN  /\ AtHand.clause \in ClauseIds /\ c \in Seq(Lits) /\ Len(c) > 1
               /\ SameLiterals(ClauseAtHand, c) /\ ClauseAtHand[2] = Neg(bcp.lit)
               /\ \/ First = c[1] /\ Neg(bcp.lit) = c[2]
                  \/ First = c[2] /\ Neg(bcp.lit) = c[1]
<1>0. PICK d, c, h : d = AtHand.clause /\ c = arena[d].lits /\ h = ClauseAtHand
  OBVIOUS
<1>1. Inv /\ d \in ClauseIds /\ bcp.lit \in Lits /\ h \in Seq(Lits) /\ Len(h) > 1 /\ Len(h) = Len(c)
      /\ h[2] = Neg(bcp.lit)
  BY <1>0, AtHandWatched, AtHandFacts, WatchTypes DEF WatchInv
<1>2. c \in Seq(Lits) /\ Len(c) \in Nat
  <2>1. arena \in Seq(ArenaClauses) /\ d \in 1..Len(arena)
    BY <1>1, WatchTypes
  <2>2. c \in Seq(Lits)
    BY <1>0, <2>1, ClauseFacts
  <2> QED
    BY <2>2
<1>3. h[1] = First
  BY <1>0 DEF First
<1>4. CASE h = c
  BY <1>0, <1>1, <1>2, <1>3, <1>4 DEF SameLiterals
<1>5. CASE h # c
  <2>1. c[1] = Neg(bcp.lit) /\ h = [c EXCEPT ![1] = c[2], ![2] = Neg(bcp.lit)]
    BY <1>0, <1>5 DEF ClauseAtHand, Swapped
  <2>2. 1 \in 1..Len(c) /\ 2 \in 1..Len(c)
    BY <1>1, <1>2
  <2>3. h[1] = c[2] /\ h[2] = c[1] /\ \A k \in 1..Len(c) : k # 1 /\ k # 2 => h[k] = c[k]
    BY <1>2, <2>1, <2>2
  <2>4. ToSet(h) = ToSet(c) /\ (NoRepeats(c) => NoRepeats(h))
    BY <1>1, <1>2, <2>2, <2>3, SwapTwo
  <2> QED
    BY <1>0, <1>1, <1>2, <1>3, <2>1, <2>3, <2>4 DEF SameLiterals
<1> QED
  BY <1>4, <1>5

Rewatched(d, i) == d = [ClauseAtHand EXCEPT ![2] = ClauseAtHand[i], ![i] = Neg(bcp.lit)]
LEMMA RewatchSame ==
    ASSUME WatchInv, pc = "visit", bcp.todo # << >>, NEW i \in NewWatches,
           NEW d, Rewatched(d, i)
    PROVE  /\ SameLiterals(d, arena[AtHand.clause].lits)
           /\ d[1] = First /\ d[2] = ClauseAtHand[i] /\ d[2] \in Lits
<1>0. PICK c, h : c = arena[AtHand.clause].lits /\ h = ClauseAtHand
  OBVIOUS
<1>1. /\ SameLiterals(h, c) /\ h[2] = Neg(bcp.lit) /\ Len(c) > 1 /\ c \in Seq(Lits)
      /\ h \in Seq(Lits) /\ i \in 3..Len(h) /\ h[1] = First
  BY <1>0, AtHandSame DEF NewWatches, First, SameLiterals
<1>2. 1 \in 1..Len(h) /\ 2 \in 1..Len(h) /\ i \in 1..Len(h) /\ i # 2 /\ i # 1
  BY <1>1
<1>3. Exchanged(h, d, i, 2)
  BY <1>0, <1>1 DEF Rewatched, Exchanged
<1>4. /\ d \in Seq(Lits) /\ Len(d) = Len(h) /\ d[2] = h[i] /\ d[1] = h[1]
      /\ ToSet(d) = ToSet(h) /\ (NoRepeats(h) => NoRepeats(d))
  BY <1>1, <1>2, <1>3, TwoExchanged
<1>7. h[i] \in Lits
  BY <1>1, <1>2, ElementFact
<1> QED
  BY <1>0, <1>1, <1>4, <1>7 DEF SameLiterals

\* What a step does to the arena.
ArenaAdds ==
    \E x \in ArenaClauses :
        /\ arena' = Append(arena, x)
        /\ x.learned \/ (Len(x.lits) > 1 /\ NoRepeats(x.lits))
ArenaWrites ==
    /\ pc = "visit" /\ bcp.todo # << >>
    /\ \E lits : /\ SameLiterals(lits, arena[AtHand.clause].lits)
                 /\ arena' = [arena EXCEPT ![AtHand.clause].lits = lits]
ArenaMarks == \E S : arena' = WithDeleted(S)

LEMMA ArenaStep ==
    ASSUME WatchInv, [Next]_vars
    PROVE  UNCHANGED arena \/ ArenaAdds \/ ArenaWrites \/ (ArenaMarks /\ (Pop \/ ReduceDb \/ Finish))
<1>0. Inv
  BY DEF WatchInv
<1>1. CASE UNCHANGED vars
  BY <1>1 DEF vars, db
<1>2. CASE AddClause
  <2>1. PICK lits \in Seq(Lits) :
            AddDropped(lits) \/ AddRefuted(lits) \/ AddUnit(lits) \/ AddStored(lits)
    BY <1>0, <1>2, AddClauseCases
  <2>2. ASSUME NEW c \in Seq(Lits), Len(c) > 1, NoRepeats(c),
               arena' = Append(arena, NewClause(c, FALSE, 0))
        PROVE  ArenaAdds
    <3>1. NewClause(c, FALSE, 0) \in ArenaClauses /\ NewClause(c, FALSE, 0).lits = c
      BY NewClauseOK
    <3> QED
      BY <2>2, <3>1 DEF ArenaAdds
  <2> QED
    BY <2>1, <2>2 DEF AddDropped, AddRefuted, AddUnit, AddStored, db
<1>3. CASE NewVar \/ Push \/ Pop \/ Solve
  <2>1. UNCHANGED arena \/ (Pop /\ \E S : arena' = WithDeleted(S))
    BY <1>3 DEF NewVar, Push, Pop, Solve, db
  <2> QED
    BY <2>1 DEF ArenaMarks
<1>4. CASE VisitSatisfied \/ VisitUnit \/ VisitConflict
  <2>1. pc = "visit" /\ bcp.todo # << >>
        /\ arena' = [arena EXCEPT ![AtHand.clause].lits = ClauseAtHand]
    BY <1>4 DEF VisitSatisfied, VisitUnit, VisitConflict, Visit
  <2> QED
    BY <2>1, AtHandSame DEF ArenaWrites
<1>5. CASE VisitRewatch
  <2>1. pc = "visit" /\ bcp.todo # << >>
    BY <1>5 DEF VisitRewatch, Visit
  <2>2. PICK i \in NewWatches :
            arena' = [arena EXCEPT ![AtHand.clause].lits =
                        [ClauseAtHand EXCEPT ![2] = ClauseAtHand[i], ![i] = Neg(bcp.lit)]]
    BY <1>5 DEF VisitRewatch
  <2>3. PICK d : Rewatched(d, i)
    BY DEF Rewatched
  <2>4. arena' = [arena EXCEPT ![AtHand.clause].lits = d]
    BY <2>2, <2>3 DEF Rewatched
  <2> QED
    BY <2>1, <2>3, <2>4, RewatchSame DEF ArenaWrites
<1>6. CASE BcpDequeue \/ VisitSkip \/ VisitEnd \/ BcpOk
  BY <1>6 DEF BcpDequeue, VisitSkip, VisitEnd, BcpOk, db
<1>7. CASE Learn \/ TheoryConflict
  <2>1. \/ UNCHANGED arena
        \/ \E c \in Seq(Lits), n \in Nat : arena' = Append(arena, NewClause(c, TRUE, n))
    <3>1. an \in AnRecords /\ TheoryClauses \subseteq Seq(Lits)
      BY <1>0, ReasonTypes, SolverAssumption
    <3>2. an.learned \in Seq(Lits) /\ an.lbd \in Nat
      BY <3>1, AnFacts
    <3> QED
      BY <1>7, <3>1, <3>2 DEF Learn, TheoryConflict, FalseTheoryClauses, db
  <2>2. ASSUME NEW c \in Seq(Lits), NEW n \in Nat, arena' = Append(arena, NewClause(c, TRUE, n))
        PROVE  ArenaAdds
    <3>1. NewClause(c, TRUE, n) \in ArenaClauses /\ NewClause(c, TRUE, n).learned
      BY NewClauseOK DEF NewClause
    <3> QED
      BY <2>2, <3>1 DEF ArenaAdds
  <2> QED
    BY <2>1, <2>2
<1>8. CASE Conflict /\ ~Learn
  <2>1. UNCHANGED arena \/ (ReduceDb /\ \E S : arena' = WithDeleted(S))
    BY <1>8 DEF Conflict, ConflictInAddClause, ConflictBeforeSearch, ConflictAtLevelZero,
                StartAnalysis, MarkLit, PickLit, AssumptionsRefuted, Backjump, ReduceDb, db
  <2> QED
    BY <2>1 DEF ArenaMarks
<1>9. CASE Search /\ ~TheoryConflict
  <2>1. UNCHANGED arena \/ (Finish /\ \E S : arena' = WithDeleted(S))
    BY <1>9 DEF Search, BudgetExhausted, Loop, TheoryOk, DecideAssumption, DecideVar, AllAssigned,
                Finish, Return, db
  <2> QED
    BY <2>1 DEF ArenaMarks
<1> QED
  BY <1>1, <1>2, <1>3, <1>4, <1>5, <1>6, <1>7, <1>8, <1>9 DEF Next, Step, Client, Propagate

\* A clause stays the clause it is, whatever order its literals are in.
LEMMA ClausesStay ==
    ASSUME WatchInv, [Next]_vars
    PROVE  /\ Len(arena') \in Nat /\ Len(arena) <= Len(arena')
           /\ \A c \in ClauseIds :
                /\ arena'[c].learned = arena[c].learned
                /\ Len(arena'[c].lits) = Len(arena[c].lits)
                /\ LitsOf(c)' = LitsOf(c)
                /\ NoRepeats(arena[c].lits) => NoRepeats(arena'[c].lits)
                /\ arena[c].deleted => arena'[c].deleted
           /\ \A c \in ClauseIds' \ ClauseIds :
                \/ arena'[c].learned
                \/ Len(arena'[c].lits) > 1 /\ NoRepeats(arena'[c].lits)
<1>0. /\ Inv /\ arena \in Seq(ArenaClauses) /\ Len(arena) \in Nat /\ ClauseIds = 1..Len(arena)
      /\ ClauseIds' = 1..Len(arena')
  BY WatchTypes DEF WatchInv, ClauseIds
<1>1. CASE UNCHANGED arena
  BY <1>0, <1>1 DEF LitsOf
<1>2. CASE ArenaAdds
  <2>1. PICK x \in ArenaClauses :
            /\ arena' = Append(arena, x)
            /\ x.learned \/ (Len(x.lits) > 1 /\ NoRepeats(x.lits))
    BY <1>2 DEF ArenaAdds
  <2>2. /\ Len(arena') = Len(arena) + 1 /\ arena'[Len(arena) + 1] = x
        /\ \A c \in 1..Len(arena) : arena'[c] = arena[c]
    BY <1>0, <2>1, AppendClauseOK
  <2>3. \A c \in ClauseIds' \ ClauseIds : c = Len(arena) + 1
    BY <1>0, <2>2
  <2> QED
    BY <1>0, <2>1, <2>2, <2>3 DEF LitsOf
<1>3. CASE ArenaWrites
  <2>1. AtHand.clause \in ClauseIds
    BY <1>3, AtHandSame DEF ArenaWrites
  <2>2. PICK lits : /\ SameLiterals(lits, arena[AtHand.clause].lits)
                    /\ arena' = [arena EXCEPT ![AtHand.clause].lits = lits]
    BY <1>3 DEF ArenaWrites
  <2>3. /\ Len(arena') = Len(arena) /\ arena'[AtHand.clause].lits = lits
        /\ arena'[AtHand.clause].deleted = arena[AtHand.clause].deleted
        /\ arena'[AtHand.clause].learned = arena[AtHand.clause].learned
        /\ \A c \in ClauseIds \ {AtHand.clause} : arena'[c] = arena[c]
    BY <1>0, <2>1, <2>2, WrittenBack
  <2> QED
    BY <1>0, <2>2, <2>3 DEF LitsOf, SameLiterals
<1>4. CASE ArenaMarks
  <2>1. PICK S : arena' = WithDeleted(S)
    BY <1>4 DEF ArenaMarks
  <2>2. /\ Len(arena') = Len(arena)
        /\ \A c \in ClauseIds : /\ arena'[c].lits = arena[c].lits
                                /\ arena'[c].learned = arena[c].learned
                                /\ arena[c].deleted => arena'[c].deleted
    BY <1>0, <2>1, Deleting
  <2> QED
    BY <1>0, <2>2 DEF LitsOf
<1> QED
  BY <1>1, <1>2, <1>3, <1>4, ArenaStep

LEMMA StoredStep == ASSUME WatchInv, Stored, [Next]_vars PROVE Stored'
<1> SUFFICES ASSUME NEW c \in ClauseIds', ~arena'[c].learned
             PROVE  Len(arena'[c].lits) > 1 /\ NoRepeats(arena'[c].lits)
  BY DEF Stored
<1> QED
  BY ClausesStay DEF Stored

-----------------------------------------------------------------------------
(* Watches, away from visits.                                               *)

\* What keeps the watches good: the trail stays, loses its last level or more,
\* or grows while nothing is left unvisited.
KeepsGuards ==
    \/ UNCHANGED tr /\ (Damaged => Damaged')
    \/ \E level \in Nat : level < DecisionLevel(tr) /\ tr' = BacktrackTo(tr, level)
    \/ ~Damaged /\ (Assigns \/ Decides)

LEMMA GuardedGrows ==
    ASSUME Inv, Assigns \/ Decides, NEW S, NEW w \in Lits, Guarded(tr, S, w), NEW u, u = tr'
    PROVE  Guarded(u, S, w)
<1>1. tr \in TrailRecords /\ TrailInv(tr)
  BY ReasonTypes
<1>2. CASE Assigns
  BY <1>1, <1>2, GuardedAssign DEF Assigns
<1>3. CASE Decides
  <2>1. PICK l \in Lits : ~IsAssigned(tr, VarOf(l)) /\ Decide(l)
    BY <1>3 DEF Decides
  <2>2. PICK t : t = NewDecisionLevel(tr)
    OBVIOUS
  <2>3. t \in TrailRecords /\ TrailInv(t) /\ t.assigns = tr.assigns /\ t.qhead = tr.qhead
        /\ t.trail = tr.trail /\ t.level = tr.level
    BY <1>1, <2>2, NewDecisionLevelOK, NewLevelFacts
  <2>4. u = Assign(t, l, ReasonDecision) /\ ~IsAssigned(t, VarOf(l)) /\ ReasonDecision \in Reasons
    BY <2>1, <2>2, <2>3 DEF Decide, IsAssigned, Reasons, ReasonDecision
  <2>5. Guarded(t, S, w)
    BY <2>3, GuardedSame
  <2> QED
    BY <2>3, <2>4, <2>5, GuardedAssign
<1> QED
  BY <1>2, <1>3

LEMMA HandledQuiet ==
    ASSUME Inv, QueueOK, pc # "visit", pc' # "visit", KeepsGuards, NEW c, LitsOf(c)' = LitsOf(c),
           NEW l \in Lits, Handled(c, l)
    PROVE  Handled(c, l)'
<1>1. tr \in TrailRecords /\ TrailInv(tr)
      /\ \A k \in 1..DecisionLevel(tr) : tr.trail_lim[k] <= tr.qhead
  BY ReasonTypes DEF QueueOK
<1>2. PICK S, u : S = LitsOf(c) /\ u = tr'
  OBVIOUS
<1>3. (Damaged /\ tr.level[VarOf(l)] = DecisionLevel(tr)) \/ Guarded(tr, S, l)
  BY <1>2 DEF Handled, Waits
<1>4. CASE UNCHANGED tr /\ (Damaged => Damaged')
  BY <1>2, <1>3, <1>4 DEF Handled
<1>5. ASSUME Guarded(u, S, l) PROVE Handled(c, l)'
  BY <1>2, <1>5 DEF Handled
<1>6. CASE \E level \in Nat : level < DecisionLevel(tr) /\ tr' = BacktrackTo(tr, level)
  <2>1. PICK level \in Nat : level < DecisionLevel(tr) /\ u = BacktrackTo(tr, level)
    BY <1>2, <1>6
  <2>2. tr.level[VarOf(l)] = DecisionLevel(tr) \/ Guarded(tr, S, l)
    BY <1>3
  <2>3. Guarded(u, S, l)
    BY <1>1, <2>1, <2>2, GuardedBacktrack
  <2> QED
    BY <1>5, <2>3
<1>7. CASE ~Damaged /\ (Assigns \/ Decides)
  <2>1. Guarded(u, S, l)
    BY <1>2, <1>3, <1>7, GuardedGrows
  <2> QED
    BY <1>5, <2>1
<1> QED
  BY <1>4, <1>6, <1>7 DEF KeepsGuards

\* Clauses whose literals stay where they are keep their good watches.
LEMMA GoodStays ==
    ASSUME Inv, NEW c \in ClauseIds, Len(arena[c].lits) > 1, arena'[c].lits = arena[c].lits,
           \A l \in Lits : Handled(c, l) => Handled(c, l)'
    PROVE  (OneGood(c) => OneGood(c)') /\ (BothGood(c) => BothGood(c)')
<1>1. arena[c].lits \in Seq(Lits)
  BY ReasonTypes, ClauseFacts
<1>2. PICK k, m : k = arena[c].lits[1] /\ m = arena[c].lits[2]
  OBVIOUS
<1>3. k \in Lits /\ m \in Lits
  BY <1>1, <1>2
<1> QED
  BY <1>2, <1>3 DEF OneGood, BothGood

\* The clauses there were, after a step outside a visit.
StaysThere(c) ==
    /\ arena'[c].lits = arena[c].lits /\ arena'[c].learned = arena[c].learned
    /\ arena[c].deleted => arena'[c].deleted

LEMMA WellStays ==
    ASSUME Inv, Stored, QueueOK, pc # "visit", pc' # "visit", KeepsGuards,
           Len(arena') \in Nat, Len(arena) <= Len(arena'), \A c \in ClauseIds : StaysThere(c)
    PROVE  /\ WellWatched \subseteq WellWatched'
           /\ \A c \in ClauseIds : (c \in Live' /\ BothGood(c) /\ ~arena[c].learned) => BothGood(c)'
<1>1. ClauseIds = 1..Len(arena) /\ Len(arena) \in Nat /\ ClauseIds' = 1..Len(arena')
      /\ ClauseIds \subseteq ClauseIds'
  BY ReasonTypes DEF ClauseIds
<1>2. ASSUME NEW c \in ClauseIds, Len(arena[c].lits) > 1
      PROVE  (OneGood(c) => OneGood(c)') /\ (BothGood(c) => BothGood(c)')
  <2>1. arena'[c].lits = arena[c].lits /\ LitsOf(c)' = LitsOf(c)
    BY DEF StaysThere, LitsOf
  <2>2. \A l \in Lits : Handled(c, l) => Handled(c, l)'
    BY <2>1, HandledQuiet
  <2> QED
    BY <1>2, <2>1, <2>2, GoodStays
<1>3. ASSUME NEW w \in WellWatched PROVE w \in WellWatched'
  <2>1. PICK c, b : c = w.clause /\ b = w.blocker
    OBVIOUS
  <2>2. /\ w \in WatchersIn(arena) /\ c \in ClauseIds /\ Len(arena[c].lits) > 1 /\ b \in LitsOf(c)
        /\ arena[c].deleted \/ OneGood(c)
    BY <1>1, <2>1, WatcherFacts DEF WellWatched
  <2>3. w \in WatchersIn(arena')
    <3>1. \A d \in 1..Len(arena) : Len(arena'[d].lits) = Len(arena[d].lits)
      BY <1>1 DEF StaysThere
    <3> QED
      BY <1>1, <2>2, <3>1, WatchersGrow
  <2>4. b \in LitsOf(c)' /\ (arena'[c].deleted \/ OneGood(c)')
    BY <1>2, <2>2 DEF StaysThere, LitsOf
  <2> QED
    BY <2>1, <2>3, <2>4 DEF WellWatched
<1>4. ASSUME NEW c \in ClauseIds, BothGood(c), ~arena[c].learned PROVE BothGood(c)'
  BY <1>2, <1>4 DEF Stored
<1> QED
  BY <1>3, <1>4

\* No list changes and no clause is added that needs two good watches.
LEMMA QuietGood ==
    ASSUME Inv, Stored, QueueOK, WatchesGood, pc # "visit", pc' # "visit", KeepsGuards,
           UNCHANGED watches, Len(arena') \in Nat, Len(arena) <= Len(arena'),
           \A c \in ClauseIds : StaysThere(c), \A c \in ClauseIds' \ ClauseIds : arena'[c].learned
    PROVE  WatchesGood'
<1>1. /\ WellWatched \subseteq WellWatched'
      /\ \A c \in ClauseIds : (c \in Live' /\ BothGood(c) /\ ~arena[c].learned) => BothGood(c)'
  BY WellStays
<1>2. PICK V, W : V = WellWatched /\ W = WellWatched'
  OBVIOUS
<1>3. watches \in [Lits -> Seq(V)] /\ V \subseteq W
  BY <1>1, <1>2 DEF WatchesGood, ListsIn
<1>4. Seq(V) \subseteq Seq(W)
  BY <1>3, SeqGrows
<1>5. watches' \in [Lits -> Seq(W)]
  BY <1>3, <1>4
<1>6. ListsIn(WellWatched)'
  BY <1>2, <1>5 DEF ListsIn
<1>7. ASSUME NEW c \in Live', ~arena'[c].learned PROVE BothGood(c)'
  <2>1. c \in ClauseIds' /\ ~arena'[c].deleted
    BY DEF Live
  <2>2. c \in ClauseIds /\ ~arena[c].learned /\ ~arena[c].deleted
    BY <1>7, <2>1 DEF StaysThere
  <2>3. c \in Live
    BY <2>2 DEF Live
  <2> QED
    BY <1>1, <2>2, <2>3 DEF WatchesGood
<1> QED
  BY <1>6, <1>7 DEF WatchesGood

\* A literal that is not false needs no guard.
LEMMA NotFalseGuarded ==
    ASSUME NEW t \in TrailRecords, TrailInv(t), NEW l \in Lits, ~IsFalse(t, l), NEW S
    PROVE  Guarded(t, S, l)
<1>1. t.qhead \in Nat /\ Len(t.trail) \in Nat /\ t.qhead <= Len(t.trail)
  BY TrailTypes DEF TrailInv
<1>2. ~FalseBefore(t, t.qhead, l)
  BY <1>1, FalseIsOnTrail DEF FalseNow, FalseBefore
<1> QED
  BY <1>2 DEF Guarded

\* Attaching watchers of a set that has those of the new clause.
LEMMA AttachIn ==
    ASSUME NEW W, NEW w \in [Lits -> Seq(W)], NEW id, NEW c \in Seq(Lits), Len(c) > 1,
           Watcher(id, c[1]) \in W, Watcher(id, c[2]) \in W
    PROVE  Attach(w, id, c) \in [Lits -> Seq(W)]
BY DEF Attach

\* A clause is stored with both watches good, or one if it is learned.
LEMMA StoreGood ==
    ASSUME Inv, Stored, QueueOK, WatchesGood, pc # "visit", pc' # "visit", KeepsGuards,
           NEW x \in ArenaClauses, Len(x.lits) > 1, arena' = Append(arena, x),
           NEW id, id = Len(arena) + 1, watches' = Attach(watches, id, x.lits),
           Handled(id, x.lits[1])', ~x.learned => Handled(id, x.lits[2])'
    PROVE  WatchesGood'
<1>1. /\ arena \in Seq(ArenaClauses) /\ ClauseIds = 1..Len(arena) /\ Len(arena) \in Nat
      /\ ClauseIds' = 1..Len(arena')
  BY ReasonTypes DEF ClauseIds
<1>3. /\ Len(arena') = id /\ arena'[id] = x /\ id \in ClauseIds' /\ Len(arena') \in Nat
      /\ Len(arena) <= Len(arena')
      /\ \A c \in ClauseIds : arena'[c] = arena[c]
      /\ \A c \in ClauseIds' \ ClauseIds : c = id
  BY <1>1, AppendClauseOK
<1>4. \A c \in ClauseIds : StaysThere(c)
  BY <1>3 DEF StaysThere
<1>5. /\ WellWatched \subseteq WellWatched'
      /\ \A c \in ClauseIds : (c \in Live' /\ BothGood(c) /\ ~arena[c].learned) => BothGood(c)'
  BY <1>3, <1>4, WellStays
<1>6. OneGood(id)' /\ (~x.learned => BothGood(id)')
  BY <1>3 DEF OneGood, BothGood
<1>7. PICK V, W : V = WellWatched /\ W = WellWatched'
  OBVIOUS
<1>8. watches \in [Lits -> Seq(V)] /\ V \subseteq W
  BY <1>5, <1>7 DEF WatchesGood, ListsIn
<1>9. watches \in [Lits -> Seq(W)]
  BY <1>8, SeqGrows
<1>10. Watcher(id, x.lits[1]) \in W /\ Watcher(id, x.lits[2]) \in W
  <2>1. x.lits \in Seq(Lits) /\ 1 \in 1..Len(x.lits) /\ 2 \in 1..Len(x.lits)
    BY DEF ArenaClauses
  <2>2. ASSUME NEW i \in 1..Len(x.lits) PROVE Watcher(id, x.lits[i]) \in W
    <3>1. x.lits[i] \in Lits /\ x.lits[i] \in LitsOf(id)'
      BY <1>3, <2>1 DEF LitsOf, ToSet
    <3>2. Watcher(id, x.lits[i]) \in WatchersIn(arena)'
      BY <1>1, <1>3, <3>1 DEF Watcher, WatchersIn
    <3>3. Watcher(id, x.lits[i]).clause = id /\ Watcher(id, x.lits[i]).blocker = x.lits[i]
      BY DEF Watcher
    <3> QED
      BY <1>6, <1>7, <3>1, <3>2, <3>3 DEF WellWatched
  <2> QED
    BY <2>1, <2>2
<1>11. watches' \in [Lits -> Seq(W)]
  <2>1. x.lits \in Seq(Lits)
    BY DEF ArenaClauses
  <2> QED
    BY <1>9, <1>10, <2>1, AttachIn
<1>12. ListsIn(WellWatched)'
  BY <1>7, <1>11 DEF ListsIn
<1>13. ASSUME NEW c \in Live', ~arena'[c].learned PROVE BothGood(c)'
  <2>1. c \in ClauseIds' /\ ~arena'[c].deleted
    BY DEF Live
  <2>2. CASE c = id
    BY <1>3, <1>6, <1>13, <2>2
  <2>3. CASE c \in ClauseIds
    <3>1. c \in Live /\ ~arena[c].learned
      BY <1>3, <1>13, <2>1, <2>3 DEF Live
    <3> QED
      BY <1>5, <2>3, <3>1 DEF WatchesGood
  <2> QED
    BY <1>3, <2>1, <2>2, <2>3
<1> QED
  BY <1>12, <1>13 DEF WatchesGood

\* The arena of steps that store no clause with watchers.
LEMMA QuietArena ==
    ASSUME Inv, UNCHANGED arena \/ ArenaMarks \/ \E x : x.learned /\ arena' = Append(arena, x)
    PROVE  /\ Len(arena') \in Nat /\ Len(arena) <= Len(arena')
           /\ \A c \in ClauseIds : StaysThere(c)
           /\ \A c \in ClauseIds' \ ClauseIds : arena'[c].learned
<1>1. /\ arena \in Seq(ArenaClauses) /\ ClauseIds = 1..Len(arena) /\ Len(arena) \in Nat
      /\ ClauseIds' = 1..Len(arena')
  BY ReasonTypes DEF ClauseIds
<1>2. CASE UNCHANGED arena
  BY <1>1, <1>2 DEF StaysThere
<1>3. CASE ArenaMarks
  BY <1>1, <1>3, Deleting DEF ArenaMarks, StaysThere
<1>4. CASE \E x : x.learned /\ arena' = Append(arena, x)
  <2>1. PICK x : x.learned /\ arena' = Append(arena, x)
    BY <1>4
  <2>2. /\ Len(arena') = Len(arena) + 1 /\ arena'[Len(arena) + 1] = x
        /\ \A c \in ClauseIds : arena'[c] = arena[c]
    BY <1>1, <2>1
  <2> QED
    BY <1>1, <2>1, <2>2 DEF StaysThere
<1> QED
  BY <1>2, <1>3, <1>4

LEMMA QuietStep ==
    ASSUME PropInv, WatchesGood, pc # "visit", pc' # "visit", KeepsGuards, UNCHANGED watches,
           UNCHANGED arena \/ ArenaMarks \/ \E x : x.learned /\ arena' = Append(arena, x)
    PROVE  WatchesGood'
<1>1. Inv /\ Stored /\ QueueOK
  BY DEF PropInv, ReasonInv, WatchInv
<1> QED
  BY <1>1, QuietArena, QuietGood

\* Backtracking keeps guards if it does anything, and else nothing is left
\* unvisited.
LEMMA BacktrackKeeps ==
    ASSUME Inv, NEW level \in Nat, tr' = BacktrackTo(tr, level),
           DecisionLevel(tr) <= level => (Damaged => Damaged')
    PROVE  KeepsGuards
<1>1. tr \in TrailRecords /\ TrailInv(tr) /\ Len(tr.trail_lim) \in Nat
      /\ DecisionLevel(tr) = Len(tr.trail_lim)
  BY ReasonTypes, TrailTypes
<1>2. CASE DecisionLevel(tr) <= level
  <2>1. tr' = tr
    BY <1>1, <1>2, BacktrackFacts
  <2> QED
    BY <1>2, <2>1 DEF KeepsGuards
<1>3. CASE level < DecisionLevel(tr)
  BY <1>3 DEF KeepsGuards
<1> QED
  BY <1>1, <1>2, <1>3

LEMMA AddClauseGood ==
    ASSUME PropInv, WatchesGood, AddClause, ok' PROVE WatchesGood'
<1>0. Inv /\ Stored /\ QueueOK /\ tr \in TrailRecords /\ TrailInv(tr)
  BY ReasonTypes DEF PropInv, ReasonInv, WatchInv
<1>1. PICK lits \in Seq(Lits) :
          pc = "idle" /\ (AddDropped(lits) \/ AddRefuted(lits) \/ AddUnit(lits) \/ AddStored(lits))
  BY <1>0, AddClauseCases
<1>2. ~Damaged
  BY <1>1 DEF Damaged
<1>3. CASE AddDropped(lits) \/ AddRefuted(lits)
  <2>1. UNCHANGED <<arena, watches, tr, pc>>
    BY <1>3 DEF AddDropped, AddRefuted, db
  <2> QED
    BY <1>1, <1>2, <2>1, QuietStep DEF KeepsGuards
<1>4. CASE AddUnit(lits)
  <2>1. UNCHANGED <<arena, watches>> /\ pc' = "bcp"
    BY <1>4 DEF AddUnit, db
  <2>2. Assigns
    BY <1>4 DEF AddUnit, Assigns, Reasons, ReasonUnit
  <2> QED
    BY <1>1, <1>2, <2>1, <2>2, QuietStep DEF KeepsGuards
<1>5. CASE AddStored(lits)
  <2>1. PICK c \in Seq(Lits) :
            /\ Len(c) > 1 /\ \A i \in 1..Len(c) : ~IsFalse(tr, c[i])
            /\ arena' = Append(arena, NewClause(c, FALSE, 0))
            /\ watches' = Attach(watches, Len(arena) + 1, c)
            /\ UNCHANGED <<tr, pc>>
    BY <1>5 DEF AddStored
  <2>2. PICK x, id : x = NewClause(c, FALSE, 0) /\ id = Len(arena) + 1
    OBVIOUS
  <2>3. x \in ArenaClauses /\ x.lits = c
    BY <2>2, NewClauseOK
  <2>4. KeepsGuards
    BY <1>2, <2>1 DEF KeepsGuards
  <2>5. ASSUME NEW i \in 1..Len(c) PROVE Handled(id, c[i])'
    <3>1. c[i] \in Lits
      BY ElementFact
    <3>2. PICK S : S = LitsOf(id)'
      OBVIOUS
    <3>3. Guarded(tr, S, c[i])
      BY <1>0, <2>1, <3>1, NotFalseGuarded
    <3> QED
      BY <2>1, <3>2, <3>3 DEF Handled
  <2>6. Handled(id, x.lits[1])' /\ Handled(id, x.lits[2])'
    BY <2>1, <2>3, <2>5
  <2> QED
    BY <1>0, <1>1, <2>1, <2>2, <2>3, <2>4, <2>6, StoreGood
<1> QED
  BY <1>1, <1>3, <1>4, <1>5

LEMMA ClientGood ==
    ASSUME PropInv, WatchesGood, Client, ok' PROVE WatchesGood'
<1>0. Inv
  BY DEF PropInv, ReasonInv, WatchInv
<1>1. CASE AddClause
  BY <1>1, AddClauseGood
<1>2. CASE NewVar \/ Push
  <2>1. UNCHANGED <<arena, watches, tr, pc>> /\ pc = "idle"
    BY <1>2 DEF NewVar, Push, Call, db
  <2> QED
    BY <2>1, QuietStep DEF KeepsGuards, Damaged
<1>3. CASE Pop \/ Solve
  <2>1. /\ pc = "idle" /\ pc' # "visit" /\ UNCHANGED watches
        /\ UNCHANGED tr \/ tr' = BacktrackTo(tr, 0)
        /\ UNCHANGED arena \/ \E S : arena' = WithDeleted(S)
    BY <1>3 DEF Pop, Solve, Call, db
  <2>2. KeepsGuards
    <3>1. ~Damaged
      BY <2>1 DEF Damaged
    <3> QED
      BY <1>0, <2>1, <3>1, BacktrackKeeps DEF KeepsGuards
  <2> QED
    BY <2>1, <2>2, QuietStep DEF ArenaMarks
<1> QED
  BY <1>1, <1>2, <1>3 DEF Client

LEMMA SearchGood ==
    ASSUME PropInv, WatchesGood, Search PROVE WatchesGood'
<1>0. Inv /\ tr \in TrailRecords /\ Len(tr.trail_lim) \in Nat
      /\ DecisionLevel(tr) = Len(tr.trail_lim)
  BY ReasonTypes, TrailTypes DEF PropInv, ReasonInv, WatchInv
<1>1. CASE Finish
  <2>1. /\ pc = "finish" /\ pc' # "visit" /\ UNCHANGED watches /\ tr' = BacktrackTo(tr, 0)
        /\ UNCHANGED arena \/ \E S : arena' = WithDeleted(S)
    BY <1>1 DEF Finish
  <2>2. KeepsGuards
    <3>1. DecisionLevel(tr) <= 0 => ~Damaged
      BY <1>0, <2>1 DEF Damaged
    <3> QED
      BY <1>0, <2>1, <3>1, BacktrackKeeps
  <2> QED
    BY <2>1, <2>2, QuietStep DEF ArenaMarks
<1>2. CASE TheoryConflict
  <2>1. UNCHANGED <<watches, tr>> /\ pc = "theory" /\ pc' = "conflict"
    BY <1>2 DEF TheoryConflict
  <2>2. UNCHANGED arena \/ \E x : x.learned /\ arena' = Append(arena, x)
    <3>1. PICK c \in FalseTheoryClauses :
              UNCHANGED arena \/ arena' = Append(arena, NewClause(c, TRUE, 2))
      BY <1>2 DEF TheoryConflict
    <3>2. NewClause(c, TRUE, 2).learned
      BY DEF NewClause
    <3> QED
      BY <3>1, <3>2
  <2> QED
    BY <2>1, <2>2, QuietStep DEF KeepsGuards, Damaged
<1>3. CASE Search /\ ~Finish /\ ~TheoryConflict
  <2>1. /\ UNCHANGED <<arena, watches>> /\ pc' # "visit"
        /\ pc \in {"loop", "theory", "decide", "answered"}
    BY <1>3 DEF Search, BudgetExhausted, Loop, TheoryOk, DecideAssumption, DecideVar, AllAssigned,
                Return, Decide, db
  <2>2. UNCHANGED tr \/ Decides
    <3>1. pc' # "answered"
      BY <1>3 DEF Search, BudgetExhausted, Loop, TheoryOk, DecideAssumption, DecideVar, AllAssigned,
                  Return, Decide
    <3> QED
      BY <1>0, <1>3, <3>1, SearchTrail
  <2>3. KeepsGuards
    BY <2>1, <2>2 DEF KeepsGuards, Damaged
  <2> QED
    BY <2>1, <2>3, QuietStep
<1> QED
  BY <1>1, <1>2, <1>3

\* What is learned is assigned, so that its first watch is good.
LEMMA LearnGood ==
    ASSUME PropInv, WatchesGood, Learn, pc' # "panic" PROVE WatchesGood'
<1>0. /\ Inv /\ Stored /\ QueueOK /\ tr \in TrailRecords /\ TrailInv(tr) /\ Len(arena) \in Nat
      /\ pc = "learn" /\ ~Damaged
  BY ReasonTypes DEF PropInv, ReasonInv, WatchInv, Learn, Damaged
<1>1. PICK lits, lit, id, n : lits = an.learned /\ lit = lits[1] /\ id = Len(arena) + 1 /\ n = an.lbd
  OBVIOUS
<1>2. lits \in Seq(Lits) /\ Len(lits) > 0 /\ n \in Nat /\ lit \in Lits
  <2>1. lits \in Seq(Lits) /\ Len(lits) > 0 /\ n \in Nat
    BY <1>0, <1>1, ReasonTypes, AnFacts DEF Inv, TypeOK, ControlOK
  <2> QED
    BY <1>1, <2>1
<1>3. PICK r \in Reasons : ~IsAssigned(tr, VarOf(lit)) /\ tr' = Assign(tr, lit, r)
  BY <1>0, <1>1 DEF Learn, Reasons, ReasonUnit
<1>4. pc' # "visit" /\ KeepsGuards
  BY <1>0, <1>2, <1>3 DEF Learn, Assigns, KeepsGuards
<1>5. CASE Len(lits) = 1
  <2>1. UNCHANGED <<arena, watches>>
    BY <1>1, <1>5 DEF Learn, db
  <2> QED
    BY <1>0, <1>4, <2>1, QuietStep
<1>6. CASE Len(lits) # 1
  <2>1. PICK x : x = NewClause(lits, TRUE, n)
    OBVIOUS
  <2>2. x \in ArenaClauses /\ x.lits = lits /\ x.learned /\ Len(x.lits) > 1
    <3>1. x \in ArenaClauses /\ x.lits = lits
      BY <1>2, <2>1, NewClauseOK
    <3>2. x.learned
      BY <2>1 DEF NewClause
    <3>3. PICK k : k = Len(lits)
      OBVIOUS
    <3>4. k \in Nat /\ k > 0 /\ k # 1
      BY <1>2, <1>6, <3>3
    <3>5. k > 1
      BY <3>4
    <3> QED
      BY <3>1, <3>2, <3>3, <3>5
  <2>3. arena' = Append(arena, x) /\ watches' = Attach(watches, id, x.lits)
    BY <1>1, <1>6, <2>1, <2>2 DEF Learn
  <2>4. Handled(id, x.lits[1])'
    <3>1. PICK S, u : S = LitsOf(id)' /\ u = tr'
      OBVIOUS
    <3>2. u \in TrailRecords /\ TrailInv(u)
      BY <1>0, <1>2, <1>3, <3>1, AssignOK
    <3>3. ~IsFalse(u, lit)
      <4>1. Len(u.trail) = Len(tr.trail) + 1 /\ u.trail[Len(tr.trail) + 1] = lit
        BY <1>0, <1>2, <1>3, <3>1, AssignFacts
      <4>2. Len(tr.trail) + 1 \in 1..Len(u.trail)
        BY <1>0, <4>1, TrailTypes
      <4>3. IsTrue(u, lit)
        BY <3>2, <4>1, <4>2 DEF TrailInv, TrailIsAssignment
      <4> QED
        BY <4>3 DEF IsTrue, IsFalse
    <3>4. Guarded(u, S, lit)
      BY <1>2, <3>2, <3>3, NotFalseGuarded
    <3> QED
      BY <1>1, <2>2, <3>1, <3>4 DEF Handled
  <2> QED
    BY <1>0, <1>1, <1>4, <2>2, <2>3, <2>4, StoreGood
<1> QED
  BY <1>5, <1>6

LEMMA ConflictGood ==
    ASSUME PropInv, WatchesGood, AtZero, Conflict, Undisturbed', ok' PROVE WatchesGood'
<1>0. Inv /\ ReasonInv /\ bcp \in BcpRecords(arena)
  BY ReasonTypes DEF PropInv, ReasonInv, WatchInv
<1>1. CASE ConflictInAddClause \/ ConflictBeforeSearch
  BY <1>1 DEF ConflictInAddClause, ConflictBeforeSearch
<1>2. CASE ConflictAtLevelZero
  <2>1. /\ UNCHANGED <<arena, watches, tr>> /\ pc = "conflict" /\ pc' = "finish" /\ InSearch
        /\ DecisionLevel(tr) = 0 /\ AssumptionRun
    BY <1>2 DEF ConflictAtLevelZero, db
  <2>2. an.origin = "theory"
    BY <2>1 DEF AtZero, Searching
  <2>3. ~Damaged
    BY <2>1, <2>2 DEF Damaged
  <2> QED
    BY <2>1, <2>3, QuietStep DEF KeepsGuards
<1>3. CASE StartAnalysis \/ MarkLit \/ PickLit \/ AssumptionsRefuted
  <2>1. /\ UNCHANGED <<arena, watches, tr>> /\ pc \in {"conflict", "mark", "learned"}
        /\ pc' \in {"mark", "learned", "finish"} /\ (pc = "conflict" => DecisionLevel(tr) > 0)
    BY <1>3 DEF StartAnalysis, MarkLit, PickLit, AssumptionsRefuted, db
  <2>2. DecisionLevel(tr) > 0 => DecisionLevel(tr') > 0
    BY <2>1
  <2>3. Damaged => Damaged'
    BY <2>1, <2>2 DEF Damaged
  <2> QED
    BY <2>1, <2>3, QuietStep DEF KeepsGuards
<1>4. CASE Backjump
  <2>1. UNCHANGED <<arena, watches>> /\ pc = "learned" /\ pc' \in {"reduce", "learn"}
    BY <1>4 DEF Backjump, db
  <2>2. /\ an.backtrack_level \in Nat /\ an.backtrack_level < DecisionLevel(tr)
        /\ tr' = BacktrackTo(tr, an.backtrack_level)
    BY <1>0, <1>4, BackjumpLevel
  <2> QED
    BY <2>1, <2>2, QuietStep DEF KeepsGuards
<1>5. CASE ReduceDb
  <2>1. /\ UNCHANGED <<watches, tr>> /\ pc = "reduce" /\ pc' = "learn"
        /\ UNCHANGED arena \/ \E S : arena' = WithDeleted(S)
    BY <1>5 DEF ReduceDb
  <2> QED
    BY <2>1, QuietStep DEF KeepsGuards, Damaged, ArenaMarks
<1>6. CASE Learn
  BY <1>6, LearnGood DEF Undisturbed
<1> QED
  BY <1>1, <1>2, <1>3, <1>4, <1>5, <1>6 DEF Conflict

-----------------------------------------------------------------------------
(* Watches, while propagation visits them.                                  *)

LEMMA OccSome ==
    ASSUME NEW W, NEW s \in Seq(W), NEW i \in 1..Len(s) PROVE Occ(s, s[i].clause) > 0
<1> DEFINE S == {k \in 1..Len(s) : s[k].clause = s[i].clause}
<1>1. Len(s) \in Nat /\ S \in SUBSET (1..Len(s)) /\ i \in S
  OBVIOUS
<1>2. Occ(s, s[i].clause) = Cardinality(S)
  BY DEF Occ
<1> HIDE DEF S
<1>3. IsFiniteSet(S) /\ Cardinality(S) \in Nat
  BY <1>1, PositionsFinite
<1>4. Cardinality(S) # 0
  BY <1>1, <1>3, FS_EmptySet
<1> QED
  BY <1>2, <1>3, <1>4

LEMMA Relisted ==
    ASSUME NEW V, NEW W, NEW s \in Seq(V), \A i \in 1..Len(s) : s[i] \in W PROVE s \in Seq(W)
  OBVIOUS

\* A literal handed on leaves its watchers waiting.
LEMMA DequeueHandled ==
    ASSUME WatchInv, BcpDequeue, NEW c \in ClauseIds, ~arena[c].deleted, WatchedRight(c),
           NEW k \in {1, 2}, NEW l, l = arena[c].lits[k], l \in Lits, Handled(c, l)
    PROVE  Handled(c, l)'
<1>0. /\ Inv /\ bcp \in BcpRecords(arena) /\ tr \in TrailRecords /\ TrailInv(tr)
      /\ watches \in [Lits -> Seq(WatchersIn(arena))]
  BY WatchTypes, ReasonTypes DEF WatchInv
<1>1. PICK p, S, u : p = NextUnpropagated(tr) /\ S = LitsOf(c) /\ u = Dequeue(tr)
  OBVIOUS
<1>2. /\ pc = "bcp" /\ pc' = "visit" /\ UNCHANGED arena /\ tr' = u /\ HasUnpropagated(tr)
      /\ bcp'.lit = p /\ bcp'.todo = watches[p]
  BY <1>0, <1>1 DEF BcpDequeue, BcpRecords
<1>3. p \in Lits /\ p = tr.trail[tr.qhead + 1] /\ LitsOf(c)' = S
  BY <1>0, <1>1, <1>2, DequeueOK DEF NextUnpropagated, LitsOf
<1>4. Guarded(tr, S, l)
  BY <1>1, <1>2 DEF Handled, Damaged, Waits
<1>5. CASE l # Neg(p)
  <2>1. Guarded(u, S, l)
    BY <1>0, <1>1, <1>3, <1>4, <1>5, GuardedDequeue
  <2> QED
    BY <1>2, <1>3, <2>1 DEF Handled
<1>6. CASE l = Neg(p)
  <2>1. Neg(l) = p
    BY <1>3, <1>6, LitFacts
  <2>2. Places(arena[c].lits, p) > 0
    BY <2>1 DEF Places
  <2>3. Total(c, p) = Places(arena[c].lits, p)
    BY <1>3 DEF WatchedRight
  <2>4. Total(c, p) = Occ(watches[p], c)
    <3>1. Occ(watches[p], c) \in Nat
      BY <1>0, <1>3, CountsNat
    <3> QED
      BY <1>2, <3>1 DEF Total
  <2>5. \E i \in 1..Len(watches[p]) : watches[p][i].clause = c
    <3>1. watches[p] \in Seq(WatchersIn(arena)) /\ Occ(watches[p], c) # 0
      BY <1>0, <1>3, <2>2, <2>3, <2>4
    <3> QED
      BY <3>1, OccNone
  <2>6. Waits(c)'
    BY <1>2, <2>5 DEF Waits
  <2> QED
    BY <1>2, <1>6, <2>6 DEF Handled
<1> QED
  BY <1>5, <1>6

LEMMA DequeueGood ==
    ASSUME PropInv, WatchesGood, BcpDequeue PROVE WatchesGood'
<1>0. /\ WatchInv /\ Stored /\ bcp \in BcpRecords(arena) /\ arena \in Seq(ArenaClauses)
      /\ ClauseIds = 1..Len(arena) /\ tr \in TrailRecords /\ TrailInv(tr)
  BY WatchTypes, ReasonTypes DEF PropInv, ReasonInv, WatchInv
<1>1. PICK p : p = NextUnpropagated(tr)
  OBVIOUS
<1>2. /\ pc = "bcp" /\ pc' = "visit" /\ UNCHANGED arena
      /\ bcp'.lit = p /\ bcp'.todo = watches[p] /\ bcp'.keep = << >>
      /\ watches' = [watches EXCEPT ![p] = << >>] /\ p \in Lits
  BY <1>0, <1>1, DequeueOK DEF BcpDequeue, BcpRecords
<1>3. ASSUME NEW c \in ClauseIds, ~arena[c].deleted, WatchedRight(c), Len(arena[c].lits) > 1
      PROVE  (OneGood(c) => OneGood(c)') /\ (BothGood(c) => BothGood(c)')
  <2>1. arena[c].lits \in Seq(Lits)
    BY <1>0, ClauseFacts
  <2>2. PICK k, m : k = arena[c].lits[1] /\ m = arena[c].lits[2]
    OBVIOUS
  <2>3. k \in Lits /\ m \in Lits
    BY <1>3, <2>1, <2>2
  <2>4. (Handled(c, k) => Handled(c, k)') /\ (Handled(c, m) => Handled(c, m)')
    BY <1>0, <1>3, <2>2, <2>3, DequeueHandled
  <2> QED
    BY <1>2, <2>2, <2>4 DEF OneGood, BothGood
<1>4. PICK V, W : V = WellWatched /\ W = WellWatched'
  OBVIOUS
<1>5. watches \in [Lits -> Seq(V)]
  BY <1>4 DEF WatchesGood, ListsIn
<1>6. ASSUME NEW l \in Lits, NEW i \in 1..Len(watches[l]) PROVE watches[l][i] \in W
  <2>1. PICK w, c, b : w = watches[l][i] /\ c = w.clause /\ b = w.blocker
    OBVIOUS
  <2>2. w \in WellWatched
    BY <1>4, <1>5, <2>1
  <2>3. w \in WatchersIn(arena) /\ b \in LitsOf(c) /\ (arena[c].deleted \/ OneGood(c))
    BY <2>1, <2>2 DEF WellWatched
  <2>4. c \in ClauseIds /\ Len(arena[c].lits) > 1
    BY <1>0, <2>1, <2>3, WatcherFacts
  <2>5. ~Unwatched(c)
    <3>1. Occ(watches[l], c) > 0
      BY <1>5, <2>1, OccSome
    <3>2. Total(c, l) = Occ(watches[l], c)
      <4>1. Occ(watches[l], c) \in Nat
        BY <1>0, CountsNat DEF WatchInv
      <4> QED
        BY <1>2, <4>1 DEF Total
    <3> QED
      BY <3>1, <3>2 DEF Unwatched
  <2>6. arena[c].deleted \/ OneGood(c)'
    BY <1>0, <1>3, <2>3, <2>4, <2>5 DEF WatchInv, Watching
  <2>7. w \in WatchersIn(arena') /\ b \in LitsOf(c)' /\ (arena'[c].deleted \/ OneGood(c)')
    BY <1>2, <2>3, <2>6 DEF LitsOf
  <2> QED
    BY <1>4, <2>1, <2>7 DEF WellWatched
<1>7. \A l \in Lits : watches[l] \in Seq(W)
  BY <1>5, <1>6, Relisted
<1>8. watches \in [Lits -> Seq(W)]
  BY <1>5, <1>7
<1>9. ListsIn(WellWatched)'
  <2>1. watches' \in [Lits -> Seq(W)] /\ bcp'.todo \in Seq(W) /\ bcp'.keep \in Seq(W)
    BY <1>2, <1>8
  <2> QED
    BY <1>4, <2>1 DEF ListsIn
<1>10. ASSUME NEW c \in Live', ~arena'[c].learned PROVE BothGood(c)'
  <2>1. c \in Live /\ c \in ClauseIds /\ ~arena[c].deleted /\ ~arena[c].learned
    BY <1>2, <1>10 DEF Live, ClauseIds
  <2>2. WatchedRight(c) /\ Len(arena[c].lits) > 1
    BY <1>0, <2>1 DEF WatchInv, Watching, Unwatched, Stored
  <2> QED
    BY <1>3, <2>1, <2>2 DEF WatchesGood
<1> QED
  BY <1>9, <1>10 DEF WatchesGood

\* A true literal is on the trail.
LEMMA TrueIsOnTrail ==
    ASSUME NEW t \in TrailRecords, TrailInv(t), NEW l \in Lits, IsTrue(t, l)
    PROVE  \E k \in 1..Len(t.trail) : t.trail[k] = l
<1>1. VarOf(l) \in Vars /\ IsAssigned(t, VarOf(l))
  BY LitFacts DEF IsTrue, LitValue, NotVal, IsAssigned
<1>2. PICK k \in 1..Len(t.trail) : VarOf(t.trail[k]) = VarOf(l)
  BY <1>1 DEF TrailInv, TrailIsAssignment
<1>3. t.trail[k] \in Lits /\ IsTrue(t, t.trail[k])
  BY TrailTypes DEF TrailInv, TrailIsAssignment
<1>4. t.trail[k] # Neg(l)
  BY <1>3 DEF Neg, Lits, IsTrue, LitValue, IsPos, VarOf, NotVal
<1> QED
  BY <1>2, <1>3, <1>4, SameVar

\* The literal that is visited is of the current level.
LEMMA VisitLevel ==
    ASSUME Inv, QueueOK, pc = "visit"
    PROVE  /\ bcp.lit \in Lits /\ tr.level[VarOf(bcp.lit)] = DecisionLevel(tr)
           /\ tr.qhead \in 1..Len(tr.trail) /\ tr.trail[tr.qhead] = bcp.lit
<1>1. /\ tr \in TrailRecords /\ TrailInv(tr) /\ bcp.lit \in Lits
      /\ Len(tr.trail_lim) \in Nat /\ DecisionLevel(tr) = Len(tr.trail_lim)
      /\ tr.qhead \in Nat /\ tr.qhead <= Len(tr.trail) /\ Len(tr.trail) \in Nat
  BY ReasonTypes, TrailTypes, BcpFacts DEF TrailInv
<1>2. tr.qhead \in 1..Len(tr.trail) /\ tr.trail[tr.qhead] = bcp.lit
      /\ \A k \in 1..DecisionLevel(tr) : tr.trail_lim[k] < tr.qhead
  BY <1>1 DEF QueueOK
<1>3. PICK n : n = tr.level[VarOf(bcp.lit)]
  OBVIOUS
<1>4. n \in Nat /\ n <= DecisionLevel(tr)
      /\ \A k \in 1..Len(tr.trail_lim) : n >= k <=> tr.qhead > tr.trail_lim[k]
  BY <1>1, <1>2, <1>3, SegmentFact
<1>5. \A k \in 1..Len(tr.trail_lim) : n >= k
  <2> TAKE k \in 1..Len(tr.trail_lim)
  <2>1. tr.trail_lim[k] \in Nat
    BY <1>1, TrailTypes, ElementFact
  <2> QED
    BY <1>1, <1>2, <1>4, <2>1
<1>6. n = DecisionLevel(tr)
  BY <1>1, <1>4, <1>5
<1> QED
  BY <1>1, <1>2, <1>3, <1>6

\* A true literal of the clause guards the visited one.
LEMMA TrueGuards ==
    ASSUME Inv, QueueOK, pc = "visit", NEW S, NEW m \in S, m \in Lits, IsTrue(tr, m)
    PROVE  Guarded(tr, S, Neg(bcp.lit))
<1>1. tr \in TrailRecords /\ TrailInv(tr)
  BY ReasonTypes
<1>2. bcp.lit \in Lits /\ tr.level[VarOf(bcp.lit)] = DecisionLevel(tr)
      /\ VarOf(Neg(bcp.lit)) = VarOf(bcp.lit)
  BY VisitLevel, LitFacts
<1>3. PICK k \in 1..Len(tr.trail) : tr.trail[k] = m
  BY <1>1, TrueIsOnTrail
<1>4. tr.level[VarOf(m)] <= DecisionLevel(tr)
  BY <1>1, <1>3, SegmentFact
<1> QED
  BY <1>2, <1>3, <1>4 DEF Guarded, TrueAt

\* The literal that the clause propagates guards it too.
LEMMA UnitGuards ==
    ASSUME Inv, QueueOK, pc = "visit", NEW S, NEW m \in S, m \in Lits, ~IsAssigned(tr, VarOf(m)),
           NEW r \in Reasons, NEW u, u = Assign(tr, m, r)
    PROVE  Guarded(u, S, Neg(bcp.lit))
<1>1. tr \in TrailRecords /\ TrailInv(tr) /\ Len(tr.trail) \in Nat
  BY ReasonTypes, TrailTypes
<1>2. /\ bcp.lit \in Lits /\ tr.level[VarOf(bcp.lit)] = DecisionLevel(tr)
      /\ tr.qhead \in 1..Len(tr.trail) /\ tr.trail[tr.qhead] = bcp.lit
      /\ VarOf(Neg(bcp.lit)) = VarOf(bcp.lit)
  BY VisitLevel, LitFacts
<1>3. /\ Len(u.trail) = Len(tr.trail) + 1 /\ u.trail[Len(tr.trail) + 1] = m
      /\ u.level[VarOf(m)] = DecisionLevel(tr)
      /\ u.level[VarOf(bcp.lit)] = tr.level[VarOf(bcp.lit)]
  BY <1>1, <1>2, AssignFacts
<1>4. Len(tr.trail) + 1 \in 1..Len(u.trail) /\ DecisionLevel(tr) \in Nat
  BY <1>1, <1>3, TrailTypes
<1> QED
  BY <1>2, <1>3, <1>4 DEF Guarded, TrueAt

\* The guards of a visit stay.
LEMMA GuardedVisit ==
    ASSUME Inv, UNCHANGED tr \/ Assigns, NEW S, NEW w \in Lits, Guarded(tr, S, w), NEW u, u = tr'
    PROVE  Guarded(u, S, w)
  BY GuardedGrows

\* A visit that goes on to the next watcher, of clause d.
GoesOn(d) ==
    /\ pc = "visit" /\ pc' = "visit" /\ bcp.todo # << >> /\ d = AtHand.clause
    /\ bcp'.lit = bcp.lit /\ bcp'.todo = Tail(bcp.todo)
    /\ UNCHANGED tr \/ Assigns
    /\ Len(arena') = Len(arena) /\ \A c \in ClauseIds \ {d} : arena'[c] = arena[c]
    /\ SameLiterals(arena'[d].lits, arena[d].lits)
    /\ arena'[d].learned = arena[d].learned /\ arena'[d].deleted = arena[d].deleted

\* The first two literals are f and x.
FirstTwo(lits, f, x) == (lits[1] = f /\ lits[2] = x) \/ (lits[1] = x /\ lits[2] = f)

LEMMA AtHandGood ==
    ASSUME PropInv, WatchesGood, NEW d \in ClauseIds, GoesOn(d), ~arena[d].deleted,
           NEW f, f = First, NEW x, FirstTwo(arena'[d].lits, f, x), NEW S, S = LitsOf(d),
           NEW u, u = tr', Guarded(u, S, x)
    PROVE  OneGood(d)' /\ (~arena[d].learned => BothGood(d)')
<1>0. WatchInv /\ Inv /\ Stored /\ pc = "visit" /\ bcp.todo # << >> /\ d = AtHand.clause
  BY DEF PropInv, ReasonInv, WatchInv, GoesOn
<1>1. LitsOf(d)' = S
  BY DEF GoesOn, SameLiterals, LitsOf
<1>2. Handled(d, x)'
  BY <1>1 DEF Handled
<1>3. OneGood(d)'
  BY <1>2 DEF OneGood, FirstTwo
<1>4. ASSUME ~arena[d].learned PROVE Handled(d, f)'
  <2>1. /\ arena[d].lits \in Seq(Lits) /\ Len(arena[d].lits) > 1
        /\ \/ f = arena[d].lits[1] /\ Neg(bcp.lit) = arena[d].lits[2]
           \/ f = arena[d].lits[2] /\ Neg(bcp.lit) = arena[d].lits[1]
    BY <1>0, AtHandSame
  <2>2. 1 \in 1..Len(arena[d].lits) /\ 2 \in 1..Len(arena[d].lits)
    BY <2>1
  <2>3. f # Neg(bcp.lit) /\ f \in Lits
    <3>1. NoRepeats(arena[d].lits)
      BY <1>0, <1>4 DEF Stored
    <3>2. arena[d].lits[1] # arena[d].lits[2]
      BY <2>2, <3>1 DEF NoRepeats
    <3> QED
      BY <1>0, <2>1, <3>2, AtHandFacts
  <2>4. Handled(d, f)
    BY <1>4, <2>1 DEF WatchesGood, BothGood, Live
  <2>5. Guarded(tr, S, f)
    BY <1>0, <2>3, <2>4 DEF Handled, Damaged
  <2>6. Guarded(u, S, f)
    BY <1>0, <2>3, <2>5, GuardedVisit DEF GoesOn
  <2> QED
    BY <1>1, <2>6 DEF Handled
<1> QED
  BY <1>2, <1>3, <1>4 DEF BothGood, FirstTwo

\* The watches of other clauses.
LEMMA OtherHandled ==
    ASSUME Inv, NEW d \in ClauseIds, GoesOn(d), NEW c \in ClauseIds \ {d}, NEW l \in Lits,
           Handled(c, l)
    PROVE  Handled(c, l)'
<1>1. /\ pc = "visit" /\ pc' = "visit" /\ bcp.todo # << >> /\ d = Head(bcp.todo).clause
      /\ bcp'.lit = bcp.lit /\ bcp'.todo = Tail(bcp.todo)
  BY DEF GoesOn, AtHand
<1>2. PICK S, u : S = LitsOf(c) /\ u = tr'
  OBVIOUS
<1>3. LitsOf(c)' = S
  BY <1>2 DEF GoesOn, LitsOf
<1>4. CASE Waits(c) /\ l = Neg(bcp.lit)
  <2>1. PICK i \in 1..Len(bcp.todo) : bcp.todo[i].clause = c
    BY <1>4 DEF Waits
  <2>2. bcp.todo \in Seq(WatchersIn(arena))
    BY ReasonTypes, BcpFacts
  <2>3. i # 1
    BY <1>1, <2>1, <2>2
  <2>4. i - 1 \in 1..Len(Tail(bcp.todo)) /\ Tail(bcp.todo)[i - 1] = bcp.todo[i]
    BY <1>1, <2>1, <2>2, <2>3
  <2>5. Waits(c)'
    BY <1>1, <2>1, <2>4 DEF Waits
  <2> QED
    BY <1>1, <1>4, <2>5 DEF Handled
<1>5. CASE Guarded(tr, S, l)
  <2>1. Guarded(u, S, l)
    BY <1>2, <1>5, GuardedVisit DEF GoesOn
  <2> QED
    BY <1>2, <1>3, <2>1 DEF Handled
<1> QED
  BY <1>1, <1>2, <1>4, <1>5 DEF Handled, Damaged

LEMMA VisitWell ==
    ASSUME PropInv, WatchesGood, NEW d \in ClauseIds, GoesOn(d),
           arena[d].deleted \/ (OneGood(d)' /\ (~arena[d].learned => BothGood(d)'))
    PROVE  /\ WellWatched \subseteq WellWatched'
           /\ \A c \in Live' : ~arena'[c].learned => BothGood(c)'
           /\ \A b \in LitsOf(d) :
                ~arena[d].deleted /\ Len(arena[d].lits) > 1 => Watcher(d, b) \in WellWatched'
<1>0. /\ Inv /\ Stored /\ arena \in Seq(ArenaClauses) /\ ClauseIds = 1..Len(arena)
      /\ ClauseIds' = ClauseIds /\ Len(arena) \in Nat /\ Len(arena') = Len(arena)
  BY ReasonTypes DEF PropInv, ReasonInv, WatchInv, ClauseIds, GoesOn
<1>1. \A c \in ClauseIds : /\ Len(arena'[c].lits) = Len(arena[c].lits) /\ LitsOf(c)' = LitsOf(c)
                           /\ arena'[c].deleted = arena[c].deleted
                           /\ arena'[c].learned = arena[c].learned
                           /\ c # d => arena'[c] = arena[c]
  BY <1>0 DEF GoesOn, SameLiterals, LitsOf
<1>2. ASSUME NEW c \in ClauseIds, c # d, Len(arena[c].lits) > 1
      PROVE  (OneGood(c) => OneGood(c)') /\ (BothGood(c) => BothGood(c)')
  <2>1. arena'[c].lits = arena[c].lits
    BY <1>1, <1>2
  <2>2. \A l \in Lits : Handled(c, l) => Handled(c, l)'
    BY <1>0, <1>2, OtherHandled
  <2> QED
    BY <1>0, <1>2, <2>1, <2>2, GoodStays
<1>3. WatchersIn(arena) \subseteq WatchersIn(arena')
  BY <1>0, <1>1, WatchersGrow
<1>4. ASSUME NEW w \in WellWatched PROVE w \in WellWatched'
  <2>1. PICK c, b : c = w.clause /\ b = w.blocker
    OBVIOUS
  <2>2. /\ w \in WatchersIn(arena) /\ c \in ClauseIds /\ Len(arena[c].lits) > 1 /\ b \in LitsOf(c)
        /\ arena[c].deleted \/ OneGood(c)
    BY <1>0, <2>1, WatcherFacts DEF WellWatched
  <2>3. w \in WatchersIn(arena') /\ b \in LitsOf(c)' /\ (arena'[c].deleted \/ OneGood(c)')
    BY <1>1, <1>2, <1>3, <2>2
  <2> QED
    BY <2>1, <2>3 DEF WellWatched
<1>5. ASSUME NEW c \in Live', ~arena'[c].learned PROVE BothGood(c)'
  <2>1. c \in ClauseIds /\ c \in Live /\ ~arena[c].deleted /\ ~arena[c].learned
    BY <1>0, <1>1, <1>5 DEF Live
  <2>2. Len(arena[c].lits) > 1 /\ BothGood(c)
    BY <1>0, <2>1 DEF Stored, WatchesGood
  <2> QED
    BY <1>2, <2>1, <2>2
<1>6. ASSUME NEW b \in LitsOf(d), ~arena[d].deleted, Len(arena[d].lits) > 1
      PROVE  Watcher(d, b) \in WellWatched'
  <2>1. b \in Lits /\ b \in LitsOf(d)'
    <3>1. arena[d].lits \in Seq(Lits)
      BY <1>0, ClauseFacts
    <3> QED
      BY <1>1, <3>1 DEF LitsOf, ToSet
  <2>2. Watcher(d, b) \in WatchersIn(arena')
    BY <1>0, <1>1, <1>6, <2>1 DEF Watcher, WatchersIn
  <2>3. Watcher(d, b).clause = d /\ Watcher(d, b).blocker = b
    BY DEF Watcher
  <2> QED
    BY <1>6, <2>1, <2>2, <2>3 DEF WellWatched
<1> QED
  BY <1>4, <1>5, <1>6

\* Watchers taken from a list, kept, or moved to another list.
LEMMA VisitLists ==
    ASSUME NEW V, NEW W, V \subseteq W, ListsIn(V), pc = "visit", bcp.todo # << >>,
           bcp'.todo = Tail(bcp.todo), NEW w \in W,
           bcp'.keep = bcp.keep \/ bcp'.keep = Append(bcp.keep, w),
           \/ UNCHANGED watches
           \/ \E l \in Lits : watches' = [watches EXCEPT ![l] = Append(@, w)]
    PROVE  watches' \in [Lits -> Seq(W)] /\ bcp'.todo \in Seq(W) /\ bcp'.keep \in Seq(W)
<1>1. watches \in [Lits -> Seq(V)] /\ bcp.todo \in Seq(V) /\ bcp.keep \in Seq(V)
  BY DEF ListsIn
<1>2. Seq(V) \subseteq Seq(W)
  BY SeqGrows
<1>3. watches \in [Lits -> Seq(W)] /\ bcp.todo \in Seq(W) /\ bcp.keep \in Seq(W)
  BY <1>1, <1>2
<1>4. bcp'.todo \in Seq(W)
  <2>1. PICK t : t = bcp.todo
    OBVIOUS
  <2>2. Tail(t) \in Seq(W)
    BY <1>3, <2>1
  <2> QED
    BY <2>1, <2>2
<1>5. bcp'.keep \in Seq(W)
  <2>1. PICK t : t = bcp.keep
    OBVIOUS
  <2>2. Append(t, w) \in Seq(W)
    BY <1>3, <2>1
  <2> QED
    BY <1>3, <2>1, <2>2
<1>6. ASSUME NEW l \in Lits, watches' = [watches EXCEPT ![l] = Append(@, w)]
      PROVE  watches' \in [Lits -> Seq(W)]
  <2>1. PICK t : t = watches[l]
    OBVIOUS
  <2>2. Append(t, w) \in Seq(W)
    BY <1>3, <2>1
  <2>3. watches' = [watches EXCEPT ![l] = Append(t, w)]
    BY <1>6, <2>1
  <2> QED
    BY <1>3, <2>2, <2>3
<1> QED
  BY <1>3, <1>4, <1>5, <1>6

LEMMA VisitDone ==
    ASSUME PropInv, WatchesGood, NEW d \in ClauseIds, GoesOn(d),
           arena[d].deleted \/ (OneGood(d)' /\ (~arena[d].learned => BothGood(d)')),
           NEW w, \/ w \in WellWatched
                  \/ ~arena[d].deleted /\ Len(arena[d].lits) > 1
                     /\ \E b \in LitsOf(d) : w = Watcher(d, b),
           bcp'.keep = bcp.keep \/ bcp'.keep = Append(bcp.keep, w),
           \/ UNCHANGED watches
           \/ \E l \in Lits : watches' = [watches EXCEPT ![l] = Append(@, w)]
    PROVE  WatchesGood'
<1>1. PICK V, W : V = WellWatched /\ W = WellWatched'
  OBVIOUS
<1>2. V \subseteq W /\ w \in W /\ \A c \in Live' : ~arena'[c].learned => BothGood(c)'
  BY <1>1, VisitWell
<1>3. ListsIn(V) /\ pc = "visit" /\ bcp.todo # << >> /\ bcp'.todo = Tail(bcp.todo)
  BY <1>1 DEF WatchesGood, GoesOn
<1>4. watches' \in [Lits -> Seq(W)] /\ bcp'.todo \in Seq(W) /\ bcp'.keep \in Seq(W)
  BY <1>2, <1>3, VisitLists
<1> QED
  BY <1>1, <1>2, <1>4 DEF WatchesGood, ListsIn

LEMMA VisitSkipGood == ASSUME PropInv, WatchesGood, VisitSkip PROVE WatchesGood'
<1>0. WatchInv /\ Inv /\ QueueOK /\ bcp \in BcpRecords(arena) /\ pc = "visit" /\ bcp.todo # << >>
  BY ReasonTypes DEF PropInv, ReasonInv, WatchInv, VisitSkip, Visit
<1>1. PICK d, S, f, x, w : d = AtHand.clause /\ S = LitsOf(d) /\ f = First /\ x = Neg(bcp.lit)
                           /\ w = AtHand
  OBVIOUS
<1>2. d \in ClauseIds /\ arena[d].lits \in Seq(Lits) /\ FirstTwo(arena[d].lits, f, x)
  BY <1>0, <1>1, AtHandSame DEF FirstTwo
<1>3. /\ UNCHANGED <<arena, watches, tr, pc>> /\ bcp'.lit = bcp.lit /\ bcp'.todo = Tail(bcp.todo)
      /\ bcp'.keep = bcp.keep \/ bcp'.keep = Append(bcp.keep, w)
      /\ arena[d].deleted \/ IsTrue(tr, w.blocker)
  BY <1>0, <1>1 DEF VisitSkip, Visit, db, BcpRecords
<1>4. GoesOn(d)
  BY <1>0, <1>1, <1>2, <1>3 DEF GoesOn, SameLiterals
<1>5. w \in WellWatched
  <2>1. bcp.todo \in Seq(WellWatched)
    BY <1>0 DEF WatchesGood, ListsIn
  <2> QED
    BY <1>0, <1>1, <2>1 DEF AtHand
<1>6. ASSUME ~arena[d].deleted PROVE OneGood(d)' /\ (~arena[d].learned => BothGood(d)')
  <2>1. w.blocker \in S /\ w.blocker \in Lits
    BY <1>1, <1>5, WatcherFacts DEF WellWatched
  <2>2. Guarded(tr, S, x)
    BY <1>0, <1>1, <1>3, <1>6, <2>1, TrueGuards
  <2> QED
    BY <1>1, <1>2, <1>3, <1>4, <1>6, <2>2, AtHandGood
<1> QED
  BY <1>2, <1>3, <1>4, <1>5, <1>6, VisitDone

LEMMA VisitKeepGood ==
    ASSUME PropInv, WatchesGood, VisitSatisfied \/ VisitUnit PROVE WatchesGood'
<1>0. WatchInv /\ Inv /\ QueueOK /\ bcp \in BcpRecords(arena) /\ pc = "visit" /\ bcp.todo # << >>
      /\ tr \in TrailRecords
  BY ReasonTypes DEF PropInv, ReasonInv, WatchInv, VisitSatisfied, VisitUnit, Visit
<1>1. PICK d, S, f, x, w, u : d = AtHand.clause /\ S = LitsOf(d) /\ f = First /\ x = Neg(bcp.lit)
                              /\ w = Watcher(d, f) /\ u = tr'
  OBVIOUS
<1>2. /\ d \in ClauseIds /\ arena[d].lits \in Seq(Lits) /\ Len(arena[d].lits) > 1
      /\ SameLiterals(ClauseAtHand, arena[d].lits) /\ FirstTwo(ClauseAtHand, f, x) /\ f \in Lits
  BY <1>0, <1>1, AtHandSame, AtHandFacts DEF FirstTwo, First
<1>3. f \in S
  <2>1. 1 \in 1..Len(ClauseAtHand) /\ ClauseAtHand \in Seq(Lits)
    BY <1>2 DEF SameLiterals
  <2>2. f \in ToSet(ClauseAtHand)
    BY <1>1, <2>1 DEF First, ToSet
  <2> QED
    BY <1>1, <1>2, <2>2 DEF SameLiterals, LitsOf
<1>4. /\ arena' = [arena EXCEPT ![d].lits = ClauseAtHand] /\ UNCHANGED <<watches, pc>>
      /\ bcp'.lit = bcp.lit /\ bcp'.todo = Tail(bcp.todo) /\ bcp'.keep = Append(bcp.keep, w)
  BY <1>0, <1>1 DEF VisitSatisfied, VisitUnit, BcpRecords
<1>5. ~arena[d].deleted
  BY <1>1 DEF VisitSatisfied, VisitUnit, Visit
<1>6. (UNCHANGED tr \/ Assigns) /\ Guarded(u, S, x)
  <2>1. CASE VisitSatisfied
    <3>1. UNCHANGED tr /\ IsTrue(tr, f)
      BY <1>1, <2>1 DEF VisitSatisfied
    <3> QED
      BY <1>0, <1>1, <1>2, <1>3, <3>1, TrueGuards
  <2>2. CASE VisitUnit
    <3>1. u = Assign(tr, f, d) /\ LitValue(tr, f) = "Undef" /\ d \in Reasons
      BY <1>0, <1>1, <2>2, AtHandFacts DEF VisitUnit, Reasons
    <3>2. ~IsAssigned(tr, VarOf(f))
      BY <1>0, <1>2, <3>1, NeitherIsOpen DEF IsTrue, IsFalse
    <3>3. Guarded(u, S, x)
      BY <1>0, <1>1, <1>2, <1>3, <3>1, <3>2, UnitGuards
    <3> QED
      BY <1>1, <1>2, <3>1, <3>2, <3>3 DEF Assigns
  <2> QED
    BY <2>1, <2>2
<1>7. /\ Len(arena') = Len(arena) /\ arena'[d].lits = ClauseAtHand
      /\ arena'[d].deleted = arena[d].deleted /\ arena'[d].learned = arena[d].learned
      /\ \A c \in ClauseIds \ {d} : arena'[c] = arena[c]
  BY <1>0, <1>2, <1>4, WrittenBack
<1>8. GoesOn(d)
  BY <1>0, <1>1, <1>2, <1>4, <1>6, <1>7 DEF GoesOn
<1>9. OneGood(d)' /\ (~arena[d].learned => BothGood(d)')
  BY <1>1, <1>2, <1>5, <1>6, <1>7, <1>8, AtHandGood
<1> QED
  BY <1>1, <1>2, <1>3, <1>4, <1>5, <1>8, <1>9, VisitDone

LEMMA VisitRewatchGood == ASSUME PropInv, WatchesGood, VisitRewatch PROVE WatchesGood'
<1>0. WatchInv /\ Inv /\ QueueOK /\ bcp \in BcpRecords(arena) /\ pc = "visit" /\ bcp.todo # << >>
      /\ tr \in TrailRecords /\ TrailInv(tr)
  BY ReasonTypes DEF PropInv, ReasonInv, WatchInv, VisitRewatch, Visit
<1>1. PICK d, S, f, w, h : d = AtHand.clause /\ S = LitsOf(d) /\ f = First /\ w = Watcher(d, f)
                           /\ h = ClauseAtHand
  OBVIOUS
<1>2. PICK i \in NewWatches :
          /\ arena' = [arena EXCEPT ![d].lits = [h EXCEPT ![2] = h[i], ![i] = Neg(bcp.lit)]]
          /\ watches' = [watches EXCEPT ![Neg(h[i])] = Append(@, w)]
  BY <1>1 DEF VisitRewatch
<1>3. PICK g, x : Rewatched(g, i) /\ x = h[i]
  BY DEF Rewatched
<1>4. /\ d \in ClauseIds /\ arena[d].lits \in Seq(Lits) /\ Len(arena[d].lits) > 1
      /\ SameLiterals(g, arena[d].lits) /\ FirstTwo(g, f, x) /\ x \in Lits
      /\ f = arena[d].lits[1] \/ f = arena[d].lits[2]
  BY <1>0, <1>1, <1>3, AtHandSame, RewatchSame DEF FirstTwo
<1>5. f \in S
  <2>1. 1 \in 1..Len(arena[d].lits) /\ 2 \in 1..Len(arena[d].lits)
    BY <1>4
  <2> QED
    BY <1>1, <1>4, <2>1 DEF LitsOf, ToSet
<1>6. /\ arena' = [arena EXCEPT ![d].lits = g] /\ UNCHANGED <<tr, pc>>
      /\ bcp'.lit = bcp.lit /\ bcp'.todo = Tail(bcp.todo) /\ bcp'.keep = bcp.keep
      /\ ~arena[d].deleted
  BY <1>0, <1>1, <1>2, <1>3 DEF VisitRewatch, Visit, BcpRecords, Rewatched
<1>7. Guarded(tr, S, x)
  <2>1. ~IsFalse(tr, x)
    BY <1>1, <1>3 DEF NewWatches
  <2> QED
    BY <1>0, <1>4, <2>1, NotFalseGuarded
<1>8. /\ Len(arena') = Len(arena) /\ arena'[d].lits = g
      /\ arena'[d].deleted = arena[d].deleted /\ arena'[d].learned = arena[d].learned
      /\ \A c \in ClauseIds \ {d} : arena'[c] = arena[c]
  BY <1>0, <1>4, <1>6, WrittenBack
<1>9. GoesOn(d)
  BY <1>0, <1>1, <1>4, <1>6, <1>8 DEF GoesOn
<1>10. OneGood(d)' /\ (~arena[d].learned => BothGood(d)')
  BY <1>1, <1>4, <1>6, <1>7, <1>8, <1>9, AtHandGood
<1>11. Neg(x) \in Lits /\ watches' = [watches EXCEPT ![Neg(x)] = Append(@, w)]
  BY <1>2, <1>3, <1>4, LitFacts
<1> QED
  BY <1>1, <1>4, <1>5, <1>6, <1>9, <1>10, <1>11, VisitDone

\* A conflict leaves watchers unvisited, all of literals of the current level.
LEMMA VisitConflictGood == ASSUME PropInv, WatchesGood, VisitConflict PROVE WatchesGood'
<1>0. /\ WatchInv /\ Inv /\ QueueOK /\ Stored /\ bcp \in BcpRecords(arena) /\ pc = "visit"
      /\ bcp.todo # << >> /\ arena \in Seq(ArenaClauses) /\ ClauseIds = 1..Len(arena)
      /\ Len(arena) \in Nat
  BY ReasonTypes DEF PropInv, ReasonInv, WatchInv, VisitConflict, Visit
<1>1. PICK d, f, x, w : d = AtHand.clause /\ f = First /\ x = Neg(bcp.lit) /\ w = Watcher(d, f)
  OBVIOUS
<1>2. /\ d \in ClauseIds /\ arena[d].lits \in Seq(Lits) /\ Len(arena[d].lits) > 1
      /\ SameLiterals(ClauseAtHand, arena[d].lits)
      /\ FirstTwo(ClauseAtHand, f, x) /\ FirstTwo(arena[d].lits, f, x) /\ f \in Lits /\ x \in Lits
  BY <1>0, <1>1, AtHandSame, AtHandFacts, VisitLevel, LitFacts DEF FirstTwo, First
<1>3. /\ arena' = [arena EXCEPT ![d].lits = ClauseAtHand] /\ UNCHANGED tr /\ pc' = "conflict"
      /\ watches' = [watches EXCEPT ![bcp.lit] = Append(bcp.keep, w) \o Tail(bcp.todo)]
      /\ ~arena[d].deleted /\ Damaged'
  BY <1>0, <1>1, ReasonTypes DEF VisitConflict, Visit, Damaged, AnRecords
<1>4. /\ Len(arena') = Len(arena) /\ arena'[d].lits = ClauseAtHand
      /\ arena'[d].deleted = arena[d].deleted /\ arena'[d].learned = arena[d].learned
      /\ \A c \in ClauseIds \ {d} : arena'[c] = arena[c]
  BY <1>0, <1>2, <1>3, WrittenBack
<1>5. \A c \in ClauseIds : /\ Len(arena'[c].lits) = Len(arena[c].lits) /\ LitsOf(c)' = LitsOf(c)
                           /\ arena'[c].deleted = arena[c].deleted
                           /\ arena'[c].learned = arena[c].learned
  BY <1>2, <1>4 DEF SameLiterals, LitsOf
<1>6. ASSUME NEW c \in ClauseIds, NEW l \in Lits, Handled(c, l) PROVE Handled(c, l)'
  <2>1. CASE l = x
    <3>1. tr.level[VarOf(l)] = DecisionLevel(tr)
      BY <1>0, <1>1, <2>1, VisitLevel, LitFacts
    <3> QED
      BY <1>3, <3>1 DEF Handled
  <2>2. CASE l # x
    <3>1. Guarded(tr, LitsOf(c), l)
      BY <1>0, <1>1, <1>6, <2>2 DEF Handled, Damaged
    <3> QED
      BY <1>3, <1>5, <3>1 DEF Handled
  <2> QED
    BY <2>1, <2>2
<1>7. ASSUME NEW c \in ClauseIds, Len(arena[c].lits) > 1
      PROVE  (OneGood(c) => OneGood(c)') /\ (BothGood(c) => BothGood(c)')
  <2>1. CASE c = d
    BY <1>2, <1>4, <1>6, <2>1 DEF OneGood, BothGood, FirstTwo
  <2>2. CASE c # d
    BY <1>0, <1>4, <1>6, <1>7, <2>2, GoodStays
  <2> QED
    BY <2>1, <2>2
<1>8. OneGood(d)'
  <2>1. Handled(d, x)'
    <3>1. tr.level[VarOf(x)] = DecisionLevel(tr)
      BY <1>0, <1>1, VisitLevel, LitFacts
    <3> QED
      BY <1>3, <3>1 DEF Handled
  <2> QED
    BY <1>2, <1>4, <2>1 DEF OneGood, FirstTwo
<1>9. WatchersIn(arena) \subseteq WatchersIn(arena')
  BY <1>0, <1>4, <1>5, WatchersGrow
<1>10. PICK V, W : V = WellWatched /\ W = WellWatched'
  OBVIOUS
<1>11. V \subseteq W
  <2> SUFFICES ASSUME NEW v \in WellWatched PROVE v \in WellWatched'
    BY <1>10
  <2>1. PICK c, b : c = v.clause /\ b = v.blocker
    OBVIOUS
  <2>2. /\ v \in WatchersIn(arena) /\ c \in ClauseIds /\ Len(arena[c].lits) > 1 /\ b \in LitsOf(c)
        /\ arena[c].deleted \/ OneGood(c)
    BY <1>0, <2>1, WatcherFacts DEF WellWatched
  <2>3. v \in WatchersIn(arena') /\ b \in LitsOf(c)' /\ (arena'[c].deleted \/ OneGood(c)')
    BY <1>5, <1>7, <1>9, <2>2
  <2> QED
    BY <2>1, <2>3 DEF WellWatched
<1>12. w \in W
  <2>1. f \in LitsOf(d)'
    <3>1. 1 \in 1..Len(arena[d].lits) /\ 2 \in 1..Len(arena[d].lits)
      BY <1>2
    <3>2. f \in LitsOf(d)
      BY <1>2, <3>1 DEF FirstTwo, LitsOf, ToSet
    <3> QED
      BY <1>2, <1>5, <3>2
  <2>2. w \in WatchersIn(arena') /\ w.clause = d /\ w.blocker = f
    BY <1>0, <1>1, <1>2, <1>4, <1>5 DEF Watcher, WatchersIn
  <2> QED
    BY <1>8, <1>10, <2>1, <2>2 DEF WellWatched
<1>13. watches' \in [Lits -> Seq(W)]
  <2>1. watches \in [Lits -> Seq(V)] /\ bcp.todo \in Seq(V) /\ bcp.keep \in Seq(V)
    BY <1>0, <1>10 DEF WatchesGood, ListsIn
  <2>2. watches \in [Lits -> Seq(W)] /\ bcp.todo \in Seq(W) /\ bcp.keep \in Seq(W)
    BY <1>11, <2>1, SeqGrows
  <2>3. PICK s, t : s = Append(bcp.keep, w) /\ t = Tail(bcp.todo)
    OBVIOUS
  <2>4. s \in Seq(W) /\ t \in Seq(W)
    BY <1>0, <1>12, <2>2, <2>3
  <2>5. s \o t \in Seq(W)
    BY <2>4, ConcatFact
  <2>6. watches' = [watches EXCEPT ![bcp.lit] = s \o t]
    BY <1>3, <2>3
  <2> QED
    BY <2>2, <2>5, <2>6
<1>14. ListsIn(WellWatched)'
  BY <1>3, <1>10, <1>13 DEF ListsIn
<1>15. ASSUME NEW c \in Live', ~arena'[c].learned PROVE BothGood(c)'
  <2>1. c \in ClauseIds /\ c \in Live /\ ~arena[c].learned
    BY <1>4, <1>5, <1>15 DEF Live, ClauseIds
  <2> QED
    BY <1>0, <1>7, <2>1 DEF Stored, WatchesGood
<1> QED
  BY <1>14, <1>15 DEF WatchesGood

LEMMA VisitEndGood == ASSUME PropInv, WatchesGood, VisitEnd PROVE WatchesGood'
<1>0. Inv /\ Stored /\ arena \in Seq(ArenaClauses) /\ ClauseIds = 1..Len(arena) /\ bcp.lit \in Lits
  BY ReasonTypes, BcpFacts DEF PropInv, ReasonInv, WatchInv
<1>1. /\ pc = "visit" /\ bcp.todo = << >> /\ UNCHANGED <<arena, tr>> /\ pc' = "bcp"
      /\ watches' = [watches EXCEPT ![bcp.lit] = bcp.keep]
  BY DEF VisitEnd
<1>2. \A c, l : Handled(c, l) => Handled(c, l)'
  BY <1>1 DEF Handled, Waits, Damaged, LitsOf
<1>3. WellWatched \subseteq WellWatched'
  BY <1>1, <1>2 DEF WellWatched, OneGood, LitsOf
<1>4. \A c \in Live' : ~arena'[c].learned => BothGood(c)'
  BY <1>1, <1>2 DEF WatchesGood, BothGood, Live, ClauseIds
<1>5. PICK V, W : V = WellWatched /\ W = WellWatched'
  OBVIOUS
<1>6. watches \in [Lits -> Seq(V)] /\ bcp.keep \in Seq(V) /\ V \subseteq W
  BY <1>1, <1>3, <1>5 DEF WatchesGood, ListsIn
<1>7. watches' \in [Lits -> Seq(V)]
  BY <1>0, <1>1, <1>6
<1>8. watches' \in [Lits -> Seq(W)]
  BY <1>6, <1>7, SeqGrows
<1>9. ListsIn(WellWatched)'
  BY <1>1, <1>5, <1>8 DEF ListsIn
<1> QED
  BY <1>4, <1>9 DEF WatchesGood

\* bcp() ends with nothing left to visit.
LEMMA BcpOkGood == ASSUME PropInv, WatchesGood, BcpOk PROVE WatchesGood'
<1>1. pc = "bcp" /\ pc' # "visit" /\ UNCHANGED <<arena, watches, tr>>
  BY DEF BcpOk, db
<1>2. KeepsGuards
  BY <1>1 DEF KeepsGuards, Damaged
<1> QED
  BY <1>1, <1>2, QuietStep

LEMMA PropagateGood == ASSUME PropInv, WatchesGood, Propagate PROVE WatchesGood'
  BY DequeueGood, VisitSkipGood, VisitKeepGood, VisitRewatchGood, VisitConflictGood, VisitEndGood,
     BcpOkGood DEF Propagate

-----------------------------------------------------------------------------
(* The invariant is inductive.                                              *)

\* No step makes a solver ok again.
LEMMA OkEnds == ASSUME Inv, [Next]_vars, ok' PROVE ok
<1>1. CASE UNCHANGED vars
  BY <1>1 DEF vars, rest
<1>2. CASE Client
  <2>1. CASE AddClause
    <3>1. PICK lits \in Seq(Lits) :
              AddDropped(lits) \/ AddRefuted(lits) \/ AddUnit(lits) \/ AddStored(lits)
      BY <2>1, AddClauseCases
    <3> QED
      BY <3>1 DEF AddDropped, AddRefuted, AddUnit, AddStored
  <2>2. CASE NewVar \/ Push \/ Pop \/ Solve
    BY <2>2 DEF NewVar, Push, Pop, Solve, rest
  <2> QED
    BY <1>2, <2>1, <2>2 DEF Client
<1>3. CASE Propagate
  BY <1>3 DEF Propagate, BcpDequeue, VisitSkip, VisitSatisfied, VisitRewatch, VisitUnit,
              VisitConflict, VisitEnd, BcpOk, KeepRest, rest
<1>4. CASE Conflict
  BY <1>4 DEF Conflict, ConflictInAddClause, ConflictBeforeSearch, ConflictAtLevelZero,
              StartAnalysis, MarkLit, PickLit, AssumptionsRefuted, Backjump, ReduceDb, Learn, rest
<1>5. CASE Search
  BY <1>5 DEF Search, BudgetExhausted, Loop, TheoryConflict, TheoryOk, DecideAssumption,
              DecideVar, AllAssigned, Finish, Return, rest
<1> QED
  BY <1>1, <1>2, <1>3, <1>4, <1>5 DEF Next, Step

LEMMA GoodUnchanged == ASSUME WatchesGood, UNCHANGED vars PROVE WatchesGood'
<1>1. UNCHANGED <<arena, watches, tr, pc, bcp, an>>
  BY DEF vars, db
<1>2. \A c, l : Handled(c, l)' <=> Handled(c, l)
  BY <1>1 DEF Handled, Damaged, Waits, LitsOf
<1>3. WellWatched' = WellWatched
  BY <1>1, <1>2 DEF WellWatched, OneGood, LitsOf
<1>4. \A c \in Live' : ~arena'[c].learned => BothGood(c)'
  BY <1>1, <1>2 DEF WatchesGood, BothGood, Live, ClauseIds
<1>5. ListsIn(WellWatched)'
  BY <1>1, <1>3 DEF WatchesGood, ListsIn
<1> QED
  BY <1>4, <1>5 DEF WatchesGood

LEMMA GoodStep ==
    ASSUME PropInv, [Next]_vars, Undisturbed', ok' PROVE WatchesGood'
<1>1. Inv
  BY DEF PropInv, ReasonInv, WatchInv
<1>2. Undisturbed /\ ok
  BY <1>1, OkEnds, StaysUndisturbed
<1>3. WatchesGood /\ AtZero
  BY <1>2 DEF PropInv
<1> QED
  BY <1>3, GoodUnchanged, ClientGood, PropagateGood, ConflictGood, SearchGood DEF Next, Step

LEMMA PropInit == Init => PropInv
<1> SUFFICES ASSUME Init PROVE PropInv
  OBVIOUS
<1>1. /\ ReasonInv /\ tr.trail = << >> /\ tr.trail_lim = << >> /\ tr.qhead = 0
      /\ arena = << >> /\ watches = [l \in Lits |-> << >>] /\ pc = "idle" /\ ok
      /\ ClauseIds = {}
  BY ReasonInit DEF Init, NewTrail, ClauseIds
<1>2. QueueOK /\ Busy /\ Stored /\ AtZero
  BY <1>1 DEF QueueOK, Busy, Stored, AtZero, Searching, DecisionLevel
<1>3. \A W : watches \in [Lits -> Seq(W)]
  BY <1>1
<1>4. ListsIn(WellWatched)
  BY <1>1, <1>3 DEF ListsIn
<1>5. WatchesGood
  BY <1>1, <1>4 DEF WatchesGood, Live
<1> QED
  BY <1>1, <1>2, <1>5 DEF PropInv

LEMMA PropNext == ASSUME PropInv, [Next]_vars PROVE PropInv'
<1>1. /\ ReasonInv /\ WatchInv /\ Inv /\ QueueOK /\ Busy /\ Stored
      /\ Undisturbed => AtZero
  BY DEF PropInv, ReasonInv, WatchInv
<1>2. ReasonInv' /\ QueueOK' /\ Busy' /\ Stored' /\ (Undisturbed' => AtZero')
  BY <1>1, ReasonNext, QueueStep, BusyStep, StoredStep, AtZeroStep
<1>3. Undisturbed' /\ ok' => WatchesGood'
  BY GoodStep
<1> QED
  BY <1>2, <1>3 DEF PropInv

-----------------------------------------------------------------------------
(* Propagation is complete.                                                 *)

\* A false literal that has been handled leaves its clause true.
LEMMA GuardTrue ==
    ASSUME NEW t \in TrailRecords, TrailInv(t), t.qhead = Len(t.trail), NEW S, NEW l \in Lits,
           Guarded(t, S, l), IsFalse(t, l)
    PROVE  \E m \in S : IsTrue(t, m)
<1>1. FalseBefore(t, t.qhead, l)
  BY FalseIsOnTrail DEF FalseNow
<1>2. PICK m \in S : TrueAt(t, m, t.level[VarOf(l)])
  BY <1>1 DEF Guarded
<1>3. PICK k \in 1..Len(t.trail) : t.trail[k] = m
  BY <1>2 DEF TrueAt
<1> QED
  BY <1>3 DEF TrailInv, TrailIsAssignment

\* True and false exclude each other.
LEMMA TrueNotFalse == ASSUME NEW t, NEW l, IsTrue(t, l) PROVE ~IsFalse(t, l)
  BY DEF IsTrue, IsFalse

\* Two open literals.
LEMMA TwoOpen ==
    ASSUME NEW U, IsFiniteSet(U), NEW k \in U, NEW m \in U, k # m PROVE Cardinality(U) > 1
<1>1. IsFiniteSet({k}) /\ Cardinality({k}) = 1 /\ m \notin {k}
  BY FS_Singleton
<1>2. IsFiniteSet({k} \cup {m}) /\ Cardinality({k} \cup {m}) = 2
  <2>1. \A T : IsFiniteSet(T) /\ m \notin T =>
                 IsFiniteSet(T \cup {m}) /\ Cardinality(T \cup {m}) = Cardinality(T) + 1
    BY FS_AddElement
  <2> QED
    BY <1>1, <2>1
<1>3. {k} \cup {m} \subseteq U
  OBVIOUS
<1>4. Cardinality({k} \cup {m}) <= Cardinality(U) /\ Cardinality(U) \in Nat
  BY <1>3, FS_Subset, FS_CardinalityType
<1> QED
  BY <1>2, <1>4

\* A clause that is watched at all has a watcher in some list.
LEMMA WatcherListed ==
    ASSUME PropInv, pc = "theory", WatchesGood, NEW c \in ClauseIds, Watched(c)
    PROVE  \E w \in WellWatched : w.clause = c
<1>0. WatchInv /\ Inv
  BY DEF PropInv, ReasonInv, WatchInv
<1>1. PICK l \in Lits : CountIn(c, l) > 0
  BY DEF Watched
<1>2. Total(c, l) > 0 /\ Total(c, l) = Occ(watches[l], c)
  BY <1>0, <1>1, CountsAgree, CountsNat DEF Total, WatchInv
<1>3. PICK W, s : W = WellWatched /\ s = watches[l]
  OBVIOUS
<1>4. s \in Seq(W)
  BY <1>3 DEF WatchesGood, ListsIn
<1>5. PICK i \in 1..Len(s) : s[i].clause = c
  BY <1>2, <1>3, <1>4, OccNone
<1>6. s[i] \in W
  BY <1>4, <1>5
<1> QED
  BY <1>3, <1>5, <1>6

\* The literals of a clause.
LEMMA ClauseLits ==
    ASSUME Inv, NEW c \in ClauseIds
    PROVE  /\ arena[c].lits \in Seq(Lits) /\ Len(arena[c].lits) \in Nat /\ LitsOf(c) \subseteq Lits
           /\ \A j \in 1..Len(arena[c].lits) : arena[c].lits[j] \in LitsOf(c)
<1>1. arena[c] \in ArenaClauses
  BY ReasonTypes
<1>2. arena[c].lits \in Seq(Lits)
  BY <1>1 DEF ArenaClauses
<1> QED
  BY <1>2 DEF LitsOf, ToSet

\* When propagation has ended, a clause with a good watch is not falsified.
LEMMA GoodWatch ==
    ASSUME PropInv, pc \in {"theory", "decide"}, NEW c \in ClauseIds,
           Len(arena[c].lits) > 1, NEW k \in {1, 2},
           NEW l, l = arena[c].lits[k], Handled(c, l), IsFalse(tr, l)
    PROVE  \E m \in LitsOf(c) : IsTrue(tr, m)
<1>1. tr \in TrailRecords /\ TrailInv(tr) /\ tr.qhead = Len(tr.trail)
  BY ReasonTypes DEF PropInv, ReasonInv, WatchInv, QueueOK
<1>2. l \in Lits /\ l \in LitsOf(c)
  BY ClauseLits DEF PropInv, ReasonInv, WatchInv
<1>3. Guarded(tr, LitsOf(c), l)
  BY DEF Handled, Damaged, Waits
<1>4. PICK S : S = LitsOf(c)
  OBVIOUS
<1>5. \E m \in S : IsTrue(tr, m)
  BY <1>1, <1>2, <1>3, <1>4, GuardTrue
<1> QED
  BY <1>4, <1>5

LEMMA PropagationHolds ==
    ASSUME PropInv, Unrestarted PROVE PropagationComplete
<1> SUFFICES ASSUME pc = "theory", NEW c \in Live, Watched(c)
             PROVE  /\ \E l \in LitsOf(c) : ~IsFalse(tr, l)
                    /\ ~arena[c].learned =>
                         \/ \E l \in LitsOf(c) : IsTrue(tr, l)
                         \/ Cardinality({l \in LitsOf(c) : ~IsAssigned(tr, VarOf(l))}) > 1
  BY DEF PropagationComplete
<1>0. /\ Inv /\ Stored /\ tr \in TrailRecords /\ arena \in Seq(ArenaClauses)
      /\ ClauseIds = 1..Len(arena)
  BY ReasonTypes DEF PropInv, ReasonInv, WatchInv
<1>1. WatchesGood /\ c \in ClauseIds /\ ~arena[c].deleted
  BY DEF PropInv, Undisturbed, Busy, Live
<1>2. PICK w \in WellWatched : w.clause = c
  BY <1>1, WatcherListed
<1>3. OneGood(c) /\ Len(arena[c].lits) > 1
  BY <1>1, <1>2 DEF WellWatched, WatchersIn
<1>4. PICK k, m : k = arena[c].lits[1] /\ m = arena[c].lits[2]
  OBVIOUS
<1>5. k \in LitsOf(c) /\ m \in LitsOf(c) /\ k \in Lits /\ m \in Lits
  BY <1>0, <1>1, <1>3, <1>4, ClauseLits
<1>6. \A l \in LitsOf(c) : IsTrue(tr, l) => ~IsFalse(tr, l)
  BY TrueNotFalse
<1>7. \E l \in LitsOf(c) : ~IsFalse(tr, l)
  <2>1. CASE Handled(c, k) /\ IsFalse(tr, k)
    BY <1>1, <1>3, <1>4, <1>6, <2>1, GoodWatch
  <2>2. CASE Handled(c, m) /\ IsFalse(tr, m)
    BY <1>1, <1>3, <1>4, <1>6, <2>2, GoodWatch
  <2> QED
    BY <1>3, <1>4, <1>5, <2>1, <2>2 DEF OneGood
<1>8. ASSUME ~arena[c].learned, \A l \in LitsOf(c) : ~IsTrue(tr, l)
      PROVE  Cardinality({l \in LitsOf(c) : ~IsAssigned(tr, VarOf(l))}) > 1
  <2>1. Handled(c, k) /\ Handled(c, m)
    BY <1>1, <1>4, <1>8 DEF WatchesGood, BothGood
  <2>2. ~IsFalse(tr, k) /\ ~IsFalse(tr, m)
    BY <1>1, <1>3, <1>4, <1>8, <2>1, GoodWatch
  <2>3. ~IsAssigned(tr, VarOf(k)) /\ ~IsAssigned(tr, VarOf(m))
    BY <1>0, <1>5, <1>8, <2>2, NeitherIsOpen
  <2>4. k # m
    <3>1. NoRepeats(arena[c].lits)
      BY <1>0, <1>1, <1>8 DEF Stored
    <3>2. 1 \in 1..Len(arena[c].lits) /\ 2 \in 1..Len(arena[c].lits)
      BY <1>0, <1>1, <1>3, ClauseLits
    <3> QED
      BY <1>4, <3>1, <3>2 DEF NoRepeats
  <2>5. PICK U : U = {l \in LitsOf(c) : ~IsAssigned(tr, VarOf(l))}
    OBVIOUS
  <2>6. k \in U /\ m \in U
    BY <1>5, <2>3, <2>5
  <2>7. IsFiniteSet(U)
    <3>1. U \subseteq Lits
      BY <1>0, <1>1, <2>5, ClauseLits
    <3> QED
      BY <3>1, LitsFinite
  <2> QED
    BY <2>4, <2>5, <2>6, <2>7, TwoOpen
<1> QED
  BY <1>7, <1>8

\* Whenever the theory is asked, unit propagation is complete, so long as no
\* restart has assigned a learned literal away from its level: no watched
\* clause is falsified and no input clause is unit, although watches move
\* lazily, blockers let clauses go unread, conflicts stop a visit half way and
\* backtracking touches no watch list.
THEOREM PropagationEnds == Spec => [](Unrestarted => PropagationComplete)
<1>1. Init => PropInv
  BY PropInit
<1>2. PropInv /\ [Next]_vars => PropInv'
  BY PropNext
<1>3. PropInv => (Unrestarted => PropagationComplete)
  BY PropagationHolds
<1> QED
  BY <1>1, <1>2, <1>3, PTL DEF Spec
-----------------------------------------------------------------------------
(***************************************************************************)
(* True comes with a model.  Every variable has a value, as the VSIDS heap *)
(* never loses an open one: what a search pops from it, some backtracking  *)
(* hands back.  And every input clause is kept: it is stored, in a scope   *)
(* no younger than its own, or true at level 0 for good.                   *)
(***************************************************************************)

\* OpenInHeap without its condition; the induction hypothesis beside Inv.
AllCovered == Open(1..num_vars) \subseteq heap

HeapInv == Inv /\ AllCovered

\* The variables that exist are variables of the model.
LEMMA VarsExist == ASSUME Inv PROVE 1..num_vars \subseteq Vars
<1>1. num_vars \in 0..NumVars /\ NumVars \in Nat
  BY NumVarsAssumption DEF Inv, TypeOK, RestOK
<1> QED
  BY <1>1 DEF Vars

\* Backtracking opens the variables it hands back, and no others.
LEMMA BacktrackCovered ==
    ASSUME HeapInv, NEW level \in Nat,
           tr' = BacktrackTo(tr, level), heap' = Reinserted(level), num_vars' = num_vars
    PROVE  AllCovered'
<1>1. ASSUME NEW v \in 1..num_vars, tr'.assigns[v] = "Undef"
      PROVE  tr.assigns[v] = "Undef" \/ v \in Undone(tr, level)
  <2>1. v \in Vars
    BY VarsExist DEF HeapInv
  <2>2. tr \in TrailRecords
    BY DEF HeapInv, Inv, TypeOK, TrailOK
  <2>3. CASE DecisionLevel(tr) > level
    <3>1. tr'.assigns = [u \in Vars |-> IF u \in Undone(tr, level) THEN "Undef" ELSE tr.assigns[u]]
      BY <2>2, <2>3 DEF BacktrackTo, TrailRecords
    <3> QED
      BY <1>1, <2>1, <3>1
  <2>4. CASE ~(DecisionLevel(tr) > level)
    BY <1>1, <2>4 DEF BacktrackTo
  <2> QED
    BY <2>3, <2>4
<1> QED
  BY <1>1 DEF HeapInv, AllCovered, Open, IsAssigned, Reinserted

\* Assigning a variable opens none.
LEMMA AssignCloses ==
    ASSUME NEW t \in TrailRecords, NEW l \in Lits, NEW r
    PROVE  /\ Assign(t, l, r).assigns[VarOf(l)] # "Undef"
           /\ \A v \in Vars : Assign(t, l, r).assigns[v] = "Undef" => t.assigns[v] = "Undef"
<1>1. VarOf(l) \in Vars /\ t.assigns \in [Vars -> LBool]
  BY LitFacts DEF TrailRecords
<1>2. Assign(t, l, r).assigns = [t.assigns EXCEPT ![VarOf(l)] = IF IsPos(l) THEN "True" ELSE "False"]
  BY DEF Assign, TrailRecords
<1> QED
  BY <1>1, <1>2

\* Assigning a variable opens none; the heap may lose it and assigned ones.
LEMMA AssignCovered ==
    ASSUME HeapInv, NEW t \in TrailRecords, t.assigns = tr.assigns,
           NEW l \in Lits, NEW r, tr' = Assign(t, l, r), num_vars' = num_vars,
           \A u \in heap \ heap' : IsAssigned(tr, u) \/ u = VarOf(l)
    PROVE  AllCovered'
<1>1. tr'.assigns[VarOf(l)] # "Undef" /\ \A v \in Vars : tr'.assigns[v] = "Undef" => tr.assigns[v] = "Undef"
  BY AssignCloses
<1> QED
  BY <1>1, VarsExist DEF HeapInv, AllCovered, Open, IsAssigned

\* Steps that leave the values, the heap and the variables as they are.
LEMMA SameCovered ==
    ASSUME HeapInv, tr'.assigns = tr.assigns, UNCHANGED <<heap, num_vars>>
    PROVE  AllCovered'
  BY DEF HeapInv, AllCovered, Open, IsAssigned

\* New variables enter the heap.
LEMMA AddVarsCovered ==
    ASSUME HeapInv, NEW lits, AddVars(lits)
    PROVE  /\ num_vars' \in Int /\ 1..num_vars \subseteq 1..num_vars'
           /\ 1..num_vars' \subseteq (1..num_vars) \cup heap' /\ heap \subseteq heap'
<1>1. PICK top \in {num_vars} \cup {VarOf(l) : l \in ToSet(lits)} :
        top >= num_vars /\ num_vars' = top /\ heap' = heap \cup ((num_vars + 1)..top)
  BY DEF AddVars
<1> QED
  BY <1>1 DEF HeapInv, Inv, TypeOK, RestOK

\* The trail of the state.
LEMMA TheTrail == ASSUME HeapInv PROVE tr \in TrailRecords
  BY DEF HeapInv, Inv, TypeOK, TrailOK

-----------------------------------------------------------------------------
(* The actions, by what they do to the assignment and the heap.             *)

\* New variables are put into the heap; the first literal may be assigned.
LEMMA AddClauseCovered == ASSUME HeapInv, AddClause PROVE AllCovered'
<1> DEFINE lits == Head(calls).lits
<1>1. lits \in Seq(Lits)
  BY CallFacts DEF AddClause, HeapInv, Inv, TypeOK
<1>2. CASE UNCHANGED <<rest, tr, heap>>
  BY <1>2, SameCovered DEF rest
<1>3. CASE AddVars(lits) /\ UNCHANGED tr
  BY <1>3, AddVarsCovered DEF HeapInv, AllCovered, Open
<1>4. ASSUME AddVars(lits), ~Redundant(lits), NEW c \in Cleaned(lits), AddCleaned(c) PROVE AllCovered'
  <2>1. CASE UNCHANGED tr
    BY <1>3, <1>4, <2>1
  <2>2. CASE tr' = Assign(tr, c[1], ReasonUnit) /\ Len(c) = 1
    <3>1. c[1] \in Lits
      BY <1>1, <2>2, CleanedFacts
    <3>2. \A v \in Vars : tr'.assigns[v] = "Undef" => tr.assigns[v] = "Undef"
      BY <2>2, <3>1, TheTrail, AssignCloses
    <3>3. \A v \in 1..num_vars : v \in Vars
      BY VarsExist DEF HeapInv
    <3>4. \A v \in 1..num_vars' : v \in 1..num_vars \/ v \in heap'
      BY <1>4, AddVarsCovered
    <3> QED
      BY <1>4, <3>2, <3>3, <3>4, AddVarsCovered DEF HeapInv, AllCovered, Open, IsAssigned
  <2> QED
    BY <1>4, <2>1, <2>2 DEF AddCleaned
<1> QED
  BY <1>2, <1>3, <1>4 DEF AddClause

\* Calls that add or undo.
LEMMA ClientCovered == ASSUME HeapInv, Client PROVE AllCovered'
<1>1. CASE NewVar
  BY <1>1 DEF NewVar, HeapInv, Inv, TypeOK, RestOK, AllCovered, Open
<1>2. CASE Push
  BY <1>2, SameCovered DEF Push
<1>3. CASE Pop
  <2>1. CASE scopes = << >>
    BY <1>3, <2>1, SameCovered DEF Pop, rest
  <2>2. CASE scopes # << >>
    BY <1>3, <2>2, BacktrackCovered DEF Pop
  <2> QED
    BY <2>1, <2>2
<1>4. CASE Solve
  <2>1. CASE ok
    BY <1>4, <2>1, BacktrackCovered DEF Solve, rest
  <2>2. CASE ~ok
    BY <1>4, <2>2, SameCovered DEF Solve, rest
  <2> QED
    BY <2>1, <2>2
<1> QED
  BY <1>1, <1>2, <1>3, <1>4, AddClauseCovered DEF Client

\* Propagation assigns, and never undoes.
LEMMA PropagateCovered == ASSUME HeapInv, Propagate PROVE AllCovered'
<1>1. CASE BcpDequeue
  <2>1. tr'.assigns = tr.assigns
    BY <1>1, TheTrail DEF BcpDequeue, Dequeue, TrailRecords
  <2> QED
    BY <1>1, <2>1, SameCovered DEF BcpDequeue, rest
<1>2. CASE VisitUnit
  <2>1. bcp.todo # << >>
    BY <1>2 DEF VisitUnit, Visit
  <2>2. First \in Lits
    BY <2>1, AtHandFacts DEF HeapInv
  <2> QED
    BY <1>2, <2>2, TheTrail, AssignCovered DEF VisitUnit, KeepRest, rest
<1>3. CASE VisitSkip \/ VisitSatisfied \/ VisitRewatch \/ VisitConflict \/ VisitEnd \/ BcpOk
  BY <1>3, SameCovered
  DEF VisitSkip, VisitSatisfied, VisitRewatch, VisitConflict, VisitEnd, BcpOk, KeepRest, rest
<1> QED
  BY <1>1, <1>2, <1>3 DEF Propagate

\* What a backjump or a restart unassigns goes back; the learned literal is assigned.
LEMMA ConflictCovered == ASSUME HeapInv, Conflict PROVE AllCovered'
<1>1. CASE Backjump
  <2>1. an.backtrack_level \in Nat
    BY AnFacts DEF HeapInv, Inv, TypeOK, ControlOK
  <2>2. PICK level \in Nat : tr' = BacktrackTo(tr, level) /\ heap' = Reinserted(level)
    BY <1>1, <2>1 DEF Backjump
  <2> QED
    BY <1>1, <2>2, BacktrackCovered DEF Backjump
<1>2. CASE Learn
  <2>1. UNCHANGED <<heap, num_vars>>
    BY <1>2 DEF Learn, rest
  <2>2. CASE UNCHANGED tr
    BY <2>1, <2>2, SameCovered
  <2>3. CASE ~UNCHANGED tr
    <3>1. an.learned[1] \in Lits
      <4>1. an.learned \in Seq(Lits) /\ Len(an.learned) > 0
        BY <1>2, AnFacts DEF HeapInv, Inv, TypeOK, ControlOK, Learn
      <4> QED
        BY <4>1
    <3>2. PICK r : tr' = Assign(tr, an.learned[1], r)
      BY <1>2, <2>3 DEF Learn
    <3> QED
      BY <2>1, <3>1, <3>2, TheTrail, AssignCovered
  <2> QED
    BY <2>2, <2>3
<1>3. CASE \/ ConflictInAddClause \/ ConflictBeforeSearch \/ ConflictAtLevelZero
           \/ StartAnalysis \/ MarkLit \/ PickLit \/ AssumptionsRefuted \/ ReduceDb
  BY <1>3, SameCovered
  DEF ConflictInAddClause, ConflictBeforeSearch, ConflictAtLevelZero, StartAnalysis, MarkLit,
      PickLit, AssumptionsRefuted, ReduceDb, rest
<1> QED
  BY <1>1, <1>2, <1>3 DEF Conflict

\* A decision takes its variable from the heap, and assigned ones; an
\* exhausted heap is emptied only when no variable is open.
LEMMA SearchCovered == ASSUME HeapInv, Search PROVE AllCovered'
<1> DEFINE t == NewDecisionLevel(tr)
<1>1. t \in TrailRecords /\ t.assigns = tr.assigns
  <2>1. tr \in TrailRecords /\ TrailInv(tr)
    BY TheTrail DEF HeapInv, Inv, TrailConsistent
  <2> QED
    BY <2>1, NewDecisionLevelOK DEF NewDecisionLevel, TrailRecords
<1>2. CASE DecideAssumption
  <2> DEFINE p == sv.assumptions[sv.cur + 1]
  <2>1. UNCHANGED <<heap, num_vars>>
    BY <1>2 DEF DecideAssumption, rest
  <2>2. CASE UNCHANGED tr
    BY <2>1, <2>2, SameCovered
  <2>3. CASE Decide(p)
    <3>1. p \in Lits
      <4>1. sv.cur \in Nat /\ sv.assumptions \in Seq(Lits) /\ sv.cur < Len(sv.assumptions)
        BY <1>2, SvFacts DEF HeapInv, Inv, TypeOK, ControlOK, DecideAssumption, AssumptionsLeft
      <4> QED
        BY <4>1
    <3> HIDE DEF t, p
    <3> QED
      BY <1>1, <2>1, <2>3, <3>1, AssignCovered DEF Decide, t
  <2> QED
    BY <1>2, <2>2, <2>3 DEF DecideAssumption
<1>3. CASE DecideVar
  <2>1. PICK v \in Selected :
          /\ Decide(NewLit(v, tr.phase[v]))
          /\ \E popped \in SUBSET {u \in heap : IsAssigned(tr, u)} : heap' = heap \ (popped \cup {v})
    BY <1>3 DEF DecideVar
  <2>2. v \in Vars
    BY VarsExist DEF Selected, Open, HeapInv, Inv, TypeOK, RestOK
  <2>3. NewLit(v, tr.phase[v]) \in Lits /\ VarOf(NewLit(v, tr.phase[v])) = v
    <3>1. tr.phase[v] \in BOOLEAN
      BY <2>2, TheTrail DEF TrailRecords
    <3> QED
      BY <2>2, <3>1, LitOfVar
  <2>4. \A u \in heap \ heap' : IsAssigned(tr, u) \/ u = v
    BY <2>1
  <2>5. num_vars' = num_vars
    BY <1>3 DEF DecideVar, rest
  <2> HIDE DEF t
  <2> QED
    BY <1>1, <2>1, <2>3, <2>4, <2>5, AssignCovered DEF Decide, t
<1>4. CASE AllAssigned
  <2>1. Open(heap) = {}
    BY <1>4 DEF AllAssigned, Selected
  <2>2. Open(1..num_vars) = {}
    BY <2>1 DEF HeapInv, AllCovered, Open
  <2> QED
    BY <1>4, <2>2 DEF AllAssigned, rest, AllCovered, Open
<1>5. CASE Finish
  BY <1>5, BacktrackCovered DEF Finish
<1>6. CASE BudgetExhausted \/ Loop \/ TheoryConflict \/ TheoryOk \/ Return
  BY <1>6, SameCovered DEF BudgetExhausted, Loop, TheoryConflict, TheoryOk, Return, rest
<1> QED
  BY <1>2, <1>3, <1>4, <1>5, <1>6 DEF Search

-----------------------------------------------------------------------------

LEMMA HeapInit == Init => HeapInv
<1> SUFFICES ASSUME Init PROVE AllCovered
  BY InitOK DEF HeapInv
<1> QED
  BY DEF Init, AllCovered, Open

LEMMA HeapNext == ASSUME HeapInv, [Next]_vars PROVE HeapInv'
<1>1. Inv'
  BY NextOK DEF HeapInv
<1>2. ASSUME UNCHANGED vars PROVE AllCovered'
  BY <1>2, SameCovered DEF vars, rest
<1>3. AllCovered'
  BY <1>2, ClientCovered, PropagateCovered, ConflictCovered, SearchCovered DEF Next, Step
<1> QED
  BY <1>1, <1>3 DEF HeapInv

\* A variable without a value can be chosen by VSIDS, whatever searches,
\* restarts, scopes and interrupted calls came before: the search cannot claim
\* that all variables are assigned while one is not.
THEOREM OpenStaysInHeap == Spec => []OpenInHeap
<1>1. HeapInv => OpenInHeap
  BY DEF HeapInv, AllCovered, OpenInHeap
<1> QED
  BY <1>1, HeapInit, HeapNext, PTL DEF Spec

\* All variables have a value when the search answers that they do.
THEOREM AnswersAreTotal == Spec => [][AllAssigned => Open(1..num_vars) = {}]_vars
<1>1. ASSUME HeapInv, AllAssigned PROVE Open(1..num_vars) = {}
  <2>1. Open(heap) = {}
    BY <1>1 DEF AllAssigned, Selected
  <2> QED
    BY <1>1, <2>1 DEF HeapInv, AllCovered, Open
<1>2. HeapInv /\ [Next]_vars => [AllAssigned => Open(1..num_vars) = {}]_vars
  BY <1>1
<1> QED
  BY <1>2, HeapInit, HeapNext, PTL DEF Spec

-----------------------------------------------------------------------------
(* Input clauses are kept.                                                  *)

\* A clause of the arena that stands for input i, with the literals S, as long
\* as the scopes that are younger than the clause are younger than the input.
StandsFor(c, S, i) ==
    /\ ~arena[c].learned /\ LitsOf(c) \subseteq S
    /\ \A k \in 1..Len(scopes) : i <= scopes[k].inputs => c <= scopes[k].clause_count
Kept(S, i) ==
    \/ \E l \in S : Neg(l) \in S
    \/ \E l \in S : TrueAt(tr, l, 0)
    \/ \E c \in Live : StandsFor(c, S, i)
InputsKept ==
    ok => \A i \in 1..Len(inputs) :
            /\ \A l \in ToSet(inputs[i]) : VarOf(l) <= num_vars
            /\ Kept(ToSet(inputs[i]), i)
\* A call with assumptions searches in a scope of its own.
OwnScope ==
    (AssumptionRun /\ (Searching \/ pc = "finish")) =>
        scopes # << >> /\ scopes[Len(scopes)].inputs = Len(inputs)

\* What a step does to the trail.
LEMMA TrailStep ==
    ASSUME Inv, [Next]_vars
    PROVE  \/ UNCHANGED tr
           \/ tr' = Dequeue(tr)
           \/ Assigns \/ Decides \/ Backtracks
<1>1. CASE UNCHANGED vars
  BY <1>1 DEF vars
<1>2. CASE BcpDequeue
  BY <1>2 DEF BcpDequeue
<1> QED
  BY <1>1, <1>2, ClientTrail, PropagateTrail, ConflictTrail, SearchTrail DEF Next, Step

\* Backtracking keeps what is true at its level.
LEMMA TrueAtBacktrack ==
    ASSUME NEW t \in TrailRecords, TrailInv(t), NEW level \in Nat, NEW u,
           u = BacktrackTo(t, level), NEW l, NEW n \in Nat, n <= level, TrueAt(t, l, n)
    PROVE  TrueAt(u, l, n)
<1>1. PICK k \in 1..Len(t.trail) : t.trail[k] = l /\ t.level[VarOf(l)] <= n
  BY DEF TrueAt
<1>2. CASE Len(t.trail_lim) <= level
  <2>1. u = t
    BY <1>2, BacktrackFacts
  <2> QED
    BY <2>1
<1>3. CASE ~(Len(t.trail_lim) <= level)
  <2>1. Len(t.trail_lim) \in Nat /\ level + 1 \in 1..Len(t.trail_lim) /\ t.level[VarOf(l)] \in Nat
    BY <1>1, <1>3, TrailTypes, SegmentFact
  <2>2. ~(k > t.trail_lim[level + 1])
    BY <1>1, <2>1, SegmentFact
  <2>3. Len(u.trail) = t.trail_lim[level + 1] /\ t.trail_lim[level + 1] \in Nat
    <3>1. level < Len(t.trail_lim) /\ t.trail_lim \in Seq(Nat)
      BY <2>1, TrailTypes
    <3>2. Len(u.trail) = t.trail_lim[level + 1]
      BY <3>1, BacktrackFacts
    <3> QED
      BY <2>1, <3>1, <3>2
  <2>4. k \in 1..Len(u.trail)
    BY <2>2, <2>3
  <2>5. u.trail[k] = t.trail[k]
    BY <2>4, BacktrackFacts
  <2>6. u.level = t.level
    BY BacktrackFacts
  <2> QED
    BY <1>1, <2>4, <2>5, <2>6 DEF TrueAt
<1> QED
  BY <1>2, <1>3

\* Assignments and decisions keep what is true.
LEMMA TrueAtGrows ==
    ASSUME Inv, Assigns \/ Decides, NEW m, NEW n, TrueAt(tr, m, n), NEW u, u = tr'
    PROVE  TrueAt(u, m, n)
<1>0. tr \in TrailRecords /\ TrailInv(tr)
  BY ReasonTypes
<1>1. CASE Assigns
  BY <1>0, <1>1, TrueAtAssign DEF Assigns
<1>2. CASE Decides
  <2>0. PICK t : t = NewDecisionLevel(tr)
    OBVIOUS
  <2>1. PICK l \in Lits :
          ~IsAssigned(tr, VarOf(l)) /\ tr' = Assign(t, l, ReasonDecision)
    BY <1>2, <2>0 DEF Decides, Decide
  <2>2. /\ t \in TrailRecords /\ TrailInv(t) /\ t.trail = tr.trail /\ t.level = tr.level
        /\ t.assigns = tr.assigns
    BY <1>0, <2>0, NewDecisionLevelOK, NewLevelFacts
  <2>3. TrueAt(t, m, n) /\ ~IsAssigned(t, VarOf(l)) /\ ReasonDecision \in Reasons
    BY <2>1, <2>2 DEF TrueAt, IsAssigned, Reasons, ReasonDecision
  <2> QED
    BY <2>1, <2>2, <2>3, TrueAtAssign
<1> QED
  BY <1>1, <1>2

\* What is true at level 0 is so for good.
LEMMA FixedForGood ==
    ASSUME Inv, [Next]_vars, NEW l, TrueAt(tr, l, 0), NEW u, u = tr' PROVE TrueAt(u, l, 0)
<1>0. tr \in TrailRecords /\ TrailInv(tr)
  BY ReasonTypes
<1>1. CASE UNCHANGED tr
  BY <1>1
<1>2. CASE tr' = Dequeue(tr)
  BY <1>0, <1>2, DequeueFacts DEF TrueAt
<1>3. CASE Assigns \/ Decides
  BY <1>3, TrueAtGrows
<1>4. CASE Backtracks
  BY <1>0, <1>4, TrueAtBacktrack DEF Backtracks
<1> QED
  BY <1>1, <1>2, <1>3, <1>4, TrailStep

\* The scopes after a step are scopes there were, or one opened above all
\* clauses of the arena.
LEMMA FrontStays ==
    ASSUME NEW S, NEW s \in Seq(S), NEW t, t = Front(s), NEW k \in 1..Len(t)
    PROVE  k \in 1..Len(s) /\ t[k] = s[k]
<1>1. CASE s = << >>
  <2>1. t = << >>
    BY <1>1 DEF Front
  <2> QED
    BY <2>1
<1>2. CASE s # << >>
  <2>1. Len(s) \in Nat /\ Len(s) - 1 \in 0..Len(s)
    BY <1>2
  <2>2. Len(t) = Len(s) - 1 /\ \A i \in 1..(Len(s) - 1) : t[i] = s[i]
    BY <2>1, PrefixFacts DEF Front
  <2> QED
    BY <2>1, <2>2
<1> QED
  BY <1>1, <1>2

LEMMA ScopesStep ==
    ASSUME Inv, [Next]_vars, NEW k \in 1..Len(scopes')
    PROVE  \/ k \in 1..Len(scopes) /\ scopes'[k] = scopes[k]
           \/ scopes'[k].clause_count = Len(arena)
<1>1. PICK S : S = [clause_count : Nat, inputs : Nat]
  OBVIOUS
<1>2. scopes \in Seq(S)
  BY <1>1 DEF Inv, TypeOK, ClientOK
<1>3. CASE UNCHANGED scopes
  BY <1>3
<1>4. ASSUME NEW x, x.clause_count = Len(arena), scopes' = Append(scopes, x)
      PROVE  \/ k \in 1..Len(scopes) /\ scopes'[k] = scopes[k]
             \/ scopes'[k].clause_count = Len(arena)
  BY <1>2, <1>4
<1>5. CASE scopes' = Front(scopes)
  BY <1>2, <1>5, FrontStays
<1>6. CASE Push \/ BcpOk
  <2>1. PICK x : x = [clause_count |-> Len(arena), inputs |-> Len(inputs)]
    OBVIOUS
  <2>2. x.clause_count = Len(arena)
    BY <2>1
  <2>3. UNCHANGED scopes \/ scopes' = Append(scopes, x)
    BY <1>6, <2>1 DEF Push, BcpOk
  <2> QED
    BY <1>3, <1>4, <2>2, <2>3
<1>7. CASE Pop \/ Finish
  <2>1. UNCHANGED scopes \/ scopes' = Front(scopes)
    BY <1>7 DEF Pop, Finish, rest
  <2> QED
    BY <1>3, <1>5, <2>1
<1>8. CASE AddClause
  <2>1. UNCHANGED scopes
    BY <1>8, AddClauseCases
  <2> QED
    BY <1>3, <2>1
<1>9. CASE Client /\ ~AddClause /\ ~Push /\ ~Pop
  <2>1. UNCHANGED scopes
    BY <1>9 DEF Client, NewVar, Solve, rest
  <2> QED
    BY <1>3, <2>1
<1>10. CASE Propagate /\ ~BcpOk
  <2>1. UNCHANGED scopes
    BY <1>10 DEF Propagate, BcpDequeue, VisitSkip, VisitSatisfied, VisitRewatch, VisitUnit,
                 VisitConflict, VisitEnd, KeepRest, rest
  <2> QED
    BY <1>3, <2>1
<1>11. CASE Conflict
  <2>1. UNCHANGED scopes
    BY <1>11 DEF Conflict, ConflictInAddClause, ConflictBeforeSearch, ConflictAtLevelZero,
                 StartAnalysis, MarkLit, PickLit, AssumptionsRefuted, Backjump, ReduceDb, Learn, rest
  <2> QED
    BY <1>3, <2>1
<1>12. CASE Search /\ ~Finish
  <2>1. UNCHANGED scopes
    BY <1>12 DEF Search, BudgetExhausted, Loop, TheoryConflict, TheoryOk, DecideAssumption,
                 DecideVar, AllAssigned, Return, rest
  <2> QED
    BY <1>3, <2>1
<1>13. CASE UNCHANGED vars
  BY <1>3, <1>13 DEF vars, rest
<1> QED
  BY <1>6, <1>7, <1>8, <1>9, <1>10, <1>11, <1>12, <1>13 DEF Next, Step

\* The youngest scope.
LEMMA LastScope ==
    ASSUME Inv, scopes # << >>, NEW d, d = scopes[Len(scopes)]
    PROVE  /\ Len(scopes) \in 1..Len(scopes) /\ inputs \in Seq(Seq(Lits)) /\ Len(inputs) \in Nat
           /\ d.inputs \in 0..Len(inputs) /\ d.clause_count \in Nat
<1>1. /\ scopes \in Seq([clause_count : Nat, inputs : Nat]) /\ inputs \in Seq(Seq(Lits))
      /\ \A j \in 1..Len(scopes) : scopes[j].inputs <= Len(inputs)
  BY DEF Inv, TypeOK, ClientOK
<1>2. Len(scopes) \in 1..Len(scopes) /\ Len(inputs) \in Nat
  BY <1>1
<1>3. d \in [clause_count : Nat, inputs : Nat]
  BY <1>1, <1>2, ElementFact
<1>4. d.inputs \in Nat /\ d.clause_count \in Nat
  BY <1>3
<1>5. d.inputs <= Len(inputs)
  BY <1>1, <1>2
<1> QED
  BY <1>1, <1>2, <1>4, <1>5

\* A clause that was not learned is deleted with the youngest scope only, and
\* then the inputs of that scope go too, or there are none.
Closes(c) ==
    /\ scopes # << >> /\ c > scopes[Len(scopes)].clause_count
    /\ \/ inputs' = SubSeq(inputs, 1, scopes[Len(scopes)].inputs)
       \/ inputs' = inputs /\ scopes[Len(scopes)].inputs = Len(inputs)
LEMMA DeletedStep ==
    ASSUME WatchInv, OwnScope, [Next]_vars, NEW c \in ClauseIds, ~arena[c].learned,
           ~arena[c].deleted, arena'[c].deleted
    PROVE  Closes(c)
<1>0. Inv /\ ClauseIds = 1..Len(arena) /\ arena \in Seq(ArenaClauses) /\ Len(arena) \in Nat
  BY ReasonTypes DEF WatchInv
<1>1. ASSUME NEW S, arena' = WithDeleted(S) PROVE c \in S
  BY <1>0, <1>1, Deletes
<1>2. PICK d : d = scopes[Len(scopes)]
  OBVIOUS
<1>3. ASSUME scopes # << >>, arena' = WithDeleted(ClausesSince(d)) PROVE c > d.clause_count
  <2>1. c \in ClausesSince(d)
    BY <1>1, <1>3
  <2>4. d.clause_count \in Nat
    BY <1>0, <1>2, <1>3, LastScope
  <2> QED
    BY <1>0, <2>1, <2>4 DEF ClausesSince
<1>4. CASE Pop
  <2>1. CASE scopes = << >>
    BY <1>0, <1>4, <2>1 DEF Pop, db
  <2>2. CASE scopes # << >>
    <3>1. arena' = WithDeleted(ClausesSince(d)) /\ inputs' = SubSeq(inputs, 1, d.inputs)
      BY <1>2, <1>4, <2>2 DEF Pop
    <3> QED
      BY <1>2, <1>3, <2>2, <3>1 DEF Closes
  <2> QED
    BY <2>1, <2>2
<1>5. CASE Finish
  <2>1. CASE ~AssumptionRun
    BY <1>5, <2>1 DEF Finish
  <2>2. CASE AssumptionRun
    <3>1. arena' = WithDeleted(ClausesSince(d)) /\ UNCHANGED inputs /\ pc = "finish"
      BY <1>2, <1>5, <2>2 DEF Finish, client
    <3>2. scopes # << >> /\ d.inputs = Len(inputs)
      BY <1>2, <2>2, <3>1 DEF OwnScope
    <3> QED
      BY <1>2, <1>3, <3>1, <3>2 DEF Closes
  <2> QED
    BY <2>1, <2>2
<1>6. CASE ReduceDb
  <2>1. UNCHANGED arena \/ arena' = WithDeleted(Evicted)
    BY <1>6 DEF ReduceDb
  <2>2. c \notin Evicted
    BY DEF Evicted, Reducible
  <2> QED
    BY <1>1, <2>1, <2>2
<1>7. CASE UNCHANGED arena \/ ArenaAdds
  BY <1>0, <1>7 DEF ArenaAdds
<1>8. CASE ArenaWrites
  <2>1. AtHand.clause \in ClauseIds
    BY <1>8, AtHandSame DEF ArenaWrites
  <2>2. PICK lits : arena' = [arena EXCEPT ![AtHand.clause].lits = lits]
    BY <1>8 DEF ArenaWrites
  <2>3. PICK e : e = AtHand.clause
    OBVIOUS
  <2>4. arena'[e].deleted = arena[e].deleted /\ \A x \in ClauseIds \ {e} : arena'[x] = arena[x]
    BY <1>0, <2>1, <2>2, <2>3, WrittenBack
  <2> QED
    BY <2>4
<1> QED
  BY <1>4, <1>5, <1>6, <1>7, <1>8, ArenaStep

\* What is kept for an input stays, as long as the input does.
LEMMA KeptStep ==
    ASSUME WatchInv, OwnScope, [Next]_vars, NEW S, NEW i \in 1..Len(inputs), i <= Len(inputs'),
           Kept(S, i)
    PROVE  Kept(S, i)'
<1>0. /\ Inv /\ ClauseIds = 1..Len(arena) /\ Len(arena) \in Nat /\ Len(arena') \in Nat
      /\ Len(arena) <= Len(arena')
  BY ReasonTypes, ClausesStay DEF WatchInv
<1>1. CASE \E l \in S : Neg(l) \in S
  BY <1>1 DEF Kept
<1>2. CASE \E l \in S : TrueAt(tr, l, 0)
  BY <1>0, <1>2, FixedForGood DEF Kept
<1>3. CASE \E c \in Live : StandsFor(c, S, i)
  <2>1. PICK c \in ClauseIds : ~arena[c].deleted /\ StandsFor(c, S, i)
    BY <1>3 DEF Live
  <2>2. ~arena'[c].deleted
    <3> SUFFICES ASSUME arena'[c].deleted PROVE FALSE
      OBVIOUS
    <3>1. Closes(c) /\ ~arena[c].learned
      BY <2>1, DeletedStep DEF StandsFor
    <3>2. PICK d, n : d = scopes[Len(scopes)] /\ n = Len(scopes)
      OBVIOUS
    <3>3. /\ n \in 1..Len(scopes) /\ d = scopes[n] /\ d.inputs \in Nat /\ d.clause_count \in Nat
          /\ d.inputs <= Len(inputs) /\ inputs \in Seq(Seq(Lits)) /\ Len(inputs) \in Nat
      <4>1. scopes # << >>
        BY <3>1 DEF Closes
      <4> QED
        BY <1>0, <3>2, <4>1, LastScope
    <3>4. i <= d.inputs
      <4>1. CASE inputs' = SubSeq(inputs, 1, d.inputs)
        <5>1. d.inputs \in 0..Len(inputs)
          BY <3>3
        <5>2. Len(inputs') = d.inputs
          BY <3>3, <4>1, <5>1, PrefixFacts
        <5> QED
          BY <5>2
      <4>2. CASE d.inputs = Len(inputs)
        BY <3>3, <4>2
      <4> QED
        BY <3>1, <3>2, <4>1, <4>2 DEF Closes
    <3>5. c <= d.clause_count
      BY <2>1, <3>3, <3>4 DEF StandsFor
    <3>6. c > d.clause_count
      BY <3>1, <3>2 DEF Closes
    <3> QED
      BY <1>0, <3>3, <3>5, <3>6
  <2>3. StandsFor(c, S, i)'
    <3>1. ~arena'[c].learned /\ LitsOf(c)' \subseteq S
      BY <2>1, ClausesStay DEF StandsFor
    <3>2. ASSUME NEW k \in 1..Len(scopes'), i <= scopes'[k].inputs
          PROVE  c <= scopes'[k].clause_count
      <4>1. CASE k \in 1..Len(scopes) /\ scopes'[k] = scopes[k]
        BY <2>1, <3>2, <4>1 DEF StandsFor
      <4>2. CASE scopes'[k].clause_count = Len(arena)
        BY <1>0, <4>2
      <4> QED
        BY <1>0, <4>1, <4>2, ScopesStep
    <3> QED
      BY <3>1, <3>2 DEF StandsFor
  <2>4. c \in Live'
    BY <1>0, <2>2 DEF Live, ClauseIds
  <2> QED
    BY <2>3, <2>4 DEF Kept
<1> QED
  BY <1>1, <1>2, <1>3 DEF Kept

\* What becomes of the inputs when none is added.
LEMMA InputsStep ==
    ASSUME Inv, [Next]_vars, ~AddClause
    PROVE  /\ num_vars \in Nat /\ num_vars' \in Nat /\ num_vars <= num_vars'
           /\ Len(inputs') <= Len(inputs) /\ \A i \in 1..Len(inputs') : inputs'[i] = inputs[i]
<1>0. num_vars \in Nat /\ inputs \in Seq(Seq(Lits)) /\ Len(inputs) \in Nat
  BY NumVarsAssumption DEF Inv, TypeOK, RestOK, ClientOK
<1>1. CASE UNCHANGED <<inputs, num_vars>>
  BY <1>0, <1>1
<1>2. CASE NewVar
  BY <1>0, <1>2 DEF NewVar
<1>3. CASE Pop
  <2>1. CASE scopes = << >>
    BY <1>1, <1>3, <2>1 DEF Pop, rest
  <2>2. CASE scopes # << >>
    <3>1. PICK d : d = scopes[Len(scopes)]
      OBVIOUS
    <3>2. UNCHANGED num_vars /\ inputs' = SubSeq(inputs, 1, d.inputs)
      BY <1>3, <2>2, <3>1 DEF Pop
    <3>3. d.inputs \in 0..Len(inputs)
      BY <2>2, <3>1, LastScope
    <3> QED
      BY <1>0, <3>2, <3>3, PrefixFacts
  <2> QED
    BY <2>1, <2>2
<1>4. CASE Client /\ ~NewVar /\ ~Pop
  BY <1>1, <1>4 DEF Client, Push, Solve, rest
<1>5. CASE Propagate
  BY <1>1, <1>5 DEF Propagate, BcpDequeue, VisitSkip, VisitSatisfied, VisitRewatch, VisitUnit,
                    VisitConflict, VisitEnd, BcpOk, KeepRest, client, rest
<1>6. CASE Conflict
  BY <1>1, <1>6
  DEF Conflict, ConflictInAddClause, ConflictBeforeSearch, ConflictAtLevelZero, StartAnalysis,
      MarkLit, PickLit, AssumptionsRefuted, Backjump, ReduceDb, Learn, client, rest
<1>7. CASE Search
  BY <1>1, <1>7 DEF Search, BudgetExhausted, Loop, TheoryConflict, TheoryOk, DecideAssumption,
                    DecideVar, AllAssigned, Finish, Return, client, rest
<1>8. CASE UNCHANGED vars
  BY <1>1, <1>8 DEF vars, client, rest
<1> QED
  BY <1>2, <1>3, <1>4, <1>5, <1>6, <1>7, <1>8 DEF Next, Step

\* The end of a sequence that grows.
LEMMA AppendLast ==
    ASSUME NEW S, NEW s \in Seq(S), NEW x \in S, NEW t, t = Append(s, x)
    PROVE  Len(t) = Len(s) + 1 /\ t[Len(s) + 1] = x
  OBVIOUS

\* A clause that is added is kept: it is a tautology or true, its last open
\* literal becomes true, or what is left of it is stored above all scopes.
LEMMA AddKept ==
    ASSUME ReasonInv, AddClause, ok'
    PROVE  \E lits \in Seq(Lits) :
              /\ inputs' = Append(inputs, lits) /\ ok
              /\ num_vars <= num_vars' /\ \A l \in ToSet(lits) : VarOf(l) <= num_vars'
              /\ \A n : n = Len(inputs) + 1 => Kept(ToSet(lits), n)'
<1>0. /\ Inv /\ tr \in TrailRecords /\ TrailInv(tr) /\ arena \in Seq(ArenaClauses)
      /\ Len(arena) \in Nat /\ ClauseIds = 1..Len(arena) /\ num_vars \in Nat
  BY ReasonTypes, NumVarsAssumption DEF ReasonInv, WatchInv, Inv, TypeOK, RestOK
<1>1. PICK lits \in Seq(Lits) :
          /\ inputs' = Append(inputs, lits) /\ pc = "idle" /\ UNCHANGED scopes
          /\ AddDropped(lits) \/ AddRefuted(lits) \/ AddUnit(lits) \/ AddStored(lits)
  BY <1>0, AddClauseCases
<1>2. ok /\ AddVars(lits)
  BY <1>1 DEF AddDropped, AddRefuted, AddUnit, AddStored
<1>3. num_vars <= num_vars' /\ \A l \in ToSet(lits) : VarOf(l) <= num_vars'
  BY <1>0, <1>2 DEF AddVars
<1>4. PICK S : S = ToSet(lits)
  OBVIOUS
<1>5. S \subseteq Lits
  BY <1>4 DEF ToSet
<1>6. tr.trail_lim = << >> /\ DecisionLevel(tr) = 0
  BY <1>1 DEF ReasonInv, Resting, DecisionLevel
<1>7. ASSUME NEW n, n = Len(inputs) + 1 PROVE Kept(S, n)'
  <2>1. CASE AddDropped(lits)
    <3>1. UNCHANGED tr /\ Redundant(lits)
      BY <1>2, <2>1 DEF AddDropped
    <3>2. CASE \E l \in S : Neg(l) \in S
      BY <3>2 DEF Kept
    <3>3. ASSUME NEW l \in S, IsTrue(tr, l) PROVE TrueAt(tr, l, 0)
      <4>1. PICK k \in 1..Len(tr.trail) : tr.trail[k] = l
        BY <1>0, <1>5, <3>3, TrueIsOnTrail
      <4>2. tr.level[VarOf(l)] \in Nat /\ tr.level[VarOf(l)] <= 0
        BY <1>0, <1>6, <4>1, SegmentFact
      <4> QED
        BY <4>1, <4>2 DEF TrueAt
    <3> QED
      BY <1>4, <3>1, <3>2, <3>3 DEF Redundant, Kept
  <2>2. CASE AddUnit(lits)
    <3>1. PICK l \in S : l \in Lits /\ ~IsAssigned(tr, VarOf(l)) /\ tr' = Assign(tr, l, ReasonUnit)
      BY <1>4, <2>2 DEF AddUnit
    <3>2. ReasonUnit \in Reasons
      BY DEF Reasons, ReasonUnit
    <3>3. /\ Len(tr'.trail) = Len(tr.trail) + 1 /\ tr'.trail[Len(tr.trail) + 1] = l
          /\ tr'.level[VarOf(l)] = 0
      BY <1>0, <1>6, <3>1, <3>2, AssignFacts
    <3>4. Len(tr.trail) + 1 \in 1..Len(tr'.trail)
      BY <1>0, <3>3, TrailTypes
    <3>5. TrueAt(tr', l, 0)
      BY <3>3, <3>4 DEF TrueAt
    <3> QED
      BY <3>5 DEF Kept
  <2>3. CASE AddStored(lits)
    <3>1. PICK c \in Seq(Lits) : /\ \A i \in 1..Len(c) : c[i] \in S
                                 /\ arena' = Append(arena, NewClause(c, FALSE, 0))
      BY <1>4, <2>3 DEF AddStored
    <3>2. PICK x, id : x = NewClause(c, FALSE, 0) /\ id = Len(arena) + 1
      OBVIOUS
    <3>3. x.lits = c /\ ~x.learned /\ ~x.deleted /\ x \in ArenaClauses
      BY <3>2, NewClauseOK DEF NewClause
    <3>4. arena'[id] = x /\ id \in 1..Len(arena')
      <4>1. arena' = Append(arena, x)
        BY <3>1, <3>2
      <4>2. Len(arena') = id /\ arena'[id] = x
        <5>1. arena \in Seq(ArenaClauses) /\ x \in ArenaClauses
          BY <1>0, <3>3
        <5>2. Len(arena') = Len(arena) + 1 /\ arena'[Len(arena) + 1] = x
          BY <4>1, <5>1, AppendLast
        <5> QED
          BY <3>2, <5>2
      <4> QED
        BY <1>0, <3>2, <4>2
    <3>5. LitsOf(id)' \subseteq S
      <4>1. LitsOf(id)' = ToSet(c)
        BY <3>3, <3>4 DEF LitsOf
      <4> QED
        BY <3>1, <4>1 DEF ToSet
    <3>6. ASSUME NEW k \in 1..Len(scopes'), n <= scopes'[k].inputs PROVE FALSE
      <4>1. k \in 1..Len(scopes) /\ n <= scopes[k].inputs
        BY <1>1, <3>6
      <4>2. /\ scopes \in Seq([clause_count : Nat, inputs : Nat]) /\ Len(inputs) \in Nat
            /\ scopes[k].inputs <= Len(inputs)
        BY <1>0, <4>1 DEF Inv, TypeOK, ClientOK
      <4>3. scopes[k].inputs \in Nat
        <5>1. scopes[k] \in [clause_count : Nat, inputs : Nat]
          BY <4>1, <4>2, ElementFact
        <5> QED
          BY <5>1
      <4> QED
        BY <1>7, <4>1, <4>2, <4>3
    <3>7. StandsFor(id, S, n)'
      BY <3>3, <3>4, <3>5, <3>6 DEF StandsFor
    <3>8. id \in Live'
      BY <3>3, <3>4 DEF Live, ClauseIds
    <3> QED
      BY <3>7, <3>8 DEF Kept
  <2> QED
    BY <1>1, <2>1, <2>2, <2>3 DEF AddRefuted
<1> QED
  BY <1>1, <1>2, <1>3, <1>4, <1>7

LEMMA InputsKeptStep ==
    ASSUME ReasonInv, OwnScope, InputsKept, [Next]_vars PROVE InputsKept'
<1>0. /\ WatchInv /\ Inv /\ inputs \in Seq(Seq(Lits)) /\ Len(inputs) \in Nat
      /\ num_vars \in Nat
  BY NumVarsAssumption DEF ReasonInv, WatchInv, Inv, TypeOK, ClientOK, RestOK
<1> SUFFICES ASSUME ok'
             PROVE  \A i \in 1..Len(inputs') :
                       /\ \A l \in ToSet(inputs'[i]) : VarOf(l) <= num_vars'
                       /\ Kept(ToSet(inputs[i]), i)'
  BY DEF InputsKept
<1>1. ok
  BY <1>0, OkEnds
<1>2. ASSUME NEW i \in 1..Len(inputs), i <= Len(inputs'), inputs'[i] = inputs[i],
             num_vars <= num_vars', num_vars' \in Nat
      PROVE  /\ \A l \in ToSet(inputs'[i]) : VarOf(l) <= num_vars'
             /\ Kept(ToSet(inputs[i]), i)'
  <2>1. PICK S : S = ToSet(inputs[i])
    OBVIOUS
  <2>2. Kept(S, i) /\ \A l \in S : VarOf(l) <= num_vars
    BY <1>1, <2>1 DEF InputsKept
  <2>3. Kept(S, i)'
    BY <1>0, <1>2, <2>2, KeptStep
  <2>4. S \subseteq Lits
    BY <1>0, <2>1 DEF ToSet
  <2>5. \A l \in S : VarOf(l) \in Int
    BY <2>4 DEF Lits, VarOf
  <2> QED
    BY <1>0, <1>2, <2>1, <2>2, <2>3, <2>5
<1>3. CASE AddClause
  <2>1. PICK lits \in Seq(Lits) :
              /\ inputs' = Append(inputs, lits)
              /\ num_vars <= num_vars' /\ \A l \in ToSet(lits) : VarOf(l) <= num_vars'
              /\ \A n : n = Len(inputs) + 1 => Kept(ToSet(lits), n)'
    BY <1>3, AddKept
  <2>2. num_vars' \in Nat
    BY <1>0, NextOK, NumVarsAssumption DEF Inv, TypeOK, RestOK
  <2> QED
    BY <1>0, <1>2, <2>1, <2>2
<1>4. CASE ~AddClause
  <2>1. /\ num_vars' \in Nat /\ num_vars <= num_vars'
        /\ Len(inputs') <= Len(inputs) /\ \A i \in 1..Len(inputs') : inputs'[i] = inputs[i]
    BY <1>0, <1>4, InputsStep
  <2>2. ASSUME NEW i \in 1..Len(inputs')
        PROVE  /\ \A l \in ToSet(inputs'[i]) : VarOf(l) <= num_vars'
               /\ Kept(ToSet(inputs[i]), i)'
    <3>1. Inv'
      BY <1>0, NextOK
    <3>2. i \in 1..Len(inputs) /\ i <= Len(inputs')
      BY <1>0, <2>1, <3>1 DEF Inv, TypeOK, ClientOK
    <3> QED
      BY <1>2, <2>1, <3>2
  <2> QED
    BY <2>2
<1> QED
  BY <1>3, <1>4

\* A call does not search before it has propagated at level 0.
LEMMA CallsRest ==
    ASSUME Inv, Client PROVE ~Searching' /\ pc' # "finish"
<1>0. bcp \in BcpRecords(arena)
  BY ReasonTypes
<1>1. pc' \in {"idle", "bcp", "answered"} /\ (pc' = "bcp" => bcp'.caller # "solve_internal")
  <2>1. CASE AddClause
    <3>1. PICK lits \in Seq(Lits) :
            /\ pc = "idle"
            /\ AddDropped(lits) \/ AddRefuted(lits) \/ AddUnit(lits) \/ AddStored(lits)
      BY <2>1, AddClauseCases
    <3> QED
      BY <1>0, <3>1 DEF AddDropped, AddRefuted, AddUnit, AddStored, BcpRecords
  <2>2. CASE NewVar \/ Push \/ Pop
    BY <2>2 DEF NewVar, Push, Pop, Call
  <2>3. CASE Solve
    BY <1>0, <2>3 DEF Solve, BcpRecords
  <2> QED
    BY <2>1, <2>2, <2>3 DEF Client
<1> QED
  BY <1>1 DEF Searching, InSearch

\* A search comes from bcp() at level 0 or goes on; what it assumes stays.
LEMMA SearchGoesOn ==
    ASSUME Inv, [Next]_vars, ~(BcpOk /\ bcp.caller = "solve_with_theory"),
           Searching' \/ pc' = "finish"
    PROVE  /\ Searching \/ (pc = "finish" /\ UNCHANGED vars)
           /\ sv'.assumptions = sv.assumptions
           /\ UNCHANGED <<inputs, scopes>>
           /\ ~DecideAssumption => sv'.cur = sv.cur
<1>0. bcp \in BcpRecords(arena) /\ sv \in SvRecords /\ an \in AnRecords
  BY ReasonTypes
<1>1. CASE UNCHANGED vars
  BY <1>1 DEF vars, client, rest, Searching, InSearch
<1>2. CASE Client
  BY <1>2, CallsRest
<1>3. CASE BcpOk
  BY <1>0, <1>3 DEF BcpOk, Searching, InSearch, client, BcpRecords
<1>4. CASE Propagate /\ ~BcpOk
  <2>1. /\ pc \in {"bcp", "visit"} /\ bcp'.caller = bcp.caller
        /\ pc' \in {"visit", "bcp", "conflict"} /\ UNCHANGED <<sv, inputs, scopes>>
    BY <1>0, <1>4
    DEF Propagate, BcpDequeue, VisitSkip, VisitSatisfied, VisitRewatch, VisitUnit, VisitConflict,
        VisitEnd, Visit, KeepRest, client, rest, BcpRecords
  <2> QED
    BY <2>1 DEF Searching, InSearch
<1>5. CASE Conflict
  BY <1>0, <1>5
  DEF Conflict, ConflictInAddClause, ConflictBeforeSearch, ConflictAtLevelZero, StartAnalysis,
      MarkLit, PickLit, AssumptionsRefuted, Backjump, ReduceDb, Learn, client, rest, Answer,
      Searching, SvRecords
<1>6. CASE Search
  BY <1>0, <1>6
  DEF Search, BudgetExhausted, Loop, TheoryConflict, TheoryOk, DecideAssumption, DecideVar,
      AllAssigned, Finish, Return, client, rest, Answer, Searching, SvRecords
<1> QED
  BY <1>1, <1>2, <1>3, <1>4, <1>5, <1>6 DEF Next, Step

LEMMA OwnScopeStep == ASSUME Inv, OwnScope, [Next]_vars PROVE OwnScope'
<1> SUFFICES ASSUME AssumptionRun', Searching' \/ pc' = "finish"
             PROVE  scopes' # << >> /\ scopes'[Len(scopes')].inputs = Len(inputs')
  BY DEF OwnScope
<1>1. CASE BcpOk /\ bcp.caller = "solve_with_theory"
  <2>1. UNCHANGED <<inputs, sv>> /\ pc = "bcp"
    BY <1>1 DEF BcpOk, client
  <2>2. PICK x : x = [clause_count |-> Len(arena), inputs |-> Len(inputs)]
    OBVIOUS
  <2>3. scopes' = Append(scopes, x)
    <3>1. pc' = "idle" \/ scopes' = Append(scopes, x) \/ bcp.caller = "solve_internal"
      BY <1>1, <2>1, <2>2 DEF BcpOk, AssumptionRun
    <3> QED
      BY <1>1, <3>1 DEF Searching
  <2>4. scopes \in Seq([clause_count : Nat, inputs : Nat]) /\ Len(arena) \in Nat /\ Len(inputs) \in Nat
    BY ReasonTypes DEF Inv, TypeOK, ClientOK
  <2>5. x \in [clause_count : Nat, inputs : Nat] /\ x.inputs = Len(inputs)
    BY <2>2, <2>4
  <2>6. Len(scopes') = Len(scopes) + 1 /\ scopes'[Len(scopes) + 1] = x
    BY <2>3, <2>4, <2>5, AppendLast
  <2>7. scopes' # << >>
    BY <2>4, <2>6
  <2> QED
    BY <2>1, <2>5, <2>6, <2>7
<1>2. CASE ~(BcpOk /\ bcp.caller = "solve_with_theory")
  <2>1. /\ Searching \/ (pc = "finish" /\ UNCHANGED vars)
        /\ sv'.assumptions = sv.assumptions
        /\ UNCHANGED <<inputs, scopes>>
    BY <1>2, SearchGoesOn
  <2> QED
    BY <2>1 DEF OwnScope, AssumptionRun
<1> QED
  BY <1>1, <1>2

-----------------------------------------------------------------------------
(* Assumptions are decided in order, one level each at most.                *)

\* A search starts with no assumption decided.
Started ==
    (pc \in {"bcp", "visit"} /\ bcp.caller = "solve_with_theory") => sv.cur = 0

\* The first assumptions are true, none later than at its own level, and while
\* there are others the search has decided nothing else.
Assumed ==
    Searching =>
        /\ sv.cur <= Len(sv.assumptions)
        /\ \A k \in 1..sv.cur : TrueAt(tr, sv.assumptions[k], k)
        /\ AssumptionsLeft => DecisionLevel(tr) <= sv.cur

LEMMA StartedStep == ASSUME Inv, Started, [Next]_vars PROVE Started'
<1>0. bcp \in BcpRecords(arena) /\ sv \in SvRecords
  BY ReasonTypes
<1>1. CASE UNCHANGED vars
  BY <1>1 DEF vars, Started
<1>2. CASE AddClause
  <2>1. PICK lits \in Seq(Lits) :
          /\ pc = "idle" /\ UNCHANGED sv
          /\ AddDropped(lits) \/ AddRefuted(lits) \/ AddUnit(lits) \/ AddStored(lits)
    BY <1>2, AddClauseCases
  <2> QED
    BY <1>0, <2>1 DEF AddDropped, AddRefuted, AddUnit, AddStored, BcpRecords, Started
<1>3. CASE NewVar \/ Push \/ Pop
  BY <1>3 DEF NewVar, Push, Pop, Call, Started
<1>4. CASE Solve
  BY <1>0, <1>4 DEF Solve, BcpRecords, Started
<1>5. CASE Propagate /\ ~BcpOk
  <2>1. pc \in {"bcp", "visit"} /\ bcp'.caller = bcp.caller /\ UNCHANGED sv
    BY <1>0, <1>5
    DEF Propagate, BcpDequeue, VisitSkip, VisitSatisfied, VisitRewatch, VisitUnit, VisitConflict,
        VisitEnd, Visit, KeepRest, client, rest, BcpRecords
  <2> QED
    BY <2>1 DEF Started
<1>6. CASE BcpOk
  BY <1>6 DEF BcpOk, Started
<1>7. CASE Conflict
  BY <1>7
  DEF Conflict, ConflictInAddClause, ConflictBeforeSearch, ConflictAtLevelZero, StartAnalysis,
      MarkLit, PickLit, AssumptionsRefuted, Backjump, ReduceDb, Learn, Started
<1>8. CASE Search
  BY <1>0, <1>8
  DEF Search, BudgetExhausted, Loop, TheoryConflict, TheoryOk, DecideAssumption, DecideVar,
      Decide, AllAssigned, Finish, Return, Started, BcpRecords
<1> QED
  BY <1>1, <1>2, <1>3, <1>4, <1>5, <1>6, <1>7, <1>8 DEF Next, Step, Client

\* What is true stays true, no level opens and no assumption is decided.
LEMMA AssumedStays ==
    ASSUME Assumed, Searching, sv'.assumptions = sv.assumptions, sv'.cur = sv.cur,
           \A l : \A k \in 1..sv.cur : TrueAt(tr, l, k) => TrueAt(tr', l, k),
           AssumptionsLeft => DecisionLevel(tr') <= DecisionLevel(tr),
           DecisionLevel(tr) \in Nat, DecisionLevel(tr') \in Nat, sv.cur \in Nat
    PROVE  Assumed'
<1>1. sv'.cur <= Len(sv'.assumptions)
  BY DEF Assumed
<1>2. \A k \in 1..sv'.cur : TrueAt(tr', sv'.assumptions[k], k)
  BY DEF Assumed
<1>3. AssumptionsLeft' => DecisionLevel(tr') <= sv'.cur
  BY DEF Assumed, AssumptionsLeft
<1> QED
  BY <1>1, <1>2, <1>3 DEF Assumed

\* What is decided is true at the level that it opens.
LEMMA DecidedAt ==
    ASSUME Inv, NEW l \in Lits, ~IsAssigned(tr, VarOf(l)), Decide(l), NEW u, u = tr'
    PROVE  TrueAt(u, l, DecisionLevel(tr) + 1)
<1>1. tr \in TrailRecords /\ TrailInv(tr) /\ Len(tr.trail) \in Nat
      /\ DecisionLevel(tr) = Len(tr.trail_lim) /\ Len(tr.trail_lim) \in Nat
  BY ReasonTypes, TrailTypes
<1>2. PICK t : t = NewDecisionLevel(tr)
  OBVIOUS
<1>3. t \in TrailRecords /\ TrailInv(t) /\ t.assigns = tr.assigns /\ t.trail = tr.trail
      /\ Len(t.trail_lim) = Len(tr.trail_lim) + 1
  BY <1>1, <1>2, NewDecisionLevelOK, NewLevelFacts
<1>4. u = Assign(t, l, ReasonDecision) /\ ~IsAssigned(t, VarOf(l)) /\ ReasonDecision \in Reasons
  BY <1>2, <1>3 DEF Decide, IsAssigned, Reasons, ReasonDecision
<1>5. /\ Len(u.trail) = Len(t.trail) + 1 /\ u.trail[Len(t.trail) + 1] = l
      /\ u.level[VarOf(l)] = DecisionLevel(t)
  BY <1>3, <1>4, AssignFacts
<1>6. DecisionLevel(t) = DecisionLevel(tr) + 1
  BY <1>1, <1>3 DEF DecisionLevel
<1> QED
  BY <1>1, <1>3, <1>5, <1>6 DEF TrueAt

\* A true literal is true at the current level at the latest.
LEMMA TrueAtLevel ==
    ASSUME NEW t \in TrailRecords, TrailInv(t), NEW l \in Lits, IsTrue(t, l), NEW n \in Nat,
           DecisionLevel(t) <= n
    PROVE  TrueAt(t, l, n)
<1>1. PICK k \in 1..Len(t.trail) : t.trail[k] = l
  BY TrueIsOnTrail
<1>2. t.level[VarOf(l)] \in Nat /\ t.level[VarOf(l)] <= DecisionLevel(t) /\ DecisionLevel(t) \in Nat
  BY <1>1, SegmentFact, TrailTypes
<1> QED
  BY <1>1, <1>2 DEF TrueAt

\* The next assumption is found true or decided: either way it is true, no
\* later than at its own level.
LEMMA AssumptionStep ==
    ASSUME Inv, Assumed, DecideAssumption, Searching' PROVE Assumed'
<1>0. /\ sv \in SvRecords /\ tr \in TrailRecords /\ TrailInv(tr) /\ DecisionLevel(tr) \in Nat
      /\ sv.cur \in Nat /\ sv.assumptions \in Seq(Lits) /\ Len(sv.assumptions) \in Nat
  BY ReasonTypes, TrailTypes, SvFacts
<1>1. PICK p : p = sv.assumptions[sv.cur + 1]
  OBVIOUS
<1>2. sv.cur < Len(sv.assumptions) /\ p \in Lits /\ pc = "decide"
  BY <1>0, <1>1 DEF DecideAssumption, AssumptionsLeft
<1>3. /\ DecisionLevel(tr) <= sv.cur
      /\ \A k \in 1..sv.cur : TrueAt(tr, sv.assumptions[k], k)
  BY <1>2 DEF Assumed, Searching, AssumptionsLeft
<1>4. /\ sv'.assumptions = sv.assumptions /\ sv'.cur = sv.cur + 1
      /\ \/ UNCHANGED tr /\ IsTrue(tr, p)
         \/ ~IsAssigned(tr, VarOf(p)) /\ Decide(p)
  <2>1. pc' # "finish"
    BY DEF Searching
  <2> QED
    BY <1>0, <1>1, <2>1 DEF DecideAssumption, SvRecords
<1>5. /\ \A l : \A k \in 1..sv.cur : TrueAt(tr, l, k) => TrueAt(tr', l, k)
      /\ TrueAt(tr', p, sv.cur + 1) /\ DecisionLevel(tr') <= sv.cur + 1
  <2>1. CASE UNCHANGED tr /\ IsTrue(tr, p)
    <3>1. TrueAt(tr, p, sv.cur + 1)
      BY <1>0, <1>2, <1>3, <2>1, TrueAtLevel
    <3> QED
      BY <1>0, <1>3, <2>1, <3>1
  <2>2. CASE ~IsAssigned(tr, VarOf(p)) /\ Decide(p)
    <3>1. PICK u : u = tr'
      OBVIOUS
    <3>2. DecisionLevel(u) = DecisionLevel(tr) + 1
      BY <1>2, <2>2, <3>1, DecidesLevel
    <3>3. TrueAt(u, p, DecisionLevel(tr) + 1)
      BY <1>2, <2>2, <3>1, DecidedAt
    <3>4. u.level[VarOf(p)] \in Nat
      <4>1. u \in TrailRecords
        BY <3>1, <1>0, <1>2, <2>2, NewDecisionLevelOK, NewLevelFacts, AssignOK
        DEF Decide, Reasons, ReasonDecision, IsAssigned
      <4> QED
        BY <1>2, <4>1, TrailTypes, LitFacts
    <3>5. TrueAt(u, p, sv.cur + 1)
      BY <1>0, <1>3, <3>3, <3>4 DEF TrueAt
    <3>6. \A l : \A k \in 1..sv.cur : TrueAt(tr, l, k) => TrueAt(u, l, k)
      BY <1>2, <2>2, <3>1, TrueAtGrows DEF Decides
    <3> QED
      BY <1>0, <1>3, <3>1, <3>2, <3>5, <3>6
  <2> QED
    BY <1>4, <2>1, <2>2
<1>6. \A k \in 1..sv'.cur : TrueAt(tr', sv'.assumptions[k], k)
  <2> SUFFICES ASSUME NEW k \in 1..(sv.cur + 1) PROVE TrueAt(tr', sv.assumptions[k], k)
    BY <1>4
  <2>1. CASE k \in 1..sv.cur
    BY <1>3, <1>5, <2>1
  <2>2. CASE k = sv.cur + 1
    BY <1>1, <1>5, <2>2
  <2> QED
    BY <1>0, <2>1, <2>2
<1>7. sv'.cur <= Len(sv'.assumptions)
  BY <1>0, <1>2, <1>4
<1> QED
  BY <1>4, <1>5, <1>6, <1>7 DEF Assumed

LEMMA AssumedStep ==
    ASSUME ReasonInv, Started, Undisturbed => Assumed, [Next]_vars PROVE Undisturbed' => Assumed'
<1>0. /\ Inv /\ Inv' /\ bcp \in BcpRecords(arena) /\ sv \in SvRecords
      /\ tr \in TrailRecords /\ TrailInv(tr) /\ tr' \in TrailRecords
  BY ReasonTypes, NextOK DEF ReasonInv, WatchInv, Inv, TypeOK, TrailOK
<1> SUFFICES ASSUME Undisturbed', Searching' PROVE Assumed'
  BY DEF Assumed
<1>1. Undisturbed /\ Assumed
  BY <1>0, StaysUndisturbed
<1>2. /\ DecisionLevel(tr) \in Nat /\ DecisionLevel(tr') \in Nat /\ sv.cur \in Nat
      /\ sv.assumptions \in Seq(Lits) /\ Len(sv.assumptions) \in Nat
  BY <1>0, TrailTypes, SvFacts
<1>3. CASE BcpOk /\ bcp.caller = "solve_with_theory"
  <2>1. UNCHANGED <<tr, sv>> /\ pc = "bcp" /\ sv.cur = 0 /\ ~InSearch
    BY <1>3 DEF BcpOk, Started, InSearch
  <2>2. tr.trail_lim = << >>
    BY <2>1 DEF ReasonInv, Resting
  <2>3. DecisionLevel(tr) = 0
    BY <2>2 DEF DecisionLevel
  <2> QED
    BY <1>2, <2>1, <2>3 DEF Assumed
<1>4. CASE ~(BcpOk /\ bcp.caller = "solve_with_theory")
  <2>1. /\ Searching /\ sv'.assumptions = sv.assumptions
        /\ ~DecideAssumption => sv'.cur = sv.cur
    <3>1. pc = "finish" /\ UNCHANGED vars => ~Searching'
      BY DEF Searching, vars
    <3> QED
      BY <1>0, <1>4, <3>1, SearchGoesOn
  <2>2. CASE DecideAssumption
    BY <1>0, <1>1, <2>2, AssumptionStep
  <2>3. CASE tr' = tr \/ tr' = Dequeue(tr) \/ Assigns
    <3>1. CASE ~DecideAssumption
      <4>1. DecisionLevel(tr') = DecisionLevel(tr)
        BY <1>0, <2>3, SameLevels
      <4>2. \A l : \A k \in 1..sv.cur : TrueAt(tr, l, k) => TrueAt(tr', l, k)
        <5>1. CASE tr' = tr
          BY <5>1
        <5>2. CASE tr' = Dequeue(tr)
          <6>1. tr'.trail = tr.trail /\ tr'.level = tr.level
            BY <1>0, <5>2, DequeueFacts
          <6> QED
            BY <6>1 DEF TrueAt
        <5>3. CASE Assigns
          BY <1>0, <5>3, TrueAtGrows
        <5> QED
          BY <2>3, <5>1, <5>2, <5>3
      <4> QED
        BY <1>1, <1>2, <2>1, <3>1, <4>1, <4>2, AssumedStays
    <3> QED
      BY <2>2, <3>1
  <2>4. CASE Backjump
    <3>1. PICK n : n = an.backtrack_level
      OBVIOUS
    <3>2. /\ n \in Nat /\ n < DecisionLevel(tr) /\ tr' = BacktrackTo(tr, n)
          /\ AssumptionRun => Len(sv.assumptions) <= n
      BY <2>4, <3>1, BackjumpLevel
    <3>3. sv.cur <= n
      <4>1. sv.cur <= Len(sv.assumptions)
        BY <1>1, <2>1 DEF Assumed
      <4>2. CASE AssumptionRun
        BY <1>2, <3>2, <4>1, <4>2
      <4>3. CASE ~AssumptionRun
        <5>1. Len(sv.assumptions) = 0
          BY <4>3 DEF AssumptionRun
        <5> QED
          BY <1>2, <3>2, <4>1, <5>1
      <4> QED
        BY <4>2, <4>3
    <3>4. DecisionLevel(tr') = n
      BY <2>4, <3>1, BackjumpLevel
    <3>5. PICK u : u = tr'
      OBVIOUS
    <3>6. \A l : \A k \in 1..sv.cur : TrueAt(tr, l, k) => TrueAt(u, l, k)
      BY <1>0, <1>2, <3>2, <3>3, <3>5, TrueAtBacktrack
    <3>7. ~DecideAssumption
      BY <2>4 DEF Backjump, DecideAssumption
    <3> QED
      BY <1>1, <1>2, <2>1, <3>2, <3>4, <3>5, <3>6, <3>7, AssumedStays
  <2>5. CASE DecideVar
    <3>1. ~AssumptionsLeft /\ pc = "decide" /\ pc' = "loop"
      BY <2>5 DEF DecideVar, Decide
    <3>2. Decides \/ UNCHANGED tr
      BY <1>0, <2>5, <3>1, SearchTrail DEF Search
    <3>3. CASE Decides
      <4>1. PICK u : u = tr'
        OBVIOUS
      <4>2. \A l : \A k \in 1..sv.cur : TrueAt(tr, l, k) => TrueAt(u, l, k)
        BY <1>0, <3>3, <4>1, TrueAtGrows
      <4>3. ~DecideAssumption
        BY <3>1 DEF DecideAssumption
      <4> QED
        BY <1>1, <1>2, <2>1, <3>1, <4>1, <4>2, <4>3, AssumedStays
    <3> QED
      BY <2>3, <3>2, <3>3
  <2>6. CASE UNCHANGED vars
    BY <2>3, <2>6 DEF vars
  <2>7. CASE Client
    BY <1>0, <2>7, CallsRest
  <2>8. CASE Propagate
    BY <1>0, <2>3, <2>8, PropagateTrail DEF BcpDequeue
  <2>9. CASE Conflict /\ ~Backjump
    <3>1. CASE Learn
      <4>1. an.learned \in Seq(Lits) /\ Len(an.learned) > 0 /\ Len(arena) + 1 \in Reasons
            /\ ReasonUnit \in Reasons
        BY <1>0, <3>1, ReasonTypes, AnFacts
        DEF Inv, TypeOK, ControlOK, Learn, Reasons, ReasonUnit
      <4>2. an.learned[1] \in Lits
        BY <4>1
      <4>3. UNCHANGED tr \/ Assigns
        BY <3>1, <4>1, <4>2 DEF Learn, Assigns
      <4> QED
        BY <2>3, <4>3
    <3>2. CASE ~Learn
      <4>1. UNCHANGED tr
        BY <2>9, <3>2
        DEF Conflict, ConflictInAddClause, ConflictBeforeSearch, ConflictAtLevelZero,
            StartAnalysis, MarkLit, PickLit, AssumptionsRefuted, ReduceDb
      <4> QED
        BY <2>3, <4>1
    <3> QED
      BY <3>1, <3>2
  <2>10. CASE Search /\ ~DecideAssumption /\ ~DecideVar
    <3>1. UNCHANGED tr \/ pc' \in {"answered", "idle"}
      BY <2>10 DEF Search, BudgetExhausted, Loop, TheoryConflict, TheoryOk, AllAssigned, Finish, Return
    <3> QED
      BY <2>3, <3>1 DEF Searching
  <2> QED
    BY <2>2, <2>4, <2>5, <2>6, <2>7, <2>8, <2>9, <2>10 DEF Next, Step
<1> QED
  BY <1>3, <1>4

-----------------------------------------------------------------------------
(* When all variables are assigned, the trail is a model.                   *)

\* The theory reports every clause that is false, if there are clauses at all.
Eager == EagerTheory \/ TheoryClauses = {}
NothingFalse == (Eager /\ pc = "decide") => FalseTheoryClauses = {}

\* The trail satisfies the clauses in force, what is known of the theory and
\* the assumptions; and so does the model that is taken from it.
TrailModel ==
    /\ Open(1..num_vars) = {}
    /\ \A i \in 1..Len(inputs) :
         \E l \in ToSet(inputs[i]) : l \in Lits /\ VarOf(l) <= num_vars /\ IsTrue(tr, l)
    /\ Eager => \A c \in TheoryClauses : \E i \in 1..Len(c) : ~IsFalse(tr, c[i])
    /\ \A i \in 1..Len(sv.assumptions) : IsTrue(tr, sv.assumptions[i])
ModelTaken ==
    /\ Len(model) = num_vars /\ \A v \in 1..num_vars : model[v] # "Undef"
    /\ \A i \in 1..Len(inputs) : \E l \in ToSet(inputs[i]) : ModelLitTrue(l)
    /\ Eager => \A c \in TheoryClauses :
                  \E i \in 1..Len(c) : VarOf(c[i]) <= num_vars => ModelLitTrue(c[i])
    /\ \A i \in 1..Len(sv.assumptions) :
         VarOf(sv.assumptions[i]) <= num_vars => ModelLitTrue(sv.assumptions[i])
Answered ==
    sv.result = "True" => /\ pc = "finish" => TrailModel
                          /\ pc = "answered" => ModelTaken

LEMMA NothingFalseStep ==
    ASSUME NothingFalse, [Next]_vars PROVE NothingFalse'
<1> SUFFICES ASSUME Eager, pc' = "decide" PROVE FalseTheoryClauses' = {}
  BY DEF NothingFalse
<1>1. CASE UNCHANGED vars
  BY <1>1 DEF vars, NothingFalse, FalseTheoryClauses
<1>2. CASE TheoryOk
  BY <1>2 DEF TheoryOk, Eager, FalseTheoryClauses
<1>3. CASE Client
  BY <1>3 DEF Client, NewVar, AddClause, AddCleaned, Push, Pop, Solve, Call
<1>4. CASE Propagate
  BY <1>4
  DEF Propagate, BcpDequeue, VisitSkip, VisitSatisfied, VisitRewatch, VisitUnit, VisitConflict,
      VisitEnd, BcpOk, Visit
<1>5. CASE Conflict
  BY <1>5
  DEF Conflict, ConflictInAddClause, ConflictBeforeSearch, ConflictAtLevelZero, StartAnalysis,
      MarkLit, PickLit, AssumptionsRefuted, Backjump, ReduceDb, Learn
<1>6. CASE Search /\ ~TheoryOk
  BY <1>6
  DEF Search, BudgetExhausted, Loop, TheoryConflict, DecideAssumption, DecideVar, Decide,
      AllAssigned, Finish, Return
<1> QED
  BY <1>1, <1>2, <1>3, <1>4, <1>5, <1>6 DEF Next, Step

\* An assigned literal is true or its negation is.
LEMMA AssignedIsTrue ==
    ASSUME NEW t \in TrailRecords, NEW l \in Lits, IsAssigned(t, VarOf(l)), ~IsTrue(t, l)
    PROVE  IsFalse(t, l) /\ IsTrue(t, Neg(l))
<1>1. t.assigns \in [Vars -> LBool] /\ VarOf(l) \in Vars /\ VarOf(Neg(l)) = VarOf(l)
      /\ IsPos(Neg(l)) = ~IsPos(l)
  BY TrailTypes, LitFacts, NumVarsAssumption DEF Lits, Neg, IsPos
<1>2. t.assigns[VarOf(l)] \in {"True", "False"}
  BY <1>1 DEF LBool, IsAssigned
<1> QED
  BY <1>1, <1>2 DEF IsTrue, IsFalse, LitValue, NotVal

\* What is kept for an input is true when all variables have values.
LEMMA KeptIsTrue ==
    ASSUME PropInv, Undisturbed, pc = "decide", Open(1..num_vars) = {}, NEW S, S \subseteq Lits,
           \A l \in S : VarOf(l) <= num_vars, NEW i, Kept(S, i)
    PROVE  \E l \in S : IsTrue(tr, l)
<1>0. Inv /\ tr \in TrailRecords /\ TrailInv(tr) /\ Stored /\ WatchesGood /\ num_vars \in Nat
  BY ReasonTypes DEF PropInv, ReasonInv, WatchInv, Busy, Inv, TypeOK, RestOK
<1>1. \A l \in S : IsAssigned(tr, VarOf(l))
  BY <1>0, LitFacts DEF Open, Vars
<1>2. CASE \E l \in S : Neg(l) \in S
  BY <1>0, <1>1, <1>2, AssignedIsTrue
<1>3. CASE \E l \in S : TrueAt(tr, l, 0)
  BY <1>0, <1>3 DEF TrueAt, TrailInv, TrailIsAssignment
<1>4. CASE \E c \in Live : StandsFor(c, S, i)
  <2>1. PICK c \in Live : StandsFor(c, S, i)
    BY <1>4
  <2>2. c \in ClauseIds /\ ~arena[c].learned /\ LitsOf(c) \subseteq S /\ BothGood(c)
    BY <1>0, <2>1 DEF StandsFor, Live, WatchesGood
  <2>3. Len(arena[c].lits) > 1
    BY <1>0, <2>2 DEF Stored
  <2>4. PICK l : l = arena[c].lits[1]
    OBVIOUS
  <2>5. l \in LitsOf(c) /\ l \in S /\ Handled(c, l)
    BY <1>0, <2>2, <2>3, <2>4, ClauseLits DEF BothGood
  <2>6. CASE IsTrue(tr, l)
    BY <2>5, <2>6
  <2>7. CASE ~IsTrue(tr, l)
    <3>1. IsFalse(tr, l)
      BY <1>0, <1>1, <2>5, <2>7, AssignedIsTrue
    <3>2. \E m \in LitsOf(c) : IsTrue(tr, m)
      BY <2>2, <2>3, <2>4, <2>5, <3>1, GoodWatch
    <3> QED
      BY <2>2, <3>2
  <2> QED
    BY <2>6, <2>7
<1> QED
  BY <1>2, <1>3, <1>4 DEF Kept

\* The search stops with all variables assigned: a model.
LEMMA AllAssignedModel ==
    ASSUME PropInv, AllCovered, InputsKept, Undisturbed, Assumed, NothingFalse, AllAssigned
    PROVE  TrailModel'
<1>0. /\ Inv /\ tr \in TrailRecords /\ TrailInv(tr) /\ sv \in SvRecords /\ pc = "decide" /\ ok
      /\ SearchOK /\ inputs \in Seq(Seq(Lits)) /\ num_vars \in Nat
  <2>1. Inv /\ SearchOK
    BY DEF PropInv, ReasonInv, WatchInv
  <2>2. pc = "decide" /\ ok
    BY DEF PropInv, Busy, AllAssigned
  <2>3. tr \in TrailRecords /\ TrailInv(tr) /\ sv \in SvRecords
    BY <2>1, ReasonTypes
  <2>4. inputs \in Seq(Seq(Lits)) /\ num_vars \in Nat
    BY <2>1 DEF Inv, TypeOK, RestOK, ClientOK
  <2> QED
    BY <2>1, <2>2, <2>3, <2>4
<1>1. /\ UNCHANGED <<inputs, num_vars, tr>> /\ sv'.assumptions = sv.assumptions
  BY <1>0 DEF AllAssigned, client, rest, Answer, SvRecords
<1>2. Open(1..num_vars) = {}
  BY DEF AllAssigned, Selected, Open, AllCovered
<1>3. ASSUME NEW i \in 1..Len(inputs)
      PROVE  \E l \in ToSet(inputs[i]) : l \in Lits /\ VarOf(l) <= num_vars /\ IsTrue(tr, l)
  <2>1. PICK S : S = ToSet(inputs[i])
    OBVIOUS
  <2>2. inputs[i] \in Seq(Lits)
    BY <1>0, ElementFact
  <2>3. S \subseteq Lits
    BY <2>1, <2>2 DEF ToSet
  <2>4. (\A l \in S : VarOf(l) <= num_vars) /\ Kept(S, i)
    BY <1>0, <2>1 DEF InputsKept
  <2>5. \E l \in S : IsTrue(tr, l)
    BY <1>0, <1>2, <2>3, <2>4, KeptIsTrue
  <2> QED
    BY <2>1, <2>3, <2>4, <2>5
<1>4. ASSUME Eager, NEW c \in TheoryClauses
      PROVE  \E i \in 1..Len(c) : ~IsFalse(tr, c[i])
  <2>1. th.asserted = tr.trail
    BY <1>0 DEF SearchOK, Mirror, ToldAll
  <2>2. c \in Seq(Lits)
    BY SolverAssumption
  <2>3. PICK i \in 1..Len(c) : Neg(c[i]) \notin ToSet(th.asserted)
    BY <1>0, <1>4 DEF NothingFalse, FalseTheoryClauses
  <2>4. c[i] \in Lits
    BY <2>2
  <2>5. ~FalseNow(tr, c[i])
    BY <2>1, <2>3 DEF FalseNow, FalseBefore, ToSet
  <2> QED
    BY <1>0, <2>4, <2>5, FalseIsOnTrail
<1>5. ASSUME NEW i \in 1..Len(sv.assumptions) PROVE IsTrue(tr, sv.assumptions[i])
  <2>1. sv.cur = Len(sv.assumptions)
    <3>1. sv.cur \in Nat /\ Len(sv.assumptions) \in Nat
      BY <1>0, SvFacts
    <3>2. sv.cur <= Len(sv.assumptions) /\ ~(sv.cur < Len(sv.assumptions))
      BY <1>0 DEF Assumed, Searching, AllAssigned, AssumptionsLeft
    <3> QED
      BY <3>1, <3>2
  <2>2. TrueAt(tr, sv.assumptions[i], i)
    BY <1>0, <2>1 DEF Assumed, Searching
  <2> QED
    BY <1>0, <2>2 DEF TrueAt, TrailInv, TrailIsAssignment
<1>6. TrailModel
  BY <1>2, <1>3, <1>4, <1>5 DEF TrailModel
<1> QED
  BY <1>1, <1>6 DEF TrailModel, Open

\* A true literal of a variable that exists is true in the model.
LEMMA TakenIsTrue ==
    ASSUME Inv, NEW m, m = [v \in 1..num_vars |-> tr.assigns[v]], NEW l \in Lits,
           VarOf(l) <= num_vars, IsTrue(tr, l)
    PROVE  m[VarOf(l)] = (IF IsPos(l) THEN "True" ELSE "False")
<1>1. num_vars \in Nat /\ VarOf(l) \in Vars /\ tr.assigns[VarOf(l)] \in LBool
  BY ReasonTypes, TrailTypes, LitFacts DEF Inv, TypeOK, RestOK
<1>2. VarOf(l) \in 1..num_vars
  BY <1>1 DEF Vars
<1>3. m[VarOf(l)] = tr.assigns[VarOf(l)]
  BY <1>2
<1> QED
  BY <1>1, <1>3 DEF IsTrue, LitValue, NotVal, LBool

LEMMA FinishTakes ==
    ASSUME Inv, TrailModel, Finish, sv.result = "True" PROVE ModelTaken'
<1>0. /\ num_vars \in Nat /\ tr \in TrailRecords /\ sv.assumptions \in Seq(Lits)
      /\ UNCHANGED <<inputs, num_vars, sv>>
  BY ReasonTypes, SvFacts DEF Finish, client, Inv, TypeOK, RestOK
<1>1. PICK m : m = [v \in 1..num_vars |-> tr.assigns[v]]
  OBVIOUS
<1>2. model' = m
  BY <1>1 DEF Finish
<1>3. Len(m) = num_vars /\ \A v \in 1..num_vars : m[v] # "Undef"
  <2>1. \A v \in 1..num_vars : m[v] # "Undef"
    BY <1>1 DEF TrailModel, Open, IsAssigned
  <2>2. m \in Seq(LBool) /\ Len(m) = num_vars
    <3>1. 1..num_vars \subseteq Vars /\ tr.assigns \in [Vars -> LBool]
      BY <1>0, VarsExist, TrailTypes
    <3>2. m \in [1..num_vars -> LBool]
      BY <1>1, <3>1
    <3> QED
      BY <1>0, <3>2
  <2> QED
    BY <2>1, <2>2
<1>4. \A l \in Lits : VarOf(l) <= num_vars /\ IsTrue(tr, l) => ModelLitTrue(l)'
  BY <1>1, <1>2, TakenIsTrue DEF ModelLitTrue
<1>5. \A i \in 1..Len(inputs) : \E l \in ToSet(inputs[i]) : ModelLitTrue(l)'
  BY <1>4 DEF TrailModel
<1>6. ASSUME Eager, NEW c \in TheoryClauses
      PROVE  \E i \in 1..Len(c) : VarOf(c[i]) <= num_vars => ModelLitTrue(c[i])'
  <2>1. PICK i \in 1..Len(c) : ~IsFalse(tr, c[i])
    BY <1>6 DEF TrailModel
  <2>2. c[i] \in Lits
    <3>1. c \in Seq(Lits)
      BY SolverAssumption
    <3> QED
      BY <3>1
  <2>3. ASSUME VarOf(c[i]) <= num_vars PROVE ModelLitTrue(c[i])'
    <3>1. VarOf(c[i]) \in 1..num_vars
      BY <1>0, <2>2, <2>3, LitFacts DEF Vars
    <3>2. IsAssigned(tr, VarOf(c[i]))
      BY <3>1 DEF TrailModel, Open
    <3>3. IsTrue(tr, c[i])
      BY <1>0, <2>1, <2>2, <3>2, AssignedIsTrue
    <3> QED
      BY <1>4, <2>2, <2>3, <3>3
  <2> QED
    BY <2>3
<1>7. ASSUME NEW i \in 1..Len(sv.assumptions), VarOf(sv.assumptions[i]) <= num_vars
      PROVE  ModelLitTrue(sv.assumptions[i])'
  <2>1. sv.assumptions[i] \in Lits
    BY <1>0
  <2>2. IsTrue(tr, sv.assumptions[i])
    BY DEF TrailModel
  <2> QED
    BY <1>0, <1>4, <1>7, <2>1, <2>2
<1>8. /\ Len(model') = num_vars' /\ \A v \in 1..num_vars' : model'[v] # "Undef"
  BY <1>0, <1>2, <1>3
<1> QED
  BY <1>0, <1>5, <1>6, <1>7, <1>8 DEF ModelTaken

\* Only a search that has assigned all variables answers True.
LEMMA AnsweredStep ==
    ASSUME PropInv, AllCovered, InputsKept, Undisturbed', Assumed, NothingFalse, Answered,
           [Next]_vars
    PROVE  Answered'
<1>0. Inv /\ sv \in SvRecords /\ Undisturbed
  BY ReasonTypes, StaysUndisturbed DEF PropInv, ReasonInv, WatchInv
<1> SUFFICES ASSUME sv'.result = "True", pc' \in {"finish", "answered"}
             PROVE  (pc' = "finish" => TrailModel') /\ (pc' = "answered" => ModelTaken')
  BY DEF Answered
<1>1. CASE UNCHANGED vars
  <2>1. /\ UNCHANGED <<pc, sv>>
        /\ TrailModel => TrailModel'
        /\ ModelTaken => ModelTaken'
    BY <1>1 DEF vars, client, rest, TrailModel, ModelTaken, Open, ModelLitTrue
  <2> QED
    BY <2>1 DEF Answered
<1>2. CASE AllAssigned
  <2>1. TrailModel' /\ pc' = "finish"
    BY <1>0, <1>2, AllAssignedModel DEF AllAssigned
  <2> QED
    BY <2>1
<1>3. CASE Finish
  <2>1. pc = "finish" /\ sv.result = "True" /\ pc' = "answered"
    BY <1>3 DEF Finish
  <2>2. TrailModel
    BY <2>1 DEF Answered
  <2> QED
    BY <1>0, <1>3, <2>1, <2>2, FinishTakes
<1>4. CASE Client
  <2>1. pc' # "finish"
    BY <1>0, <1>4, CallsRest
  <2>2. pc' # "answered"
    <3>1. CASE Solve
      BY <3>1 DEF Solve
    <3>2. CASE AddClause
      <4>1. PICK lits \in Seq(Lits) :
              /\ pc = "idle"
              /\ AddDropped(lits) \/ AddRefuted(lits) \/ AddUnit(lits) \/ AddStored(lits)
        BY <1>0, <3>2, AddClauseCases
      <4> QED
        BY <4>1 DEF AddDropped, AddRefuted, AddUnit, AddStored
    <3>3. CASE NewVar \/ Push \/ Pop
      BY <3>3 DEF NewVar, Push, Pop, Call
    <3> QED
      BY <1>4, <3>1, <3>2, <3>3 DEF Client
  <2> QED
    BY <2>1, <2>2
<1>5. CASE Propagate
  BY <1>5
  DEF Propagate, BcpDequeue, VisitSkip, VisitSatisfied, VisitRewatch, VisitUnit, VisitConflict,
      VisitEnd, BcpOk, Visit
<1>6. CASE Conflict
  <2>1. CASE ConflictBeforeSearch \/ ConflictAtLevelZero \/ AssumptionsRefuted
    BY <1>0, <2>1
    DEF ConflictBeforeSearch, ConflictAtLevelZero, AssumptionsRefuted, Answer, SvRecords
  <2> QED
    BY <1>6, <2>1
    DEF Conflict, ConflictInAddClause, StartAnalysis, MarkLit, PickLit, Backjump, ReduceDb, Learn
<1>7. CASE Search /\ ~AllAssigned /\ ~Finish
  <2>1. CASE BudgetExhausted
    BY <1>0, <2>1 DEF BudgetExhausted, Answer, SvRecords
  <2>2. CASE DecideAssumption
    <3>1. sv'.result = "False" \/ pc' = "loop"
      BY <1>0, <2>2 DEF DecideAssumption, Decide, SvRecords
    <3> QED
      BY <3>1
  <2> QED
    BY <1>7, <2>1, <2>2
    DEF Search, Loop, TheoryConflict, TheoryOk, DecideVar, Decide, Return
<1> QED
  BY <1>1, <1>2, <1>3, <1>4, <1>5, <1>6, <1>7 DEF Next, Step

-----------------------------------------------------------------------------
(* The invariant is inductive.                                              *)

ModelInv ==
    /\ PropInv /\ HeapInv /\ OwnScope /\ InputsKept /\ Started /\ NothingFalse
    /\ Undisturbed => Assumed /\ Answered

LEMMA ModelInit == Init => ModelInv
<1> SUFFICES ASSUME Init PROVE ModelInv
  OBVIOUS
<1>1. PropInv /\ HeapInv
  BY PropInit, HeapInit
<1>2. OwnScope /\ Assumed /\ Started /\ NothingFalse /\ Answered
  BY DEF Init, OwnScope, Searching, InSearch, Assumed, Started, NothingFalse, Answered
<1>3. InputsKept
  BY DEF Init, InputsKept
<1> QED
  BY <1>1, <1>2, <1>3 DEF ModelInv

LEMMA ModelNext == ASSUME ModelInv, [Next]_vars PROVE ModelInv'
<1>1. PropInv /\ HeapInv /\ ReasonInv /\ WatchInv /\ Inv /\ AllCovered
      /\ OwnScope /\ InputsKept /\ Started /\ NothingFalse
  BY DEF ModelInv, PropInv, ReasonInv, WatchInv, HeapInv
<1>2. PropInv' /\ HeapInv'
  BY <1>1, PropNext, HeapNext
<1>3. OwnScope' /\ InputsKept' /\ Started' /\ NothingFalse'
  BY <1>1, OwnScopeStep, InputsKeptStep, StartedStep, NothingFalseStep
<1>4. ASSUME Undisturbed' PROVE Assumed' /\ Answered'
  <2>1. Undisturbed
    BY <1>1, <1>4, StaysUndisturbed
  <2>2. Assumed /\ Answered
    BY <2>1 DEF ModelInv
  <2>3. Assumed'
    BY <1>1, <1>4, <2>2, AssumedStep
  <2>4. Answered'
    BY <1>1, <1>4, <2>2, AnsweredStep
  <2> QED
    BY <2>3, <2>4
<1> QED
  BY <1>2, <1>3, <1>4 DEF ModelInv

-----------------------------------------------------------------------------
(* What the invariant gives.                                                *)

\* Variables that the theory and the assumptions name have been created.
KnownVars == \A l \in ToSet(sv.assumptions) \cup UNION Theory : VarOf(l) <= num_vars

LEMMA ModelHolds ==
    ASSUME ModelInv, Unrestarted, Eager, KnownVars PROVE SatSound
<1> SUFFICES ASSUME pc = "answered", sv.result = "True"
             PROVE  /\ Len(model) = num_vars /\ \A v \in 1..num_vars : model[v] # "Undef"
                    /\ \A c \in Problem : \E l \in c : ModelLitTrue(l)
                    /\ \A l \in ToSet(sv.assumptions) : ModelLitTrue(l)
  BY DEF SatSound
<1>1. ModelTaken
  BY DEF ModelInv, Undisturbed, Answered
<1>2. ASSUME NEW c \in Inputs PROVE \E l \in c : ModelLitTrue(l)
  <2>1. PICK i \in 1..Len(inputs) : c = ToSet(inputs[i])
    BY <1>2 DEF Inputs
  <2> QED
    BY <1>1, <2>1 DEF ModelTaken
<1>3. ASSUME NEW c \in Theory PROVE \E l \in c : ModelLitTrue(l)
  <2>1. PICK d \in TheoryClauses : c = ToSet(d)
    BY <1>3 DEF Theory
  <2>2. PICK i \in 1..Len(d) : VarOf(d[i]) <= num_vars => ModelLitTrue(d[i])
    BY <1>1 DEF ModelTaken
  <2>3. d[i] \in c
    BY <2>1 DEF ToSet
  <2> QED
    BY <1>3, <2>2, <2>3 DEF KnownVars
<1>4. ASSUME NEW l \in ToSet(sv.assumptions) PROVE ModelLitTrue(l)
  <2>1. PICK i \in 1..Len(sv.assumptions) : l = sv.assumptions[i]
    BY <1>4 DEF ToSet
  <2>2. VarOf(l) <= num_vars
    BY <1>4 DEF KnownVars
  <2> QED
    BY <1>1, <2>1, <2>2 DEF ModelTaken
<1> QED
  BY <1>1, <1>2, <1>3, <1>4 DEF ModelTaken, Problem

\* No input clause is ever lost: while the solver is ok, each clause in force
\* is a tautology, is true at level 0, or is stored, not deleted, by the
\* literals of it that were open, in a scope that is popped only with it.
THEOREM InputsStay == Spec => []InputsKept
<1>1. Init => ModelInv
  BY ModelInit
<1>2. ModelInv /\ [Next]_vars => ModelInv'
  BY ModelNext
<1>3. ModelInv => InputsKept
  BY DEF ModelInv
<1> QED
  BY <1>1, <1>2, <1>3, PTL DEF Spec

\* True comes with a total model of the clauses in force, of the theory and of
\* the assumptions, so long as no restart has assigned a learned literal away
\* from its level, the theory reports a false clause at once, and the
\* variables it and the assumptions name exist.
THEOREM ModelsHold == Spec => []((Unrestarted /\ Eager /\ KnownVars) => SatSound)
<1>1. Init => ModelInv
  BY ModelInit
<1>2. ModelInv /\ [Next]_vars => ModelInv'
  BY ModelNext
<1>3. ModelInv => ((Unrestarted /\ Eager /\ KnownVars) => SatSound)
  BY ModelHolds
<1> QED
  BY <1>1, <1>2, <1>3, PTL DEF Spec
=============================================================================
