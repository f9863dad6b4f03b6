---------------------------- MODULE Sound_proofs ----------------------------
(***************************************************************************)
(* What the solver derives.  It follows from what the solver was given: the*)
(* clauses it learns, the literals it fixes at level 0, and its            *)
(* refutations, so long as no restart has assigned a learned literal at    *)
(* level 0 and no input clause has been withdrawn by a pop.  And a clause  *)
(* that is learned asserts its first literal after the backjump.           *)
(***************************************************************************)
EXTENDS Models_proofs

Models == {m \in Valuations : Satisfies(m, Problem)}
Follows(lits) == \A m \in Models : \E i \in 1..Len(lits) : SatisfiesLit(m, lits[i])

\* Every clause there is or has been, and every literal of level 0.
ClausesFollow == \A c \in ClauseIds : Follows(arena[c].lits)
FixedFollow ==
    \A i \in 1..Len(tr.trail) : tr.level[VarOf(tr.trail[i])] = 0 =>
        \A m \in Models : SatisfiesLit(m, tr.trail[i])

\* What analysis still has to resolve: each model satisfies a literal learned
\* so far, the negation of a literal seen, or one of the clause at hand.
Remaining(m) ==
    \/ \E j \in 2..Len(an.learned) : SatisfiesLit(m, an.learned[j])
    \/ \E k \in 1..an.trail_idx :
         VarOf(tr.trail[k]) \in an.seen /\ SatisfiesLit(m, Neg(tr.trail[k]))
    \/ \E j \in 1..Len(an.lits) :
         VarOf(an.lits[j]) # an.pivot /\ SatisfiesLit(m, an.lits[j])

\* Seen literals of lower levels have been learned, and path_count counts those
\* of the current level until analysis has gone below it.
Collected(v) == \E j \in 2..Len(an.learned) : VarOf(an.learned[j]) = v
CurrentSeen == {v \in an.seen : tr.level[v] = DecisionLevel(tr)}
Resolving ==
    pc = "mark" =>
        /\ \A m \in Models : Remaining(m)
        /\ \A v \in an.seen : tr.level[v] \in {0, DecisionLevel(tr)} \/ Collected(v)
        /\ \/ an.path_count = Cardinality(CurrentSeen)
           \/ an.trail_idx <= tr.trail_lim[DecisionLevel(tr)]
LearnedFollows == pc \in {"learned", "reduce", "learn"} => Follows(an.learned)

\* A solver that is not ok, and an answer of False to a call without
\* assumptions, mean that there is no model.
Refuted ==
    /\ ~ok => Models = {}
    /\ pc \in {"finish", "answered"} /\ sv.result = "False" /\ ~AssumptionRun => Models = {}

SoundParts == ClausesFollow /\ FixedFollow /\ Resolving /\ LearnedFollows /\ Refuted
SoundInv == ReasonInv /\ (Unrestarted => SoundParts)

-----------------------------------------------------------------------------
(* Meaning.                                                                 *)

LEMMA NegMeaning ==
    ASSUME NEW m \in Valuations, NEW l \in Lits
    PROVE  SatisfiesLit(m, Neg(l)) <=> ~SatisfiesLit(m, l)
<1>1. VarOf(l) \in Vars /\ VarOf(Neg(l)) = VarOf(l) /\ IsPos(Neg(l)) = ~IsPos(l)
  BY LitFacts DEF IsPos, Neg, Lits
<1>2. m[VarOf(l)] \in BOOLEAN /\ IsPos(l) \in BOOLEAN
  BY <1>1 DEF Valuations, IsPos
<1> QED
  BY <1>1, <1>2 DEF SatisfiesLit

\* Models are lost, never gained, while no input is withdrawn.
LEMMA ModelsShrink ==
    ASSUME Inputs \subseteq Inputs' PROVE Models' \subseteq Models
  BY DEF Models, Problem, Satisfies

LEMMA FollowsStays ==
    ASSUME Models' \subseteq Models, NEW lits, Follows(lits) PROVE Follows(lits)'
  BY DEF Follows

\* A clause that follows and is false at level 0 leaves no model.
LEMMA FalseRefutes ==
    ASSUME Inv, FixedFollow, \A i \in 1..Len(tr.trail) : tr.level[VarOf(tr.trail[i])] = 0,
           NEW lits \in Seq(Lits), AllFalse(tr, lits), Follows(lits)
    PROVE  Models = {}
<1> SUFFICES ASSUME NEW m \in Models PROVE FALSE
  OBVIOUS
<1>1. PICK i \in 1..Len(lits) : SatisfiesLit(m, lits[i])
  BY DEF Follows
<1>2. PICK k \in 1..Len(tr.trail) : tr.trail[k] = Neg(lits[i])
  BY DEF AllFalse, FalseNow, FalseBefore
<1>3. SatisfiesLit(m, Neg(lits[i]))
  BY <1>2 DEF FixedFollow
<1> QED
  BY <1>1, <1>3, NegMeaning DEF Models

\* At level 0 every literal on the trail is of level 0.
LEMMA LevelsZero ==
    ASSUME NEW t \in TrailRecords, TrailInv(t), DecisionLevel(t) = 0
    PROVE  \A i \in 1..Len(t.trail) : t.level[VarOf(t.trail[i])] = 0
<1> TAKE i \in 1..Len(t.trail)
<1>1. t.level[VarOf(t.trail[i])] \in Nat /\ t.level[VarOf(t.trail[i])] <= 0
  BY TrailTypes DEF TrailInv, LevelsAreSegments
<1> QED
  BY <1>1

-----------------------------------------------------------------------------
(* Clauses and literals, operation by operation.                            *)

LEMMA ClausesSame ==
    ASSUME ClausesFollow, Models' \subseteq Models, Len(arena') = Len(arena),
           \A c \in ClauseIds : arena'[c].lits = arena[c].lits
    PROVE  ClausesFollow'
<1> SUFFICES ASSUME NEW c \in ClauseIds PROVE Follows(arena[c].lits)'
  BY DEF ClausesFollow, ClauseIds
<1>1. PICK lits : lits = arena[c].lits
  OBVIOUS
<1>2. Follows(lits)'
  BY <1>1, FollowsStays DEF ClausesFollow
<1>3. arena'[c].lits = lits
  BY <1>1
<1> QED
  BY <1>2, <1>3 DEF Follows

LEMMA ClausesDeleted ==
    ASSUME Inv, ClausesFollow, Models' \subseteq Models,
           UNCHANGED arena \/ \E S : arena' = WithDeleted(S)
    PROVE  ClausesFollow'
<1>1. CASE UNCHANGED arena
  BY <1>1, ClausesSame
<1>2. ASSUME NEW S, arena' = WithDeleted(S) PROVE ClausesFollow'
  BY <1>2, Deleting, ClausesSame
<1> QED
  BY <1>1, <1>2

LEMMA ClausesGrow ==
    ASSUME Inv, ClausesFollow, Models' \subseteq Models, NEW x, arena' = Append(arena, x),
           NEW lits, lits = x.lits, Follows(lits)'
    PROVE  ClausesFollow'
<1>1. arena \in Seq(ArenaClauses) /\ Len(arena) \in Nat
  BY ReasonTypes
<1>2. /\ Len(arena') = Len(arena) + 1 /\ arena'[Len(arena) + 1] = x
      /\ \A c \in 1..Len(arena) : arena'[c] = arena[c]
  BY <1>1
<1> SUFFICES ASSUME NEW c \in 1..(Len(arena) + 1) PROVE Follows(arena[c].lits)'
  BY <1>2 DEF ClausesFollow, ClauseIds
<1>3. CASE c \in 1..Len(arena)
  <2>1. PICK old : old = arena[c].lits
    OBVIOUS
  <2>2. Follows(old)'
    BY <1>3, <2>1, FollowsStays DEF ClausesFollow, ClauseIds
  <2>3. arena'[c].lits = old
    BY <1>2, <1>3, <2>1
  <2> QED
    BY <2>2, <2>3 DEF Follows
<1>4. CASE c = Len(arena) + 1
  <2>1. arena'[c].lits = lits
    BY <1>2, <1>4
  <2> QED
    BY <2>1 DEF Follows
<1> QED
  BY <1>1, <1>3, <1>4

\* The trail stays or loses its end.
LEMMA FixedShorter ==
    ASSUME FixedFollow, Models' \subseteq Models, Len(tr'.trail) \in Nat, Len(tr.trail) \in Nat,
           Len(tr'.trail) <= Len(tr.trail), \A i \in 1..Len(tr'.trail) : tr'.trail[i] = tr.trail[i],
           tr'.level = tr.level
    PROVE  FixedFollow'
<1> SUFFICES ASSUME NEW i \in 1..Len(tr'.trail), tr'.level[VarOf(tr'.trail[i])] = 0,
                    NEW m \in Models'
             PROVE  SatisfiesLit(m, tr'.trail[i])
  BY DEF FixedFollow
<1>1. i \in 1..Len(tr.trail) /\ m \in Models
  OBVIOUS
<1> QED
  BY <1>1 DEF FixedFollow

LEMMA FixedSame ==
    ASSUME Inv, FixedFollow, Models' \subseteq Models, tr'.trail = tr.trail, tr'.level = tr.level
    PROVE  FixedFollow'
<1>1. Len(tr.trail) \in Nat
  BY ReasonTypes, TrailTypes
<1> QED
  BY <1>1, FixedShorter

LEMMA FixedBacktrack ==
    ASSUME Inv, FixedFollow, Models' \subseteq Models, NEW level \in Nat, tr' = BacktrackTo(tr, level)
    PROVE  FixedFollow'
<1>1. tr \in TrailRecords /\ TrailInv(tr)
  BY ReasonTypes
<1>2. /\ Len(tr'.trail) \in Nat /\ Len(tr'.trail) <= Len(tr.trail)
      /\ \A i \in 1..Len(tr'.trail) : tr'.trail[i] = tr.trail[i]
      /\ tr'.level = tr.level
  BY <1>1, BacktrackFacts
<1> QED
  BY <1>1, <1>2, TrailTypes, FixedShorter

\* A literal assigned is fixed only at level 0.
LEMMA FixedAssign ==
    ASSUME FixedFollow, Models' \subseteq Models, NEW t \in TrailRecords, TrailInv(t),
           t.trail = tr.trail, t.level = tr.level,
           NEW l \in Lits, NEW r \in Reasons, ~IsAssigned(t, VarOf(l)), tr' = Assign(t, l, r),
           DecisionLevel(t) = 0 => \A m \in Models' : SatisfiesLit(m, l)
    PROVE  FixedFollow'
<1>1. /\ Len(tr'.trail) = Len(t.trail) + 1 /\ tr'.trail[Len(t.trail) + 1] = l
      /\ tr'.level[VarOf(l)] = DecisionLevel(t)
      /\ \A i \in 1..Len(t.trail) : /\ tr'.trail[i] = t.trail[i]
                                    /\ tr'.level[VarOf(t.trail[i])] = t.level[VarOf(t.trail[i])]
  BY AssignFacts
<1>2. Len(t.trail) \in Nat
  BY TrailTypes
<1> SUFFICES ASSUME NEW i \in 1..(Len(t.trail) + 1), tr'.level[VarOf(tr'.trail[i])] = 0,
                    NEW m \in Models'
             PROVE  SatisfiesLit(m, tr'.trail[i])
  BY <1>1 DEF FixedFollow
<1>3. CASE i \in 1..Len(t.trail)
  BY <1>1, <1>3 DEF FixedFollow
<1>4. CASE i = Len(t.trail) + 1
  BY <1>1, <1>4
<1> QED
  BY <1>2, <1>3, <1>4

\* Away from analysis and from answers there is nothing to say of them.
LEMMA SoundQuiet ==
    ASSUME pc' \notin {"mark", "learned", "reduce", "learn"}
    PROVE  Resolving' /\ LearnedFollows'
  BY DEF Resolving, LearnedFollows
LEMMA RefutedStays ==
    ASSUME Refuted, Models' \subseteq Models, UNCHANGED ok, pc' \notin {"finish", "answered"}
    PROVE  Refuted'
  BY DEF Refuted

-----------------------------------------------------------------------------
(* The client's calls.                                                      *)

\* add_clause loses no literal that is not false.
LEMMA CleanedAll ==
    ASSUME NEW lits \in Seq(Lits), NEW c \in Cleaned(lits), NEW l \in ToSet(lits), ~IsFalse(tr, l)
    PROVE  \E i \in 1..Len(c) : c[i] = l
<1> DEFINE S == {k \in ToSet(lits) : ~IsFalse(tr, k)}
           n == Cardinality(S)
<1>1. S \in SUBSET Lits /\ l \in S
  BY DEF ToSet
<1>2. IsFiniteSet(S) /\ n \in Nat
  BY <1>1, LitsFinite, FS_CardinalityType
<1>3. c \in [1..n -> S] /\ \A i, j \in DOMAIN c : i < j => LitBefore(c[i], c[j])
  BY DEF Cleaned, Sorted
<1>4. \A k \in Lits : ~LitBefore(k, k)
  BY DEF LitBefore, IsPos, VarOf, Lits
<1> HIDE DEF S, n
<1>5. \A i, j \in 1..n : c[i] = c[j] => i = j
  <2> SUFFICES ASSUME NEW i \in 1..n, NEW j \in 1..n, c[i] = c[j], i # j PROVE FALSE
    OBVIOUS
  <2>1. i < j \/ j < i
    BY <1>2
  <2>2. c[i] \in Lits /\ c[j] \in Lits /\ DOMAIN c = 1..n
    BY <1>1, <1>3
  <2> QED
    BY <1>3, <1>4, <2>1, <2>2
<1>6. c \in Injection(1..n, S)
  BY <1>3, <1>5 DEF Injection, IsInjective
<1>7. IsFiniteSet(1..n) /\ Cardinality(1..n) = n
  BY <1>2, FS_Interval
<1>8. c \in Surjection(1..n, S)
  BY <1>2, <1>6, <1>7, FS_Injection DEF n
<1>9. PICK i \in 1..n : c[i] = l
  BY <1>1, <1>8 DEF Surjection
<1>10. Len(c) = n
  BY <1>2, <1>3, SortedOK DEF n
<1> QED
  BY <1>9, <1>10

\* A clause added is in force, with what level 0 leaves of it.
LEMMA CleanedFollows ==
    ASSUME Inv, tr.trail_lim = << >>, FixedFollow, Models' \subseteq Models,
           NEW lits \in Seq(Lits), ToSet(lits) \in Inputs', NEW c \in Cleaned(lits)
    PROVE  Follows(c)'
<1>1. tr \in TrailRecords /\ TrailInv(tr) /\ DecisionLevel(tr) = 0
  BY ReasonTypes DEF DecisionLevel
<1> SUFFICES ASSUME NEW m \in Models' PROVE \E i \in 1..Len(c) : SatisfiesLit(m, c[i])
  BY DEF Follows
<1>2. PICK l \in ToSet(lits) : SatisfiesLit(m, l)
  BY DEF Models, Satisfies, SatisfiesClause, Problem
<1>3. l \in Lits /\ m \in Models /\ m \in Valuations
  BY DEF ToSet, Models
<1>4. CASE IsFalse(tr, l)
  <2>1. PICK k \in 1..Len(tr.trail) : tr.trail[k] = Neg(l)
    BY <1>1, <1>3, <1>4, FalseIsOnTrail DEF FalseNow, FalseBefore
  <2>2. tr.level[VarOf(tr.trail[k])] = 0
    BY <1>1, LevelsZero
  <2>3. SatisfiesLit(m, Neg(l))
    BY <1>3, <2>1, <2>2 DEF FixedFollow
  <2> QED
    BY <1>2, <1>3, <2>3, NegMeaning
<1>5. CASE ~IsFalse(tr, l)
  BY <1>2, <1>5, CleanedAll
<1> QED
  BY <1>4, <1>5

LEMMA AddClauseSound ==
    ASSUME SoundInv, AddClause, Models' \subseteq Models, Unrestarted' PROVE SoundParts'
<1>1. Inv /\ pc = "idle" /\ tr.trail_lim = << >> /\ UNCHANGED <<restarts, th, an, sv>>
  <2>1. Inv /\ pc = "idle"
    BY DEF SoundInv, ReasonInv, WatchInv, AddClause, Call
  <2>2. UNCHANGED restarts
    BY DEF AddClause, AddVars, rest
  <2> QED
    BY <2>1, <2>2 DEF SoundInv, ReasonInv, Resting, AddClause
<1>2. SoundParts
  BY <1>1 DEF SoundInv, Unrestarted
<1>3. PICK lits \in Seq(Lits) :
        /\ lits = Head(calls).lits /\ inputs' = Append(inputs, lits)
        /\ \/ ~ok /\ UNCHANGED <<db, rest, tr, heap, proof, pc, bcp>>
           \/ ok /\ AddVars(lits) /\ Redundant(lits)
              /\ UNCHANGED <<db, ok, tr, proof, pc, bcp>>
           \/ ok /\ AddVars(lits) /\ ~Redundant(lits)
              /\ \E c \in Cleaned(lits) : AddCleaned(c)
  <2>1. Head(calls).lits \in Seq(Lits)
    BY <1>1, CallFacts DEF AddClause, Inv, TypeOK
  <2> QED
    BY <2>1 DEF AddClause
<1>4. ToSet(lits) \in Inputs'
  <2>1. inputs \in Seq(Seq(Lits)) /\ Len(inputs) \in Nat
    BY <1>1 DEF Inv, TypeOK, ClientOK
  <2>2. Len(inputs') = Len(inputs) + 1 /\ inputs'[Len(inputs) + 1] = lits
    BY <1>3, <2>1
  <2>3. Len(inputs) + 1 \in 1..Len(inputs')
    BY <2>1, <2>2
  <2> QED
    BY <2>2, <2>3 DEF Inputs
<1>5. CASE UNCHANGED <<db, ok, tr, pc>>
  <2>1. ClausesFollow' /\ FixedFollow'
    BY <1>1, <1>2, <1>5, ClausesSame, FixedSame DEF SoundParts, db
  <2> QED
    BY <1>1, <1>2, <1>5, <2>1, SoundQuiet DEF SoundParts, Refuted
<1>6. ASSUME NEW c \in Cleaned(lits), AddCleaned(c), ~Redundant(lits), ok PROVE SoundParts'
  <2>1. Follows(c)' /\ c \in Seq(Lits) /\ \A i \in 1..Len(c) : c[i] \in ToSet(lits) /\ ~IsFalse(tr, c[i])
    BY <1>1, <1>2, <1>4, CleanedFollows, CleanedFacts DEF SoundParts
  <2>2. CASE c = << >> /\ ok' = FALSE /\ UNCHANGED <<db, tr, pc, bcp>>
    <3>1. Models' = {}
      BY <2>1, <2>2 DEF Follows
    <3>2. ClausesFollow' /\ FixedFollow'
      BY <1>1, <1>2, <2>2, ClausesSame, FixedSame DEF SoundParts, db
    <3> QED
      BY <1>1, <2>2, <3>1, <3>2, SoundQuiet DEF SoundParts, Refuted
  <2>3. CASE /\ Len(c) = 1 /\ tr' = Assign(tr, c[1], ReasonUnit) /\ pc' = "bcp"
             /\ UNCHANGED <<db, ok>>
    <3>1. c[1] \in Lits /\ c[1] \in ToSet(lits) /\ ~IsFalse(tr, c[1])
      <4>1. 1 \in 1..Len(c)
        BY <2>3
      <4> QED
        BY <2>1, <4>1, ElementFact
    <3>2. tr \in TrailRecords /\ TrailInv(tr) /\ ReasonUnit \in Reasons
      BY <1>1, ReasonTypes DEF ReasonUnit, Reasons
    <3>3. ~IsAssigned(tr, VarOf(c[1]))
      <4>1. tr.assigns[VarOf(c[1])] \in LBool
        BY <3>1, <3>2, TrailTypes, LitFacts
      <4>2. ~IsTrue(tr, c[1])
        BY <1>6, <3>1 DEF Redundant
      <4> QED
        BY <3>1, <4>1, <4>2 DEF IsTrue, IsFalse, LitValue, NotVal, LBool, IsAssigned
    <3>4. \A m \in Models' : SatisfiesLit(m, c[1])
      <4>1. \A i \in 1..Len(c) : i = 1
        BY <2>3
      <4> QED
        BY <2>1, <4>1 DEF Follows
    <3>5. FixedFollow'
      BY <1>2, <2>3, <3>1, <3>2, <3>3, <3>4, FixedAssign DEF SoundParts
    <3>6. ClausesFollow'
      BY <1>2, <2>3, ClausesSame DEF SoundParts, db
    <3>7. Refuted'
      BY <1>2, <2>3, RefutedStays DEF SoundParts
    <3> QED
      BY <2>3, <3>5, <3>6, <3>7, SoundQuiet DEF SoundParts
  <2>4. CASE Len(c) > 1 /\ arena' = Append(arena, NewClause(c, FALSE, 0)) /\ UNCHANGED <<ok, tr, pc>>
    <3>1. PICK x : x = NewClause(c, FALSE, 0)
      OBVIOUS
    <3>2. x.lits = c
      BY <3>1 DEF NewClause
    <3>3. ClausesFollow'
      BY <1>1, <1>2, <2>1, <2>4, <3>1, <3>2, ClausesGrow DEF SoundParts
    <3>4. FixedFollow' /\ Refuted'
      BY <1>1, <1>2, <2>4, FixedSame, RefutedStays DEF SoundParts
    <3> QED
      BY <1>1, <2>4, <3>3, <3>4, SoundQuiet DEF SoundParts
  <2> QED
    BY <1>6, <2>2, <2>3, <2>4 DEF AddCleaned
<1> QED
  BY <1>3, <1>5, <1>6 DEF rest

LEMMA ClientSound ==
    ASSUME SoundInv, Client, Models' \subseteq Models, Unrestarted' PROVE SoundParts'
<1>1. Inv /\ pc = "idle" /\ tr.trail_lim = << >>
  <2>1. Inv /\ pc = "idle"
    BY DEF SoundInv, ReasonInv, WatchInv, Client, NewVar, AddClause, Push, Pop, Solve, Call
  <2> QED
    BY <2>1 DEF SoundInv, ReasonInv, Resting
<1>2. CASE NewVar \/ Push
  <2>1. UNCHANGED <<arena, tr, pc, ok, restarts>>
    BY <1>2 DEF NewVar, Push, db
  <2>2. SoundParts
    BY <2>1 DEF SoundInv, Unrestarted
  <2>3. ClausesFollow' /\ FixedFollow' /\ Refuted'
    BY <1>1, <2>1, <2>2, ClausesSame, FixedSame, RefutedStays DEF SoundParts
  <2> QED
    BY <1>1, <2>1, <2>3, SoundQuiet DEF SoundParts
<1>3. CASE Pop
  <2>1. /\ UNCHANGED <<pc, ok, restarts>> /\ (UNCHANGED tr \/ tr' = BacktrackTo(tr, 0))
        /\ UNCHANGED arena \/ \E S : arena' = WithDeleted(S)
    BY <1>3 DEF Pop, rest, db
  <2>2. SoundParts
    BY <2>1 DEF SoundInv, Unrestarted
  <2>3. ClausesFollow' /\ Refuted'
    BY <1>1, <2>1, <2>2, ClausesDeleted, RefutedStays DEF SoundParts
  <2>4. FixedFollow'
    BY <1>1, <2>1, <2>2, FixedSame, FixedBacktrack DEF SoundParts
  <2> QED
    BY <1>1, <2>1, <2>3, <2>4, SoundQuiet DEF SoundParts
<1>4. CASE Solve
  <2>1. /\ UNCHANGED <<arena, ok, restarts>> /\ (UNCHANGED tr \/ tr' = BacktrackTo(tr, 0))
        /\ pc' \in {"bcp", "answered"} /\ (ok => pc' = "bcp")
    BY <1>4 DEF Solve, rest, db
  <2>2. SoundParts
    BY <2>1 DEF SoundInv, Unrestarted
  <2>3. ClausesFollow'
    BY <1>1, <2>1, <2>2, ClausesSame DEF SoundParts
  <2>4. FixedFollow'
    BY <1>1, <2>1, <2>2, FixedSame, FixedBacktrack DEF SoundParts
  <2>5. Refuted'
    BY <2>1, <2>2 DEF SoundParts, Refuted
  <2> QED
    BY <2>1, <2>3, <2>4, <2>5, SoundQuiet DEF SoundParts
<1> QED
  BY <1>2, <1>3, <1>4, AddClauseSound DEF Client

-----------------------------------------------------------------------------
(* Propagation.                                                             *)

\* A visit moves the literals of a clause, and loses none.
LEMMA MovedLiterals ==
    ASSUME NEW m, NEW c \in Seq(Lits), NEW i \in 1..Len(c), NEW j \in 1..Len(c), NEW d,
           Len(d) = Len(c), d[i] = c[j], d[j] = c[i],
           \A k \in 1..Len(c) : k # i /\ k # j => d[k] = c[k],
           \E k \in 1..Len(c) : SatisfiesLit(m, c[k])
    PROVE  \E k \in 1..Len(d) : SatisfiesLit(m, d[k])
<1>1. PICK k \in 1..Len(c) : SatisfiesLit(m, c[k])
  OBVIOUS
<1>2. CASE k = i
  BY <1>1, <1>2
<1>3. CASE k = j
  BY <1>1, <1>3
<1>4. CASE k # i /\ k # j
  BY <1>1, <1>4
<1> QED
  BY <1>2, <1>3, <1>4

LEMMA ClauseAtHandFollows ==
    ASSUME WatchInv, pc = "visit", bcp.todo # << >>, ClausesFollow
    PROVE  Follows(ClauseAtHand)
<1>0. PICK d, c, h : d = AtHand.clause /\ c = arena[d].lits /\ h = ClauseAtHand
  OBVIOUS
<1>1. Inv /\ d \in ClauseIds /\ bcp.lit \in Lits /\ h \in Seq(Lits) /\ Len(h) > 1 /\ Len(h) = Len(c)
  BY <1>0, AtHandWatched, AtHandFacts, WatchTypes DEF WatchInv
<1>2. c \in Seq(Lits) /\ Follows(c) /\ Len(c) \in Nat
  <2>1. arena \in Seq(ArenaClauses) /\ d \in 1..Len(arena)
    BY <1>1, WatchTypes
  <2>2. c \in Seq(Lits)
    BY <1>0, <2>1, ClauseFacts
  <2> QED
    BY <1>0, <1>1, <2>2 DEF ClausesFollow
<1>3. CASE h = c
  BY <1>0, <1>2, <1>3
<1>4. CASE h # c
  <2>1. c[1] = Neg(bcp.lit) /\ h = [c EXCEPT ![1] = c[2], ![2] = Neg(bcp.lit)]
    BY <1>0, <1>4 DEF ClauseAtHand, Swapped
  <2>2. 1 \in 1..Len(c) /\ 2 \in 1..Len(c)
    BY <1>1, <1>2
  <2>3. h[1] = c[2] /\ h[2] = c[1] /\ \A k \in 1..Len(c) : k # 1 /\ k # 2 => h[k] = c[k]
    BY <1>2, <2>1, <2>2
  <2>4. ASSUME NEW m \in Models PROVE \E k \in 1..Len(h) : SatisfiesLit(m, h[k])
    <3>1. \E k \in 1..Len(c) : SatisfiesLit(m, c[k])
      BY <1>2 DEF Follows
    <3> QED
      BY <1>1, <1>2, <2>2, <2>3, <3>1, MovedLiterals
  <2> QED
    BY <1>0, <2>4 DEF Follows
<1> QED
  BY <1>3, <1>4

\* Writing a clause back that follows.
LEMMA ClausesVisited ==
    ASSUME Inv, ClausesFollow, Models' = Models, NEW d \in ClauseIds, NEW lits,
           arena' = [arena EXCEPT ![d].lits = lits], Follows(lits)
    PROVE  ClausesFollow'
<1>1. /\ Len(arena') = Len(arena) /\ arena'[d].lits = lits
      /\ \A c \in ClauseIds \ {d} : arena'[c] = arena[c]
  BY WrittenBack
<1> SUFFICES ASSUME NEW c \in ClauseIds PROVE Follows(arena[c].lits)'
  BY <1>1 DEF ClausesFollow, ClauseIds
<1>2. PICK new : new = arena'[c].lits
  OBVIOUS
<1>3. Follows(new)
  BY <1>1, <1>2 DEF ClausesFollow
<1> QED
  BY <1>2, <1>3 DEF Follows

LEMMA RewatchFollows ==
    ASSUME WatchInv, pc = "visit", bcp.todo # << >>, ClausesFollow, NEW i \in NewWatches
    PROVE  Follows([ClauseAtHand EXCEPT ![2] = ClauseAtHand[i], ![i] = Neg(bcp.lit)])
<1>0. PICK c, h : c = ClauseAtHand /\ h = [c EXCEPT ![2] = c[i], ![i] = Neg(bcp.lit)]
  OBVIOUS
<1>1. c \in Seq(Lits) /\ Len(c) > 1 /\ c[2] = Neg(bcp.lit) /\ i \in 3..Len(c) /\ Len(c) \in Nat
  BY <1>0, AtHandWatched DEF NewWatches
<1>2. 2 \in 1..Len(c) /\ i \in 1..Len(c) /\ i # 2
  BY <1>1
<1>3. /\ Len(h) = Len(c) /\ h[2] = c[i] /\ h[i] = c[2]
      /\ \A k \in 1..Len(c) : k # 2 /\ k # i => h[k] = c[k]
  BY <1>0, <1>1, <1>2
<1>4. Follows(c)
  BY <1>0, ClauseAtHandFollows
<1>5. ASSUME NEW m \in Models PROVE \E k \in 1..Len(h) : SatisfiesLit(m, h[k])
  <2>1. \E k \in 1..Len(c) : SatisfiesLit(m, c[k])
    BY <1>4 DEF Follows
  <2> QED
    BY <1>1, <1>2, <1>3, <2>1, MovedLiterals
<1> QED
  BY <1>0, <1>5 DEF Follows

\* At level 0 the literal a clause propagates follows.
LEMMA UnitFollows ==
    ASSUME WatchInv, pc = "visit", bcp.todo # << >>, NewWatches = {}, ClausesFollow, FixedFollow,
           DecisionLevel(tr) = 0
    PROVE  \A m \in Models : SatisfiesLit(m, First)
<1> SUFFICES ASSUME NEW m \in Models PROVE SatisfiesLit(m, First)
  OBVIOUS
<1>1. PICK c : c = ClauseAtHand
  OBVIOUS
<1>2. c \in Seq(Lits) /\ Len(c) > 1 /\ Inv /\ tr \in TrailRecords /\ TrailInv(tr)
  BY <1>1, AtHandWatched, ReasonTypes DEF WatchInv
<1>3. PICK j \in 1..Len(c) : SatisfiesLit(m, c[j])
  BY <1>1, ClauseAtHandFollows DEF Follows
<1>4. CASE j = 1
  BY <1>1, <1>3, <1>4 DEF First
<1>5. CASE j \in 2..Len(c)
  <2>1. c[j] \in Lits /\ FalseNow(tr, c[j])
    BY <1>1, <1>5, OthersFalse
  <2>2. PICK k \in 1..Len(tr.trail) : tr.trail[k] = Neg(c[j])
    BY <2>1 DEF FalseNow, FalseBefore
  <2>3. SatisfiesLit(m, Neg(c[j]))
    BY <1>2, <2>2, LevelsZero DEF FixedFollow
  <2> QED
    BY <1>3, <2>1, <2>3, NegMeaning DEF Models
<1> QED
  BY <1>2, <1>4, <1>5

LEMMA PropagateSound ==
    ASSUME SoundInv, Propagate, Unrestarted' PROVE SoundParts'
<1>0. WatchInv /\ Inv /\ tr \in TrailRecords /\ TrailInv(tr)
  BY ReasonTypes DEF SoundInv, ReasonInv, WatchInv
<1>1. /\ UNCHANGED <<inputs, ok, restarts>> /\ pc \in {"bcp", "visit"}
      /\ pc' \in {"bcp", "visit", "conflict", "idle", "loop", "theory"}
  BY DEF Propagate, BcpDequeue, VisitSkip, VisitSatisfied, VisitRewatch, VisitUnit, VisitConflict,
         VisitEnd, BcpOk, Visit, KeepRest, rest, client
<1>2. SoundParts /\ Models' = Models
  BY <1>1 DEF SoundInv, Unrestarted, Models, Problem, Inputs
<1> SUFFICES ClausesFollow' /\ FixedFollow'
  BY <1>1, <1>2, SoundQuiet, RefutedStays DEF SoundParts
<1>3. CASE BcpDequeue \/ VisitSkip \/ VisitEnd \/ BcpOk
  <2>1. UNCHANGED arena /\ tr'.trail = tr.trail /\ tr'.level = tr.level
    BY <1>0, <1>3, DequeueFacts DEF BcpDequeue, VisitSkip, VisitEnd, BcpOk, db
  <2> QED
    BY <1>0, <1>2, <2>1, ClausesSame, FixedSame DEF SoundParts
<1>4. CASE VisitSatisfied \/ VisitRewatch \/ VisitConflict \/ VisitUnit
  <2>1. /\ pc = "visit" /\ bcp.todo # << >>
        /\ UNCHANGED tr \/ (VisitUnit /\ tr' = Assign(tr, First, AtHand.clause))
    BY <1>4 DEF VisitSatisfied, VisitRewatch, VisitConflict, VisitUnit, Visit
  <2>2. PICK lits : arena' = [arena EXCEPT ![AtHand.clause].lits = lits] /\ Follows(lits)
    <3>1. CASE arena' = [arena EXCEPT ![AtHand.clause].lits = ClauseAtHand]
      BY <1>0, <1>2, <2>1, <3>1, ClauseAtHandFollows DEF SoundParts
    <3>2. CASE VisitRewatch
      BY <1>0, <1>2, <2>1, <3>2, RewatchFollows DEF SoundParts, VisitRewatch
    <3> QED
      BY <1>4, <3>1, <3>2 DEF VisitSatisfied, VisitConflict, VisitUnit
  <2>3. AtHand.clause \in ClauseIds
    BY <1>0, <2>1, AtHandWatched
  <2>4. ClausesFollow'
    BY <1>0, <1>2, <2>2, <2>3, ClausesVisited DEF SoundParts
  <2>5. CASE UNCHANGED tr
    BY <1>0, <1>2, <2>4, <2>5, FixedSame DEF SoundParts
  <2>6. CASE VisitUnit /\ tr' = Assign(tr, First, AtHand.clause)
    <3>1. First \in Lits /\ AtHand.clause \in Reasons /\ NewWatches = {}
          /\ LitValue(tr, First) = "Undef"
      BY <1>0, <2>1, <2>3, <2>6, AtHandFacts, ReasonTypes DEF Reasons, VisitUnit
    <3>2. ~IsAssigned(tr, VarOf(First))
      <4>1. tr.assigns[VarOf(First)] \in LBool
        BY <1>0, <3>1, TrailTypes, LitFacts
      <4> QED
        BY <3>1, <4>1 DEF LitValue, NotVal, LBool, IsAssigned
    <3>3. DecisionLevel(tr) = 0 => \A m \in Models' : SatisfiesLit(m, First)
      BY <1>0, <1>2, <2>1, <3>1, UnitFollows DEF SoundParts
    <3>4. FixedFollow'
      BY <1>0, <1>2, <2>6, <3>1, <3>2, <3>3, FixedAssign DEF SoundParts
    <3> QED
      BY <2>4, <3>4
  <2> QED
    BY <2>1, <2>5, <2>6
<1> QED
  BY <1>3, <1>4 DEF Propagate

-----------------------------------------------------------------------------
(* Conflicts at level 0.                                                    *)

\* What is in conflict follows.
LEMMA ConflictFollows ==
    ASSUME Inv, ClausesFollow, ConflictFalse, pc = "conflict"
    PROVE  \E lits \in Seq(Lits) :
              /\ Follows(lits) /\ AllFalse(tr, lits)
              /\ ~(an.origin = "theory" /\ DecisionLevel(tr) = 0) => lits = arena[an.conflict].lits
<1>1. CASE an.origin = "theory" /\ DecisionLevel(tr) = 0
  <2>1. PICK c \in TheoryClauses : AllFalse(tr, c)
    BY <1>1 DEF ConflictFalse
  <2>2. c \in Seq(Lits) /\ ToSet(c) \in Theory
    BY SolverAssumption DEF Theory
  <2>3. Follows(c)
    <3> SUFFICES ASSUME NEW m \in Models PROVE \E i \in 1..Len(c) : SatisfiesLit(m, c[i])
      BY DEF Follows
    <3>1. PICK l \in ToSet(c) : SatisfiesLit(m, l)
      BY <2>2 DEF Models, Satisfies, SatisfiesClause, Problem
    <3> QED
      BY <2>2, <3>1 DEF ToSet
  <2> QED
    BY <1>1, <2>1, <2>2, <2>3
<1>2. CASE ~(an.origin = "theory" /\ DecisionLevel(tr) = 0)
  <2>1. an.conflict \in ClauseIds /\ AllFalse(tr, arena[an.conflict].lits)
    BY <1>2 DEF ConflictFalse
  <2>2. arena[an.conflict].lits \in Seq(Lits)
    BY <2>1, ReasonTypes, ClauseFacts
  <2> QED
    BY <1>2, <2>1, <2>2 DEF ClausesFollow
<1> QED
  BY <1>1, <1>2

LEMMA ZeroConflictSound ==
    ASSUME SoundInv, ConflictInAddClause \/ ConflictBeforeSearch \/ ConflictAtLevelZero, Unrestarted'
    PROVE  SoundParts'
<1>1. /\ pc = "conflict" /\ UNCHANGED <<inputs, arena, tr, restarts>>
      /\ pc' \in {"idle", "answered", "finish"}
      /\ ~InSearch \/ DecisionLevel(tr) = 0
  BY DEF ConflictInAddClause, ConflictBeforeSearch, ConflictAtLevelZero, client, db, InSearch
<1>2. Inv /\ tr \in TrailRecords /\ TrailInv(tr) /\ DecisionLevel(tr) = 0
  BY <1>1, ReasonTypes DEF SoundInv, ReasonInv, WatchInv, Resting, DecisionLevel
<1>3. SoundParts /\ ConflictFalse /\ Models' = Models
  BY <1>1 DEF SoundInv, ReasonInv, Undisturbed, Unrestarted, SearchOK, Models, Problem, Inputs
<1>4. Models = {}
  <2>1. PICK lits \in Seq(Lits) : Follows(lits) /\ AllFalse(tr, lits)
    BY <1>1, <1>2, <1>3, ConflictFollows DEF SoundParts
  <2> QED
    BY <1>2, <1>3, <2>1, LevelsZero, FalseRefutes DEF SoundParts
<1>5. ClausesFollow' /\ FixedFollow'
  BY <1>1, <1>2, <1>3, ClausesSame, FixedSame DEF SoundParts
<1> QED
  BY <1>1, <1>3, <1>4, <1>5, SoundQuiet DEF SoundParts, Refuted

-----------------------------------------------------------------------------
(* Conflict analysis.                                                       *)

LEMMA CurrentFinite ==
    ASSUME Inv PROVE IsFiniteSet(CurrentSeen) /\ Cardinality(CurrentSeen) \in Nat
<1>1. an.seen \in SUBSET Vars
  BY ReasonTypes, AnFacts
<1>2. NumVars \in Nat /\ CurrentSeen \in SUBSET (1..NumVars)
  BY <1>1, NumVarsAssumption DEF CurrentSeen, Vars
<1> QED
  BY <1>2, PositionsFinite

LEMMA StartAnalysisSound ==
    ASSUME SoundInv, StartAnalysis, Unrestarted' PROVE SoundParts'
<1>1. /\ pc = "conflict" /\ pc' = "mark" /\ UNCHANGED <<inputs, arena, tr, restarts, ok, sv>>
      /\ DecisionLevel(tr) > 0 /\ Inv /\ an \in AnRecords
      /\ an' = [an EXCEPT !.learned = <<LitZero>>, !.seen = {}, !.path_count = 0,
                          !.backtrack_level = 0, !.lits = arena[an.conflict].lits,
                          !.pivot = 0, !.trail_idx = Len(tr.trail)]
  BY ReasonTypes DEF SoundInv, ReasonInv, WatchInv, StartAnalysis, rest, db, client
<1>2. SoundParts /\ ConflictFalse /\ Models' = Models
  BY <1>1 DEF SoundInv, ReasonInv, Undisturbed, Unrestarted, SearchOK, Models, Problem, Inputs
<1>3. /\ an'.seen = {} /\ an'.path_count = 0 /\ an'.lits = arena[an.conflict].lits /\ an'.pivot = 0
  BY <1>1 DEF AnRecords
<1>4. ClausesFollow' /\ FixedFollow' /\ Refuted'
  BY <1>1, <1>2, ClausesSame, FixedSame, RefutedStays DEF SoundParts
<1>5. ASSUME NEW m \in Models PROVE Remaining(m)'
  <2>1. PICK lits \in Seq(Lits) : Follows(lits) /\ lits = arena[an.conflict].lits
    BY <1>1, <1>2, ConflictFollows DEF SoundParts
  <2>2. PICK j \in 1..Len(lits) : SatisfiesLit(m, lits[j])
    BY <2>1 DEF Follows
  <2>3. VarOf(lits[j]) # 0
    <3>1. lits[j] \in Lits
      BY ElementFact
    <3> QED
      BY <3>1 DEF Lits, VarOf
  <2> QED
    BY <1>3, <2>1, <2>2, <2>3 DEF Remaining
<1>6. an'.path_count = Cardinality(CurrentSeen')
  <2>1. CurrentSeen' = {}
    BY <1>3 DEF CurrentSeen
  <2> QED
    BY <1>3, <2>1, FS_EmptySet
<1> QED
  BY <1>1, <1>2, <1>3, <1>4, <1>5, <1>6 DEF SoundParts, Resolving, LearnedFollows

LEMMA MarkLitSound ==
    ASSUME SoundInv, MarkLit, Unrestarted' PROVE SoundParts'
<1>1. /\ Inv /\ pc = "mark" /\ pc' = "mark" /\ UNCHANGED <<inputs, arena, tr, restarts, ok, sv>>
      /\ an \in AnRecords /\ tr \in TrailRecords
  BY ReasonTypes DEF SoundInv, ReasonInv, WatchInv, MarkLit, rest, db, client
<1>2. SoundParts /\ Analysing /\ Models' = Models
  BY <1>1 DEF SoundInv, ReasonInv, Undisturbed, Unrestarted, SearchOK, Models, Problem, Inputs
<1>3. ClausesFollow' /\ FixedFollow' /\ Refuted'
  BY <1>1, <1>2, ClausesSame, FixedSame, RefutedStays DEF SoundParts
<1>4. PICK l \in Lits, y \in AnRecords :
        /\ l = an.lits[1] /\ an.lits # << >> /\ y = Marked(an, l)
        /\ an'.lits = Tail(an.lits) /\ an'.seen = y.seen /\ an'.learned = y.learned
        /\ an'.pivot = an.pivot /\ an'.trail_idx = an.trail_idx /\ an'.path_count = y.path_count
  BY <1>1, MarkFacts
<1>5. PICK v : v = VarOf(l)
  OBVIOUS
<1>6. \/ v \in an.seen \cup {an.pivot} /\ y = an
      \/ /\ v \notin an.seen \cup {an.pivot} /\ y.seen = an.seen \cup {v}
         /\ y.learned = an.learned
         /\ \/ tr.level[v] = DecisionLevel(tr) /\ y.path_count = an.path_count + 1
            \/ /\ tr.level[v] # DecisionLevel(tr) /\ ~(tr.level[v] > 0)
               /\ y.path_count = an.path_count
      \/ /\ v \notin an.seen \cup {an.pivot} /\ y.seen = an.seen \cup {v}
         /\ tr.level[v] # DecisionLevel(tr) /\ tr.level[v] > 0
         /\ y.path_count = an.path_count /\ y.learned = Append(an.learned, l)
  BY <1>1, <1>4, <1>5, MarkedCases
<1>7. an.lits \in Seq(Lits) /\ an.learned \in Seq(Lits) /\ Len(an.learned) \in Nat
      /\ Len(an.learned) > 0 /\ an.path_count \in Int /\ an.trail_idx \in Nat
      /\ tr.level[v] \in Nat /\ v \in Vars /\ an.seen \subseteq Vars
  <2>1. Len(an.learned) > 0
    BY <1>1 DEF Inv, TypeOK, ControlOK
  <2>2. v \in Vars /\ tr.level[v] \in Nat
    BY <1>1, <1>4, <1>5, LitFacts, TrailTypes
  <2>3. /\ an.lits \in Seq(Lits) /\ an.learned \in Seq(Lits) /\ an.path_count \in Int
        /\ an.trail_idx \in Nat /\ an.seen \subseteq Vars
    BY <1>1, AnFacts
  <2> QED
    BY <2>1, <2>2, <2>3
<1>8. ASSUME v # an.pivot
      PROVE  \E k \in 1..an.trail_idx : tr.trail[k] = Neg(l) /\ VarOf(tr.trail[k]) = v
  <2>1. 1 \in 1..Len(an.lits)
    BY <1>4, <1>7
  <2>2. FalseBefore(tr, an.trail_idx, l)
    BY <1>1, <1>2, <1>4, <1>5, <1>8, <2>1 DEF Analysing
  <2> QED
    BY <1>4, <1>5, <2>2, LitFacts DEF FalseBefore
<1>9. /\ \A j \in 2..Len(an.learned) : j \in 2..Len(y.learned) /\ y.learned[j] = an.learned[j]
      /\ an.seen \subseteq y.seen /\ (v # an.pivot => v \in y.seen)
  <2>1. CASE y.learned = an.learned
    BY <1>6, <2>1
  <2>2. CASE y.learned = Append(an.learned, l)
    BY <1>6, <1>7, <2>2
  <2> QED
    BY <1>6, <2>1, <2>2
<1>10. ASSUME NEW m \in Models PROVE Remaining(m)'
  <2>1. Remaining(m)
    BY <1>1, <1>2 DEF SoundParts, Resolving
  <2>2. CASE \E j \in 2..Len(an.learned) : SatisfiesLit(m, an.learned[j])
    BY <1>4, <1>9, <2>2 DEF Remaining
  <2>3. CASE \E k \in 1..an.trail_idx :
               VarOf(tr.trail[k]) \in an.seen /\ SatisfiesLit(m, Neg(tr.trail[k]))
    BY <1>1, <1>4, <1>9, <2>3 DEF Remaining
  <2>4. ASSUME NEW j \in 1..Len(an.lits), VarOf(an.lits[j]) # an.pivot, SatisfiesLit(m, an.lits[j])
        PROVE  Remaining(m)'
    <3>1. CASE j = 1
      <4>1. PICK k \in 1..an.trail_idx : tr.trail[k] = Neg(l) /\ VarOf(tr.trail[k]) = v
        BY <1>4, <1>5, <1>8, <2>4, <3>1
      <4>2. Neg(tr.trail[k]) = l
        BY <4>1 DEF Neg, Lits
      <4>3. VarOf(tr.trail[k]) \in an'.seen /\ SatisfiesLit(m, Neg(tr.trail[k]))
        BY <1>4, <1>5, <1>9, <2>4, <3>1, <4>1, <4>2
      <4> QED
        BY <1>1, <1>4, <4>3 DEF Remaining
    <3>2. CASE j # 1
      <4>1. j - 1 \in 1..Len(an'.lits) /\ an'.lits[j - 1] = an.lits[j]
        BY <1>4, <1>7, <3>2
      <4> QED
        BY <1>4, <2>4, <4>1 DEF Remaining
    <3> QED
      BY <3>1, <3>2
  <2> QED
    BY <2>1, <2>2, <2>3, <2>4 DEF Remaining
<1>11. \A u \in y.seen : tr.level[u] \in {0, DecisionLevel(tr)} \/ Collected(u)'
  <2> TAKE u \in y.seen
  <2>1. CASE u \in an.seen
    <3>1. tr.level[u] \in {0, DecisionLevel(tr)} \/ Collected(u)
      BY <1>1, <1>2, <2>1 DEF SoundParts, Resolving
    <3> QED
      BY <1>4, <1>9, <3>1 DEF Collected
  <2>2. CASE u = v /\ y.learned = Append(an.learned, l)
    <3>1. /\ Len(an.learned) + 1 \in 2..Len(an'.learned)
          /\ an'.learned[Len(an.learned) + 1] = l
      BY <1>4, <1>7, <2>2
    <3> QED
      BY <1>5, <2>2, <3>1 DEF Collected
  <2>3. CASE u = v /\ tr.level[v] \in {0, DecisionLevel(tr)}
    BY <2>3
  <2> QED
    BY <1>6, <1>7, <2>1, <2>2, <2>3
<1>12. \/ an'.path_count = Cardinality(CurrentSeen')
       \/ an'.trail_idx <= tr.trail_lim[DecisionLevel(tr)]
  <2> SUFFICES ASSUME an.path_count = Cardinality(CurrentSeen)
               PROVE  an'.path_count = Cardinality(CurrentSeen')
    BY <1>1, <1>2, <1>4 DEF SoundParts, Resolving
  <2>1. CurrentSeen' = {u \in y.seen : tr.level[u] = DecisionLevel(tr)}
    BY <1>1, <1>4 DEF CurrentSeen
  <2>2. CASE y.path_count = an.path_count /\ (y.seen = an.seen \/
                 (y.seen = an.seen \cup {v} /\ tr.level[v] # DecisionLevel(tr)))
    <3>1. CurrentSeen' = CurrentSeen
      BY <2>1, <2>2 DEF CurrentSeen
    <3> QED
      BY <1>4, <2>2, <3>1
  <2>3. CASE /\ y.path_count = an.path_count + 1 /\ v \notin an.seen
             /\ y.seen = an.seen \cup {v} /\ tr.level[v] = DecisionLevel(tr)
    <3>1. CurrentSeen' = CurrentSeen \cup {v} /\ v \notin CurrentSeen
      BY <2>1, <2>3 DEF CurrentSeen
    <3>2. Cardinality(CurrentSeen') = Cardinality(CurrentSeen) + 1
      <4> HIDE DEF CurrentSeen
      <4> QED
        BY <1>1, <3>1, CurrentFinite, FS_AddElement
    <3> QED
      BY <1>4, <2>3, <3>2
  <2> QED
    BY <1>6, <2>2, <2>3
<1> QED
  BY <1>1, <1>2, <1>3, <1>4, <1>10, <1>11, <1>12 DEF SoundParts, Resolving, LearnedFollows

\* The literals of the current level are those after its start.
LEMMA CurrentPosition ==
    ASSUME Inv, DecisionLevel(tr) > 0, NEW k \in 1..Len(tr.trail)
    PROVE  /\ tr.level[VarOf(tr.trail[k])] = DecisionLevel(tr) <=> k > tr.trail_lim[DecisionLevel(tr)]
           /\ tr.trail_lim[DecisionLevel(tr)] \in Nat
<1>1. tr \in TrailRecords /\ TrailInv(tr)
  BY ReasonTypes
<1>2. /\ DecisionLevel(tr) \in Nat /\ Len(tr.trail_lim) = DecisionLevel(tr)
      /\ tr.trail_lim \in Seq(Nat)
  BY <1>1, TrailTypes DEF DecisionLevel
<1>3. tr.level[VarOf(tr.trail[k])] \in Nat
  BY <1>1, TrailTypes
<1>4. /\ tr.level[VarOf(tr.trail[k])] <= DecisionLevel(tr)
      /\ tr.level[VarOf(tr.trail[k])] >= DecisionLevel(tr) <=> k > tr.trail_lim[DecisionLevel(tr)]
  BY <1>1, <1>2 DEF TrailInv, LevelsAreSegments
<1> QED
  BY <1>2, <1>3, <1>4

\* A literal seen at the current level is not yet resolved: it is counted, and
\* the last literal seen is one of that level too.
LEMMA StillCounted ==
    ASSUME Inv, Resolving, pc = "mark", DecisionLevel(tr) > 0, an.trail_idx <= Len(tr.trail),
           NEW i \in SeenBelow, \A j \in SeenBelow : j <= i,
           NEW k \in SeenBelow, tr.level[VarOf(tr.trail[k])] = DecisionLevel(tr)
    PROVE  /\ an.path_count = Cardinality(CurrentSeen)
           /\ VarOf(tr.trail[k]) \in CurrentSeen /\ VarOf(tr.trail[i]) \in CurrentSeen
           /\ k > tr.trail_lim[DecisionLevel(tr)] /\ i > tr.trail_lim[DecisionLevel(tr)]
<1>1. /\ an.trail_idx \in Nat /\ Len(tr.trail) \in Nat /\ i \in 1..an.trail_idx /\ k \in 1..an.trail_idx
      /\ i \in 1..Len(tr.trail) /\ k \in 1..Len(tr.trail) /\ k <= i
      /\ VarOf(tr.trail[i]) \in an.seen /\ VarOf(tr.trail[k]) \in an.seen
  <2>1. an.trail_idx \in Nat /\ Len(tr.trail) \in Nat
    BY ReasonTypes, AnFacts, TrailTypes
  <2> QED
    BY <2>1 DEF SeenBelow
<1>2. k > tr.trail_lim[DecisionLevel(tr)] /\ tr.trail_lim[DecisionLevel(tr)] \in Nat
  BY <1>1, CurrentPosition
<1>3. i > tr.trail_lim[DecisionLevel(tr)]
  BY <1>1, <1>2
<1>4. tr.level[VarOf(tr.trail[i])] = DecisionLevel(tr)
  BY <1>1, <1>3, CurrentPosition
<1>5. ~(an.trail_idx <= tr.trail_lim[DecisionLevel(tr)])
  BY <1>1, <1>2
<1> QED
  BY <1>1, <1>2, <1>3, <1>4, <1>5 DEF Resolving, CurrentSeen

\* Analysis ends with nothing left to resolve but what it has learned.
LEMMA LearnedAtEnd ==
    ASSUME SoundInv, PickLit, Unrestarted, pc' = "learned", NEW m \in Models
    PROVE  \E j \in 1..Len(an'.learned) : SatisfiesLit(m, an'.learned[j])
<1>1. /\ Inv /\ pc = "mark" /\ an \in AnRecords /\ tr \in TrailRecords /\ TrailInv(tr)
      /\ an.lits = << >>
  BY ReasonTypes DEF SoundInv, ReasonInv, WatchInv, PickLit
<1>2. SoundParts /\ SearchOK
  BY <1>1 DEF SoundInv, ReasonInv, Undisturbed
<1>3. /\ Len(an.learned) \in Nat /\ Len(an.learned) > 0 /\ an.trail_idx \in Nat
      /\ an.trail_idx <= Len(tr.trail) /\ Len(tr.trail) \in Nat /\ DecisionLevel(tr) \in Nat
      /\ an.backtrack_level \in Nat
  <2>1. Len(an.learned) > 0 /\ an.trail_idx <= Len(tr.trail)
    BY <1>1 DEF Inv, TypeOK, ControlOK
  <2> QED
    BY <1>1, <2>1, AnFacts, TrailTypes
<1>4. Len(an'.learned) = Len(an.learned) /\ \A j \in 2..Len(an.learned) : an'.learned[j] = an.learned[j]
  BY <1>1, PickFacts
<1>5. DecisionLevel(tr) > 0 /\ \A j \in 2..Len(an.learned) : Low(an.learned[j])
  <2>1. an.backtrack_level < DecisionLevel(tr) /\ \A j \in 2..Len(an.learned) : Low(an.learned[j])
    BY <1>1, <1>2 DEF SearchOK, Learned
  <2> QED
    BY <1>3, <2>1
<1>6. Resolving /\ Remaining(m)
  BY <1>1, <1>2 DEF SoundParts, Resolving
<1>7. CASE \E j \in 2..Len(an.learned) : SatisfiesLit(m, an.learned[j])
  BY <1>3, <1>4, <1>7
<1>8. ASSUME NEW k \in 1..an.trail_idx, VarOf(tr.trail[k]) \in an.seen, SatisfiesLit(m, Neg(tr.trail[k]))
      PROVE  \E j \in 1..Len(an'.learned) : SatisfiesLit(m, an'.learned[j])
  <2>1. k \in 1..Len(tr.trail) /\ tr.trail[k] \in Lits /\ k \in SeenBelow
    BY <1>1, <1>3, <1>8, TrailTypes DEF SeenBelow
  <2>2. CASE tr.level[VarOf(tr.trail[k])] = 0
    <3>1. SatisfiesLit(m, tr.trail[k])
      BY <1>2, <2>1, <2>2 DEF SoundParts, FixedFollow
    <3> QED
      BY <1>8, <2>1, <3>1, NegMeaning DEF Models
  <2>3. CASE Collected(VarOf(tr.trail[k]))
    <3>1. PICK j \in 2..Len(an.learned) : VarOf(an.learned[j]) = VarOf(tr.trail[k])
      BY <2>3 DEF Collected
    <3>2. an.learned[j] \in Lits
      BY <1>1, <3>1, AnFacts, ElementFact
    <3>3. PICK n \in 1..Len(tr.trail) : tr.trail[n] = Neg(an.learned[j])
      BY <1>5 DEF Low, FalseNow, FalseBefore
    <3>4. n = k
      BY <1>1, <2>1, <3>1, <3>2, <3>3, LitFacts DEF TrailInv, TrailIsAssignment
    <3>5. Neg(tr.trail[k]) = an.learned[j]
      BY <3>2, <3>3, <3>4 DEF Neg, Lits
    <3> QED
      BY <1>3, <1>4, <1>8, <3>5
  <2>4. CASE tr.level[VarOf(tr.trail[k])] = DecisionLevel(tr)
    <3>1. PICK i \in SeenBelow :
            /\ i \in 1..Len(tr.trail) /\ \A j \in SeenBelow : j <= i
            /\ \/ /\ an.path_count - 1 = 0 /\ an'.learned[1] = Neg(tr.trail[i])
               \/ an.path_count - 1 # 0 /\ tr.reason[VarOf(tr.trail[i])] <= 0
      BY <1>1, <2>1, PickFacts
    <3>2. /\ an.path_count = Cardinality(CurrentSeen) /\ VarOf(tr.trail[k]) \in CurrentSeen
          /\ VarOf(tr.trail[i]) \in CurrentSeen
          /\ k > tr.trail_lim[DecisionLevel(tr)] /\ i > tr.trail_lim[DecisionLevel(tr)]
      BY <1>1, <1>3, <1>5, <1>6, <2>1, <2>4, <3>1, StillCounted
    <3>3. CASE an.path_count - 1 = 0 /\ an'.learned[1] = Neg(tr.trail[i])
      <4>1. Cardinality(CurrentSeen) = 1 /\ IsFiniteSet(CurrentSeen)
        BY <1>1, <3>2, <3>3, CurrentFinite
      <4>2. VarOf(tr.trail[k]) = VarOf(tr.trail[i])
        <5> HIDE DEF CurrentSeen
        <5>1. \E x : CurrentSeen = {x}
          BY <4>1, FS_Singleton
        <5> QED
          BY <3>2, <5>1
      <4>3. k = i
        BY <1>1, <2>1, <3>1, <4>2 DEF TrailInv, TrailIsAssignment
      <4> QED
        BY <1>3, <1>4, <1>8, <3>3, <4>3
    <3>4. CASE an.path_count - 1 # 0 /\ tr.reason[VarOf(tr.trail[i])] <= 0
      <4>1. PICK v : v = VarOf(tr.trail[i])
        OBVIOUS
      <4>2. tr.reason[v] \in {ReasonUnit, ReasonDecision} /\ tr.level[v] = DecisionLevel(tr)
        <5>1. tr.reason[v] \in Reasons
          BY <1>1, <3>1, <4>1, ReasonTypes, TrailTypes
        <5>2. tr.level[v] = DecisionLevel(tr)
          BY <3>2, <4>1 DEF CurrentSeen
        <5> QED
          BY <3>4, <4>1, <5>1, <5>2 DEF Reasons, ReasonUnit, ReasonDecision
      <4>3. JustifiedAt(tr, arena, i)
        BY <1>2, <3>1 DEF SearchOK, Justified
      <4>4. tr.trail_lim[DecisionLevel(tr)] = i - 1
        BY <1>3, <1>5, <4>1, <4>2, <4>3 DEF JustifiedAt
      <4>5. ASSUME NEW u \in CurrentSeen PROVE u = v
        <5>1. u \in an.seen /\ tr.level[u] = DecisionLevel(tr)
          BY DEF CurrentSeen
        <5>2. PICK n \in 1..an.trail_idx : VarOf(tr.trail[n]) = u
          BY <1>1, <1>2, <5>1 DEF SearchOK, Analysing
        <5>3. n \in 1..Len(tr.trail) /\ n \in SeenBelow
          BY <1>3, <5>1, <5>2 DEF SeenBelow
        <5>4. n > i - 1
          BY <1>1, <1>5, <4>4, <5>1, <5>2, <5>3, CurrentPosition
        <5>5. n <= i
          BY <3>1, <5>3
        <5>6. n = i
          BY <3>1, <5>3, <5>4, <5>5
        <5> QED
          BY <4>1, <5>2, <5>6
      <4>6. CurrentSeen = {v}
        BY <3>2, <4>1, <4>5
      <4>7. Cardinality(CurrentSeen) = 1
        <5> HIDE DEF CurrentSeen
        <5> QED
          BY <4>6, FS_Singleton
      <4> QED
        BY <3>2, <3>4, <4>7
    <3> QED
      BY <3>1, <3>3, <3>4
  <2> QED
    BY <1>1, <1>6, <1>8, <2>2, <2>3, <2>4 DEF Resolving
<1>9. ~\E j \in 1..Len(an.lits) : VarOf(an.lits[j]) # an.pivot /\ SatisfiesLit(m, an.lits[j])
  BY <1>1
<1> QED
  BY <1>6, <1>7, <1>8, <1>9 DEF Remaining

LEMMA PickLitSound ==
    ASSUME SoundInv, PickLit, Unrestarted' PROVE SoundParts'
<1>1. /\ Inv /\ pc = "mark" /\ pc' \in {"mark", "learned"} /\ an.lits = << >>
      /\ UNCHANGED <<inputs, arena, tr, restarts, ok, sv>>
      /\ an \in AnRecords /\ tr \in TrailRecords /\ TrailInv(tr)
  BY ReasonTypes DEF SoundInv, ReasonInv, WatchInv, PickLit, rest, db, client
<1>2. SoundParts /\ SearchOK /\ Models' = Models /\ Unrestarted
  BY <1>1 DEF SoundInv, ReasonInv, Undisturbed, Unrestarted, Models, Problem, Inputs
<1>3. ClausesFollow' /\ FixedFollow' /\ Refuted'
  BY <1>1, <1>2, ClausesSame, FixedSame, RefutedStays DEF SoundParts
<1>4. LearnedFollows'
  <2> SUFFICES ASSUME pc' = "learned" PROVE Follows(an'.learned)
    BY <1>1, <1>2 DEF LearnedFollows, Follows
  <2> QED
    BY <1>2, LearnedAtEnd DEF Follows
<1> SUFFICES ASSUME pc' = "mark" PROVE Resolving'
  BY <1>3, <1>4 DEF SoundParts, Resolving
<1>5. PICK i \in SeenBelow :
        /\ i \in 1..Len(tr.trail) /\ VarOf(tr.trail[i]) \in an.seen
        /\ \A j \in SeenBelow : j <= i
        /\ an'.seen = an.seen \ {VarOf(tr.trail[i])} /\ an'.path_count = an.path_count - 1
        /\ an'.trail_idx = i - 1 /\ tr.reason[VarOf(tr.trail[i])] > 0
        /\ an'.lits = arena[tr.reason[VarOf(tr.trail[i])]].lits
        /\ an'.pivot = VarOf(tr.trail[i]) /\ an'.learned = an.learned
  BY <1>1, PickFacts
<1>6. PICK v, c : v = VarOf(tr.trail[i]) /\ c = tr.reason[v]
  OBVIOUS
<1>7. /\ Resolving /\ DecisionLevel(tr) > 0 /\ DecisionLevel(tr) \in Nat /\ Len(tr.trail) \in Nat
      /\ an.trail_idx \in Nat /\ an.trail_idx <= Len(tr.trail) /\ i \in 1..an.trail_idx
  <2>1. an.backtrack_level < DecisionLevel(tr) /\ Resolving
    BY <1>1, <1>2 DEF SearchOK, Learned, SoundParts
  <2>2. /\ DecisionLevel(tr) \in Nat /\ an.backtrack_level \in Nat /\ an.trail_idx \in Nat
        /\ Len(tr.trail) \in Nat
    BY <1>1, AnFacts, TrailTypes
  <2>3. an.trail_idx <= Len(tr.trail)
    BY <1>1 DEF Inv, TypeOK, ControlOK
  <2> QED
    BY <1>5, <2>1, <2>2, <2>3 DEF SeenBelow
<1>8. Follows(an'.lits) /\ an'.lits \in Seq(Lits) /\ Forces(tr, an'.lits, i)
  <2>1. c \in ClauseIds /\ v \in Vars
    <3>1. v \in Vars
      BY <1>1, <1>5, <1>6, TrailTypes
    <3> QED
      BY <1>1, <1>5, <1>6, <3>1, ReasonTypes DEF Reasons, ReasonDecision
  <2>2. Follows(arena[c].lits) /\ arena[c].lits \in Seq(Lits)
    BY <1>1, <1>2, <2>1, ReasonTypes, ClauseFacts DEF SoundParts, ClausesFollow
  <2>3. Forces(tr, arena[c].lits, i)
    BY <1>2, <1>5, <1>6 DEF SearchOK, Justified, JustifiedAt
  <2> QED
    BY <1>5, <1>6, <2>2, <2>3
<1>9. ASSUME NEW m \in Models PROVE Remaining(m)'
  <2>1. Remaining(m)
    BY <1>1, <1>7 DEF Resolving
  <2>2. CASE \E j \in 2..Len(an.learned) : SatisfiesLit(m, an.learned[j])
    BY <1>5, <2>2 DEF Remaining
  <2>3. ASSUME NEW k \in 1..an.trail_idx, VarOf(tr.trail[k]) \in an.seen,
               SatisfiesLit(m, Neg(tr.trail[k]))
        PROVE  Remaining(m)'
    <3>1. k \in SeenBelow /\ k \in 1..Len(tr.trail)
      BY <1>7, <2>3 DEF SeenBelow
    <3>2. CASE k = i
      <4>1. PICK j \in 1..Len(an'.lits) : SatisfiesLit(m, an'.lits[j])
        BY <1>8 DEF Follows
      <4>2. tr.trail[i] \in Lits
        BY <1>1, <1>5, TrailTypes
      <4>3. j # 1
        BY <1>8, <2>3, <3>2, <4>1, <4>2, NegMeaning DEF Forces, Models
      <4>4. j \in 2..Len(an'.lits) /\ an'.lits[j] \in Lits
        BY <1>8, <4>3, ElementFact
      <4>5. PICK n \in 1..(i - 1) : tr.trail[n] = Neg(an'.lits[j])
        BY <1>8, <4>4 DEF Forces, FalseBefore
      <4>6. VarOf(tr.trail[n]) = VarOf(an'.lits[j]) /\ n \in 1..Len(tr.trail) /\ n # i
        BY <1>5, <1>7, <4>4, <4>5, LitFacts
      <4>7. VarOf(an'.lits[j]) # an'.pivot
        BY <1>1, <1>5, <4>6 DEF TrailInv, TrailIsAssignment
      <4> QED
        BY <4>1, <4>7 DEF Remaining
    <3>3. CASE k # i
      <4>1. k <= i /\ k \in 1..(i - 1)
        BY <1>5, <1>7, <3>1, <3>3
      <4>2. VarOf(tr.trail[k]) # VarOf(tr.trail[i])
        BY <1>1, <1>5, <3>1, <3>3 DEF TrailInv, TrailIsAssignment
      <4>3. k \in 1..an'.trail_idx /\ VarOf(tr.trail[k]) \in an'.seen
        BY <1>5, <2>3, <4>1, <4>2
      <4> QED
        BY <1>1, <2>3, <4>3 DEF Remaining
    <3> QED
      BY <3>2, <3>3
  <2>4. ~\E j \in 1..Len(an.lits) : VarOf(an.lits[j]) # an.pivot /\ SatisfiesLit(m, an.lits[j])
    BY <1>1
  <2> QED
    BY <2>1, <2>2, <2>3, <2>4 DEF Remaining
<1>10. \A u \in an'.seen : tr.level[u] \in {0, DecisionLevel(tr)} \/ Collected(u)'
  BY <1>1, <1>5, <1>7 DEF Resolving, Collected
<1>11. \/ an'.path_count = Cardinality(CurrentSeen')
       \/ an'.trail_idx <= tr.trail_lim[DecisionLevel(tr)]
  <2>1. tr.trail_lim[DecisionLevel(tr)] \in Nat
    BY <1>1, <1>5, <1>7, CurrentPosition
  <2>2. CASE an.trail_idx <= tr.trail_lim[DecisionLevel(tr)]
    BY <1>5, <1>7, <2>1, <2>2
  <2>3. CASE tr.level[v] # DecisionLevel(tr)
    <3>1. ~(i > tr.trail_lim[DecisionLevel(tr)])
      BY <1>1, <1>5, <1>6, <1>7, <2>3, CurrentPosition
    <3> QED
      BY <1>5, <1>7, <2>1, <3>1
  <2>4. CASE tr.level[v] = DecisionLevel(tr) /\ an.path_count = Cardinality(CurrentSeen)
    <3>1. CurrentSeen' = CurrentSeen \ {v} /\ v \in CurrentSeen
      BY <1>1, <1>5, <1>6, <2>4 DEF CurrentSeen
    <3>2. Cardinality(CurrentSeen') = Cardinality(CurrentSeen) - 1
      <4> HIDE DEF CurrentSeen
      <4> QED
        BY <1>1, <3>1, CurrentFinite, FS_RemoveElement
    <3> QED
      BY <1>5, <2>4, <3>2
  <2> QED
    BY <1>1, <1>7, <2>2, <2>3, <2>4 DEF Resolving
<1> QED
  BY <1>1, <1>2, <1>9, <1>10, <1>11 DEF Resolving

-----------------------------------------------------------------------------
(* After the analysis.                                                      *)

LEMMA AssumptionsRefutedSound ==
    ASSUME SoundInv, AssumptionsRefuted, Unrestarted' PROVE SoundParts'
<1>1. /\ pc' = "finish" /\ UNCHANGED <<inputs, arena, tr, restarts, ok>>
      /\ AssumptionRun /\ sv' = [sv EXCEPT !.result = "False"] /\ Inv /\ sv \in SvRecords
  BY ReasonTypes DEF SoundInv, ReasonInv, WatchInv, AssumptionsRefuted, RefutesAssumptions,
                     Answer, db, rest, client
<1>2. AssumptionRun'
  BY <1>1 DEF AssumptionRun, SvRecords
<1>3. SoundParts /\ Models' = Models
  BY <1>1 DEF SoundInv, Unrestarted, Models, Problem, Inputs
<1>4. ClausesFollow' /\ FixedFollow'
  BY <1>1, <1>3, ClausesSame, FixedSame DEF SoundParts
<1> QED
  BY <1>1, <1>2, <1>3, <1>4, SoundQuiet DEF SoundParts, Refuted

LEMMA BackjumpSound ==
    ASSUME SoundInv, Backjump, Unrestarted' PROVE SoundParts'
<1>1. /\ pc = "learned" /\ pc' \in {"reduce", "learn"} /\ UNCHANGED <<inputs, arena, ok>>
      /\ Inv /\ an \in AnRecords /\ an' = [an EXCEPT !.lbd = Lbd(an.learned)]
  BY ReasonTypes DEF SoundInv, ReasonInv, WatchInv, Backjump, db, client
<1>2. Unrestarted /\ tr' = BacktrackTo(tr, an.backtrack_level) /\ an.backtrack_level \in Nat
  BY <1>1, NoRestart, AnFacts
<1>3. SoundParts /\ Models' = Models /\ an'.learned = an.learned
  BY <1>1, <1>2 DEF SoundInv, Models, Problem, Inputs, AnRecords
<1>4. ClausesFollow' /\ FixedFollow' /\ Refuted'
  BY <1>1, <1>2, <1>3, ClausesSame, FixedBacktrack, RefutedStays DEF SoundParts
<1>5. LearnedFollows'
  BY <1>1, <1>3 DEF SoundParts, LearnedFollows, Follows
<1> QED
  BY <1>1, <1>4, <1>5 DEF SoundParts, Resolving

LEMMA ReduceDbSound ==
    ASSUME SoundInv, ReduceDb, Unrestarted' PROVE SoundParts'
<1>1. /\ pc = "reduce" /\ pc' = "learn" /\ UNCHANGED <<inputs, tr, ok, an, restarts>> /\ Inv
      /\ UNCHANGED arena \/ \E S : arena' = WithDeleted(S)
  BY DEF SoundInv, ReasonInv, WatchInv, ReduceDb, client
<1>2. SoundParts /\ Models' = Models
  BY <1>1 DEF SoundInv, Unrestarted, Models, Problem, Inputs
<1>3. ClausesFollow' /\ FixedFollow' /\ Refuted'
  BY <1>1, <1>2, ClausesDeleted, FixedSame, RefutedStays DEF SoundParts
<1>4. LearnedFollows'
  BY <1>1, <1>2 DEF SoundParts, LearnedFollows, Follows
<1> QED
  BY <1>1, <1>3, <1>4 DEF SoundParts, Resolving

\* Only a unit is learned at level 0.
LEMMA LearnSound ==
    ASSUME SoundInv, Learn, Unrestarted' PROVE SoundParts'
<1>1. /\ pc = "learn" /\ pc' \in {"panic", "loop"} /\ UNCHANGED <<inputs, ok, restarts>>
      /\ Inv /\ tr \in TrailRecords /\ TrailInv(tr) /\ an.learned \in Seq(Lits)
      /\ Len(an.learned) > 0
  BY ReasonTypes, AnFacts DEF SoundInv, ReasonInv, WatchInv, Learn, rest, client, Inv, TypeOK, ControlOK
<1>2. SoundParts /\ Learned /\ Models' = Models
  BY <1>1 DEF SoundInv, ReasonInv, Undisturbed, Unrestarted, SearchOK, Models, Problem, Inputs
<1>3. Follows(an.learned) /\ Follows(an.learned)'
  <2>1. PICK lits : lits = an.learned
    OBVIOUS
  <2>2. Follows(lits)
    BY <1>1, <1>2, <2>1 DEF SoundParts, LearnedFollows
  <2>3. an' = an
    BY DEF Learn
  <2> QED
    BY <1>2, <2>1, <2>2, <2>3 DEF Follows
<1>4. ClausesFollow'
  <2>1. CASE Len(an.learned) = 1
    <3>1. UNCHANGED arena
      BY <2>1 DEF Learn, db
    <3> QED
      BY <1>2, <3>1, ClausesSame DEF SoundParts
  <2>2. CASE Len(an.learned) # 1
    <3>1. PICK x, lits : x = NewClause(an.learned, TRUE, an.lbd) /\ lits = an.learned
      OBVIOUS
    <3>2. arena' = Append(arena, x) /\ x.lits = lits
      BY <2>2, <3>1 DEF Learn, NewClause
    <3>3. Follows(lits)'
      BY <1>2, <1>3, <3>1 DEF Follows
    <3> QED
      BY <1>1, <1>2, <3>2, <3>3, ClausesGrow DEF SoundParts
  <2> QED
    BY <2>1, <2>2
<1>5. FixedFollow'
  <2>1. CASE UNCHANGED tr
    BY <1>1, <1>2, <2>1, FixedSame DEF SoundParts
  <2>2. CASE ~UNCHANGED tr
    <3>1. PICK lit, r : /\ lit = an.learned[1]
                        /\ r = IF Len(an.learned) = 1 THEN ReasonUnit ELSE Len(arena) + 1
      OBVIOUS
    <3>2. ~IsAssigned(tr, VarOf(lit)) /\ tr' = Assign(tr, lit, r) /\ lit \in Lits /\ r \in Reasons
      <4>1. ~IsAssigned(tr, VarOf(lit)) /\ tr' = Assign(tr, lit, r)
        BY <2>2, <3>1 DEF Learn
      <4>2. lit \in Lits
        BY <1>1, <3>1
      <4>3. r \in Reasons
        BY <1>1, <3>1, ReasonTypes DEF Reasons, ReasonUnit
      <4> QED
        BY <4>1, <4>2, <4>3
    <3>3. ASSUME DecisionLevel(tr) = 0, NEW m \in Models PROVE SatisfiesLit(m, lit)
      <4>1. PICK j \in 1..Len(an.learned) : SatisfiesLit(m, an.learned[j])
        BY <1>3 DEF Follows
      <4>2. ASSUME j # 1 PROVE FALSE
        <5>1. j \in 2..Len(an.learned) /\ an.learned[j] \in Lits
          BY <1>1, <4>2, ElementFact
        <5>2. FalseNow(tr, an.learned[j]) /\ tr.level[VarOf(an.learned[j])] > 0
          BY <1>1, <1>2, <5>1 DEF Learned
        <5>3. PICK k \in 1..Len(tr.trail) : tr.trail[k] = Neg(an.learned[j])
          BY <5>2 DEF FalseNow, FalseBefore
        <5>4. tr.level[VarOf(tr.trail[k])] = 0
          BY <1>1, <3>3, LevelsZero
        <5> QED
          BY <5>1, <5>2, <5>3, <5>4, LitFacts
      <4> QED
        BY <3>1, <4>1, <4>2
    <3> QED
      BY <1>1, <1>2, <3>2, <3>3, FixedAssign DEF SoundParts
  <2> QED
    BY <2>1, <2>2
<1> QED
  BY <1>1, <1>2, <1>4, <1>5, SoundQuiet, RefutedStays DEF SoundParts

LEMMA ConflictSound ==
    ASSUME SoundInv, Conflict, Unrestarted' PROVE SoundParts'
  BY ZeroConflictSound, StartAnalysisSound, MarkLitSound, PickLitSound, AssumptionsRefutedSound,
     BackjumpSound, ReduceDbSound, LearnSound DEF Conflict

-----------------------------------------------------------------------------
(* The search loop.                                                         *)

LEMMA TheoryConflictSound ==
    ASSUME SoundInv, TheoryConflict, Unrestarted' PROVE SoundParts'
<1>1. /\ pc' = "conflict" /\ UNCHANGED <<inputs, tr, restarts, ok>> /\ Inv
  BY DEF SoundInv, ReasonInv, WatchInv, TheoryConflict, rest, client
<1>2. SoundParts /\ Models' = Models
  BY <1>1 DEF SoundInv, Unrestarted, Models, Problem, Inputs
<1>3. PICK c \in TheoryClauses :
        arena' = IF DecisionLevel(tr) = 0 THEN arena ELSE Append(arena, NewClause(c, TRUE, 2))
  BY DEF TheoryConflict, FalseTheoryClauses
<1>4. Follows(c)
  <2>1. c \in Seq(Lits) /\ ToSet(c) \in Theory
    BY SolverAssumption DEF Theory
  <2> SUFFICES ASSUME NEW m \in Models PROVE \E i \in 1..Len(c) : SatisfiesLit(m, c[i])
    BY DEF Follows
  <2>2. PICK l \in ToSet(c) : SatisfiesLit(m, l)
    BY <2>1 DEF Models, Satisfies, SatisfiesClause, Problem
  <2> QED
    BY <2>1, <2>2 DEF ToSet
<1>5. ClausesFollow'
  <2>1. CASE DecisionLevel(tr) = 0
    BY <1>2, <1>3, <2>1, ClausesSame DEF SoundParts
  <2>2. CASE DecisionLevel(tr) # 0
    <3>1. PICK x : x = NewClause(c, TRUE, 2)
      OBVIOUS
    <3>2. arena' = Append(arena, x) /\ x.lits = c
      BY <1>3, <2>2, <3>1 DEF NewClause
    <3>3. Follows(c)'
      BY <1>2, <1>4 DEF Follows
    <3> QED
      BY <1>1, <1>2, <3>2, <3>3, ClausesGrow DEF SoundParts
  <2> QED
    BY <2>1, <2>2
<1>6. FixedFollow' /\ Refuted'
  BY <1>1, <1>2, FixedSame, RefutedStays DEF SoundParts
<1> QED
  BY <1>1, <1>5, <1>6, SoundQuiet DEF SoundParts

LEMMA DecideSound ==
    ASSUME SoundInv, NEW lit \in Lits, ~IsAssigned(tr, VarOf(lit)), Decide(lit),
           UNCHANGED <<inputs, arena, restarts, ok>>, Unrestarted'
    PROVE  SoundParts'
<1>1. Inv /\ tr \in TrailRecords /\ TrailInv(tr) /\ pc' = "loop"
  BY ReasonTypes DEF SoundInv, ReasonInv, WatchInv, Decide
<1>2. SoundParts /\ Models' = Models
  BY DEF SoundInv, Unrestarted, Models, Problem, Inputs
<1>3. PICK t : t = NewDecisionLevel(tr)
  OBVIOUS
<1>4. /\ t \in TrailRecords /\ TrailInv(t) /\ t.trail = tr.trail /\ t.level = tr.level
      /\ t.assigns = tr.assigns
  <2>1. t \in TrailRecords /\ TrailInv(t)
    BY <1>1, <1>3, NewDecisionLevelOK
  <2> QED
    BY <1>1, <1>3, <2>1, NewLevelFacts
<1>5. DecisionLevel(t) # 0
  <2>1. Len(t.trail_lim) = Len(tr.trail_lim) + 1 /\ Len(tr.trail_lim) \in Nat
    BY <1>1, <1>3, NewLevelFacts, TrailTypes
  <2> QED
    BY <2>1 DEF DecisionLevel
<1>6. /\ tr' = Assign(t, lit, ReasonDecision) /\ ~IsAssigned(t, VarOf(lit))
      /\ ReasonDecision \in Reasons
  BY <1>3, <1>4 DEF Decide, IsAssigned, Reasons, ReasonDecision
<1>7. FixedFollow'
  BY <1>2, <1>4, <1>5, <1>6, FixedAssign DEF SoundParts
<1>8. ClausesFollow' /\ Refuted'
  BY <1>1, <1>2, ClausesSame, RefutedStays DEF SoundParts
<1> QED
  BY <1>1, <1>7, <1>8, SoundQuiet DEF SoundParts

\* Steps that touch neither clauses nor trail, and do not answer False to a
\* call without assumptions.
LEMMA IdleSound ==
    ASSUME SoundInv, UNCHANGED <<inputs, arena, tr, restarts, ok>>, Unrestarted',
           pc' \notin {"mark", "learned", "reduce", "learn"},
           pc' \in {"finish", "answered"} /\ sv'.result = "False" => AssumptionRun'
    PROVE  SoundParts'
<1>1. SoundParts /\ Models' = Models /\ Inv
  BY DEF SoundInv, ReasonInv, WatchInv, Unrestarted, Models, Problem, Inputs
<1>2. ClausesFollow' /\ FixedFollow'
  BY <1>1, ClausesSame, FixedSame DEF SoundParts
<1>3. Refuted'
  BY <1>1 DEF SoundParts, Refuted
<1> QED
  BY <1>2, <1>3, SoundQuiet DEF SoundParts

LEMMA DecideAssumptionSound ==
    ASSUME SoundInv, DecideAssumption, Unrestarted' PROVE SoundParts'
<1>1. /\ Inv /\ sv \in SvRecords /\ UNCHANGED <<inputs, arena, restarts, ok>> /\ AssumptionsLeft
  BY ReasonTypes DEF SoundInv, ReasonInv, WatchInv, DecideAssumption, db, rest, client
<1>2. sv.assumptions \in Seq(Lits) /\ sv.cur \in Nat /\ sv.cur < Len(sv.assumptions)
  BY <1>1, SvFacts DEF AssumptionsLeft
<1>3. PICK p : p = sv.assumptions[sv.cur + 1]
  OBVIOUS
<1>4. p \in Lits /\ sv.assumptions # << >>
  BY <1>2, <1>3
<1>5. CASE pc' \in {"finish", "loop"} /\ UNCHANGED <<tr, th>>
  <2>1. pc' = "finish" => sv' = [sv EXCEPT !.cur = @ + 1, !.result = "False"]
    BY <1>5 DEF DecideAssumption, Decide
  <2>2. pc' = "finish" => AssumptionRun'
    BY <1>1, <1>4, <2>1 DEF AssumptionRun, SvRecords
  <2> QED
    BY <1>1, <1>5, <2>2, IdleSound
<1>6. CASE ~IsAssigned(tr, VarOf(p)) /\ Decide(p)
  BY <1>1, <1>4, <1>6, DecideSound
<1> QED
  BY <1>3, <1>5, <1>6 DEF DecideAssumption

LEMMA DecideVarSound ==
    ASSUME SoundInv, DecideVar, Unrestarted' PROVE SoundParts'
<1>1. Inv /\ UNCHANGED <<inputs, arena, restarts, ok>>
  BY DEF SoundInv, ReasonInv, WatchInv, DecideVar, db, rest, client
<1>2. PICK v \in Selected : Decide(NewLit(v, tr.phase[v]))
  BY DEF DecideVar
<1>3. v \in Vars /\ ~IsAssigned(tr, v)
  <2>1. heap \subseteq Vars /\ num_vars \in 0..NumVars
    BY <1>1 DEF Inv, TypeOK, RestOK
  <2>2. heap \subseteq Vars /\ 1..num_vars \subseteq Vars
    BY <2>1, NumVarsAssumption DEF Vars
  <2> QED
    BY <2>2 DEF Selected, Open
<1>4. tr.phase[v] \in BOOLEAN
  BY <1>1, <1>3 DEF Inv, TypeOK, TrailOK, TrailRecords
<1>5. NewLit(v, tr.phase[v]) \in Lits /\ VarOf(NewLit(v, tr.phase[v])) = v
  BY <1>3, <1>4, LitOfVar
<1> QED
  BY <1>1, <1>2, <1>3, <1>5, DecideSound

LEMMA FinishSound ==
    ASSUME SoundInv, Finish, Unrestarted' PROVE SoundParts'
<1>1. /\ pc = "finish" /\ pc' = "answered" /\ tr' = BacktrackTo(tr, 0)
      /\ UNCHANGED <<inputs, restarts, ok, sv>> /\ Inv
      /\ UNCHANGED arena \/ \E S : arena' = WithDeleted(S)
  BY DEF SoundInv, ReasonInv, WatchInv, Finish, client
<1>2. SoundParts /\ Models' = Models
  BY <1>1 DEF SoundInv, Unrestarted, Models, Problem, Inputs
<1>3. ClausesFollow' /\ FixedFollow'
  BY <1>1, <1>2, ClausesDeleted, FixedBacktrack DEF SoundParts
<1>4. Refuted'
  BY <1>1, <1>2 DEF SoundParts, Refuted, AssumptionRun
<1> QED
  BY <1>1, <1>3, <1>4, SoundQuiet DEF SoundParts

LEMMA SearchSound ==
    ASSUME SoundInv, Search, Unrestarted' PROVE SoundParts'
<1>1. CASE BudgetExhausted \/ AllAssigned
  <2>1. /\ UNCHANGED <<inputs, arena, tr, restarts, ok>> /\ pc' = "finish"
        /\ \E r \in {"Undef", "True"} : sv' = [sv EXCEPT !.result = r]
    BY <1>1 DEF BudgetExhausted, AllAssigned, Answer, db, rest, client
  <2>2. sv \in SvRecords
    BY ReasonTypes DEF SoundInv, ReasonInv, WatchInv
  <2>3. sv'.result # "False"
    BY <2>1, <2>2 DEF SvRecords
  <2> QED
    BY <2>1, <2>3, IdleSound
<1>2. CASE Loop \/ TheoryOk \/ Return
  <2>1. /\ UNCHANGED <<inputs, arena, tr, restarts, ok>> /\ pc' \in {"bcp", "decide", "idle"}
    BY <1>2 DEF Loop, TheoryOk, Return, db, rest, client
  <2> QED
    BY <2>1, IdleSound
<1> QED
  BY <1>1, <1>2, TheoryConflictSound, DecideAssumptionSound, DecideVarSound, FinishSound DEF Search

-----------------------------------------------------------------------------
(* The theorems.                                                            *)

LEMMA SoundInit == Init => SoundInv
<1> SUFFICES ASSUME Init PROVE SoundParts
  BY ReasonInit DEF SoundInv
<1>1. tr.trail = << >> /\ arena = << >> /\ pc = "idle" /\ ok = TRUE
  BY DEF Init, NewTrail
<1> QED
  BY <1>1 DEF SoundParts, ClausesFollow, ClauseIds, FixedFollow, Resolving, LearnedFollows, Refuted

LEMMA SoundNext == ASSUME SoundInv, [Next]_vars, Inputs \subseteq Inputs' PROVE SoundInv'
<1>1. ReasonInv'
  BY ReasonNext DEF SoundInv
<1>2. ASSUME UNCHANGED vars, Unrestarted' PROVE SoundParts'
  <2>1. UNCHANGED <<inputs, arena, tr, pc, ok, restarts, sv, an>>
    BY <1>2 DEF vars, db, rest, client
  <2>2. SoundParts /\ Models' = Models
    BY <1>2, <2>1 DEF SoundInv, Unrestarted, Models, Problem, Inputs
  <2>3. ClausesFollow' /\ FixedFollow' /\ Refuted'
    BY <2>1, <2>2 DEF SoundParts, ClausesFollow, ClauseIds, Follows, FixedFollow, Refuted, AssumptionRun
  <2>4. Resolving' /\ LearnedFollows'
    BY <2>1, <2>2 DEF SoundParts, Resolving, Remaining, Collected, CurrentSeen, LearnedFollows, Follows
  <2> QED
    BY <2>3, <2>4 DEF SoundParts
<1>3. Unrestarted' => SoundParts'
  BY <1>2, ModelsShrink, ClientSound, PropagateSound, ConflictSound, SearchSound DEF Next, Step
<1> QED
  BY <1>1, <1>3 DEF SoundInv

\* Every clause and every literal of level 0 is entailed.
LEMMA SoundConsequences == SoundInv => ConsequencesOnly
<1> SUFFICES ASSUME SoundInv, Unrestarted PROVE LearnedEntailed /\ FixedEntailed
  BY DEF ConsequencesOnly
<1>1. Inv /\ tr \in TrailRecords /\ TrailInv(tr) /\ SoundParts
  BY ReasonTypes DEF SoundInv, ReasonInv, WatchInv
<1>2. LearnedEntailed
  <2> SUFFICES ASSUME NEW c \in ClauseIds PROVE Entails(Problem, LitsOf(c))
    BY DEF LearnedEntailed, Live
  <2>1. Follows(arena[c].lits) /\ arena[c].lits \in Seq(Lits)
    BY <1>1, ReasonTypes, ClauseFacts DEF SoundParts, ClausesFollow
  <2> SUFFICES ASSUME NEW m \in Valuations, Satisfies(m, Problem)
               PROVE  \E l \in LitsOf(c) : SatisfiesLit(m, l)
    BY DEF Entails, SatisfiesClause
  <2>2. PICK i \in 1..Len(arena[c].lits) : SatisfiesLit(m, arena[c].lits[i])
    BY <2>1 DEF Follows, Models
  <2> QED
    BY <2>1, <2>2 DEF LitsOf, ToSet
<1>3. FixedEntailed
  <2> SUFFICES ASSUME NEW v \in Vars, IsAssigned(tr, v), tr.level[v] = 0,
                      NEW m \in Valuations, Satisfies(m, Problem)
               PROVE  SatisfiesLit(m, NewLit(v, tr.assigns[v] = "False"))
    BY DEF FixedEntailed, Entails, SatisfiesClause
  <2>1. PICK i \in 1..Len(tr.trail) : VarOf(tr.trail[i]) = v /\ IsTrue(tr, tr.trail[i])
    BY <1>1 DEF TrailInv, TrailIsAssignment
  <2>2. SatisfiesLit(m, tr.trail[i])
    BY <1>1, <2>1 DEF SoundParts, FixedFollow, Models
  <2>3. tr.trail[i] \in Lits /\ tr.assigns[v] \in LBool
    BY <1>1, <2>1, TrailTypes
  <2>4. tr.trail[i] = NewLit(v, tr.assigns[v] = "False")
    <3>1. CASE tr.trail[i] > 0
      BY <2>1, <2>3, <3>1 DEF IsTrue, LitValue, IsPos, VarOf, NewLit, Lits
    <3>2. CASE ~(tr.trail[i] > 0)
      <4>1. tr.assigns[v] = "False"
        BY <2>1, <2>3, <3>2 DEF IsTrue, LitValue, IsPos, NotVal, LBool
      <4> QED
        BY <2>1, <2>3, <3>2, <4>1 DEF VarOf, NewLit, Lits
    <3> QED
      BY <3>1, <3>2
  <2> QED
    BY <2>2, <2>4
<1> QED
  BY <1>2, <1>3

\* No model is left of what has been refuted.
LEMMA SoundRefutations == SoundInv => UnsatSound
  BY DEF SoundInv, SoundParts, Refuted, UnsatSound, Satisfiable, Models

\* While no input clause is withdrawn (by a pop) and no restart has assigned a
\* learned literal, every clause learned and every literal fixed at level 0 is
\* a consequence of the clauses given and of the theory.
THEOREM LearnsOnlyConsequences ==
    Spec /\ [][Inputs \subseteq Inputs']_vars => []ConsequencesOnly
<1>1. Init => SoundInv
  BY SoundInit
<1>2. SoundInv /\ [Next]_vars /\ [Inputs \subseteq Inputs']_vars => SoundInv'
  <2> SUFFICES ASSUME SoundInv, [Next]_vars, [Inputs \subseteq Inputs']_vars PROVE SoundInv'
    OBVIOUS
  <2>1. Inputs \subseteq Inputs'
    BY DEF vars, client, Inputs
  <2> QED
    BY <2>1, SoundNext
<1>3. SoundInv => ConsequencesOnly
  BY SoundConsequences
<1> QED
  BY <1>1, <1>2, <1>3, PTL DEF Spec

\* Under the same conditions an answer of False to a call without assumptions,
\* and a solver that is not ok, mean that the clauses given have no model.
THEOREM RefutesOnlyUnsatisfiable ==
    Spec /\ [][Inputs \subseteq Inputs']_vars => []UnsatSound
<1>1. Init => SoundInv
  BY SoundInit
<1>2. SoundInv /\ [Next]_vars /\ [Inputs \subseteq Inputs']_vars => SoundInv'
  <2> SUFFICES ASSUME SoundInv, [Next]_vars, [Inputs \subseteq Inputs']_vars PROVE SoundInv'
    OBVIOUS
  <2>1. Inputs \subseteq Inputs'
    BY DEF vars, client, Inputs
  <2> QED
    BY <2>1, SoundNext
<1>3. SoundInv => UnsatSound
  BY SoundRefutations
<1> QED
  BY <1>1, <1>2, <1>3, PTL DEF Spec

-----------------------------------------------------------------------------
(* Learned clauses are asserting.                                           *)

\* A literal of the current level.
AtCurrent(l) == tr.level[VarOf(l)] = DecisionLevel(tr)

\* No level begins with a theory clause that is false: it becomes false by a
\* literal of the level at which it is reported.
TheoryOpen ==
    \A k \in 1..DecisionLevel(tr) : \A c \in TheoryClauses :
        \E i \in 1..Len(c) : ~FalseBefore(tr, tr.trail_lim[k], c[i])

\* The clause in conflict has a literal of the current level.
ConflictHigh ==
    (pc = "conflict" /\ DecisionLevel(tr) > 0) =>
        \E j \in 1..Len(arena[an.conflict].lits) : AtCurrent(arena[an.conflict].lits[j])

\* path_count counts the variables of the current level that are seen and not
\* yet resolved on, and there is one, or will be from the clause at hand.
Counted ==
    pc = "mark" =>
        /\ an.path_count = Cardinality(CurrentSeen)
        /\ \/ CurrentSeen # {}
           \/ \E j \in 1..Len(an.lits) : VarOf(an.lits[j]) # an.pivot /\ AtCurrent(an.lits[j])

\* The first literal learned is of the current level, and the backjump, which
\* leaves that level, opens it.
FirstHigh == pc = "learned" => FalseNow(tr, an.learned[1]) /\ AtCurrent(an.learned[1])
FirstOpen == pc \in {"reduce", "learn"} => ~IsAssigned(tr, VarOf(an.learned[1]))

LearnParts == TheoryOpen /\ ConflictHigh /\ Counted /\ FirstHigh /\ FirstOpen
LearnInv ==
    /\ PropInv /\ NothingFalse
    /\ Unrestarted /\ Eager => pc # "panic" /\ LearnParts

\* Away from conflicts there is nothing to say of them.
LEMMA LearnQuiet ==
    ASSUME pc' \notin {"conflict", "mark", "learned", "reduce", "learn"}
    PROVE  ConflictHigh' /\ Counted' /\ FirstHigh' /\ FirstOpen'
BY DEF ConflictHigh, Counted, FirstHigh, FirstOpen

\* Levels that stay, with what is below them.
LEMMA TheoryOpenStays ==
    ASSUME Inv, TheoryOpen, NEW u, u = tr', u \in TrailRecords, TrailInv(u),
           Len(u.trail_lim) <= Len(tr.trail_lim),
           \A k \in 1..Len(u.trail_lim) : u.trail_lim[k] = tr.trail_lim[k],
           \A i \in 1..Len(u.trail) : i <= Len(tr.trail) => u.trail[i] = tr.trail[i]
    PROVE  TheoryOpen'
<1>1. /\ tr \in TrailRecords /\ TrailInv(tr) /\ Len(tr.trail_lim) \in Nat /\ Len(u.trail_lim) \in Nat
      /\ Len(tr.trail) \in Nat /\ Len(u.trail) \in Nat
      /\ DecisionLevel(tr) = Len(tr.trail_lim) /\ DecisionLevel(u) = Len(u.trail_lim)
      /\ tr.trail_lim \in Seq(Nat)
  BY ReasonTypes, TrailTypes
<1>2. SUFFICES ASSUME NEW k \in 1..Len(u.trail_lim), NEW c \in TheoryClauses
               PROVE  \E i \in 1..Len(c) : ~FalseBefore(u, u.trail_lim[k], c[i])
  BY <1>1 DEF TheoryOpen
<1>3. /\ k \in 1..Len(tr.trail_lim) /\ u.trail_lim[k] = tr.trail_lim[k] /\ tr.trail_lim[k] \in Nat
      /\ tr.trail_lim[k] <= Len(tr.trail) /\ u.trail_lim[k] <= Len(u.trail)
  BY <1>1 DEF TrailInv, LevelsAreSegments
<1>4. ASSUME NEW i \in 1..tr.trail_lim[k] PROVE u.trail[i] = tr.trail[i]
  <2>1. PICK n \in Nat : n = tr.trail_lim[k]
    BY <1>3
  <2>2. i \in 1..n /\ n <= Len(tr.trail) /\ n <= Len(u.trail)
    BY ONLY <1>3, <2>1, i \in 1..tr.trail_lim[k]
  <2>3. PICK a \in Nat, b \in Nat : a = Len(tr.trail) /\ b = Len(u.trail)
    BY <1>1
  <2>4. i \in 1..b /\ i <= a
    <3>1. i \in 1..n /\ n <= a /\ n <= b
      BY <2>2, <2>3
    <3> QED
      BY ONLY <3>1, n \in Nat, a \in Nat, b \in Nat
  <2> QED
    BY <2>3, <2>4
<1>5. PICK i \in 1..Len(c) : ~FalseBefore(tr, tr.trail_lim[k], c[i])
  BY <1>1, <1>3 DEF TheoryOpen
<1>6. ~FalseBefore(u, tr.trail_lim[k], c[i])
  BY <1>4, <1>5, FalsePrefix
<1> QED
  BY <1>3, <1>6

\* A level is opened when no theory clause is false.
LEMMA TheoryOpenDecide ==
    ASSUME ReasonInv, Undisturbed, NothingFalse, Eager, TheoryOpen, Decides
    PROVE  TheoryOpen'
<1>1. PICK l \in Lits : pc = "decide" /\ ~IsAssigned(tr, VarOf(l)) /\ Decide(l)
  BY DEF Decides
<1>2. /\ Inv /\ tr \in TrailRecords /\ TrailInv(tr) /\ Len(tr.trail_lim) \in Nat
      /\ Len(tr.trail) \in Nat /\ DecisionLevel(tr) = Len(tr.trail_lim) /\ tr.trail_lim \in Seq(Nat)
  BY ReasonTypes, TrailTypes DEF ReasonInv, WatchInv
<1>3. PICK t : t = NewDecisionLevel(tr)
  OBVIOUS
<1>4. t \in TrailRecords /\ TrailInv(t) /\ ~IsAssigned(t, VarOf(l))
  BY <1>1, <1>2, <1>3, NewDecisionLevelOK, NewLevelFacts DEF IsAssigned
<1>5. /\ t.trail = tr.trail /\ Len(t.trail_lim) = Len(tr.trail_lim) + 1
      /\ t.trail_lim[Len(tr.trail_lim) + 1] = Len(tr.trail)
      /\ \A k \in 1..Len(tr.trail_lim) : t.trail_lim[k] = tr.trail_lim[k]
  BY <1>2, <1>3, NewLevelFacts
<1>6. PICK u : u = tr' /\ u = Assign(t, l, ReasonDecision)
  BY <1>1, <1>3 DEF Decide
<1>7. u.trail_lim = t.trail_lim /\ \A i \in 1..Len(tr.trail) : u.trail[i] = tr.trail[i]
  <2>1. ReasonDecision \in Reasons
    BY DEF Reasons
  <2> QED
    BY <1>4, <1>5, <1>6, <2>1, AssignFacts
<1>8. th.asserted = tr.trail
  BY <1>1 DEF ReasonInv, SearchOK, Mirror, ToldAll
<1>9. FalseTheoryClauses = {}
  BY <1>1 DEF NothingFalse
<1>10. SUFFICES ASSUME NEW k \in 1..(Len(tr.trail_lim) + 1), NEW c \in TheoryClauses
                PROVE  \E i \in 1..Len(c) : ~FalseBefore(u, u.trail_lim[k], c[i])
  BY <1>5, <1>6, <1>7 DEF TheoryOpen, DecisionLevel
<1>11. CASE k = Len(tr.trail_lim) + 1
  <2>1. PICK i \in 1..Len(c) : Neg(c[i]) \notin ToSet(tr.trail)
    BY <1>8, <1>9 DEF FalseTheoryClauses
  <2>2. ~FalseBefore(tr, Len(tr.trail), c[i])
    BY <2>1 DEF FalseBefore, ToSet
  <2>3. ~FalseBefore(u, Len(tr.trail), c[i])
    BY <1>5, <1>7, <2>2, FalsePrefix
  <2> QED
    BY <1>5, <1>7, <1>11, <2>3
<1>12. CASE k \in 1..Len(tr.trail_lim)
  <2>1. PICK i \in 1..Len(c) : ~FalseBefore(tr, tr.trail_lim[k], c[i])
    BY <1>2, <1>12 DEF TheoryOpen
  <2>2. tr.trail_lim[k] \in Nat /\ tr.trail_lim[k] <= Len(tr.trail)
    BY <1>2, <1>12 DEF TrailInv, LevelsAreSegments
  <2>3. ASSUME NEW j \in 1..tr.trail_lim[k] PROVE u.trail[j] = tr.trail[j]
    <3>1. j \in 1..Len(tr.trail)
      BY <1>2, <2>2
    <3> QED
      BY <1>7, <3>1
  <2>4. ~FalseBefore(u, tr.trail_lim[k], c[i])
    BY <2>1, <2>3, FalsePrefix
  <2> QED
    BY <1>5, <1>7, <1>12, <2>4
<1> QED
  BY <1>2, <1>10, <1>11, <1>12

LEMMA TheoryOpenStep ==
    ASSUME ReasonInv, Undisturbed, NothingFalse, Eager, TheoryOpen, [Next]_vars
    PROVE  TheoryOpen'
<1>1. Inv /\ tr \in TrailRecords /\ TrailInv(tr) /\ Len(tr.trail_lim) \in Nat /\ Len(tr.trail) \in Nat
  BY ReasonTypes, TrailTypes DEF ReasonInv, WatchInv
<1>2. Inv'
  BY <1>1, NextOK
<1>3. PICK u : u = tr'
  OBVIOUS
<1>4. u \in TrailRecords /\ TrailInv(u)
  BY <1>2, <1>3 DEF Inv, TypeOK, TrailOK, TrailConsistent
<1>5. CASE UNCHANGED tr
  BY <1>1, <1>3, <1>4, <1>5, TheoryOpenStays
<1>6. CASE tr' = Dequeue(tr)
  <2>1. u.trail = tr.trail /\ u.trail_lim = tr.trail_lim
    BY <1>1, <1>3, <1>6, DequeueFacts
  <2> QED
    BY <1>1, <1>3, <1>4, <2>1, TheoryOpenStays
<1>7. CASE Assigns
  <2>1. PICK l \in Lits, r \in Reasons : ~IsAssigned(tr, VarOf(l)) /\ u = Assign(tr, l, r)
    BY <1>3, <1>7 DEF Assigns
  <2>2. u.trail_lim = tr.trail_lim /\ \A i \in 1..Len(tr.trail) : u.trail[i] = tr.trail[i]
    BY <1>1, <2>1, AssignFacts
  <2> QED
    BY <1>1, <1>3, <1>4, <2>2, TheoryOpenStays
<1>8. CASE Backtracks
  <2>1. PICK level \in Nat : u = BacktrackTo(tr, level)
    BY <1>3, <1>8 DEF Backtracks
  <2>2. /\ Len(u.trail_lim) <= Len(tr.trail_lim)
        /\ \A k \in 1..Len(u.trail_lim) : u.trail_lim[k] = tr.trail_lim[k]
        /\ \A i \in 1..Len(u.trail) : u.trail[i] = tr.trail[i]
    BY <1>1, <2>1, BacktrackFacts
  <2> QED
    BY <1>1, <1>3, <1>4, <2>2, TheoryOpenStays
<1>9. CASE Decides
  BY <1>9, TheoryOpenDecide
<1> QED
  BY <1>1, <1>5, <1>6, <1>7, <1>8, <1>9, TrailStep

-----------------------------------------------------------------------------
(* The clause in conflict.                                                  *)

LEMMA VisitConflictHigh ==
    ASSUME PropInv, VisitConflict PROVE ConflictHigh'
<1>1. /\ WatchInv /\ Inv /\ QueueOK /\ pc = "visit" /\ bcp.todo # << >> /\ UNCHANGED tr
      /\ arena' = [arena EXCEPT ![AtHand.clause].lits = ClauseAtHand]
      /\ an' = [an EXCEPT !.conflict = AtHand.clause, !.origin = "bcp"]
      /\ arena \in Seq(ArenaClauses) /\ an \in AnRecords
  BY ReasonTypes DEF PropInv, ReasonInv, WatchInv, VisitConflict, Visit
<1>2. /\ AtHand.clause \in 1..Len(arena) /\ Len(ClauseAtHand) > 1 /\ Len(ClauseAtHand) \in Nat
      /\ ClauseAtHand[2] = Neg(bcp.lit)
  BY <1>1, AtHandFacts, AtHandSame
<1>3. an'.conflict = AtHand.clause
  BY <1>1 DEF AnRecords
<1>4. arena'[AtHand.clause].lits = ClauseAtHand
  <2>1. arena[AtHand.clause] \in ArenaClauses
    BY <1>1, <1>2, ClauseFacts
  <2> QED
    BY <1>1, <1>2, <2>1 DEF ArenaClauses
<1>5. /\ tr.level[VarOf(bcp.lit)] = DecisionLevel(tr) /\ VarOf(Neg(bcp.lit)) = VarOf(bcp.lit)
  BY <1>1, VisitLevel, LitFacts
<1>6. PICK lits : lits = ClauseAtHand
  OBVIOUS
<1>7. 2 \in 1..Len(lits) /\ tr.level[VarOf(lits[2])] = DecisionLevel(tr)
  BY <1>2, <1>5, <1>6
<1>8. arena'[an'.conflict].lits = lits
  BY <1>3, <1>4, <1>6
<1> QED
  BY <1>1, <1>7, <1>8 DEF ConflictHigh, AtCurrent

\* A theory clause that is false now was not when the level began.
LEMMA FalseHere ==
    ASSUME Inv, TheoryOpen, ToldAll, DecisionLevel(tr) > 0, NEW c \in FalseTheoryClauses
    PROVE  \E j \in 1..Len(c) : AtCurrent(c[j])
<1>1. /\ tr \in TrailRecords /\ TrailInv(tr) /\ Len(tr.trail) \in Nat /\ DecisionLevel(tr) \in Nat
  BY ReasonTypes, TrailTypes DEF DecisionLevel
<1>2. c \in TheoryClauses /\ c \in Seq(Lits)
  BY SolverAssumption DEF FalseTheoryClauses
<1>3. PICK i \in 1..Len(c) : ~FalseBefore(tr, tr.trail_lim[DecisionLevel(tr)], c[i])
  BY <1>1, <1>2 DEF TheoryOpen
<1>4. Neg(c[i]) \in ToSet(tr.trail)
  BY <1>3 DEF FalseTheoryClauses, ToldAll
<1>5. PICK n \in 1..Len(tr.trail) : tr.trail[n] = Neg(c[i])
  BY <1>4 DEF ToSet
<1>6. c[i] \in Lits /\ VarOf(tr.trail[n]) = VarOf(c[i])
  BY <1>2, <1>5, ElementFact, LitFacts
<1>7. n > tr.trail_lim[DecisionLevel(tr)]
  <2>1. tr.trail_lim[DecisionLevel(tr)] \in Nat
    BY <1>5, CurrentPosition
  <2> QED
    BY <1>1, <1>3, <1>5, <2>1 DEF FalseBefore
<1>8. tr.level[VarOf(tr.trail[n])] = DecisionLevel(tr)
  BY <1>5, <1>7, CurrentPosition
<1> QED
  BY <1>6, <1>8 DEF AtCurrent

LEMMA TheoryConflictHigh ==
    ASSUME ReasonInv, Undisturbed, TheoryOpen, TheoryConflict PROVE ConflictHigh'
<1>1. /\ Inv /\ pc = "theory" /\ UNCHANGED tr /\ an \in AnRecords /\ arena \in Seq(ArenaClauses)
      /\ an' = [an EXCEPT !.conflict = Len(arena) + 1, !.origin = "theory"]
  BY ReasonTypes DEF ReasonInv, WatchInv, TheoryConflict
<1>2. ToldAll
  BY <1>1 DEF ReasonInv, SearchOK, Mirror
<1>3. SUFFICES ASSUME DecisionLevel(tr) > 0
               PROVE  \E j \in 1..Len(arena'[an'.conflict].lits) :
                          AtCurrent(arena'[an'.conflict].lits[j])
  BY <1>1 DEF ConflictHigh, AtCurrent
<1>4. DecisionLevel(tr) # 0
  BY <1>1, <1>3, ReasonTypes, TrailTypes DEF DecisionLevel
<1>5. PICK c \in FalseTheoryClauses : arena' = Append(arena, NewClause(c, TRUE, 2))
  BY <1>4 DEF TheoryConflict
<1>6. NewClause(c, TRUE, 2).lits = c
  BY DEF NewClause
<1>7. arena'[Len(arena) + 1] = NewClause(c, TRUE, 2)
  <2>1. c \in Seq(Lits)
    BY SolverAssumption DEF FalseTheoryClauses
  <2>2. NewClause(c, TRUE, 2) \in ArenaClauses
    BY <2>1, NewClauseOK
  <2> QED
    BY <1>1, <1>5, <2>2, AppendClauseOK
<1>8. arena'[an'.conflict].lits = c
  BY <1>1, <1>6, <1>7 DEF AnRecords
<1>9. PICK j \in 1..Len(c) : AtCurrent(c[j])
  BY <1>1, <1>2, <1>3, FalseHere
<1> QED
  BY <1>8, <1>9

-----------------------------------------------------------------------------
(* The analysis.                                                            *)

LEMMA StartCounted ==
    ASSUME Inv, ConflictHigh, StartAnalysis PROVE Counted'
<1>1. /\ pc = "conflict" /\ UNCHANGED <<arena, tr>> /\ DecisionLevel(tr) > 0 /\ an \in AnRecords
      /\ an' = [an EXCEPT !.learned = <<LitZero>>, !.seen = {}, !.path_count = 0,
                          !.backtrack_level = 0, !.lits = arena[an.conflict].lits,
                          !.pivot = 0, !.trail_idx = Len(tr.trail)]
  BY ReasonTypes DEF StartAnalysis, db
<1>2. an'.seen = {} /\ an'.path_count = 0 /\ an'.lits = arena[an.conflict].lits /\ an'.pivot = 0
  BY <1>1 DEF AnRecords
<1>3. an'.path_count = Cardinality(CurrentSeen')
  <2>1. CurrentSeen' = {}
    BY <1>2 DEF CurrentSeen
  <2> QED
    BY <1>2, <2>1, FS_EmptySet
<1>4. PICK j \in 1..Len(an'.lits) : tr.level[VarOf(an'.lits[j])] = DecisionLevel(tr)
  BY <1>1, <1>2 DEF ConflictHigh, AtCurrent
<1>5. VarOf(an'.lits[j]) # an'.pivot
  <2>1. an.conflict \in ClauseIds
    BY <1>1 DEF Inv, TypeOK, ControlOK
  <2>2. arena[an.conflict].lits \in Seq(Lits)
    BY <2>1, ReasonTypes, ClauseFacts
  <2>3. VarOf(an'.lits[j]) \in Vars
    BY <1>2, <1>4, <2>2, ElementFact, LitFacts
  <2> QED
    BY <1>2, <2>3 DEF Vars
<1> QED
  BY <1>1, <1>3, <1>4, <1>5 DEF Counted, AtCurrent

LEMMA MarkCounted ==
    ASSUME Inv, Counted, MarkLit PROVE Counted'
<1>1. /\ pc = "mark" /\ UNCHANGED <<arena, tr>> /\ an \in AnRecords /\ an.lits \in Seq(Lits)
      /\ an.path_count \in Int
  BY ReasonTypes, AnFacts DEF MarkLit, db
<1>2. PICK l \in Lits, y \in AnRecords :
        /\ l = an.lits[1] /\ an.lits # << >> /\ y = Marked(an, l)
        /\ an'.lits = Tail(an.lits) /\ an'.seen = y.seen
        /\ an'.pivot = an.pivot /\ an'.path_count = y.path_count
  BY MarkFacts
<1>3. PICK v : v = VarOf(l)
  OBVIOUS
<1>4. \/ v \in an.seen \cup {an.pivot} /\ y = an
      \/ /\ v \notin an.seen \cup {an.pivot} /\ y.seen = an.seen \cup {v}
         /\ \/ tr.level[v] = DecisionLevel(tr) /\ y.path_count = an.path_count + 1
            \/ tr.level[v] # DecisionLevel(tr) /\ y.path_count = an.path_count
  BY <1>1, <1>2, <1>3, MarkedCases
<1>5. an.path_count = Cardinality(CurrentSeen)
  BY <1>1 DEF Counted
<1>6. CurrentSeen' = {u \in y.seen : tr.level[u] = DecisionLevel(tr)}
  BY <1>1, <1>2 DEF CurrentSeen
<1>7. an'.path_count = Cardinality(CurrentSeen')
  <2>1. CASE y.path_count = an.path_count /\ (y.seen = an.seen \/
                 (y.seen = an.seen \cup {v} /\ tr.level[v] # DecisionLevel(tr)))
    <3>1. CurrentSeen' = CurrentSeen
      BY <1>6, <2>1 DEF CurrentSeen
    <3> QED
      BY <1>2, <1>5, <2>1, <3>1
  <2>2. CASE /\ y.path_count = an.path_count + 1 /\ v \notin an.seen
             /\ y.seen = an.seen \cup {v} /\ tr.level[v] = DecisionLevel(tr)
    <3>1. CurrentSeen' = CurrentSeen \cup {v} /\ v \notin CurrentSeen
      BY <1>6, <2>2 DEF CurrentSeen
    <3>2. Cardinality(CurrentSeen') = Cardinality(CurrentSeen) + 1
      <4> HIDE DEF CurrentSeen
      <4> QED
        BY <3>1, CurrentFinite, FS_AddElement
    <3> QED
      BY <1>2, <1>5, <2>2, <3>2
  <2> QED
    BY <1>4, <2>1, <2>2
<1>8. CurrentSeen \subseteq CurrentSeen'
  BY <1>4, <1>6 DEF CurrentSeen
<1>9. ASSUME NEW j \in 1..Len(an.lits), VarOf(an.lits[j]) # an.pivot,
             tr.level[VarOf(an.lits[j])] = DecisionLevel(tr)
      PROVE  \/ CurrentSeen' # {}
             \/ \E k \in 1..Len(an'.lits) : /\ VarOf(an'.lits[k]) # an'.pivot
                                            /\ tr.level[VarOf(an'.lits[k])] = DecisionLevel(tr)
  <2>1. CASE j = 1
    <3>1. v \in y.seen
      BY <1>2, <1>3, <1>4, <1>9, <2>1
    <3> QED
      BY <1>2, <1>3, <1>6, <1>9, <2>1, <3>1
  <2>2. CASE j # 1
    <3>1. j - 1 \in 1..Len(an'.lits) /\ an'.lits[j - 1] = an.lits[j]
      BY <1>1, <1>2, <2>2
    <3> QED
      BY <1>2, <1>9, <3>1
  <2> QED
    BY <2>1, <2>2
<1>10. \/ CurrentSeen' # {}
       \/ \E k \in 1..Len(an'.lits) : /\ VarOf(an'.lits[k]) # an'.pivot
                                      /\ tr.level[VarOf(an'.lits[k])] = DecisionLevel(tr)
  BY <1>1, <1>8, <1>9 DEF Counted, AtCurrent
<1> QED
  BY <1>1, <1>7, <1>10 DEF Counted, AtCurrent

\* When the clause at hand has been read, the last literal seen is of the
\* current level.
LEMMA LastSeen ==
    ASSUME ReasonInv, Undisturbed, Counted, pc = "mark", an.lits = << >>
    PROVE  /\ CurrentSeen # {} /\ DecisionLevel(tr) > 0 /\ SeenBelow # {}
           /\ \A u \in CurrentSeen : \E n \in SeenBelow : n \in 1..Len(tr.trail) /\ VarOf(tr.trail[n]) = u
           /\ \A i \in SeenBelow : (\A j \in SeenBelow : j <= i) =>
                i \in 1..Len(tr.trail) /\ VarOf(tr.trail[i]) \in CurrentSeen
<1>1. /\ Inv /\ tr \in TrailRecords /\ TrailInv(tr) /\ an \in AnRecords
      /\ SearchOK /\ Len(tr.trail) \in Nat /\ DecisionLevel(tr) \in Nat
      /\ an.trail_idx \in Nat /\ an.trail_idx <= Len(tr.trail) /\ an.backtrack_level \in Nat
  <2>1. Inv /\ an.trail_idx <= Len(tr.trail) /\ SearchOK
    BY DEF ReasonInv, WatchInv, Inv, TypeOK, ControlOK
  <2> QED
    BY <2>1, ReasonTypes, TrailTypes, AnFacts DEF DecisionLevel
<1>2. CurrentSeen # {}
  BY DEF Counted
<1>3. DecisionLevel(tr) > 0
  BY <1>1 DEF SearchOK, Learned
<1>4. ASSUME NEW u \in CurrentSeen
      PROVE  \E n \in SeenBelow : n \in 1..Len(tr.trail) /\ VarOf(tr.trail[n]) = u
  <2>1. u \in an.seen
    BY DEF CurrentSeen
  <2>2. PICK n \in 1..an.trail_idx : VarOf(tr.trail[n]) = u
    BY <1>1, <2>1 DEF SearchOK, Analysing
  <2> QED
    BY <1>1, <2>1, <2>2 DEF SeenBelow
<1>5. ASSUME NEW i \in SeenBelow, \A j \in SeenBelow : j <= i
      PROVE  i \in 1..Len(tr.trail) /\ VarOf(tr.trail[i]) \in CurrentSeen
  <2>1. i \in 1..Len(tr.trail) /\ VarOf(tr.trail[i]) \in an.seen
    BY <1>1 DEF SeenBelow
  <2>2. PICK u \in CurrentSeen : TRUE
    BY <1>2
  <2>3. PICK n \in SeenBelow : n \in 1..Len(tr.trail) /\ VarOf(tr.trail[n]) = u
    BY <1>4
  <2>4. tr.level[VarOf(tr.trail[n])] = DecisionLevel(tr)
    BY <2>3 DEF CurrentSeen
  <2>5. n > tr.trail_lim[DecisionLevel(tr)] /\ tr.trail_lim[DecisionLevel(tr)] \in Nat /\ n <= i
    BY <1>1, <1>3, <1>5, <2>3, <2>4, CurrentPosition
  <2>6. i > tr.trail_lim[DecisionLevel(tr)]
    BY <2>1, <2>3, <2>5
  <2>7. tr.level[VarOf(tr.trail[i])] = DecisionLevel(tr)
    BY <1>1, <1>3, <2>1, <2>6, CurrentPosition
  <2> QED
    BY <2>1, <2>7 DEF CurrentSeen
<1> QED
  BY <1>2, <1>3, <1>4, <1>5

\* A seen literal that no clause forces is the decision: the only one left.
LEMMA DecisionLast ==
    ASSUME ReasonInv, Undisturbed, Counted, pc = "mark", an.lits = << >>,
           NEW i \in SeenBelow, \A j \in SeenBelow : j <= i,
           tr.reason[VarOf(tr.trail[i])] <= 0
    PROVE  Cardinality(CurrentSeen) = 1
<1>1. /\ Inv /\ tr \in TrailRecords /\ TrailInv(tr) /\ SearchOK
      /\ Len(tr.trail) \in Nat /\ DecisionLevel(tr) \in Nat
  BY ReasonTypes, TrailTypes DEF ReasonInv, WatchInv, DecisionLevel
<1>2. PICK v : v = VarOf(tr.trail[i])
  OBVIOUS
<1>3. i \in 1..Len(tr.trail) /\ v \in CurrentSeen /\ DecisionLevel(tr) > 0
  BY <1>2, LastSeen
<1>4. tr.reason[v] \in {ReasonUnit, ReasonDecision} /\ tr.level[v] = DecisionLevel(tr)
  <2>1. tr.reason[v] \in Reasons
    BY <1>1, <1>2, <1>3, ReasonTypes, TrailTypes
  <2>2. tr.level[v] = DecisionLevel(tr)
    BY <1>3 DEF CurrentSeen
  <2> QED
    BY <1>2, <2>1, <2>2 DEF Reasons, ReasonUnit, ReasonDecision
<1>5. JustifiedAt(tr, arena, i)
  BY <1>1, <1>3 DEF SearchOK, Justified
<1>6. tr.trail_lim[DecisionLevel(tr)] = i - 1
  BY <1>1, <1>2, <1>3, <1>4, <1>5 DEF JustifiedAt
<1>7. ASSUME NEW u \in CurrentSeen PROVE u = v
  <2>1. tr.level[u] = DecisionLevel(tr)
    BY DEF CurrentSeen
  <2>2. PICK n \in SeenBelow : n \in 1..Len(tr.trail) /\ VarOf(tr.trail[n]) = u
    BY LastSeen
  <2>3. n > i - 1
    BY <1>1, <1>3, <1>6, <2>1, <2>2, CurrentPosition
  <2>4. n <= i
    BY <2>2
  <2>5. n = i
    BY <1>3, <2>2, <2>3, <2>4
  <2> QED
    BY <1>2, <2>2, <2>5
<1>8. CurrentSeen = {v}
  BY <1>3, <1>7
<1> QED
  <2> HIDE DEF CurrentSeen
  <2> QED
    BY <1>8, FS_Singleton

LEMMA PickHigh ==
    ASSUME ReasonInv, Undisturbed, Counted, PickLit PROVE Counted' /\ FirstHigh'
<1>1. /\ Inv /\ pc = "mark" /\ an.lits = << >> /\ UNCHANGED tr /\ tr \in TrailRecords
      /\ an.path_count = Cardinality(CurrentSeen)
  BY ReasonTypes DEF ReasonInv, WatchInv, PickLit, Counted
<1>2. PICK i \in SeenBelow :
        /\ i \in 1..Len(tr.trail) /\ VarOf(tr.trail[i]) \in an.seen
        /\ \A j \in SeenBelow : j <= i
        /\ an'.seen = an.seen \ {VarOf(tr.trail[i])}
        /\ an'.path_count = an.path_count - 1
        /\ \/ /\ an.path_count - 1 = 0 /\ pc' = "learned"
              /\ an'.learned[1] = Neg(tr.trail[i])
           \/ an.path_count - 1 # 0 /\ pc' = "mark"
           \/ an.path_count - 1 # 0 /\ tr.reason[VarOf(tr.trail[i])] <= 0
  BY <1>1, PickFacts, LastSeen
<1>3. PICK v : v = VarOf(tr.trail[i])
  OBVIOUS
<1>4. v \in CurrentSeen /\ tr.level[v] = DecisionLevel(tr)
  BY <1>1, <1>2, <1>3, LastSeen DEF CurrentSeen
<1>5. CASE an.path_count - 1 = 0 /\ pc' = "learned" /\ an'.learned[1] = Neg(tr.trail[i])
  <2>1. tr.trail[i] \in Lits
    BY <1>1, <1>2, TrailTypes
  <2>2. VarOf(an'.learned[1]) = v /\ Neg(an'.learned[1]) = tr.trail[i]
    BY <1>3, <1>5, <2>1, LitFacts
  <2>3. FalseNow(tr, an'.learned[1])
    BY <1>2, <2>2 DEF FalseNow, FalseBefore
  <2> QED
    BY <1>1, <1>4, <1>5, <2>2, <2>3 DEF Counted, FirstHigh, AtCurrent
<1>6. CASE an.path_count - 1 # 0 /\ pc' = "mark"
  <2>1. CurrentSeen' = CurrentSeen \ {v}
    BY <1>1, <1>2, <1>3 DEF CurrentSeen
  <2>2. IsFiniteSet(CurrentSeen) /\ Cardinality(CurrentSeen) \in Nat
    BY <1>1, CurrentFinite
  <2>3. Cardinality(CurrentSeen') = Cardinality(CurrentSeen) - 1
    <3> HIDE DEF CurrentSeen
    <3> QED
      BY <1>4, <2>1, <2>2, FS_RemoveElement
  <2>4. CurrentSeen' # {}
    BY <1>1, <1>6, <2>2, <2>3, FS_EmptySet
  <2> QED
    BY <1>1, <1>2, <1>6, <2>3, <2>4 DEF Counted, FirstHigh
<1>7. CASE an.path_count - 1 # 0 /\ tr.reason[VarOf(tr.trail[i])] <= 0
  BY <1>1, <1>2, <1>7, DecisionLast
<1> QED
  BY <1>2, <1>5, <1>6, <1>7

\* A backjump opens the literals of the levels it leaves.
LEMMA OpenedAbove ==
    ASSUME NEW t \in TrailRecords, TrailInv(t), NEW level \in Nat, level < DecisionLevel(t),
           NEW u, u = BacktrackTo(t, level), NEW l \in Lits, FalseNow(t, l),
           t.level[VarOf(l)] = DecisionLevel(t)
    PROVE  ~IsAssigned(u, VarOf(l))
<1>1. /\ DecisionLevel(t) \in Nat /\ DecisionLevel(t) = Len(t.trail_lim) /\ t.trail_lim \in Seq(Nat)
      /\ Len(t.trail) \in Nat /\ VarOf(l) \in Vars /\ VarOf(Neg(l)) = VarOf(l)
  BY TrailTypes, LitFacts
<1>2. PICK k \in 1..Len(t.trail) : t.trail[k] = Neg(l)
  BY DEF FalseNow, FalseBefore
<1>3. level + 1 \in 1..Len(t.trail_lim) /\ t.trail_lim[level + 1] \in Nat
  BY <1>1
<1>4. k > t.trail_lim[level + 1]
  BY <1>1, <1>2, <1>3 DEF TrailInv, LevelsAreSegments
<1>5. VarOf(l) \in Undone(t, level)
  <2>1. PICK m \in Nat : m = t.trail_lim[level + 1]
    BY <1>3
  <2>2. PICK n \in Nat : n = Len(t.trail)
    BY <1>1
  <2>3. k \in (m + 1)..n
    BY ONLY <1>4, <2>1, <2>2, k \in 1..Len(t.trail)
  <2>4. VarOf(t.trail[k]) = VarOf(l)
    BY ONLY <1>1, <1>2
  <2>5. Undone(t, level) = {VarOf(t.trail[i]) : i \in (m + 1)..n}
    BY <2>1, <2>2 DEF Undone
  <2> QED
    BY ONLY <2>3, <2>4, <2>5
<1>6. u.assigns[VarOf(l)] = "Undef"
  BY <1>1, <1>5 DEF BacktrackTo, TrailRecords
<1> QED
  BY <1>6 DEF IsAssigned

LEMMA BackjumpOpens ==
    ASSUME ReasonInv, Undisturbed, FirstHigh, Backjump, Undisturbed'
    PROVE  FirstOpen' /\ pc' \in {"reduce", "learn"}
<1>1. /\ Inv /\ pc = "learned" /\ pc' \in {"reduce", "learn"} /\ an \in AnRecords
      /\ tr \in TrailRecords /\ TrailInv(tr) /\ an' = [an EXCEPT !.lbd = Lbd(an.learned)]
  BY ReasonTypes DEF ReasonInv, WatchInv, Backjump
<1>2. an'.learned = an.learned /\ an.learned[1] \in Lits
  <2>1. an.learned \in Seq(Lits) /\ Len(an.learned) > 0
    BY <1>1, AnFacts DEF Inv, TypeOK, ControlOK
  <2>2. an'.learned = an.learned
    BY <1>1 DEF AnRecords
  <2> QED
    BY <2>1, <2>2, ElementFact
<1>3. FalseNow(tr, an.learned[1]) /\ tr.level[VarOf(an.learned[1])] = DecisionLevel(tr)
  BY <1>1 DEF FirstHigh, AtCurrent
<1>4. /\ an.backtrack_level \in Nat /\ an.backtrack_level < DecisionLevel(tr)
      /\ tr' = BacktrackTo(tr, an.backtrack_level)
  BY BackjumpLevel
<1>5. PICK u : u = tr'
  OBVIOUS
<1>6. ~IsAssigned(u, VarOf(an.learned[1]))
  BY <1>1, <1>2, <1>3, <1>4, <1>5, OpenedAbove
<1> QED
  BY <1>1, <1>2, <1>5, <1>6 DEF FirstOpen

-----------------------------------------------------------------------------
(* The invariant is inductive.                                              *)

LEMMA LearnConflictStep ==
    ASSUME PropInv, Undisturbed, LearnParts, Conflict, Undisturbed'
    PROVE  ConflictHigh' /\ Counted' /\ FirstHigh' /\ FirstOpen'
<1>1. ReasonInv /\ WatchInv /\ Inv
  BY DEF PropInv, ReasonInv, WatchInv
<1>2. CASE ConflictInAddClause \/ ConflictBeforeSearch \/ ConflictAtLevelZero \/ AssumptionsRefuted
           \/ Learn
  <2>1. pc' \notin {"conflict", "mark", "learned", "reduce", "learn"}
    BY <1>2 DEF ConflictInAddClause, ConflictBeforeSearch, ConflictAtLevelZero, AssumptionsRefuted, Learn
  <2> QED
    BY <2>1, LearnQuiet
<1>3. CASE StartAnalysis
  <2>1. pc' = "mark"
    BY <1>3 DEF StartAnalysis
  <2> QED
    BY <1>1, <1>3, <2>1, StartCounted DEF LearnParts, ConflictHigh, FirstHigh, FirstOpen
<1>4. CASE MarkLit
  <2>1. pc' = "mark"
    BY <1>4 DEF MarkLit
  <2> QED
    BY <1>1, <1>4, <2>1, MarkCounted DEF LearnParts, ConflictHigh, FirstHigh, FirstOpen
<1>5. CASE PickLit
  <2>1. pc' \in {"mark", "learned"}
    BY <1>5 DEF PickLit
  <2> QED
    BY <1>1, <1>5, <2>1, PickHigh DEF LearnParts, ConflictHigh, FirstOpen
<1>6. CASE Backjump
  BY <1>1, <1>6, BackjumpOpens DEF LearnParts, ConflictHigh, Counted, FirstHigh
<1>7. CASE ReduceDb
  <2>1. pc = "reduce" /\ pc' = "learn" /\ UNCHANGED <<tr, an>>
    BY <1>7 DEF ReduceDb
  <2> QED
    BY <2>1 DEF LearnParts, ConflictHigh, Counted, FirstHigh, FirstOpen
<1> QED
  BY <1>2, <1>3, <1>4, <1>5, <1>6, <1>7 DEF Conflict

LEMMA LearnPartsStep ==
    ASSUME PropInv, NothingFalse, Eager, Undisturbed, LearnParts, [Next]_vars, Undisturbed'
    PROVE  LearnParts'
<1>1. ReasonInv /\ WatchInv /\ Inv
  BY DEF PropInv, ReasonInv, WatchInv
<1>2. TheoryOpen'
  BY <1>1, TheoryOpenStep DEF LearnParts
<1>3. CASE UNCHANGED vars
  <2>1. UNCHANGED <<arena, tr, pc, an>>
    BY <1>3 DEF vars, db
  <2> QED
    BY <1>2, <2>1
    DEF LearnParts, ConflictHigh, Counted, FirstHigh, FirstOpen, AtCurrent, CurrentSeen
<1>4. CASE Client
  <2>1. pc' \notin {"conflict", "mark", "learned", "reduce", "learn"}
    BY <1>4 DEF Client, NewVar, AddClause, AddCleaned, Push, Pop, Solve, Call
  <2> QED
    BY <1>2, <2>1, LearnQuiet DEF LearnParts
<1>5. CASE VisitConflict
  <2>1. pc' = "conflict"
    BY <1>5 DEF VisitConflict
  <2> QED
    BY <1>2, <1>5, <2>1, VisitConflictHigh DEF LearnParts, Counted, FirstHigh, FirstOpen
<1>6. CASE Propagate /\ ~VisitConflict
  <2>1. pc' \notin {"conflict", "mark", "learned", "reduce", "learn"}
    BY <1>6
    DEF Propagate, BcpDequeue, VisitSkip, VisitSatisfied, VisitRewatch, VisitUnit, VisitEnd, BcpOk, Visit
  <2> QED
    BY <1>2, <2>1, LearnQuiet DEF LearnParts
<1>7. CASE Conflict
  BY <1>2, <1>7, LearnConflictStep DEF LearnParts
<1>8. CASE TheoryConflict
  <2>1. pc' = "conflict"
    BY <1>8 DEF TheoryConflict
  <2> QED
    BY <1>1, <1>2, <1>8, <2>1, TheoryConflictHigh DEF LearnParts, Counted, FirstHigh, FirstOpen
<1>9. CASE Search /\ ~TheoryConflict
  <2>1. pc' \notin {"conflict", "mark", "learned", "reduce", "learn"}
    BY <1>9
    DEF Search, BudgetExhausted, Loop, TheoryOk, DecideAssumption, DecideVar, Decide, AllAssigned,
        Finish, Return
  <2> QED
    BY <1>2, <2>1, LearnQuiet DEF LearnParts
<1> QED
  BY <1>3, <1>4, <1>5, <1>6, <1>7, <1>8, <1>9 DEF Next, Step

\* Only the assertion in Trail::assign of the learned literal can fail.
LEMMA PanicsInLearn ==
    ASSUME [Next]_vars, pc' = "panic"
    PROVE  /\ UNCHANGED restarts
           /\ \/ pc = "panic"
              \/ pc = "learn" /\ IsAssigned(tr, VarOf(an.learned[1]))
<1>1. CASE UNCHANGED vars
  BY <1>1 DEF vars, rest
<1>2. CASE Client
  BY <1>2 DEF Client, NewVar, AddClause, AddCleaned, Push, Pop, Solve, Call
<1>3. CASE Propagate
  BY <1>3
  DEF Propagate, BcpDequeue, VisitSkip, VisitSatisfied, VisitRewatch, VisitUnit, VisitConflict,
      VisitEnd, BcpOk, Visit
<1>4. CASE Learn
  BY <1>4 DEF Learn, rest
<1>5. CASE Conflict /\ ~Learn
  BY <1>5
  DEF Conflict, ConflictInAddClause, ConflictBeforeSearch, ConflictAtLevelZero, StartAnalysis,
      MarkLit, PickLit, AssumptionsRefuted, Backjump, ReduceDb
<1>6. CASE Search
  BY <1>6
  DEF Search, BudgetExhausted, Loop, TheoryConflict, TheoryOk, DecideAssumption, DecideVar, Decide,
      AllAssigned, Finish, Return
<1> QED
  BY <1>1, <1>2, <1>3, <1>4, <1>5, <1>6 DEF Next, Step

LEMMA LearnInit == Init => LearnInv
<1> SUFFICES ASSUME Init PROVE LearnInv
  OBVIOUS
<1>1. PropInv /\ NothingFalse /\ pc = "idle" /\ tr.trail_lim = << >>
  BY PropInit DEF Init, NewTrail, NothingFalse
<1>2. LearnParts
  BY <1>1
  DEF LearnParts, TheoryOpen, ConflictHigh, Counted, FirstHigh, FirstOpen, DecisionLevel
<1> QED
  BY <1>1, <1>2 DEF LearnInv

LEMMA LearnNext == ASSUME LearnInv, [Next]_vars PROVE LearnInv'
<1>1. PropInv' /\ NothingFalse'
  BY PropNext, NothingFalseStep DEF LearnInv
<1>2. ASSUME Unrestarted', Eager PROVE pc' # "panic" /\ LearnParts'
  <2>1. pc' # "panic"
    <3> SUFFICES ASSUME pc' = "panic" PROVE FALSE
      OBVIOUS
    <3>1. /\ Unrestarted
          /\ \/ pc = "panic"
             \/ pc = "learn" /\ IsAssigned(tr, VarOf(an.learned[1]))
      <4>1. /\ UNCHANGED restarts
            /\ \/ pc = "panic"
               \/ pc = "learn" /\ IsAssigned(tr, VarOf(an.learned[1]))
        BY PanicsInLearn
      <4> QED
        BY <1>2, <4>1 DEF Unrestarted
    <3> QED
      BY <1>2, <3>1 DEF LearnInv, LearnParts, FirstOpen
  <2>2. Undisturbed' /\ Inv
    BY <1>2, <2>1 DEF Undisturbed, LearnInv, PropInv, ReasonInv, WatchInv
  <2>3. Undisturbed
    BY <2>2, StaysUndisturbed
  <2>4. LearnParts'
    BY <1>2, <2>2, <2>3, LearnPartsStep DEF LearnInv, Undisturbed
  <2> QED
    BY <2>1, <2>4
<1> QED
  BY <1>1, <1>2 DEF LearnInv, Eager

\* After the backjump the learned clause asserts its first literal.
LEMMA LearnAsserts == ASSUME LearnInv, Eager PROVE LearnedAsserting
<1> SUFFICES ASSUME pc = "learn", Unrestarted
             PROVE  /\ ~IsAssigned(tr, VarOf(an.learned[1]))
                    /\ \A i \in 2..Len(an.learned) : IsFalse(tr, an.learned[i])
  BY DEF LearnedAsserting
<1>1. ReasonInv /\ Inv /\ Undisturbed /\ LearnParts
  BY DEF LearnInv, PropInv, ReasonInv, WatchInv, Undisturbed
<1>2. ~IsAssigned(tr, VarOf(an.learned[1]))
  BY <1>1 DEF LearnParts, FirstOpen
<1>3. ASSUME NEW i \in 2..Len(an.learned) PROVE IsFalse(tr, an.learned[i])
  <2>1. an.learned \in Seq(Lits) /\ tr \in TrailRecords /\ TrailInv(tr)
    BY <1>1, ReasonTypes, AnFacts
  <2>2. an.learned[i] \in Lits
    BY <1>3, <2>1, ElementFact
  <2>3. FalseNow(tr, an.learned[i])
    BY <1>1, <1>3 DEF ReasonInv, SearchOK, Learned
  <2> QED
    BY <2>1, <2>2, <2>3, FalseIsOnTrail
<1> QED
  BY <1>2, <1>3

\* Conflict analysis learns an asserting clause: where it is recorded, the
\* backjump has left its first literal open and its others false.  This holds
\* until a restart assigns a learned literal away from its level, for a theory
\* that reports a false clause at once: the clause in conflict then has a
\* literal of the current level to count, and analysis stops at the last.
THEOREM LearnsAsserting == Spec => [](Eager => LearnedAsserting)
<1>1. Init => LearnInv
  BY LearnInit
<1>2. LearnInv /\ [Next]_vars => LearnInv'
  BY LearnNext
<1>3. LearnInv => (Eager => LearnedAsserting)
  BY LearnAsserts
<1> QED
  BY <1>1, <1>2, <1>3, PTL DEF Spec

\* Under the same conditions the assertion in Trail::assign never fails: the
\* literal that is learned is not assigned twice.
THEOREM NeverPanics == Spec => []((Unrestarted /\ Eager) => pc # "panic")
<1>1. Init => LearnInv
  BY LearnInit
<1>2. LearnInv /\ [Next]_vars => LearnInv'
  BY LearnNext
<1>3. LearnInv => ((Unrestarted /\ Eager) => pc # "panic")
  BY DEF LearnInv
<1> QED
  BY <1>1, <1>2, <1>3, PTL DEF Spec
=============================================================================
