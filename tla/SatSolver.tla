----------------------------- MODULE SatSolver -----------------------------
(***************************************************************************)
(* The CDCL(T) core of smt-sat (solver.rs, clause.rs, watch.rs), one       *)
(* sequential solver and the client that calls it.  `calls` is what the    *)
(* client still asks; `pc` is where the solver is inside the current call. *)
(*                                                                         *)
(*   idle -> bcp <-> visit, conflict            (add_clause, solve)        *)
(*   loop -> bcp <-> visit -> theory -> decide -> loop   (solve_internal)  *)
(*   conflict -> mark <-> pick -> learned -> reduce -> learn -> loop       *)
(*                                                                         *)
(* The order of VSIDS is left open: any unassigned variable of `heap` may  *)
(* be its maximum.  The theory is external: a set of valid clauses, of     *)
(* which `check` reports one whose literals are all false.                 *)
(***************************************************************************)
EXTENDS Trail, DratChecker, RestartStrategy, FiniteSets

CONSTANTS Scripts,         \* the sequences of calls a client may make
          TheoryClauses,   \* theory-valid clauses, as sequences of literals
          EagerTheory,     \* check reports a false theory clause at once
          DratEnabled,     \* enable_drat
          MaxLearned,      \* initial max_learned, 4000 in the code
          LearnedStep      \* its increase per reduction, 500 in the code

Calls == [op : {"new_var", "push", "pop"}]
         \cup [op : {"add_clause"}, lits : Seq(Lits)]
         \cup [op : {"solve"}, assumptions : Seq(Lits), budget : BOOLEAN]

ASSUME SolverAssumption ==
    /\ Scripts \subseteq Seq(Calls)
    /\ TheoryClauses \subseteq Seq(Lits)
    /\ EagerTheory \in BOOLEAN /\ DratEnabled \in BOOLEAN
    /\ MaxLearned \in Nat /\ LearnedStep \in Nat

VARIABLES
    calls, inputs,         \* client: calls to make; clauses in force (history)
    num_vars, ok, arena, watches, tr, heap, restarts, proof, max_learned, scopes, model,
    th,                    \* theory: asserted literals and their scopes
    pc,
    bcp,                   \* bcp(): literal, watchers left and kept, who called
    an,                    \* analyze_conflict(): its local variables
    sv                     \* solve_with_theory(): its local variables

db == <<arena, watches>>
client == <<calls, inputs>>
rest == <<num_vars, ok, restarts, max_learned, scopes, model>>
vars == <<client, db, rest, tr, heap, proof, th, pc, bcp, an, sv>>

-----------------------------------------------------------------------------
(* Data.                                                                    *)

\* A clause of the arena and a watcher of it; clause ids are positions.
NewClause(lits, learned, lbd) ==
    [lits |-> lits, learned |-> learned, lbd |-> lbd, deleted |-> FALSE]
Watcher(cid, blocker) == [clause |-> cid, blocker |-> blocker]

\* Mutant: only the first literal is watched.
AttachFirst(w, cid, c) ==
    [l \in Lits |-> w[l] \o (IF l = Neg(c[1]) THEN <<Watcher(cid, c[2])>> ELSE << >>)]

\* The watch lists after a clause with literals c is attached under id cid.
Attach(w, cid, c) ==
    [l \in Lits |-> w[l] \o (IF l = Neg(c[1]) THEN <<Watcher(cid, c[2])>> ELSE << >>)
                         \o (IF l = Neg(c[2]) THEN <<Watcher(cid, c[1])>> ELSE << >>)]

\* Mutant: the empty clause is not recorded.
LogNonEmpty(line) ==
    IF DratEnabled /\ line.lits # << >> THEN Append(proof, line) ELSE proof

\* DratProof records nothing unless enabled.
Log(line) == IF DratEnabled THEN Append(proof, line) ELSE proof

\* The elements of a finite set in order: one sequence, if the order is total.
Sorted(S, Before(_, _)) ==
    {s \in [1..Cardinality(S) -> S] : \A i, j \in DOMAIN s : i < j => Before(s[i], s[j])}

\* The theory's scopes follow the decision levels.
NewTheory == [asserted |-> << >>, lims |-> << >>]
TheoryAssert(x, lits) == [x EXCEPT !.asserted = @ \o lits]
TheoryPush(x) == [x EXCEPT !.lims = Append(@, Len(x.asserted))]

\* Mutant: one scope is popped, however far the search backtracks.
TheoryPopOne(x, level) ==
    IF Len(x.lims) > level
    THEN [asserted |-> SubSeq(x.asserted, 1, x.lims[Len(x.lims)]), lims |-> Front(x.lims)]
    ELSE x

TheoryPopTo(x, level) ==
    IF Len(x.lims) > level
    THEN [asserted |-> SubSeq(x.asserted, 1, x.lims[level + 1]), lims |-> SubSeq(x.lims, 1, level)]
    ELSE x

Inputs == {ToSet(inputs[i]) : i \in 1..Len(inputs)}
Theory == {ToSet(c) : c \in TheoryClauses}

Init ==
    /\ calls \in Scripts /\ inputs = << >>
    /\ num_vars = 0 /\ ok = TRUE /\ arena = << >> /\ watches = [l \in Lits |-> << >>]
    /\ tr = NewTrail /\ heap = {} /\ restarts = NewRestarts /\ proof = << >>
    /\ max_learned = MaxLearned /\ scopes = << >> /\ model = << >>
    /\ th = NewTheory
    /\ pc = "idle"
    /\ bcp = [lit |-> LitZero, todo |-> << >>, keep |-> << >>, caller |-> "add_clause"]
    /\ an = [conflict |-> 0, origin |-> "bcp", learned |-> << >>, seen |-> {},
             path_count |-> 0, backtrack_level |-> 0, lits |-> << >>, pivot |-> 0,
             trail_idx |-> 0, lbd |-> 0]
    /\ sv = [assumptions |-> << >>, cur |-> 0, budget |-> FALSE, old_trail_len |-> 0,
             result |-> "Undef"]

-----------------------------------------------------------------------------
(* The client's calls.                                                      *)

Call(op) == pc = "idle" /\ calls # << >> /\ Head(calls).op = op /\ calls' = Tail(calls)

\* new_var; also what add_clause does for each variable it has not seen.
NewVar ==
    /\ Call("new_var") /\ num_vars < NumVars
    /\ num_vars' = num_vars + 1
    /\ heap' = heap \cup {num_vars + 1}
    /\ UNCHANGED <<inputs, db, ok, restarts, max_learned, scopes, model, tr, proof, th, pc,
                   bcp, an, sv>>

\* Mutant: a clause with any assigned literal is dropped.
RedundantIfAssigned(lits) ==
    \E l \in ToSet(lits) : IsAssigned(tr, VarOf(l)) \/ Neg(l) \in ToSet(lits)

\* add_clause.  Its literals are sorted and freed of duplicates and of those
\* false at level 0; a satisfied clause or a tautology is dropped.
Cleaned(lits) == Sorted({l \in ToSet(lits) : ~IsFalse(tr, l)}, LitBefore)
Redundant(lits) ==
    \E l \in ToSet(lits) : IsTrue(tr, l) \/ (Neg(l) \in ToSet(lits) /\ ~IsFalse(tr, l))

\* Variables up to the highest of the clause are created,
AddVars(lits) ==
    /\ \E top \in {num_vars} \cup {VarOf(l) : l \in ToSet(lits)} :
         /\ top >= num_vars /\ \A l \in ToSet(lits) : top >= VarOf(l)
         /\ num_vars' = top
         /\ heap' = heap \cup ((num_vars + 1)..top)
    /\ UNCHANGED <<restarts, max_learned, scopes, model>>

\* and what is left of it refutes, is propagated or is stored.
AddCleaned(c) ==
    \/ /\ c = << >>
       /\ proof' = Log(AddLine(<< >>)) /\ ok' = FALSE
       /\ UNCHANGED <<db, tr, pc, bcp>>
    \/ /\ Len(c) = 1
       /\ tr' = Assign(tr, c[1], ReasonUnit)
       /\ pc' = "bcp" /\ bcp' = [bcp EXCEPT !.caller = "add_clause"]
       /\ UNCHANGED <<db, ok, proof>>
    \/ /\ Len(c) > 1
       /\ arena' = Append(arena, NewClause(c, FALSE, 0))
       /\ watches' = Attach(watches, Len(arena) + 1, c)
       /\ UNCHANGED <<ok, tr, proof, pc, bcp>>

AddClause ==
    /\ Call("add_clause")
    /\ LET lits == Head(calls).lits
       IN  /\ inputs' = Append(inputs, lits)
           /\ \/ ~ok /\ UNCHANGED <<db, rest, tr, heap, proof, pc, bcp>>
              \/ ok /\ AddVars(lits) /\ Redundant(lits)
                 /\ UNCHANGED <<db, ok, tr, proof, pc, bcp>>
              \/ ok /\ AddVars(lits) /\ ~Redundant(lits)
                 /\ \E c \in Cleaned(lits) : AddCleaned(c)
    /\ UNCHANGED <<th, an, sv>>

Push ==
    /\ Call("push")
    /\ scopes' = Append(scopes, [clause_count |-> Len(arena), inputs |-> Len(inputs)])
    /\ UNCHANGED <<inputs, db, num_vars, ok, restarts, max_learned, model, tr, heap, proof, th,
                   pc, bcp, an, sv>>

\* Mutant: unassigned variables are not handed back to VSIDS.
ReinsertedNever(level) == heap

\* backtrack_to: the heap once the variables it unassigns are inserted again.
Reinserted(level) == heap \cup Undone(tr, level)

\* The arena after the clauses of S are marked deleted.
WithDeleted(S) ==
    [i \in 1..Len(arena) |-> IF i \in S THEN [arena[i] EXCEPT !.deleted = TRUE] ELSE arena[i]]
ClausesSince(scope) == (scope.clause_count + 1)..Len(arena)

Pop ==
    /\ Call("pop")
    /\ IF scopes = << >>
       THEN UNCHANGED <<inputs, db, rest, tr, heap>>
       ELSE LET scope == scopes[Len(scopes)]
            IN  /\ scopes' = Front(scopes)
                /\ tr' = BacktrackTo(tr, 0)
                /\ heap' = Reinserted(0)
                /\ max_learned' = MaxLearned
                /\ arena' = WithDeleted(ClausesSince(scope))
                /\ inputs' = SubSeq(inputs, 1, scope.inputs)
                /\ UNCHANGED <<watches, num_vars, ok, restarts, model>>
    /\ UNCHANGED <<proof, th, pc, bcp, an, sv>>

\* solve_with_theory up to its first bcp; every call comes with a fresh theory.
Solve ==
    /\ Call("solve")
    /\ sv' = [assumptions |-> Head(calls).assumptions, cur |-> 0,
              budget |-> Head(calls).budget, old_trail_len |-> 0,
              result |-> IF ok THEN "Undef" ELSE "False"]
    /\ th' = NewTheory
    /\ IF ok
       THEN /\ tr' = BacktrackTo(tr, 0)
            /\ heap' = Reinserted(0)
            /\ pc' = "bcp" /\ bcp' = [bcp EXCEPT !.caller = "solve_with_theory"]
       ELSE pc' = "answered" /\ UNCHANGED <<tr, heap, bcp>>
    /\ UNCHANGED <<inputs, db, rest, proof, an>>

-----------------------------------------------------------------------------
(* bcp(): unit propagation over the two watched literals of each clause.    *)

BcpDequeue ==
    /\ pc = "bcp" /\ HasUnpropagated(tr)
    /\ LET p == NextUnpropagated(tr)
       IN  /\ bcp' = [bcp EXCEPT !.lit = p, !.todo = watches[p], !.keep = << >>]
           /\ watches' = [watches EXCEPT ![p] = << >>]
    /\ tr' = Dequeue(tr)
    /\ pc' = "visit"
    /\ UNCHANGED <<client, arena, rest, heap, proof, th, an, sv>>

\* The watcher at hand, its clause once the false literal is in position 2,
\* and the positions a new literal to watch can be taken from.
AtHand == Head(bcp.todo)
Swapped(c) ==
    IF c[1] = Neg(bcp.lit) THEN [c EXCEPT ![1] = c[2], ![2] = Neg(bcp.lit)] ELSE c
ClauseAtHand == Swapped(arena[AtHand.clause].lits)
First == ClauseAtHand[1]
NewWatches == {i \in 3..Len(ClauseAtHand) : ~IsFalse(tr, ClauseAtHand[i])}

Visit(skip) ==
    /\ pc = "visit" /\ bcp.todo # << >>
    /\ skip <=> (arena[AtHand.clause].deleted \/ IsTrue(tr, AtHand.blocker))
KeepRest == UNCHANGED <<client, rest, heap, proof, th, an, sv>>

\* A deleted clause loses its watcher, a true blocker keeps it unread.
VisitSkip ==
    /\ Visit(TRUE)
    /\ bcp' = [bcp EXCEPT !.todo = Tail(@),
                          !.keep = IF arena[AtHand.clause].deleted THEN @ ELSE Append(@, AtHand)]
    /\ UNCHANGED <<db, tr, pc>> /\ KeepRest

VisitSatisfied ==
    /\ Visit(FALSE) /\ IsTrue(tr, First)
    /\ arena' = [arena EXCEPT ![AtHand.clause].lits = ClauseAtHand]
    /\ bcp' = [bcp EXCEPT !.todo = Tail(@), !.keep = Append(@, Watcher(AtHand.clause, First))]
    /\ UNCHANGED <<watches, tr, pc>> /\ KeepRest

VisitRewatch ==
    /\ Visit(FALSE) /\ ~IsTrue(tr, First) /\ NewWatches # {}
    /\ \E i \in NewWatches :
         LET cand == ClauseAtHand[i]
         IN  /\ \A j \in NewWatches : i <= j
             /\ arena' = [arena EXCEPT ![AtHand.clause].lits =
                             [ClauseAtHand EXCEPT ![2] = cand, ![i] = Neg(bcp.lit)]]
             /\ watches' = [watches EXCEPT ![Neg(cand)] =
                               Append(@, Watcher(AtHand.clause, First))]
    /\ bcp' = [bcp EXCEPT !.todo = Tail(@)]
    /\ UNCHANGED <<tr, pc>> /\ KeepRest

VisitUnit ==
    /\ Visit(FALSE) /\ NewWatches = {} /\ LitValue(tr, First) = "Undef"
    /\ arena' = [arena EXCEPT ![AtHand.clause].lits = ClauseAtHand]
    /\ tr' = Assign(tr, First, AtHand.clause)
    /\ bcp' = [bcp EXCEPT !.todo = Tail(@), !.keep = Append(@, Watcher(AtHand.clause, First))]
    /\ UNCHANGED <<watches, pc>> /\ KeepRest

\* A conflict keeps this and all remaining watchers.
VisitConflict ==
    /\ Visit(FALSE) /\ NewWatches = {} /\ IsFalse(tr, First)
    /\ arena' = [arena EXCEPT ![AtHand.clause].lits = ClauseAtHand]
    /\ watches' = [watches EXCEPT ![bcp.lit] =
                      Append(bcp.keep, Watcher(AtHand.clause, First)) \o Tail(bcp.todo)]
    /\ bcp' = [bcp EXCEPT !.todo = << >>, !.keep = << >>]
    /\ pc' = "conflict" /\ an' = [an EXCEPT !.conflict = AtHand.clause, !.origin = "bcp"]
    /\ UNCHANGED <<client, rest, tr, heap, proof, th, sv>>

VisitEnd ==
    /\ pc = "visit" /\ bcp.todo = << >>
    /\ watches' = [watches EXCEPT ![bcp.lit] = bcp.keep]
    /\ bcp' = [bcp EXCEPT !.keep = << >>]
    /\ pc' = "bcp"
    /\ UNCHANGED <<arena, tr>> /\ KeepRest

\* bcp() returns Ok: the caller goes on; solve_with_theory and solve_internal
\* tell the theory what has been assigned.
BcpOk ==
    /\ pc = "bcp" /\ ~HasUnpropagated(tr)
    /\ \/ /\ bcp.caller = "add_clause" /\ pc' = "idle" /\ UNCHANGED <<th, scopes>>
       \/ /\ bcp.caller = "solve_with_theory" /\ pc' = "loop"
          /\ th' = TheoryAssert(th, tr.trail)
          /\ scopes' = IF sv.assumptions = << >> THEN scopes
                       ELSE Append(scopes, [clause_count |-> Len(arena), inputs |-> Len(inputs)])
       \/ /\ bcp.caller = "solve_internal" /\ pc' = "theory"
          /\ th' = TheoryAssert(th, SubSeq(tr.trail, sv.old_trail_len + 1, Len(tr.trail)))
          /\ UNCHANGED scopes
    /\ UNCHANGED <<client, db, num_vars, ok, restarts, max_learned, model, tr, heap, proof, bcp, an, sv>>

-----------------------------------------------------------------------------
(* bcp() returns Err, by caller.                                            *)

Answer(result) == sv' = [sv EXCEPT !.result = result]
AssumptionRun == sv.assumptions # << >>

ConflictInAddClause ==
    /\ pc = "conflict" /\ an.origin = "bcp" /\ bcp.caller = "add_clause"
    /\ proof' = Log(AddLine(<< >>)) /\ ok' = FALSE /\ pc' = "idle"
    /\ UNCHANGED <<client, db, num_vars, restarts, max_learned, scopes, model, tr, heap, th,
                   bcp, an, sv>>

ConflictBeforeSearch ==
    /\ pc = "conflict" /\ an.origin = "bcp" /\ bcp.caller = "solve_with_theory"
    /\ ok' = FALSE /\ Answer("False") /\ pc' = "answered"
    /\ UNCHANGED <<client, db, num_vars, restarts, max_learned, scopes, model, tr, heap, proof,
                   th, bcp, an>>

InSearch == bcp.caller = "solve_internal"

\* Level 0: only the propagation branch closes the certificate.
ConflictAtLevelZero ==
    /\ pc = "conflict" /\ InSearch /\ DecisionLevel(tr) = 0
    /\ proof' = IF an.origin = "bcp" THEN Log(AddLine(<< >>)) ELSE proof
    /\ ok' = (ok /\ AssumptionRun)
    /\ Answer("False") /\ pc' = "finish"
    /\ UNCHANGED <<client, db, num_vars, restarts, max_learned, scopes, model, tr, heap, th,
                   bcp, an>>

-----------------------------------------------------------------------------
(* analyze_conflict(): resolve back along the trail to the first unique     *)
(* implication point.  `seen` is the set of variables marked seen.          *)

StartAnalysis ==
    /\ pc = "conflict" /\ InSearch /\ DecisionLevel(tr) > 0
    /\ an' = [an EXCEPT !.learned = <<LitZero>>, !.seen = {}, !.path_count = 0,
                        !.backtrack_level = 0, !.lits = arena[an.conflict].lits,
                        !.pivot = 0, !.trail_idx = Len(tr.trail)]
    /\ pc' = "mark"
    /\ UNCHANGED <<client, db, rest, tr, heap, proof, th, bcp, sv>>

\* Mutant: literals of level 1 are left out like those of level 0.
MarkedAboveLevelOne(x, l) ==
    LET v == VarOf(l)
        lvl == tr.level[v]
    IN  IF v \in x.seen \cup {x.pivot} THEN x
        ELSE IF lvl = DecisionLevel(tr) THEN [x EXCEPT !.seen = @ \cup {v}, !.path_count = @ + 1]
        ELSE IF lvl > 1 THEN [x EXCEPT !.seen = @ \cup {v}, !.learned = Append(@, l),
                                       !.backtrack_level = IF lvl > @ THEN lvl ELSE @]
        ELSE [x EXCEPT !.seen = @ \cup {v}]

\* Mutant: backtrack_level is the level of the last lower literal, not the highest.
MarkedLastLevel(x, l) ==
    LET v == VarOf(l)
        lvl == tr.level[v]
    IN  IF v \in x.seen \cup {x.pivot} THEN x
        ELSE IF lvl = DecisionLevel(tr) THEN [x EXCEPT !.seen = @ \cup {v}, !.path_count = @ + 1]
        ELSE IF lvl > 0 THEN [x EXCEPT !.seen = @ \cup {v}, !.learned = Append(@, l),
                                       !.backtrack_level = lvl]
        ELSE [x EXCEPT !.seen = @ \cup {v}]

\* The analysis after one literal of the clause at hand; `pivot` is the
\* variable that clause is resolved on.
Marked(x, l) ==
    LET v == VarOf(l)
        lvl == tr.level[v]
    IN  IF v \in x.seen \cup {x.pivot} THEN x
        ELSE IF lvl = DecisionLevel(tr) THEN [x EXCEPT !.seen = @ \cup {v}, !.path_count = @ + 1]
        ELSE IF lvl > 0 THEN [x EXCEPT !.seen = @ \cup {v}, !.learned = Append(@, l),
                                       !.backtrack_level = IF lvl > @ THEN lvl ELSE @]
        ELSE [x EXCEPT !.seen = @ \cup {v}]

MarkLit ==
    /\ pc = "mark" /\ an.lits # << >>
    /\ an' = [Marked(an, Head(an.lits)) EXCEPT !.lits = Tail(@)]
    /\ UNCHANGED <<client, db, rest, tr, heap, proof, th, pc, bcp, sv>>

\* The next seen literal down the trail; none ends the analysis.
SeenBelow == {i \in 1..an.trail_idx : VarOf(tr.trail[i]) \in an.seen}

PickLit ==
    /\ pc = "mark" /\ an.lits = << >>
    /\ \/ /\ SeenBelow = {}
          /\ an' = [an EXCEPT !.trail_idx = 0] /\ pc' = "learned"
       \/ \E i \in SeenBelow :
            LET l == tr.trail[i]
                x == [an EXCEPT !.trail_idx = i - 1, !.seen = @ \ {VarOf(l)},
                                !.path_count = @ - 1]
            IN  /\ \A j \in SeenBelow : j <= i
                /\ \/ /\ x.path_count = 0
                      /\ an' = [x EXCEPT !.learned[1] = Neg(l)] /\ pc' = "learned"
                   \/ /\ x.path_count # 0 /\ tr.reason[VarOf(l)] > 0
                      /\ an' = [x EXCEPT !.lits = arena[tr.reason[VarOf(l)]].lits,
                                         !.pivot = VarOf(l)]
                      /\ UNCHANGED pc
                   \/ /\ x.path_count # 0 /\ tr.reason[VarOf(l)] <= 0
                      /\ an' = x /\ pc' = "learned"
    /\ UNCHANGED <<client, db, rest, tr, heap, proof, th, bcp, sv>>

-----------------------------------------------------------------------------
(* After the analysis.                                                      *)

\* Mutant: the search goes on below the assumption levels.
RefutesNothing == FALSE

\* A conflict that reaches below the assumption levels ends the call.
RefutesAssumptions == AssumptionRun /\ an.backtrack_level < Len(sv.assumptions)

AssumptionsRefuted ==
    /\ pc = "learned" /\ RefutesAssumptions
    /\ Answer("False") /\ pc' = "finish"
    /\ UNCHANGED <<client, db, rest, tr, heap, proof, th, bcp, an>>

\* Literal block distance of the learned clause, kept where its place is.
Lbd(learned) == Cardinality({tr.level[VarOf(learned[i])] : i \in 1..Len(learned)})

\* Backjump, and on a conflict of bcp() possibly a restart on top of it.
Backjump ==
    /\ pc = "learned" /\ ~RefutesAssumptions
    /\ \E degraded \in BOOLEAN :
         LET restart == an.origin = "bcp" /\ RestartDue(restarts, degraded)
             level == IF restart THEN 0 ELSE an.backtrack_level
         IN  /\ restarts' = IF an.origin = "bcp" THEN RecordConflict(restarts, degraded)
                            ELSE restarts
             /\ tr' = BacktrackTo(tr, level)
             /\ heap' = Reinserted(level)
             /\ th' = TheoryPopTo(th, level)
    /\ an' = [an EXCEPT !.lbd = Lbd(an.learned)]
    /\ pc' = IF an.origin = "bcp" THEN "reduce" ELSE "learn"
    /\ UNCHANGED <<client, db, num_vars, ok, max_learned, scopes, model, proof, bcp, sv>>

\* reduce_db(): half of the long learned clauses go, worst and oldest first,
\* except good ones and the reasons of literals on the trail.
Reducible == {c \in 1..Len(arena) :
                arena[c].learned /\ ~arena[c].deleted /\ Len(arena[c].lits) > 2}

\* Mutant: reasons of assigned literals may be evicted.
LockedNever(c) == FALSE

Locked(c) == LET v == VarOf(arena[c].lits[1]) IN IsAssigned(tr, v) /\ tr.reason[v] = c
WorseThan(c, d) == \/ arena[c].lbd > arena[d].lbd
                   \/ arena[c].lbd = arena[d].lbd /\ c < d
Evicted ==
    LET candidates == {c \in Reducible : arena[c].lbd > 2 /\ ~Locked(c)}
    IN  {c \in candidates :
           Cardinality({d \in candidates : WorseThan(d, c)}) < Cardinality(Reducible) \div 2}

ReduceDb ==
    /\ pc = "reduce" /\ pc' = "learn"
    /\ IF Cardinality(Reducible) < max_learned
       THEN UNCHANGED <<arena, proof, max_learned>>
       ELSE /\ arena' = WithDeleted(Evicted)
            /\ \E order \in Sorted(Evicted, WorseThan) :
                 LET lines == [i \in DOMAIN order |-> DeleteLine(arena[order[i]].lits)]
                 IN  proof' = IF DratEnabled THEN proof \o lines ELSE proof
            /\ max_learned' = max_learned + LearnedStep
    /\ UNCHANGED <<client, watches, num_vars, ok, restarts, scopes, model, tr, heap, th, bcp, an, sv>>

\* The learned clause is recorded and its first literal assigned; a unit
\* learned from a theory conflict is the one clause that is not logged.
Learn ==
    /\ pc = "learn"
    /\ LET lit == an.learned[1]
           id == Len(arena) + 1
           unit == Len(an.learned) = 1
       IN  /\ IF unit
              THEN UNCHANGED db
              ELSE /\ arena' = Append(arena, NewClause(an.learned, TRUE, an.lbd))
                   /\ watches' = Attach(watches, id, an.learned)
           /\ proof' = IF unit /\ an.origin = "theory" THEN proof ELSE Log(AddLine(an.learned))
           /\ IF IsAssigned(tr, VarOf(lit))
              THEN pc' = "panic" /\ UNCHANGED <<tr, th>>
              ELSE /\ tr' = Assign(tr, lit, IF unit THEN ReasonUnit ELSE id)
                   /\ th' = TheoryAssert(th, <<lit>>)
                   /\ pc' = "loop"
    /\ UNCHANGED <<client, rest, heap, bcp, an, sv>>

-----------------------------------------------------------------------------
(* solve_internal(): the search loop.                                       *)

\* max_conflicts or max_propagations is reached.
BudgetExhausted ==
    /\ pc = "loop" /\ sv.budget
    /\ Answer("Undef") /\ pc' = "finish"
    /\ UNCHANGED <<client, db, rest, tr, heap, proof, th, bcp, an>>

Loop ==
    /\ pc = "loop" /\ pc' = "bcp"
    /\ bcp' = [bcp EXCEPT !.caller = "solve_internal"]
    /\ sv' = [sv EXCEPT !.old_trail_len = Len(tr.trail)]
    /\ UNCHANGED <<client, db, rest, tr, heap, proof, th, an>>

FalseTheoryClauses ==
    {c \in TheoryClauses : \A i \in 1..Len(c) : Neg(c[i]) \in ToSet(th.asserted)}

\* The theory's clause joins the arena unwatched, as a learned clause, unless
\* the conflict is at level 0.
TheoryConflict ==
    /\ pc = "theory" /\ pc' = "conflict"
    /\ \E c \in FalseTheoryClauses :
         arena' = IF DecisionLevel(tr) = 0 THEN arena ELSE Append(arena, NewClause(c, TRUE, 2))
    /\ an' = [an EXCEPT !.conflict = Len(arena) + 1, !.origin = "theory"]
    /\ UNCHANGED <<client, watches, rest, tr, heap, proof, th, bcp, sv>>

\* check() is Ok; propagate() returns nothing in every theory of the repository.
TheoryOk ==
    /\ pc = "theory" /\ (EagerTheory => FalseTheoryClauses = {})
    /\ pc' = "decide"
    /\ UNCHANGED <<client, db, rest, tr, heap, proof, th, bcp, an, sv>>

\* new_decision_level, theory.push, assign, theory.assert_lit.
Decide(lit) ==
    /\ tr' = Assign(NewDecisionLevel(tr), lit, ReasonDecision)
    /\ th' = TheoryAssert(TheoryPush(th), <<lit>>)
    /\ pc' = "loop"

AssumptionsLeft == sv.cur < Len(sv.assumptions)

DecideAssumption ==
    /\ pc = "decide" /\ AssumptionsLeft
    /\ LET p == sv.assumptions[sv.cur + 1]
           next == [sv EXCEPT !.cur = @ + 1]
       IN  \/ /\ IsFalse(tr, p)
              /\ sv' = [next EXCEPT !.result = "False"] /\ pc' = "finish"
              /\ UNCHANGED <<tr, th>>
           \/ /\ IsTrue(tr, p)
              /\ sv' = next /\ pc' = "loop"
              /\ UNCHANGED <<tr, th>>
           \/ /\ ~IsAssigned(tr, VarOf(p))
              /\ sv' = next /\ Decide(p)
    /\ UNCHANGED <<client, db, rest, heap, proof, bcp, an>>

\* select_decision_var: variables are popped until one is unassigned, with
\* those assigned ones that were above it; an exhausted heap falls back to the
\* first unassigned variable.
Open(V) == {v \in V : ~IsAssigned(tr, v)}
Selected ==
    IF Open(heap) # {} THEN Open(heap)
    ELSE {v \in Open(1..num_vars) : \A u \in Open(1..num_vars) : v <= u}

DecideVar ==
    /\ pc = "decide" /\ ~AssumptionsLeft
    /\ \E v \in Selected :
         /\ Decide(NewLit(v, tr.phase[v]))
         /\ \E popped \in SUBSET {u \in heap : IsAssigned(tr, u)} :
              /\ Open(heap) = {} => popped = heap
              /\ heap' = heap \ (popped \cup {v})
    /\ UNCHANGED <<client, db, rest, proof, bcp, an, sv>>

AllAssigned ==
    /\ pc = "decide" /\ ~AssumptionsLeft /\ Selected = {}
    /\ Answer("True") /\ pc' = "finish" /\ heap' = {}
    /\ UNCHANGED <<client, db, rest, tr, proof, th, bcp, an>>

\* The rest of solve_with_theory: the model is taken, the search undone.
Finish ==
    /\ pc = "finish" /\ pc' = "answered"
    /\ model' = IF sv.result = "True" THEN [v \in 1..num_vars |-> tr.assigns[v]] ELSE << >>
    /\ tr' = BacktrackTo(tr, 0)
    /\ heap' = Reinserted(0)
    /\ IF AssumptionRun
       THEN /\ scopes' = Front(scopes)
            /\ max_learned' = MaxLearned
            /\ arena' = WithDeleted(ClausesSince(scopes[Len(scopes)]))
       ELSE UNCHANGED <<scopes, max_learned, arena>>
    /\ UNCHANGED <<client, watches, num_vars, ok, restarts, proof, th, bcp, an, sv>>

Return ==
    /\ pc = "answered" /\ pc' = "idle"
    /\ UNCHANGED <<client, db, rest, tr, heap, proof, th, bcp, an, sv>>

-----------------------------------------------------------------------------

Client == NewVar \/ AddClause \/ Push \/ Pop \/ Solve

Propagate ==
    \/ BcpDequeue \/ VisitSkip \/ VisitSatisfied \/ VisitRewatch \/ VisitUnit
    \/ VisitConflict \/ VisitEnd \/ BcpOk

Conflict ==
    \/ ConflictInAddClause \/ ConflictBeforeSearch \/ ConflictAtLevelZero
    \/ StartAnalysis \/ MarkLit \/ PickLit
    \/ AssumptionsRefuted \/ Backjump \/ ReduceDb \/ Learn

Search ==
    \/ BudgetExhausted \/ Loop \/ TheoryConflict \/ TheoryOk
    \/ DecideAssumption \/ DecideVar \/ AllAssigned \/ Finish \/ Return

Step == Propagate \/ Conflict \/ Search

Next == Client \/ Step

Spec == Init /\ [][Next]_vars

\* The solver is one thread that runs its call to the end.
FairSpec == Spec /\ WF_vars(Step)

-----------------------------------------------------------------------------
(* Properties.                                                              *)

LocalPcs == {"idle", "bcp", "visit", "conflict", "mark", "learned", "reduce", "learn", "loop",
             "theory", "decide", "finish", "answered", "panic"}
ClauseIds == 1..Len(arena)
ArenaClauses == [lits : Seq(Lits), learned : BOOLEAN, lbd : Nat, deleted : BOOLEAN]
WatchersIn(a) == [clause : {c \in 1..Len(a) : Len(a[c].lits) > 1}, blocker : Lits]
BcpRecords(a) ==
    [lit : Lits, todo : Seq(WatchersIn(a)), keep : Seq(WatchersIn(a)),
     caller : {"add_clause", "solve_with_theory", "solve_internal"}]
AnRecords ==
    [conflict : Nat, origin : {"bcp", "theory"}, learned : Seq(Lits), seen : SUBSET Vars,
     path_count : Int, backtrack_level : Nat, lits : Seq(Lits), pivot : Nat, trail_idx : Nat,
     lbd : Nat]
SvRecords ==
    [assumptions : Seq(Lits), cur : Nat, budget : BOOLEAN, old_trail_len : Nat, result : LBool]

ClientOK ==
    /\ calls \in Seq(Calls) /\ inputs \in Seq(Seq(Lits))
    /\ scopes \in Seq([clause_count : Nat, inputs : Nat])
    /\ \A i, j \in 1..Len(scopes) :
         scopes[i].inputs <= Len(inputs) /\ (i <= j => scopes[i].inputs <= scopes[j].inputs)
DatabaseOK ==
    /\ arena \in Seq(ArenaClauses)
    /\ watches \in [Lits -> Seq(WatchersIn(arena))]
    /\ bcp \in BcpRecords(arena)
TrailOK ==
    /\ tr \in TrailRecords
    /\ \A v \in Vars : tr.reason[v] <= Len(arena)
TheoryScopesOK ==
    /\ th \in [asserted : Seq(Lits), lims : Seq(Nat)]
    /\ \A i, j \in 1..Len(th.lims) :
         th.lims[i] <= Len(th.asserted) /\ (i <= j => th.lims[i] <= th.lims[j])
ControlOK ==
    /\ pc \in LocalPcs /\ an \in AnRecords /\ sv \in SvRecords
    /\ (pc = "conflict" /\ DecisionLevel(tr) > 0) => an.conflict \in ClauseIds
    /\ pc = "mark" => an.trail_idx <= Len(tr.trail)
    /\ pc \in {"mark", "learned", "reduce", "learn"} => Len(an.learned) > 0
RestOK ==
    /\ num_vars \in 0..NumVars /\ ok \in BOOLEAN /\ heap \subseteq Vars
    /\ restarts \in RestartRecords /\ proof \in Seq(ProofSteps) /\ max_learned \in Nat
    /\ model \in Seq(LBool)

\* Every variable has its type, and what refers to another part of the state
\* refers to something there: watchers to clauses of two literals or more,
\* reasons and conflicts to clauses, scopes to what lies below them.
TypeOK == ClientOK /\ DatabaseOK /\ TrailOK /\ TheoryScopesOK /\ ControlOK /\ RestOK

LitsOf(c) == ToSet(arena[c].lits)
Live == {c \in ClauseIds : ~arena[c].deleted}
Problem == Inputs \cup Theory
Unrestarted == restarts.restart_count = 0

\* The trail is the assignment, cut into levels, whatever call is under way.
TrailConsistent == TrailInv(tr)

\* A variable without a value can be chosen by VSIDS: none is lost between
\* the pops of a search and the backtracking that undoes it.
OpenInHeap == pc # "panic" => Open(1..num_vars) \subseteq heap

\* Watching: a clause is in the watch lists of the negations of its first two
\* literals, once each, and nowhere else, while lists are taken and rebuilt;
\* only a theory clause has no watcher at all.
WatchersOf(l) == watches[l] \o (IF pc = "visit" /\ l = bcp.lit THEN bcp.keep \o bcp.todo
                                ELSE << >>)
CountIn(c, l) == Cardinality({i \in 1..Len(WatchersOf(l)) : WatchersOf(l)[i].clause = c})
TwoWatched ==
    \A c \in Live :
        \/ \A l \in Lits : CountIn(c, l) =
              Cardinality({i \in 1..2 : Neg(arena[c].lits[i]) = l})
        \/ arena[c].learned /\ \A l \in Lits : CountIn(c, l) = 0

\* When unit propagation has finished, no live clause that is watched is
\* falsified, and no live input clause is unit under the assignment.
Watched(c) == \E l \in Lits : CountIn(c, l) > 0
PropagationComplete ==
    pc = "theory" =>
        \A c \in Live : Watched(c) =>
            /\ \E l \in LitsOf(c) : ~IsFalse(tr, l)
            /\ ~arena[c].learned =>
                 \/ \E l \in LitsOf(c) : IsTrue(tr, l)
                 \/ Cardinality({l \in LitsOf(c) : ~IsAssigned(tr, VarOf(l))}) > 1

\* The reason of a propagated literal is a clause that it heads and whose other
\* literals were false before it, and reduce_db has not evicted it while a later
\* analysis can resolve on it; so long as no restart has assigned a learned
\* literal away from its level.
PositionOf(v) == CHOOSE i \in 1..Len(tr.trail) : VarOf(tr.trail[i]) = v
ReasonsJustify ==
    (Unrestarted /\ pc # "panic") =>
        \A i \in 1..Len(tr.trail) :
            LET v == VarOf(tr.trail[i])
                c == tr.reason[v]
            IN  c > 0 => /\ arena[c].lits[1] = tr.trail[i]
                         /\ \A l \in LitsOf(c) \ {tr.trail[i]} :
                              IsFalse(tr, l) /\ PositionOf(VarOf(l)) < i
                         /\ tr.level[v] > 0 => ~arena[c].deleted

\* A learned clause is asserting: after the backjump its first literal is open
\* and the others are false.
LearnedAsserting ==
    (pc = "learn" /\ Unrestarted) =>
        /\ ~IsAssigned(tr, VarOf(an.learned[1]))
        /\ \A i \in 2..Len(an.learned) : IsFalse(tr, an.learned[i])

\* Clauses learned, and literals fixed at level 0, follow from the inputs and
\* the theory (so long as no restart has fixed a learned literal).
LearnedEntailed == \A c \in Live : arena[c].learned => Entails(Problem, LitsOf(c))
FixedEntailed ==
    \A v \in Vars : (IsAssigned(tr, v) /\ tr.level[v] = 0)
        => Entails(Problem, {NewLit(v, tr.assigns[v] = "False")})
ConsequencesOnly == Unrestarted => LearnedEntailed /\ FixedEntailed

\* "False" without assumptions means that the clauses have no model, and so
\* does a solver that is no longer ok.
UnsatSound ==
    Unrestarted =>
        /\ ~ok => ~Satisfiable(Problem)
        /\ (pc = "answered" /\ sv.result = "False" /\ ~AssumptionRun) => ~Satisfiable(Problem)

\* "True" comes with a total model of the clauses, of the theory and of the
\* assumptions.
ModelLitTrue(l) == model[VarOf(l)] = (IF IsPos(l) THEN "True" ELSE "False")
SatSound ==
    (pc = "answered" /\ sv.result = "True") =>
        /\ Len(model) = num_vars /\ \A v \in 1..num_vars : model[v] # "Undef"
        /\ \A c \in Problem : \E l \in c : ModelLitTrue(l)
        /\ Unrestarted => \A l \in ToSet(sv.assumptions) : ModelLitTrue(l)

\* A refutation carries a certificate: the recorded lines derive the empty
\* clause from the inputs.
Certified ==
    (DratEnabled /\ Unrestarted /\ Theory = {} /\ ~ok) => VerifyProof(inputs, proof) = "Valid"

\* Whenever the theory is asked, it has been told of exactly the literals on
\* the trail, in scopes that match the decision levels.
TheoryMirrorsTrail ==
    pc = "theory" =>
        /\ Len(th.lims) = DecisionLevel(tr)
        /\ ToSet(th.asserted) = ToSet(tr.trail)
        /\ \A k \in 1..Len(th.lims) :
             ToSet(SubSeq(th.asserted, 1, th.lims[k])) =
                 ToSet(SubSeq(tr.trail, 1, tr.trail_lim[k]))

\* What the documentation claims of every run, without the conditions above.

\* "False" under assumptions: the clauses and the assumptions have no model.
FalseUnderAssumptionsHolds ==
    (pc = "answered" /\ sv.result = "False" /\ Unrestarted) =>
        ~Satisfiable(Problem \cup {{l} : l \in ToSet(sv.assumptions)})

\* "False" without assumptions, restarts or not: the clauses have no model.
RefutationsHold ==
    (pc = "answered" /\ sv.result = "False" /\ ~AssumptionRun) => ~Satisfiable(Problem)

\* "False" without assumptions: the certificate verifies.
RefutationsCertified ==
    (pc = "answered" /\ sv.result = "False" /\ ~AssumptionRun /\ DratEnabled) =>
        VerifyProof(inputs, proof) = "Valid"

\* Every call returns.
CallsReturn == (pc # "idle") ~> (pc = "idle")

=============================================================================
