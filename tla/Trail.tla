------------------------------- MODULE Trail -------------------------------
(***************************************************************************)
(* The assignment trail of smt-sat (trail.rs) as a record and the          *)
(* operations on it.  Sequences are 1-based here: trail_lim[k + 1] is the  *)
(* code's trail_lim[k], the length of the trail when level k + 1 began, and*)
(* qhead counts the literals already handed to unit propagation.           *)
(***************************************************************************)
EXTENDS SatLits

\* Reason::Decision, Reason::Unit; a positive reason is Reason::Clause(id).
\* Reason::Theory is never constructed.
ReasonDecision == -1
ReasonUnit == 0
Reasons == Nat \cup {ReasonDecision}

TrailRecords ==
    [assigns : [Vars -> LBool], level : [Vars -> Nat], reason : [Vars -> Reasons],
     phase : [Vars -> BOOLEAN], trail : Seq(Lits), trail_lim : Seq(Nat), qhead : Nat]

\* Trail::new followed by ensure_var for every variable.
NewTrail ==
    [assigns |-> [v \in Vars |-> "Undef"], level |-> [v \in Vars |-> 0],
     reason |-> [v \in Vars |-> ReasonUnit], phase |-> [v \in Vars |-> FALSE],
     trail |-> << >>, trail_lim |-> << >>, qhead |-> 0]

DecisionLevel(t) == Len(t.trail_lim)
IsAssigned(t, v) == t.assigns[v] # "Undef"
LitValue(t, l) == IF IsPos(l) THEN t.assigns[VarOf(l)] ELSE NotVal(t.assigns[VarOf(l)])
IsTrue(t, l) == LitValue(t, l) = "True"
IsFalse(t, l) == LitValue(t, l) = "False"

\* Mutant: the level starts one literal too low.
NewDecisionLevelTooLow(t) == [t EXCEPT !.trail_lim = Append(@, Len(t.trail) - 1)]

NewDecisionLevel(t) == [t EXCEPT !.trail_lim = Append(@, Len(t.trail))]

\* Trail::assign after its assertion that the variable is unassigned: every
\* use of Assign is guarded by ~IsAssigned(t, VarOf(l)).
Assign(t, l, r) ==
    [t EXCEPT !.assigns[VarOf(l)] = IF IsPos(l) THEN "True" ELSE "False",
              !.phase[VarOf(l)] = ~IsPos(l),
              !.level[VarOf(l)] = DecisionLevel(t),
              !.reason[VarOf(l)] = r,
              !.trail = Append(@, l)]

\* Variables backtracking to `level` unassigns; each is handed back to VSIDS.
Undone(t, level) ==
    IF DecisionLevel(t) > level
    THEN {VarOf(t.trail[i]) : i \in (t.trail_lim[level + 1] + 1)..Len(t.trail)}
    ELSE {}

\* Mutant: the propagation queue head is left where it was.
BacktrackKeepingQueueHead(t, level) ==
    IF DecisionLevel(t) > level
    THEN [t EXCEPT !.assigns = [v \in Vars |-> IF v \in Undone(t, level) THEN "Undef" ELSE @[v]],
                   !.trail = SubSeq(@, 1, t.trail_lim[level + 1]),
                   !.trail_lim = SubSeq(@, 1, level)]
    ELSE t

BacktrackTo(t, level) ==
    IF DecisionLevel(t) > level
    THEN [t EXCEPT !.assigns = [v \in Vars |-> IF v \in Undone(t, level) THEN "Undef" ELSE @[v]],
                   !.trail = SubSeq(@, 1, t.trail_lim[level + 1]),
                   !.qhead = t.trail_lim[level + 1],
                   !.trail_lim = SubSeq(@, 1, level)]
    ELSE t

HasUnpropagated(t) == t.qhead < Len(t.trail)
NextUnpropagated(t) == t.trail[t.qhead + 1]

\* Mutant: the queue head does not move.
DequeueNothing(t) == t

Dequeue(t) == [t EXCEPT !.qhead = @ + 1]

-----------------------------------------------------------------------------
(* What keeps a trail consistent, in parts.                                 *)

\* The literals on the trail are exactly those that are true, each once.
TrailIsAssignment(t) ==
    /\ \A i \in 1..Len(t.trail) : IsTrue(t, t.trail[i])
    /\ \A v \in Vars : IsAssigned(t, v) => \E i \in 1..Len(t.trail) : VarOf(t.trail[i]) = v
    /\ \A i, j \in 1..Len(t.trail) : VarOf(t.trail[i]) = VarOf(t.trail[j]) => i = j

\* The levels cut the trail into consecutive segments: literal i lies above
\* the start of level k exactly when its variable's level is k or more.
LevelsAreSegments(t) ==
    /\ \A k \in 1..Len(t.trail_lim) : t.trail_lim[k] <= Len(t.trail)
    /\ \A j, k \in 1..Len(t.trail_lim) : j <= k => t.trail_lim[j] <= t.trail_lim[k]
    /\ \A i \in 1..Len(t.trail) :
         /\ t.level[VarOf(t.trail[i])] <= DecisionLevel(t)
         /\ \A k \in 1..Len(t.trail_lim) :
              t.level[VarOf(t.trail[i])] >= k <=> i > t.trail_lim[k]

TrailInv(t) ==
    /\ TrailIsAssignment(t)
    /\ LevelsAreSegments(t)
    /\ t.qhead <= Len(t.trail)
=============================================================================
