------------------------------ MODULE Simplex ------------------------------
(***************************************************************************)
(* Linear arithmetic of smt-theories (simplex.rs).  The parallel vectors   *)
(* of the code are one sequence of columns.  A value is a pair <<c, k>>    *)
(* for c + k * delta.  Every row starts as the difference of two variables *)
(* and pivots on 1 or -1, so that coefficients are whole numbers; one that *)
(* is reached with another pivot needs an atom asserted again after its    *)
(* variables have moved into the basis, and is past the bounds of the      *)
(* model.  A hash map is iterated in any order.                            *)
(***************************************************************************)
EXTENDS Congruence, SequencesExt

CONSTANTS
    MaxIterations,         \* max_iterations, 10000 in the code
    MaxCoefficient         \* bound of the model: larger coefficients are not followed

ASSUME SimplexAssumption == MaxIterations \in Nat \ {0} /\ MaxCoefficient \in Nat \ {0}

VARIABLES
    columns,               \* per variable: term, row, value, bounds
    undo_stack, simplex_scopes,
    simplex_pc,            \* "ready", or in the "loop" of solve_simplex
    iterations,
    simplex_conflicts      \* what solve_simplex returned: a set of one clause, or {} for Ok

simplexVars ==
    <<columns, undo_stack, simplex_scopes, simplex_pc, iterations, simplex_conflicts>>

SimplexVars == 1..Len(columns)

DZero == <<0, 0>>
DLess(x, y) == x[1] < y[1] \/ (x[1] = y[1] /\ x[2] < y[2])
DLeq(x, y) == x = y \/ DLess(x, y)

\* An optional bound; no bound has no reason.
NoBound == [value |-> DZero, reason |-> 0]
Bound(value, l) == [value |-> value, reason |-> l]
IsBelow(x, lb) == lb # NoBound /\ DLess(x, lb.value)
IsAbove(x, ub) == ub # NoBound /\ DLess(ub.value, x)
Blocked(bs) == {-b.reason : b \in bs \ {NoBound}}

SimplexInit ==
    /\ columns = << >> /\ undo_stack = << >> /\ simplex_scopes = << >>
    /\ simplex_pc = "ready" /\ iterations = 0 /\ simplex_conflicts = {}

-----------------------------------------------------------------------------
(* Variables and assertions.                                                *)

\* A column; a slack variable has no term of its own and starts basic.
NewColumn(t, basic, row) ==
    [term |-> t, basic |-> basic, row |-> row, value |-> DZero, lb |-> NoBound, ub |-> NoBound]
GetOrCreateVar(cs, t) ==
    IF \E v \in 1..Len(cs) : cs[v].term = t THEN cs ELSE Append(cs, NewColumn(t, FALSE, << >>))
VarIn(cs, t) == CHOOSE v \in 1..Len(cs) : cs[v].term = t

\* The columns once there is a variable for what the atom t bounds: its left
\* side, or a new slack variable for the difference of its sides.
HasConstant(t) == Op(Args(t)[2]) = "Const"
WithBounded(cs, t) ==
    IF HasConstant(t) THEN GetOrCreateVar(cs, Args(t)[1])
    ELSE LET both == GetOrCreateVar(GetOrCreateVar(cs, Args(t)[1]), Args(t)[2])
             row == Put(Put(<< >>, VarIn(both, Args(t)[1]), 1), VarIn(both, Args(t)[2]), -1)
         IN  Append(both, NewColumn(0, TRUE, row))
BoundedVar(cs, t) == IF HasConstant(t) THEN VarIn(cs, Args(t)[1]) ELSE Len(cs)

\* The bound a literal sets: which side, and its value.
IsUpper(l) == (Op(AtomOf(l)) \in {"Le", "Lt"}) = (l > 0)
IsStrict(l) == (Op(AtomOf(l)) \in {"Lt", "Gt"}) = (l > 0)
BoundValue(l) ==
    <<IF HasConstant(AtomOf(l)) THEN terms[Args(AtomOf(l))[2]].value ELSE 0,
      IF ~IsStrict(l) THEN 0 ELSE IF IsUpper(l) THEN -1 ELSE 1>>

\* set_lower_bound, set_upper_bound: only a tighter bound is kept.
SetLowerBound(cs, v, b) ==
    IF cs[v].lb = NoBound \/ DLess(cs[v].lb.value, b.value)
    THEN /\ columns' = [cs EXCEPT ![v].lb = b]
         /\ undo_stack' = Append(undo_stack, [side |-> "lower", var |-> v, old |-> cs[v].lb])
    ELSE columns' = cs /\ UNCHANGED undo_stack
\* Mutant: the old bound is only kept when there was one.
SetUpperBoundNoUndo(cs, v, b) ==
    IF cs[v].ub = NoBound
    THEN columns' = [cs EXCEPT ![v].ub = b] /\ UNCHANGED undo_stack
    ELSE IF DLess(b.value, cs[v].ub.value)
    THEN /\ columns' = [cs EXCEPT ![v].ub = b]
         /\ undo_stack' = Append(undo_stack, [side |-> "upper", var |-> v, old |-> cs[v].ub])
    ELSE columns' = cs /\ UNCHANGED undo_stack
SetUpperBound(cs, v, b) ==
    IF cs[v].ub = NoBound \/ DLess(b.value, cs[v].ub.value)
    THEN /\ columns' = [cs EXCEPT ![v].ub = b]
         /\ undo_stack' = Append(undo_stack, [side |-> "upper", var |-> v, old |-> cs[v].ub])
    ELSE columns' = cs /\ UNCHANGED undo_stack

Inequalities == {"Lt", "Le", "Gt", "Ge"}
IsInequality(t) == Op(t) \in Inequalities /\ Len(Args(t)) = 2

\* assert_term: inequalities only, the arms for equality are never reached.
SimplexAssert(l) ==
    LET t == AtomOf(l)
        cs == WithBounded(columns, t)
        b == Bound(BoundValue(l), l)
    IN  /\ IF IsInequality(t)
           THEN IF IsUpper(l) THEN SetUpperBound(cs, BoundedVar(cs, t), b)
                ELSE SetLowerBound(cs, BoundedVar(cs, t), b)
           ELSE UNCHANGED <<columns, undo_stack>>
        /\ UNCHANGED <<simplex_scopes, simplex_pc, iterations, simplex_conflicts>>

SimplexPush ==
    /\ simplex_scopes' = Append(simplex_scopes, Len(undo_stack))
    /\ UNCHANGED <<columns, undo_stack, simplex_pc, iterations, simplex_conflicts>>

\* pop: bounds are put back, last change first; columns, rows and values stay.
\* What a variable's bound was before the first of the undone changes to it.
Restored(side, v, current) ==
    LET undone == {i \in (Last(simplex_scopes) + 1)..Len(undo_stack) :
                     undo_stack[i].side = side /\ undo_stack[i].var = v}
    IN  IF undone = {} THEN current ELSE undo_stack[Min(undone)].old
\* Mutant: the scope is read, not taken off.
SimplexPopKeepsScope ==
    /\ IF simplex_scopes = << >>
       THEN UNCHANGED <<columns, undo_stack>>
       ELSE /\ columns' = [v \in SimplexVars |->
                             [columns[v] EXCEPT !.lb = Restored("lower", v, @),
                                                !.ub = Restored("upper", v, @)]]
            /\ undo_stack' = SubSeq(undo_stack, 1, Last(simplex_scopes))
    /\ UNCHANGED <<simplex_scopes, simplex_pc, iterations, simplex_conflicts>>
SimplexPop ==
    /\ IF simplex_scopes = << >>
       THEN UNCHANGED <<columns, undo_stack, simplex_scopes>>
       ELSE /\ columns' = [v \in SimplexVars |->
                             [columns[v] EXCEPT !.lb = Restored("lower", v, @),
                                                !.ub = Restored("upper", v, @)]]
            /\ undo_stack' = SubSeq(undo_stack, 1, Last(simplex_scopes))
            /\ simplex_scopes' = Front(simplex_scopes)
    /\ UNCHANGED <<simplex_pc, iterations, simplex_conflicts>>

-----------------------------------------------------------------------------
(* solve_simplex().                                                         *)

\* update_basic_assignments: one pass over the columns, in which a row reads
\* the new value of earlier columns and the old value of later ones.
UpdateBasic(cs) ==
    LET value[i \in 1..Len(cs)] ==
            IF ~cs[i].basic THEN cs[i].value
            ELSE LET at(j) == IF j < i THEN value[j] ELSE cs[j].value
                     part(k) == MapThenSumSet(LAMBDA j : cs[i].row[j] * at(j)[k], DOMAIN cs[i].row)
                 IN  <<part(1), part(2)>>
    IN  [i \in 1..Len(cs) |-> [cs[i] EXCEPT !.value = value[i]]]

\* Non-basic variables are moved inside their bounds, lower bound first.
Adjusted(c) ==
    LET x == IF IsBelow(c.value, c.lb) THEN c.lb.value ELSE c.value
    IN  IF c.basic THEN c ELSE [c EXCEPT !.value = IF IsAbove(x, c.ub) THEN c.ub.value ELSE x]

Contradictory(c) == c.lb # NoBound /\ c.ub # NoBound /\ DLess(c.ub.value, c.lb.value)

SimplexReturn(conflicts) == simplex_pc' = "ready" /\ simplex_conflicts' = conflicts

SolveSimplex ==
    /\ simplex_pc = "ready" /\ iterations' = 1
    /\ LET bad == {v \in SimplexVars : Contradictory(columns[v])}
       IN  \/ /\ bad # {}
              /\ SimplexReturn({Blocked({columns[Min(bad)].lb, columns[Min(bad)].ub})})
              /\ UNCHANGED columns
           \/ /\ bad = {}
              /\ columns' = UpdateBasic([v \in SimplexVars |-> Adjusted(columns[v])])
              /\ simplex_pc' = "loop" /\ UNCHANGED simplex_conflicts
    /\ UNCHANGED <<undo_stack, simplex_scopes>>

OutOfBounds(c) == IsBelow(c.value, c.lb) \/ IsAbove(c.value, c.ub)
Violating == {v \in SimplexVars : columns[v].basic /\ OutOfBounds(columns[v])}

\* pivot: xj is expressed by xi and substituted into the other rows.
Substituted(row, xj, new) ==
    LET coeff(k) == (IF k \in DOMAIN row \ {xj} THEN row[k] ELSE 0)
                    + (IF k \in DOMAIN new THEN row[xj] * new[k] ELSE 0)
    IN  IF xj \notin DOMAIN row THEN row
        ELSE [k \in {k \in (DOMAIN row \ {xj}) \cup DOMAIN new : coeff(k) # 0} |-> coeff(k)]
Pivoted(cs, xi, xj) ==
    LET row == cs[xi].row
        new == [k \in DOMAIN row \ {xj} |-> -row[k] * row[xj]] @@ (xi :> row[xj])
    IN  UpdateBasic(
          [r \in 1..Len(cs) |->
              IF r = xj THEN [cs[r] EXCEPT !.row = new, !.basic = TRUE]
              ELSE IF r = xi THEN [cs[r] EXCEPT !.row = << >>, !.basic = FALSE]
              ELSE IF cs[r].basic THEN [cs[r] EXCEPT !.row = Substituted(@, xj, new)]
              ELSE cs[r]])

\* A variable of the row that can still move xi towards its violated bound.
CanMove(c, up) == IF up THEN c.ub = NoBound \/ DLess(c.value, c.ub.value)
                  ELSE c.lb = NoBound \/ DLess(c.lb.value, c.value)

\* One round of the loop, for the first basic variable out of its bounds.
Round(xi, too_high) ==
    /\ simplex_pc = "loop" /\ iterations <= MaxIterations /\ Violating # {}
    /\ xi = Min(Violating) /\ too_high = ~IsBelow(columns[xi].value, columns[xi].lb)
Candidates(xi, too_high) ==
    {xj \in DOMAIN columns[xi].row :
        columns[xi].row[xj] # 0 /\ CanMove(columns[xj], (columns[xi].row[xj] > 0) = ~too_high)}

\* Bound of the model, see above.
InBounds(cs) == \A c \in ToSet(cs) : \A k \in DOMAIN c.row : c.row[k] \in -MaxCoefficient..MaxCoefficient

Pivot ==
    \E xi \in SimplexVars, too_high \in BOOLEAN :
        /\ Round(xi, too_high)
        /\ \E xj \in Candidates(xi, too_high) :
              /\ columns[xi].row[xj] \in {-1, 1} /\ columns' = Pivoted(columns, xi, xj)
              /\ InBounds(columns')
        /\ iterations' = iterations + 1
        /\ UNCHANGED <<undo_stack, simplex_scopes, simplex_pc, simplex_conflicts>>

\* Mutant: whatever the sign of the coefficient.
BlockingAnySign(c, coefficient, too_high) == IF too_high THEN c.lb ELSE c.ub
\* The bound that keeps a variable of the row where it is.
Blocking(c, coefficient, too_high) == IF (coefficient > 0) = too_high THEN c.lb ELSE c.ub

\* None can: the violated bound and the bounds that block its row.
Infeasible ==
    \E xi \in SimplexVars, too_high \in BOOLEAN :
        /\ Round(xi, too_high) /\ Candidates(xi, too_high) = {}
        /\ LET row == columns[xi].row
               own == IF too_high THEN columns[xi].ub ELSE columns[xi].lb
               blocking == {Blocking(columns[xj], row[xj], too_high) : xj \in DOMAIN row}
           IN  SimplexReturn({Blocked({own} \cup blocking)})
        /\ UNCHANGED <<columns, undo_stack, simplex_scopes, iterations>>

\* No basic variable is out of its bounds, or the iteration limit is reached.
Feasible ==
    /\ simplex_pc = "loop" /\ (Violating = {} \/ iterations > MaxIterations)
    /\ SimplexReturn({})
    /\ UNCHANGED <<columns, undo_stack, simplex_scopes, iterations>>

SimplexStep == Pivot \/ Infeasible \/ Feasible

-----------------------------------------------------------------------------
(* Equalities the bounds entail, as is_equal_entailed finds them.           *)

IsFixed(c) == c.lb # NoBound /\ c.ub # NoBound /\ c.lb.value = c.ub.value
\* Rows r = v - w, and v <= w on account of a bound of such a row.
IsDifference(r, v, w) ==
    /\ columns[r].basic /\ v # w
    /\ DOMAIN columns[r].row = {v, w} /\ columns[r].row[v] = 1 /\ columns[r].row[w] = -1
EntailedLeq(v, w) ==
    \E r \in SimplexVars :
        \/ IsDifference(r, v, w) /\ columns[r].ub # NoBound /\ DLeq(columns[r].ub.value, DZero)
        \/ IsDifference(r, w, v) /\ columns[r].lb # NoBound /\ DLeq(DZero, columns[r].lb.value)
IsEqualEntailed(v, w) ==
    \/ v = w
    \/ IsFixed(columns[v]) /\ IsFixed(columns[w]) /\ columns[v].lb.value = columns[w].lb.value
    \/ EntailedLeq(v, w) /\ EntailedLeq(w, v)
=============================================================================
