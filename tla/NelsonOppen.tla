---------------------------- MODULE NelsonOppen ----------------------------
(***************************************************************************)
(* The theory coordinator of smt-theories (nelson_oppen.rs) with its two   *)
(* theories that keep state, as the SAT search drives it: literals are     *)
(* asserted, checks run, scopes are pushed and popped.  Arrays take part   *)
(* with axioms only: their assert_term and check do nothing.               *)
(***************************************************************************)
EXTENDS Euf, Simplex

CONSTANTS
    MaxScopes, MaxPops \* bounds of the model: scopes at once, scopes ever popped

VARIABLES
    asserted, lims,    \* client: literals asserted, and how many in each scope
    facts,             \* merges asked for so far (history), cut back by pop
    pops,              \* scopes popped so far
    pc,                \* "idle", or inside check()
    pair,              \* check(): the pair of shared terms at hand
    answer, clause     \* what the last check returned

coordinatorVars == <<asserted, lims, facts, pops, pc, pair, answer, clause>>
vars == <<problem, eufVars, simplexVars, coordinatorVars>>

Quiet == euf_pc = "ready" /\ simplex_pc = "ready"

\* Terms of an arithmetic sort are shared, in the order of the arena.
SharedTerms == FlattenSeq([t \in TermIds |-> IF terms[t].sort = "Num" THEN <<t>> ELSE << >>])
SharedPairs == PairsOf(SharedTerms)

Init ==
    /\ problem \in Problems
    /\ EufInit /\ SimplexInit
    /\ asserted = << >> /\ lims = << >> /\ facts = << >> /\ pops = 0
    /\ pc = "idle" /\ pair = 0 /\ answer = "None" /\ clause = {}

-----------------------------------------------------------------------------
(* Calls.  After a conflict the search pops; after Ok it decides, which is  *)
(* a push and a literal.                                                    *)

Idle == pc = "idle" /\ Quiet

AssertLit(l) ==
    /\ Idle /\ answer \in {"None", "Pushed"} /\ {l, -l} \cap ToSet(asserted) = {}
    /\ EufAssert(l) /\ SimplexAssert(l)
    /\ asserted' = Append(asserted, l) /\ answer' = "None"
    /\ facts' = facts \o merges'
    /\ UNCHANGED <<problem, lims, pops, pc, pair, clause>>

Push ==
    /\ Idle /\ answer = "Ok" /\ Len(lims) < MaxScopes
    /\ \E l \in AtomLits \cap problem.lits : {l, -l} \cap ToSet(asserted) = {}
    /\ EufPush /\ SimplexPush
    /\ lims' = Append(lims, [asserted |-> Len(asserted), facts |-> Len(facts)])
    /\ answer' = "Pushed"
    /\ UNCHANGED <<problem, asserted, facts, pops, pc, pair, clause>>

Pop ==
    /\ Idle /\ answer # "Pushed" /\ lims # << >> /\ pops < MaxPops
    /\ EufPop /\ SimplexPop
    /\ asserted' = SubSeq(asserted, 1, Last(lims).asserted)
    /\ facts' = SubSeq(facts, 1, Last(lims).facts)
    /\ lims' = Front(lims) /\ pops' = pops + 1 /\ answer' = "None"
    /\ UNCHANGED <<problem, pc, pair, clause>>

-----------------------------------------------------------------------------
(* check().                                                                 *)

Return(result, c) == pc' = "idle" /\ answer' = result /\ clause' = c
KeepCalls == UNCHANGED <<problem, asserted, lims, pops>>

\* Equality first, then arithmetic.
Check ==
    /\ Idle /\ answer = "None"
    /\ \/ \E c \in EufConflicts : Return("Err", c) /\ UNCHANGED simplexVars
       \/ EufConflicts = {} /\ SolveSimplex /\ pc' = "simplex" /\ UNCHANGED <<answer, clause>>
    /\ pair' = 1
    /\ KeepCalls /\ UNCHANGED <<facts, eufVars>>

\* solve_simplex has returned: inside check, or for the pair at hand.
SimplexReturned ==
    /\ pc \in {"simplex", "resolve"} /\ Quiet
    /\ \/ \E c \in simplex_conflicts : Return("Err", c) /\ UNCHANGED pair
       \/ /\ simplex_conflicts = {} /\ pc' = "share"
          /\ pair' = IF pc = "resolve" THEN pair + 1 ELSE pair
          /\ UNCHANGED <<answer, clause>>
    /\ KeepCalls /\ UNCHANGED <<facts, eufVars, simplexVars>>

\* The pairs of shared terms are compared in order.  A pair is settled when it
\* has variables and neither theory can tell the other anything about it.
HasVars(i) == \A t \in ToSet(SharedPairs[i]) : \E v \in SimplexVars : columns[v].term = t
SameInEuf(i) == SameClass(SharedPairs[i][1], SharedPairs[i][2])
SameValue(i) ==
    columns[VarIn(columns, SharedPairs[i][1])].value = columns[VarIn(columns, SharedPairs[i][2])].value
SameInSimplex(i) ==
    IsEqualEntailed(VarIn(columns, SharedPairs[i][1]), VarIn(columns, SharedPairs[i][2]))
Settled(i) == HasVars(i) /\ IF SameInEuf(i) THEN SameValue(i) ELSE ~SameInSimplex(i)

\* The pair i is the next that is not settled.
Sharing(i) ==
    /\ pc = "share" /\ Quiet /\ i >= pair
    /\ ~Settled(i) /\ \A j \in pair..(i - 1) : Settled(j)
    /\ KeepCalls /\ UNCHANGED <<answer, clause>>

SharedVars(i) ==
    /\ Sharing(i) /\ ~HasVars(i)
    /\ columns' = GetOrCreateVar(GetOrCreateVar(columns, SharedPairs[i][1]), SharedPairs[i][2])
    /\ pair' = i
    /\ UNCHANGED <<facts, pc, eufVars, undo_stack, simplex_scopes, simplex_pc, iterations,
                   simplex_conflicts>>

\* Equal terms with different values: arithmetic solves again, that is all.
Resolve(i) ==
    /\ Sharing(i) /\ HasVars(i) /\ SameInEuf(i)
    /\ SolveSimplex /\ pc' = "resolve" /\ pair' = i
    /\ UNCHANGED <<facts, eufVars>>

\* Arithmetic has deduced an equality: equality merges, without a reason.
MergeShared(i) ==
    /\ Sharing(i) /\ HasVars(i) /\ ~SameInEuf(i)
    /\ CallMerge(SharedPairs[i][1], SharedPairs[i][2], NoReason) /\ facts' = facts \o merges'
    /\ pair' = i + 1
    /\ UNCHANGED <<pc, euf_scopes, simplexVars>>

\* Equality once more, with what arithmetic has told it.
Recheck ==
    /\ pc = "share" /\ Quiet /\ \A i \in pair..Len(SharedPairs) : Settled(i)
    /\ \/ \E c \in EufConflicts : Return("Err", c)
       \/ EufConflicts = {} /\ Return("Ok", {})
    /\ KeepCalls /\ UNCHANGED <<facts, pair, eufVars, simplexVars>>

-----------------------------------------------------------------------------

Next ==
    \/ \E l \in AtomLits \cap problem.lits : AssertLit(l)
    \/ Push \/ Pop
    \/ Check \/ SimplexReturned \/ Recheck
    \/ \E i \in 1..Len(SharedPairs) : SharedVars(i) \/ Resolve(i) \/ MergeShared(i)
    \/ EufStep /\ UNCHANGED <<problem, simplexVars, coordinatorVars>>
    \/ SimplexStep /\ UNCHANGED <<problem, eufVars, coordinatorVars>>

Spec == Init /\ [][Next]_vars

-----------------------------------------------------------------------------
(* Properties.                                                              *)

Merges == [a : TermIds, b : TermIds, reason : AtomLits \cup {NoReason}]
UndoActions ==
    [kind : {"Link"}, child : TermIds, old_parent : TermIds, old_rank : Nat]
    \cup [kind : {"RemoveProofEdge"}, a : TermIds, b : TermIds]
    \cup [kind : {"AddLookup"}, sig : [func : STRING, args : Seq(TermIds)]]
    \cup [kind : {"AddDisequality"}]
EufOK ==
    /\ parent \in [TermIds -> TermIds] /\ rank \in [TermIds -> Nat]
    /\ proof_adj \in [TermIds -> Seq([to : TermIds, reason : AtomLits \cup {NoReason}])]
    /\ use_list \in [TermIds -> Seq(TermIds)]
    /\ \A s \in DOMAIN sig_lookup : sig_lookup[s] \in TermIds
    /\ disequalities \in Seq([a : TermIds, b : TermIds, lit : AtomLits])
    /\ undo_trail \in Seq(UndoActions) /\ merges \in Seq(Merges)
    /\ euf_pc \in {"ready", "merge", "uses", "undo"}
    /\ \A i \in 1..Len(euf_scopes) : euf_scopes[i] \in 0..Len(undo_trail)
Bounds == [value : Int \X Int, reason : AtomLits \cup {0}]
SimplexOK ==
    /\ \A v \in SimplexVars :
         LET c == columns[v]
         IN  /\ c.term \in 0..Len(terms) /\ c.basic \in BOOLEAN /\ c.value \in Int \X Int
             /\ DOMAIN c.row \subseteq SimplexVars /\ \A w \in DOMAIN c.row : c.row[w] \in -MaxCoefficient..MaxCoefficient
             /\ c.lb \in Bounds /\ c.ub \in Bounds
    /\ \A i \in 1..Len(undo_stack) :
         undo_stack[i].var \in SimplexVars /\ undo_stack[i].old \in Bounds
    /\ \A i \in 1..Len(simplex_scopes) : simplex_scopes[i] \in 0..Len(undo_stack)

\* Every variable has its type and scopes lie inside what they cut.
TypeOK ==
    /\ EufOK /\ SimplexOK
    /\ asserted \in Seq(AtomLits) /\ facts \in Seq(Merges)
    /\ Quiet => Len(euf_scopes) = Len(simplex_scopes)
    /\ pc \in {"idle", "simplex", "share", "resolve"}
    /\ answer \in {"None", "Pushed", "Ok", "Err"} /\ clause \subseteq AtomLits

Literals == ToSet(asserted)
NoSharedMerges == \A i \in 1..Len(facts) : facts[i].reason # NoReason

\* Two terms are in one class exactly when the merges in force make them equal
\* by congruence: no propagation is missed, and pop undoes every one it must.
EqualityExact ==
    Idle => LET P == CongruenceClosure({<<facts[i].a, facts[i].b>> : i \in 1..Len(facts)})
            IN  \A s, t \in TermIds : SameClass(s, t) <=> Joined(P, s, t)

\* The proof graph explains what union-find says: it is a forest whose trees
\* are the classes, whichever merges have been undone.
ProofForest ==
    Idle =>
        /\ \A s, t \in TermIds : SameClass(s, t) <=> PathBetween(s, t) # << >>
        /\ MapThenSumSet(LAMBDA t : Len(proof_adj[t]), TermIds) =
              2 * (Len(terms) - Cardinality({Find(t) : t \in TermIds}))

\* A bound is what one asserted literal says, no asserted literal says more,
\* and popped literals bound nothing.
BoundsFollow ==
    Idle =>
        /\ \A v \in SimplexVars : \A upper \in BOOLEAN :
             LET b == IF upper THEN columns[v].ub ELSE columns[v].lb
             IN  b # NoBound => /\ b.reason \in Literals /\ IsUpper(b.reason) = upper
                                /\ b.value = BoundValue(b.reason)
        /\ \A l \in {l \in Literals : IsInequality(AtomOf(l))} :
             \E v \in SimplexVars :
                LET b == IF IsUpper(l) THEN columns[v].ub ELSE columns[v].lb
                IN  /\ b # NoBound
                    /\ IF HasConstant(AtomOf(l))
                       THEN /\ columns[v].term = Args(AtomOf(l))[1]
                            /\ IF IsUpper(l) THEN DLeq(b.value, BoundValue(l))
                               ELSE DLeq(BoundValue(l), b.value)
                       ELSE b.reason = l

-----------------------------------------------------------------------------
(* What the theories together mean, as difference constraints: node 0 is    *)
(* zero, and an edge says that its `to` exceeds its `from` by at most w.    *)

Numbers == {t \in TermIds : terms[t].sort = "Num"}
Node(t) == IF Op(t) = "Const" THEN 0 ELSE t
Offset(t) == IF Op(t) = "Const" THEN terms[t].value ELSE 0
\* s <= t, or s < t
Edge(s, t, strict) ==
    [to |-> Node(s), from |-> Node(t),
     w |-> <<Offset(t) - Offset(s), IF strict THEN -1 ELSE 0>>]
EdgesOf(l) ==
    LET s == Args(AtomOf(l))[1]
        t == Args(AtomOf(l))[2]
    IN  CASE Op(AtomOf(l)) \in Inequalities ->
               {IF IsUpper(l) THEN Edge(s, t, IsStrict(l)) ELSE Edge(t, s, IsStrict(l))}
          [] Op(AtomOf(l)) = "Eq" /\ l > 0 /\ s \in Numbers -> {Edge(s, t, FALSE), Edge(t, s, FALSE)}
          [] OTHER -> {}
OrderEdges(rank_of) ==
    {Edge(p[1], p[2], rank_of[p[1]] < rank_of[p[2]]) :
        p \in {p \in Numbers \X Numbers : p[1] # p[2] /\ rank_of[p[1]] <= rank_of[p[2]]}}

\* A cycle of constraints whose bounds add up to less than nothing.
NegativeCycle(E) ==
    \E n \in 1..(Cardinality(Numbers) + 1) :
    \E c \in [1..n -> {0} \cup Numbers] :
        /\ \A i, j \in 1..n : c[i] = c[j] => i = j
        /\ LET next(i) == c[(i % n) + 1]
               along(i) == {e.w : e \in {e \in E : e.from = c[i] /\ e.to = next(i)}}
               least(i) == CHOOSE w \in along(i) : \A x \in along(i) : DLeq(w, x)
           IN  /\ \A i \in 1..n : along(i) # {}
               /\ DLess(<<MapThenSumSet(LAMBDA i : least(i)[1], 1..n),
                          MapThenSumSet(LAMBDA i : least(i)[2], 1..n)>>, DZero)

\* No numbers and functions make the literals L true: under each order of the
\* numbers, equality or arithmetic is contradictory.
Inconsistent(L) ==
    \A rank_of \in [Numbers -> 1..Cardinality(Numbers)] :
        LET same == {p \in Numbers \X Numbers : rank_of[p[1]] = rank_of[p[2]]}
            other == (Numbers \X Numbers) \ same
        IN  \/ NegativeCycle(OrderEdges(rank_of) \cup UNION {EdgesOf(l) : l \in L})
            \/ \A f \in Alternatives(L) :
                 LET P == CongruenceClosure(EqualWith(L, f) \cup same)
                 IN  \E d \in Different(L) \cup other : Joined(P, d[1], d[2])

DeniedDistincts == \E l \in Literals : l < 0 /\ Op(-l) = "Distinct"

\* A clause check returns is false now and true in every interpretation, so
\* long as arithmetic has not told equality anything and no distinct is denied.
ClauseHolds == \A l \in clause : -l \in Literals
ConflictsJustified ==
    (answer = "Err" /\ NoSharedMerges /\ ~DeniedDistincts)
        => ClauseHolds /\ Inconsistent({-l : l \in clause})

\* No equality conflict is missed: Ok is never returned over literals that
\* contradict the meaning of equality alone.
EqualityConflictsFound ==
    (answer = "Ok" /\ ~DeniedDistincts) => ~EqualityInconsistent(Literals)

\* What the documentation says of check without those conditions.

\* Err(conflict_clause): the asserted literals it negates are inconsistent.
ConflictsValid == answer = "Err" => ClauseHolds /\ Inconsistent({-l : l \in clause})

\* Ok(()): the asserted literals are consistent.
OkMeansConsistent == answer = "Ok" => ~Inconsistent(Literals)
=============================================================================
