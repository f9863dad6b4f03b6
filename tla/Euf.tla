-------------------------------- MODULE Euf --------------------------------
(***************************************************************************)
(* The equality engine of smt-theories (euf.rs): union-find, a proof       *)
(* forest, use lists and signatures, all undone in reverse order by pop.   *)
(* engine.rs registers every term of the arena before it asserts anything, *)
(* so register_term is what Init computes.  merge calls itself for the     *)
(* congruences it finds; `merges` is that call stack, first call first.    *)
(***************************************************************************)
EXTENDS Congruence, SequencesExt

VARIABLES
    parent, rank,          \* union-find
    proof_adj,             \* per term: the neighbours in the proof forest
    use_list,              \* per term: applications to look at when it is merged
    sig_lookup,            \* signatures to the application first seen with them
    disequalities, undo_trail, euf_scopes,
    euf_pc,                \* "ready", or inside "merge", "uses" or "undo"
    merges,                \* merges still to do
    link                   \* merge(): the link just made, its uses left, what they induce

eufData == <<parent, rank, proof_adj, use_list, sig_lookup, disequalities>>
eufControl == <<euf_pc, merges, link>>
eufVars == <<eufData, undo_trail, euf_scopes, eufControl>>

NoReason == 0

\* find: the representative of a term.
Find(t) == LET root[u \in TermIds] == IF parent[u] = u THEN u ELSE root[parent[u]] IN root[t]
SameClass(s, t) == Find(s) = Find(t)

\* compute_sig: the signature of an application.
Sig(app) == [func |-> terms[app].name, args |-> [i \in 1..Len(Args(app)) |-> Find(Args(app)[i])]]

Linking(child, old_parent, old_rank) ==
    [kind |-> "Link", child |-> child, old_parent |-> old_parent, old_rank |-> old_rank]
ProofEdge(a, b) == [kind |-> "RemoveProofEdge", a |-> a, b |-> b]
Lookup(sig) == [kind |-> "AddLookup", sig |-> sig]
Disequality == [kind |-> "AddDisequality"]

Applications == {t \in TermIds : Op(t) = "Apply"}
\* Every application is listed once for each argument that is t.
Occurrences(t, app) == [i \in 1..Len(Args(app)) |-> IF Args(app)[i] = t THEN <<app>> ELSE << >>]
UsesOf(t) ==
    FlattenSeq([app \in TermIds |-> IF app \in Applications THEN FlattenSeq(Occurrences(t, app))
                                   ELSE << >>])

EufInit ==
    /\ parent = [t \in TermIds |-> t] /\ rank = [t \in TermIds |-> 0]
    /\ proof_adj = [t \in TermIds |-> << >>]
    /\ use_list = [t \in TermIds |-> UsesOf(t)]
    /\ sig_lookup = [s \in {Sig(app) : app \in Applications} |->
                        CHOOSE app \in Applications : Sig(app) = s]
    /\ disequalities = << >>
    /\ undo_trail = FlattenSeq([t \in TermIds |-> IF t \in Applications THEN <<Lookup(Sig(t))>>
                                                   ELSE << >>])
    /\ euf_scopes = << >>
    /\ euf_pc = "ready" /\ merges = << >>
    /\ link = [parent |-> 0, uses |-> << >>, all |-> << >>, induced |-> << >>]

-----------------------------------------------------------------------------
(* Assertions.                                                              *)

\* The pairs of positions i < j of a sequence, in the order of two loops.
PairsOf(s) ==
    FlattenSeq([i \in 1..Len(s) |-> [j \in 1..(Len(s) - i) |-> <<s[i], s[i + j]>>]])
\* Mutant: neighbours only.
ArgPairSeqAdjacent(t) == [i \in 1..(Len(Args(t)) - 1) |-> <<Args(t)[i], Args(t)[i + 1]>>]
ArgPairSeq(t) == PairsOf(Args(t))
\* Disequalities between the arguments of t, on account of literal l.
Disequalities(t, l) ==
    [i \in 1..Len(ArgPairSeq(t)) |-> [a |-> ArgPairSeq(t)[i][1], b |-> ArgPairSeq(t)[i][2], lit |-> l]]
Differ(new) ==
    /\ disequalities' = disequalities \o new
    /\ undo_trail' = undo_trail \o [i \in 1..Len(new) |-> Disequality]
    /\ UNCHANGED <<parent, rank, proof_adj, use_list, sig_lookup, eufControl>>

\* merge(a, b, reason) as a call from outside.
CallMerge(a, b, reason) ==
    /\ merges' = <<[a |-> a, b |-> b, reason |-> reason]>> /\ euf_pc' = "merge"
    /\ UNCHANGED <<eufData, undo_trail, link>>

IsEq(t) == Op(t) = "Eq" /\ Len(Args(t)) = 2

\* assert_term: an equality merges, its negation and any distinct, whatever its
\* sign, forbid merging.
EufAssert(l) ==
    LET t == AtomOf(l)
    IN  /\ euf_pc = "ready"
        /\ \/ IsEq(t) /\ l > 0 /\ CallMerge(Args(t)[1], Args(t)[2], l)
           \/ IsEq(t) /\ l < 0 /\ Differ(Disequalities(t, l))
           \/ Op(t) = "Distinct" /\ Differ(Disequalities(t, l))
           \/ ~IsEq(t) /\ Op(t) # "Distinct" /\ UNCHANGED <<eufData, undo_trail, eufControl>>
        /\ UNCHANGED euf_scopes

-----------------------------------------------------------------------------
(* merge().                                                                 *)

MergeSame ==
    /\ euf_pc = "merge" /\ merges # << >>
    /\ SameClass(Head(merges).a, Head(merges).b)
    /\ merges' = Tail(merges)
    /\ UNCHANGED <<eufData, undo_trail, euf_scopes, euf_pc, link>>

MergeLink ==
    /\ euf_pc = "merge" /\ merges # << >>
    /\ LET m == Head(merges)
           ra == Find(m.a)
           rb == Find(m.b)
           top == IF rank[ra] >= rank[rb] THEN ra ELSE rb
           child == IF top = ra THEN rb ELSE ra
       IN  /\ ra # rb
           /\ proof_adj' = [proof_adj EXCEPT ![m.a] = Append(@, [to |-> m.b, reason |-> m.reason]),
                                             ![m.b] = Append(@, [to |-> m.a, reason |-> m.reason])]
           /\ parent' = [parent EXCEPT ![child] = top]
           /\ rank' = IF rank[ra] = rank[rb] THEN [rank EXCEPT ![top] = @ + 1] ELSE rank
           /\ undo_trail' = undo_trail \o <<ProofEdge(m.a, m.b),
                                            Linking(child, parent[child], rank[top])>>
           /\ link' = [parent |-> top, uses |-> use_list[child], all |-> use_list[child],
                       induced |-> << >>]
    /\ euf_pc' = "uses"
    /\ UNCHANGED <<use_list, sig_lookup, disequalities, euf_scopes, merges>>

\* One application that uses the child: congruent to another, or new.
VisitUse ==
    /\ euf_pc = "uses" /\ link.uses # << >>
    /\ LET app == Head(link.uses)
           sig == Sig(app)
       IN  \/ /\ sig \in DOMAIN sig_lookup
              /\ LET other == sig_lookup[sig]
                     new == IF SameClass(other, app) THEN << >>
                            ELSE <<[a |-> other, b |-> app, reason |-> NoReason]>>
                 IN  link' = [link EXCEPT !.uses = Tail(@), !.induced = @ \o new]
              /\ UNCHANGED <<sig_lookup, undo_trail>>
           \/ /\ sig \notin DOMAIN sig_lookup
              /\ sig_lookup' = Put(sig_lookup, sig, app)
              /\ undo_trail' = Append(undo_trail, Lookup(sig))
              /\ link' = [link EXCEPT !.uses = Tail(@)]
    /\ UNCHANGED <<parent, rank, proof_adj, use_list, disequalities, euf_scopes, euf_pc, merges>>

\* Mutant: the parent does not take over the child's uses.
UsesVisitedOnce ==
    /\ euf_pc = "uses" /\ link.uses = << >>
    /\ merges' = link.induced \o Tail(merges)
    /\ euf_pc' = "merge"
    /\ UNCHANGED <<eufData, undo_trail, euf_scopes, link>>
UsesVisited ==
    /\ euf_pc = "uses" /\ link.uses = << >>
    /\ use_list' = [use_list EXCEPT ![link.parent] = @ \o link.all]
    /\ merges' = link.induced \o Tail(merges)
    /\ euf_pc' = "merge"
    /\ UNCHANGED <<parent, rank, proof_adj, sig_lookup, disequalities, undo_trail, euf_scopes, link>>

MergeReturn ==
    /\ euf_pc = "merge" /\ merges = << >>
    /\ euf_pc' = "ready"
    /\ UNCHANGED <<eufData, undo_trail, euf_scopes, merges, link>>

-----------------------------------------------------------------------------
(* push() and pop().                                                        *)

EufPush ==
    /\ euf_pc = "ready"
    /\ euf_scopes' = Append(euf_scopes, Len(undo_trail))
    /\ UNCHANGED <<eufData, undo_trail, eufControl>>

EufPop ==
    /\ euf_pc = "ready"
    /\ euf_pc' = IF euf_scopes = << >> THEN "ready" ELSE "undo"
    /\ UNCHANGED <<eufData, undo_trail, euf_scopes, merges, link>>

\* The neighbours of a term without the last edge to `to`.
WithoutLast(adj, to) ==
    LET at == {i \in 1..Len(adj) : adj[i].to = to}
    IN  IF at = {} THEN adj ELSE RemoveAt(adj, Max(at))

Undoing(kind) ==
    /\ euf_pc = "undo" /\ Len(undo_trail) > Last(euf_scopes)
    /\ Last(undo_trail).kind = kind
    /\ undo_trail' = Front(undo_trail)
    /\ UNCHANGED <<use_list, euf_scopes, eufControl>>

\* The rank that is put back goes to the child's own parent, the child itself.
UndoLink ==
    /\ Undoing("Link")
    /\ LET u == Last(undo_trail)
       IN  /\ parent' = [parent EXCEPT ![u.child] = u.old_parent]
           /\ rank' = [rank EXCEPT ![u.old_parent] = u.old_rank]
    /\ UNCHANGED <<proof_adj, sig_lookup, disequalities>>

\* Mutant: the edge is removed at one end.
UndoProofEdgeOneEnd ==
    /\ Undoing("RemoveProofEdge")
    /\ LET u == Last(undo_trail) IN proof_adj' = [proof_adj EXCEPT ![u.a] = WithoutLast(@, u.b)]
    /\ UNCHANGED <<parent, rank, sig_lookup, disequalities>>
UndoProofEdge ==
    /\ Undoing("RemoveProofEdge")
    /\ LET u == Last(undo_trail)
       IN  proof_adj' = [proof_adj EXCEPT ![u.a] = WithoutLast(@, u.b),
                                          ![u.b] = WithoutLast(@, u.a)]
    /\ UNCHANGED <<parent, rank, sig_lookup, disequalities>>

UndoLookup ==
    /\ Undoing("AddLookup")
    /\ sig_lookup' = Forget(sig_lookup, Last(undo_trail).sig)
    /\ UNCHANGED <<parent, rank, proof_adj, disequalities>>

UndoDisequality ==
    /\ Undoing("AddDisequality")
    /\ disequalities' = Front(disequalities)
    /\ UNCHANGED <<parent, rank, proof_adj, sig_lookup>>

PopReturn ==
    /\ euf_pc = "undo" /\ Len(undo_trail) <= Last(euf_scopes)
    /\ euf_scopes' = Front(euf_scopes) /\ euf_pc' = "ready"
    /\ UNCHANGED <<eufData, undo_trail, merges, link>>

EufStep ==
    \/ MergeSame \/ MergeLink \/ VisitUse \/ UsesVisited \/ MergeReturn
    \/ UndoLink \/ UndoProofEdge \/ UndoLookup \/ UndoDisequality \/ PopReturn

-----------------------------------------------------------------------------
(* check() and explain().                                                   *)

Neighbours(t) == {proof_adj[t][i].to : i \in 1..Len(proof_adj[t])}

\* A shortest path of the proof graph, as breadth-first search finds it; in a
\* forest it is the only one.
PathBetween(s, t) ==
    LET Reaching(P) == {p \in P : Last(p) = t}
        paths[k \in Nat] ==
            LET P == paths[k - 1]
            IN  IF k = 0 THEN {<<s>>}
                ELSE IF Reaching(P) # {} THEN P
                ELSE UNION {{Append(p, v) : v \in Neighbours(Last(p)) \ ToSet(p)} : p \in P}
        found == Reaching(paths[Len(terms)])
    IN  IF found = {} THEN << >> ELSE CHOOSE p \in found : TRUE
ReasonOf(u, v) ==
    proof_adj[u][Min({i \in 1..Len(proof_adj[u]) : proof_adj[u][i].to = v})].reason

\* The edges of the path between two terms, and the argument pairs that
\* explain those without a reason.
PathEdges(s, t) ==
    LET path == PathBetween(s, t) IN {<<path[i], path[i + 1]>> : i \in 1..(Len(path) - 1)}
CongruentArgs(edges) ==
    UNION {{<<Args(e[2])[i], Args(e[1])[i]>> : i \in 1..Len(Args(e[1]))} :
             e \in {e \in edges : ReasonOf(e[1], e[2]) = NoReason /\ SameFunction(e[1], e[2])}}

\* explain: the negated reasons of every edge the explanation visits.
Explain(s, t) ==
    LET pairs[n \in Nat] ==
            IF n = 0 THEN {<<s, t>>}
            ELSE pairs[n - 1] \cup CongruentArgs(UNION {PathEdges(p[1], p[2]) : p \in pairs[n - 1]})
        edges == UNION {PathEdges(p[1], p[2]) : p \in pairs[Len(terms)]}
    IN  {-ReasonOf(e[1], e[2]) : e \in {e \in edges : ReasonOf(e[1], e[2]) # NoReason}}

\* check: the clause of the first disequality between equal terms, if any.
Violated == {i \in 1..Len(disequalities) : SameClass(disequalities[i].a, disequalities[i].b)}
EufConflicts ==
    {Explain(disequalities[i].a, disequalities[i].b) \cup {-disequalities[i].lit} :
        i \in {i \in Violated : \A j \in Violated : i <= j}}
=============================================================================
