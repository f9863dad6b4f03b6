------------------------------- MODULE Engine -------------------------------
(***************************************************************************)
(* The solver engine (engine.rs) and its clients in opaque.rs.  A call runs *)
(* to its end before the next one starts; check_sat_assuming is followed    *)
(* through simplification, solving and validation, and the calls that ask   *)
(* it several times (enumerate_models, classify_contextual, fold_trace)     *)
(* from answer to answer.  The search itself is SatSolver's: here it finds  *)
(* any solution of the clauses, or refutes them: when there is none, and    *)
(* whether there is one or not when it may be misled (see Misled).  What    *)
(* the theories leave open is any valuation of the atoms.                   *)
(***************************************************************************)
EXTENDS Encoders, Preprocess, Validator, Scopes

CONSTANTS
    Sessions,   \* sequences of calls a client may make
    Ints        \* the integers of the model

VARIABLES
    arena, var_decls, last_model, logic,  \* the fields of Solver, with Scopes' two
    query,      \* where check_sat_assuming is, and what it has computed
    verdict,    \* the last answer and the formulas it is about
    job,        \* the call being served, or the result of the last one
    calls       \* what the client still has to call

solver == <<arena, assertions, scopes, var_decls, logic>>
vars == <<arena, assertions, scopes, var_decls, last_model, logic, query, verdict, job, calls>>

Some(x) == {x}
None == {}
The(option) == CHOOSE x \in option : TRUE

Call(call, terms, n) == [call |-> call, terms |-> terms, n |-> n, taken |-> <<>>, logic |-> ""]

ToIntern(terms) == UNION {Subterms(t) : t \in ToSet(terms)}
NewArena == {TrueT, FalseT}

-----------------------------------------------------------------------------
(* Valuations.                                                              *)

ValuesOf(sort) == CASE sort = BoolSort -> BOOLEAN [] sort = IntSort -> Ints [] sort > 0 -> 0..(2^sort - 1)
Valuations(variables) ==
    FoldSet(LAMBDA v, Ms : {M @@ (v.name :> x) : M \in Ms, x \in ValuesOf(v.sort)}, {<<>>}, variables)
Satisfies(M, formulas) == \A f \in formulas : Meaning(f, M)
\* A model completed by what the validator assumes of names it does not give a value.
Completed(model, variables) ==
    [name \in {v.name : v \in variables} |->
        IF name \in DOMAIN model THEN model[name]
        ELSE DefaultForSort((CHOOSE v \in variables : v.name = name).sort)]

-----------------------------------------------------------------------------
(* check_sat_assuming.                                                      *)

Idle == [at |-> "idle"]
Ask(assumptions) == [at |-> "simplify", assumptions |-> assumptions]

Simplified(formulas) == [i \in DOMAIN formulas |-> Rewrite(FoldTerm(formulas[i]))] \o <<>>

\* The answer, about the assertions and the assumptions, and whether it comes
\* of a search that may be misled (history).
Answer(result, misled) ==
    /\ verdict' = [result |-> result, formulas |-> ToSet(assertions \o query.assumptions), misled |-> misled]
    /\ query' = [at |-> "answered"]

Simplify ==
    /\ query.at = "simplify"
    /\ last_model' = None
    /\ LET facts == Simplified(assertions)
           assumed == Simplified(query.assumptions)
       IN  /\ arena' = arena \union ToIntern(facts \o assumed)
           /\ IF FalseT \in ToSet(facts \o assumed) THEN Answer("Unsat", FALSE)
              ELSE /\ query' = [at |-> "solve", assumptions |-> query.assumptions,
                                facts |-> facts, assumed |-> assumed]
                   /\ UNCHANGED verdict
    /\ UNCHANGED <<assertions, scopes, var_decls, logic, job, calls>>

ArithmeticOps == {"Select", "Store", "Apply", "IntConst", "RealConst", "Add", "Sub", "Mul", "Div", "Lt", "Le", "Gt", "Ge"}
IsPureBvProblem == logic \in {"", "QF_BV"} /\ \A t \in arena : t.op \notin ArithmeticOps

Formulas == ToSet(query.facts \o query.assumed)
Found(model) ==
    /\ last_model' = Some(model)
    /\ query' = [at |-> "verify", assumptions |-> query.assumptions, result |-> "True", misled |-> FALSE]
Refuted(misled) ==
    /\ query' = [at |-> "verify", assumptions |-> query.assumptions, result |-> "False", misled |-> misled]
    /\ UNCHANGED last_model

\* Terms of which the theories give conflicts that are none, or too late: a
\* distinct forbids equal arguments whatever its sign, numbers that arithmetic
\* found equal are merged without a reason, and pivoting leaves a violated bound
\* to a later check.  All terms of the arena are registered, also those that
\* were rewritten or popped.
Misleads(t) ==
    \/ t.op = "Distinct"
    \/ t.op = "Eq" /\ t.args[1].sort = IntSort
    \/ t.op \in {"Lt", "Le", "Gt", "Ge"} /\ t.args[2].op # "IntConst"
\* Whether the search may refute clauses that have a solution: under assumptions
\* it does when a backjump goes below them, with theories because of such terms,
\* and any search may restart.
Misled ==
    IF query.assumed # <<>> \/ (~IsPureBvProblem /\ \E t \in arena : Misleads(t))
    THEN {TRUE} ELSE BOOLEAN

\* A declared variable that no clause mentions gets a new, unassigned literal.
ModelOf(names, M) ==
    [n \in names |-> IF n \in DOMAIN M THEN M[n] ELSE DefaultForSort(var_decls[n].sort)]

SolveQfBv ==
    /\ query.at = "solve" /\ IsPureBvProblem
    /\ LET free == [FreeAtoms(Formulas) -> BOOLEAN]
           solutions == {M \in Valuations(VarsOf(Formulas)) :
                            \E f \in free : \A t \in Formulas : BlastBool(t, M, f)}
       IN  \/ \E misled \in Misled : (solutions = {} \/ misled) /\ Refuted(misled)
           \/ \E M \in solutions : Found(ModelOf({n \in DOMAIN var_decls : var_decls[n].sort # IntSort}, M))
    /\ UNCHANGED <<solver, verdict, job, calls>>

\* The literals that satisfy the clauses, whatever the theories say of them.
Skeletons ==
    {atoms \in [AtomsOf(Formulas) -> BOOLEAN] :
        /\ \A t \in ToSet(query.facts) : AssertedHolds(t, atoms)
        /\ \A t \in ToSet(query.assumed) : Encode(t, atoms)}
AtomsUnder(M) == [a \in AtomsOf(Formulas) |-> Meaning(a, M)]
BoolsOf(atoms) ==
    [n \in {a.name : a \in {b \in DOMAIN atoms : b.op = "Var"}} |-> atoms[Var(n, BoolSort)]]
IntNames == {v.name : v \in {u \in VarsOf(Formulas) : u.sort = IntSort}}

SolveCdclT ==
    /\ query.at = "solve" /\ ~IsPureBvProblem
    /\ LET skeletons == Skeletons
           names == {n \in DOMAIN var_decls : var_decls[n].sort \in {BoolSort, IntSort}}
           solvable == \E M \in Valuations(VarsOf(Formulas)) : AtomsUnder(M) \in skeletons
       IN  \/ \E misled \in Misled : (~solvable \/ misled) /\ Refuted(misled)
           \/ \E atoms \in skeletons, ints \in [IntNames -> Ints] :
                  Found(ModelOf(names, BoolsOf(atoms) @@ ints))
    /\ UNCHANGED <<solver, verdict, job, calls>>

\* The model must satisfy the formulas as they were before simplification.
Conclude ==
    /\ query.at = "verify"
    /\ CASE query.result = "False" -> Answer("Unsat", query.misled)
         [] query.result = "True" ->
                Answer(IF Validate(assertions \o query.assumptions, The(last_model)) THEN "Sat" ELSE "Unknown", FALSE)
    /\ UNCHANGED <<solver, last_model, job, calls>>

-----------------------------------------------------------------------------
(* Calls that do not ask.                                                   *)

Done == [kind |-> "none", open |-> FALSE]
Calls(call) == /\ query.at = "idle" /\ ~job.open
               /\ calls # <<>> /\ Head(calls).call = call
               /\ calls' = Tail(calls)
TheCall == Head(calls)

SetLogic ==
    /\ Calls("set_logic")
    /\ logic' = TheCall.logic /\ job' = Done
    /\ UNCHANGED <<arena, assertions, scopes, var_decls, last_model, query, verdict>>

DeclareConst ==
    /\ Calls("declare_const")
    /\ LET v == TheCall.terms[1]
       IN  /\ var_decls' = (v.name :> v) @@ var_decls
           /\ arena' = arena \union {v}
    /\ job' = Done
    /\ UNCHANGED <<assertions, scopes, last_model, logic, query, verdict>>

AssertFormula ==
    /\ Calls("assert")
    /\ AddFormula(TheCall.terms[1])
    /\ arena' = arena \union ToIntern(TheCall.terms)
    /\ job' = Done
    /\ UNCHANGED <<var_decls, last_model, logic, query, verdict>>

Push ==
    /\ Calls("push")
    /\ PushScopes(TheCall.n)
    /\ job' = Done
    /\ UNCHANGED <<arena, var_decls, last_model, logic, query, verdict>>

Pop ==
    /\ Calls("pop")
    /\ PopScopes(TheCall.n)
    /\ job' = Done
    /\ UNCHANGED <<arena, var_decls, last_model, logic, query, verdict>>

Reset ==
    /\ Calls("reset")
    /\ DropAll
    /\ arena' = NewArena /\ var_decls' = <<>> /\ last_model' = None /\ logic' = ""
    /\ job' = Done
    /\ UNCHANGED <<query, verdict>>

-----------------------------------------------------------------------------
(* check_sat and enumerate_models.                                          *)

CheckSat ==
    /\ Calls("check_sat")
    /\ query' = Ask(TheCall.terms)
    /\ arena' = arena \union ToIntern(TheCall.terms)
    /\ job' = [kind |-> "check", open |-> TRUE]
    /\ UNCHANGED <<assertions, scopes, var_decls, last_model, logic, verdict>>

Return ==
    /\ query.at = "answered" /\ job.kind = "check"
    /\ query' = Idle /\ job' = [job EXCEPT !.open = FALSE]
    /\ UNCHANGED <<solver, last_model, verdict, calls>>

EnumerateModels ==
    /\ Calls("enumerate_models")
    /\ LET named == [i \in DOMAIN TheCall.terms |-> TheCall.terms[i].name]
           targets == IF named = <<>> THEN SetToSeq(DOMAIN var_decls) ELSE named
       IN  job' = [kind |-> "enumerate", open |-> TheCall.n > 0, targets |-> targets,
                   limit |-> TheCall.n, models |-> <<>>, base |-> assertions]
    /\ query' = IF TheCall.n > 0 THEN Ask(<<>>) ELSE Idle
    /\ UNCHANGED <<solver, last_model, verdict>>

ConstTerm(v, sort) ==
    CASE sort = BoolSort -> BoolConst(v) [] sort = IntSort -> IntConst(v) [] sort > 0 -> BvConst(v, sort)
Blocked(targets, model) == SelectSeq(targets, LAMBDA n : n \in DOMAIN var_decls /\ n \in DOMAIN model)
\* Mutant: the next model must differ in every target.
BlockingClauseAll(names, model) ==
    AndT([i \in DOMAIN names |-> NotT(EqT(var_decls[names[i]], ConstTerm(model[names[i]], var_decls[names[i]].sort)))])
BlockingClause(names, model) ==
    OrT([i \in DOMAIN names |-> NotT(EqT(var_decls[names[i]], ConstTerm(model[names[i]], var_decls[names[i]].sort)))])

EnumerateNext ==
    /\ query.at = "answered" /\ job.kind = "enumerate" /\ verdict.result = "Sat"
    /\ LET model == The(last_model)
           names == Blocked(job.targets, model)
           clause == BlockingClause(names, model)
           more == names # <<>> /\ Len(job.models) + 1 < job.limit
       IN  /\ job' = [job EXCEPT !.models = Append(@, model), !.open = more]
           /\ IF names = <<>> THEN UNCHANGED stack ELSE AddFormula(clause)
           /\ arena' = IF names = <<>> THEN arena ELSE arena \union Subterms(clause)
           /\ query' = IF more THEN Ask(<<>>) ELSE Idle
    /\ UNCHANGED <<var_decls, last_model, logic, verdict, calls>>

EnumerateStop ==
    /\ query.at = "answered" /\ job.kind = "enumerate" /\ verdict.result # "Sat"
    /\ query' = Idle /\ job' = [job EXCEPT !.open = FALSE]
    /\ UNCHANGED <<solver, last_model, verdict, calls>>

-----------------------------------------------------------------------------
(* Opaque predicates and path conditions.                                   *)

Branch == job.branches[Len(job.classes) + 1]
\* What classify_contextual asks at each of its stages.
Asked(stage, path, predicate) ==
    CASE stage = "path" -> Ask(path)
      [] stage = "not" -> Ask(Append(path, NotT(predicate)))
      [] stage = "holds" -> Ask(Append(path, predicate))
FirstStage(path) == IF path = <<>> THEN "not" ELSE "path"

\* check_opaque_contextual is the first predicate under the others as path condition.
FoldTrace ==
    /\ Calls("fold_trace") \/ Calls("check_opaque")
    /\ LET trace == TheCall.call = "fold_trace"
           branches == IF trace THEN [i \in DOMAIN TheCall.terms |->
                                         [predicate |-> TheCall.terms[i], taken |-> TheCall.taken[i]]]
                       ELSE <<[predicate |-> TheCall.terms[1], taken |-> TRUE]>>
           path == IF trace THEN <<>> ELSE Tail(TheCall.terms)
       IN  /\ job' = [kind |-> "trace", open |-> TRUE, branches |-> branches, given |-> path,
                      path |-> path, stage |-> FirstStage(path), res_not |-> "Unknown", refuted |-> {},
                      reachable |-> {}, eliminated |-> {}, classes |-> <<>>]
           /\ query' = Asked(FirstStage(path), path, branches[1].predicate)
           /\ arena' = arena \union ToIntern(TheCall.terms) \union {NotT(branches[1].predicate)}
    /\ UNCHANGED <<assertions, scopes, var_decls, last_model, logic, verdict>>

AskNextStage(stage) ==
    /\ job' = [job EXCEPT !.stage = stage, !.res_not = verdict.result]
    /\ query' = Asked(stage, job.path, Branch.predicate)
    /\ UNCHANGED arena

Assumed(class) ==
    IF class = "AlwaysTrue" \/ (class # "AlwaysFalse" /\ Branch.taken)
    THEN Branch.predicate ELSE NotT(Branch.predicate)
\* Mutant: the live edge is taken for the dead one.
DeadEdgesSwapped(class) ==
    LET at == Len(job.classes) + 1
    IN  CASE class = "AlwaysTrue" -> {<<at, TRUE>>} [] class = "AlwaysFalse" -> {<<at, FALSE>>} [] OTHER -> {}
DeadEdges(class) ==
    LET at == Len(job.classes) + 1
    IN  CASE class = "AlwaysTrue" -> {<<at, FALSE>>} [] class = "AlwaysFalse" -> {<<at, TRUE>>} [] OTHER -> {}

Classified(class) ==
    LET at == Len(job.classes) + 1
        reached == class # "Unreachable"
        path == IF reached THEN Append(job.path, Assumed(class)) ELSE job.path
        more == reached /\ at < Len(job.branches)
    IN  /\ job' = [job EXCEPT !.classes = Append(@, class), !.open = more, !.path = path, !.stage = "path",
                              !.refuted = IF verdict.result = "Unsat" THEN @ \union {verdict.formulas} ELSE @,
                              !.reachable = IF reached THEN @ \union {at} ELSE @,
                              !.eliminated = @ \union DeadEdges(class)]
        /\ query' = IF more THEN Ask(path) ELSE Idle
        /\ arena' = arena \union (IF more THEN {NotT(job.branches[at + 1].predicate)} ELSE {})

Classify ==
    /\ query.at = "answered" /\ job.kind = "trace"
    /\ LET result == verdict.result
       IN  CASE job.stage = "path" -> IF result = "Unsat" THEN Classified("Unreachable") ELSE AskNextStage("not")
             [] job.stage = "not" -> IF result = "Unsat" THEN Classified("AlwaysTrue") ELSE AskNextStage("holds")
             [] job.stage = "holds" ->
                    Classified(IF result = "Unsat" THEN "AlwaysFalse"
                               ELSE IF result = "Sat" /\ job.res_not = "Sat" THEN "Dynamic" ELSE "Unknown")
    /\ UNCHANGED <<assertions, scopes, var_decls, last_model, logic, verdict, calls>>

-----------------------------------------------------------------------------

Init ==
    /\ StackInit
    /\ arena = NewArena /\ var_decls = <<>> /\ last_model = None /\ logic = ""
    /\ query = Idle /\ job = Done
    /\ verdict = [result |-> "none", formulas |-> {}, misled |-> FALSE]
    /\ calls \in Sessions

Next ==
    \/ SetLogic \/ DeclareConst \/ AssertFormula \/ Push \/ Pop \/ Reset
    \/ CheckSat \/ Simplify \/ SolveQfBv \/ SolveCdclT \/ Conclude \/ Return
    \/ EnumerateModels \/ EnumerateNext \/ EnumerateStop
    \/ FoldTrace \/ Classify

Spec == Init /\ [][Next]_vars

-----------------------------------------------------------------------------
(* Properties.                                                              *)

\* Scope marks point into the assertions, in order; a model gives values to
\* declared variables only; a query or a job is where its call can be.
TypeOK ==
    /\ {TrueT, FalseT} \subseteq arena /\ ToSet(assertions) \subseteq arena
    /\ \A i \in DOMAIN scopes : scopes[i] \in 0..Len(assertions) /\ (i > 1 => scopes[i - 1] <= scopes[i])
    /\ \A n \in DOMAIN var_decls : var_decls[n].name = n /\ var_decls[n] \in arena
    /\ \A m \in last_model : DOMAIN m \subseteq DOMAIN var_decls
    /\ query.at \in {"idle", "simplify", "solve", "verify", "answered"}
    /\ verdict.result \in {"none", "Sat", "Unsat", "Unknown"}
    /\ job.kind \in {"none", "check", "enumerate", "trace"} /\ (job.open <=> query.at # "idle")

Asking == ToSet(assertions \o query.assumptions)
ForAll(formulas, P(_, _)) ==
    \A t \in formulas : \A M \in Valuations(VarsOf({t})) : P(t, M)

\* fold_term returns a term with the same value under every valuation
\* (constant_folding.rs:30).
FoldExact ==
    query.at = "simplify" => ForAll(Asking, LAMBDA t, M : Meaning(FoldTerm(t), M) = Meaning(t, M))

\* rewrite returns a term with the same value under every valuation
\* (rewrite.rs:29).
RewriteExact ==
    query.at = "simplify" =>
        ForAll({FoldTerm(t) : t \in Asking}, LAMBDA t, M : Meaning(Rewrite(t), M) = Meaning(t, M))

\* The circuit of a formula is true under exactly the valuations that satisfy
\* it; atoms without a circuit are free literals (bitvector.rs:276).
BlastExact ==
    query.at = "solve" /\ IsPureBvProblem =>
        ForAll(Formulas, LAMBDA t, M :
            BlastBool(t, M, [a \in FreeAtoms({t}) |-> Meaning(a, M)]) = Meaning(t, M))

\* The clauses of the Tseitin encoding hold under exactly the valuations that
\* satisfy the formula (tseitin.rs:46).
CnfExact ==
    query.at = "solve" /\ ~IsPureBvProblem =>
        ForAll(Formulas, LAMBDA t, M :
            LET atoms == [a \in AtomsOf({t}) |-> Meaning(a, M)]
            IN  /\ Encode(t, atoms) = Meaning(t, M)
                /\ AssertedHolds(t, atoms) = Meaning(t, M))

Satisfiable(formulas) == \E M \in Valuations(VarsOf(formulas)) : Satisfies(M, formulas)

\* Unsat by simplification, or by a search without assumptions, misleading
\* terms and restarts, is never answered for formulas that a valuation
\* satisfies: simplifying, choosing the encoder and encoding refute nothing of
\* their own, whatever else the arena and the scopes hold (engine.rs:117).
RefutationsSound ==
    query.at = "answered" /\ verdict.result = "Unsat" /\ ~verdict.misled => ~Satisfiable(verdict.formulas)

\* Operators that neither the bit-blaster nor the validator knows.
Unvalidated(formulas) ==
    \/ OpsOf(formulas) \intersect {"BvSgt", "BvSge"} # {}
    \/ ~IsPureBvProblem /\ ~(OpsOf(formulas) \subseteq Evaluated)
    \/ \E t \in UNION {Subterms(f) : f \in formulas} : t.op \in {"Add", "Mul"} /\ Len(t.args) # 2

\* After Sat the kept model satisfies the assertions and assumptions of the
\* query, until the next query or a reset: pops, pushes and new assertions in
\* between do not touch it (engine.rs:141, :351).
ModelHolds ==
    query.at \in {"idle", "answered"} /\ verdict.result = "Sat" /\ last_model # None
    /\ ~Unvalidated(verdict.formulas) =>
        Satisfies(Completed(The(last_model), VarsOf(verdict.formulas)), verdict.formulas)

\* The same without regard to which operators are validated: "verifies that a
\* candidate model satisfies all asserted formulas" (validator.rs:1).
SatHasModel ==
    query.at = "answered" /\ verdict.result = "Sat" =>
        \E M \in Valuations(VarsOf(verdict.formulas)) : Satisfies(M, verdict.formulas)

\* A bit-vector problem that the validator can evaluate is decided: a right
\* model is not turned down (engine.rs:154, validator.rs:53).
PureBvDecided ==
    query.at = "answered" /\ IsPureBvProblem /\ OpsOf(verdict.formulas) \subseteq Evaluated
    /\ (\A v \in VarsOf(verdict.formulas) : v.sort # IntSort) => verdict.result # "Unknown"

AgreeOn(names, M, N) == \A i \in DOMAIN names : names[i] \in DOMAIN M /\ M[names[i]] = N[names[i]]
\* enumerate_models returns at most limit models of the assertions it was
\* called with, no two of which agree on the targets; when it ends with Unsat,
\* of a search that did not restart and met no misleading terms, it has found
\* them all (engine.rs:410).
EnumerationExact ==
    job.kind = "enumerate" /\ ~Unvalidated(ToSet(job.base)) =>
        LET base == ToSet(job.base)
            blocked == SelectSeq(job.targets, LAMBDA n : n \in DOMAIN var_decls)
            declared == {var_decls[n] : n \in DOMAIN var_decls}
        IN  /\ Len(job.models) <= job.limit
            /\ \A i \in DOMAIN job.models :
                  /\ Satisfies(Completed(job.models[i], VarsOf(base)), base)
                  /\ \A j \in 1..(i - 1) : ~AgreeOn(blocked, job.models[i], job.models[j])
            /\ ~job.open /\ job.limit > 0 /\ verdict.result = "Unsat" /\ ~verdict.misled =>
                  \A M \in Valuations(declared) :
                      Satisfies(M, base) => \E i \in DOMAIN job.models : AgreeOn(blocked, job.models[i], M)

\* No execution that satisfies the assertions and goes the recorded way at the
\* earlier branches of a trace takes an edge fold_trace eliminates there, and
\* none reaches a branch it calls unreachable; at a dynamic branch both ways
\* are possible: "Invariant/contextual branch always taken (dead false branch
\* can be eliminated)" (opaque.rs:4).  It takes right answers (see below).
EliminatedEdgesDead ==
    job.kind = "trace" =>
        LET predicates == {job.branches[i].predicate : i \in DOMAIN job.branches}
            context == ToSet(assertions \o job.given)
            Runs == {M \in Valuations(VarsOf(predicates \union context)) : Satisfies(M, context)}
            Goes(M, i) == Meaning(job.branches[i].predicate, M)
            Reaching(at) == {M \in Runs : \A i \in 1..(at - 1) : Goes(M, i) = job.branches[i].taken}
        IN  \A at \in DOMAIN job.classes :
              /\ \A M \in Reaching(at) : <<at, Goes(M, at)>> \notin job.eliminated /\ at \in job.reachable
              /\ job.classes[at] = "Dynamic" /\ ~Unvalidated(predicates \union context) =>
                    {Goes(M, at) : M \in Reaching(at)} = BOOLEAN

\* Folding adds no mistake of its own: if what the trace was answered Unsat
\* for has no valuation, the edges it eliminates are dead.  So Unknown is never
\* taken for Unsat, and the path condition is that of the executions that go
\* the recorded way (opaque.rs:39, :115).  The answers themselves come of
\* queries under assumptions, which may be wrong.
EdgesDeadAsAnswered ==
    job.kind = "trace" /\ (\A formulas \in job.refuted : ~Satisfiable(formulas)) => EliminatedEdgesDead
=============================================================================
