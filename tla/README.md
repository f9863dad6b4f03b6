# A verification of the SMT solver workspace

This directory models the solver under `src/crates/` in TLA+, checks the models
with TLC on small instances and proves the most important facts with TLAPS for
every instance. It covers the parts an answer goes through: the CDCL(T) search
of `smt-sat` with its trail, restarts and DRAT certificates; the theories of
`smt-theories` that the search calls back; the engine, with the folder, the
rewriter, both encoders and the validator of models; the clients that ask the
engine (opaque predicates, trace folding); the persistent cache; and the lifter
of machine code, with its memory and its branch verdicts.

## The system

| Part | State it keeps | Operations | Works with | What makes it correct |
| --- | --- | --- | --- | --- |
| SAT search (`smt-sat/solver.rs`, `clause.rs`, `watch.rs`) | clause arena, watch lists, `ok`, scopes, limits, last model | `new_var`, `add_clause`, `push`, `pop`, `solve*`; inside: `bcp`, `analyze_conflict`, `reduce_db`, `solve_internal` | trail, VSIDS, restarts, proof log, a theory called back from the search | answers are right; learned clauses follow; propagation is complete; every call returns |
| Trail (`trail.rs`) | assignment, levels, reasons, phases, queue head | assign, new level, backtrack, dequeue | SAT search | trail and assignment agree after any backjump |
| VSIDS (`vsids.rs`) | activities, heap | bump, decay, pop maximum, insert | SAT search | every open variable can be chosen |
| Restarts (`restart.rs`) | averages, Luby index and limit | `record_conflict`, `on_restart` | SAT search | intervals follow Luby, restarts keep answers |
| DRAT (`drat.rs`, `drat_checker.rs`) | proof lines | add, delete, `verify_proof` | SAT search; the CLI checks | a refutation has a certificate that verifies |
| EUF (`smt-theories/euf.rs`) | union-find, proof forest, signatures, disequalities, undo trail | `merge`, `explain`, `check`, `push`, `pop` | coordinator | congruence is exact, explanations suffice, undo is exact |
| Simplex (`simplex.rs`) | tableau, bounds, assignment, undo stack | bounds, `pivot`, `check`, `push`, `pop` | coordinator | Ok means feasible, a conflict means infeasible |
| Arrays (`array.rs`), Nelson-Oppen (`nelson_oppen.rs`) | instantiated axioms; shared terms | `scan_term`; `check` | engine; EUF and Simplex | enough axioms; equalities travel with their reasons |
| Bit-blaster, Tseitin, constant folder, rewriter | term-to-literal maps, step counters | `blast_*`, `encode`, `fold_term`, `rewrite` | engine, SAT search | the encoding and every rewriting keep the meaning |
| Term and sort arenas (`smt-core`) | hash-consed terms | smart constructors | everything | one id per term, sorts and widths right |
| Engine (`engine.rs`, `model.rs`, `validator.rs`) | assertions, scopes, declarations, last model | assert, push, pop, `check_sat_assuming`, models | all of the above | answers match the assertions in force; models satisfy them |
| Cache (`cache.rs`) | entries, a file | `open`, `get`, `insert` | several processes, one file | no result is lost or altered |
| Lifter, decoder, loader (`lifter.rs`, `x86_decoder.rs`, `binary_loader.rs`) | registers, flags, byte memory, symbolic stores, faults, scopes | `step`, read, write, `push`, `pop`, `resolve_branch*` | engine | memory reads return the last store; a proven branch is proven |
| Opaque, synthesis, provenance, replay, explain, crypto | none beyond the call | classify, fold, verify, replay, scan | engine, lifter | Unknown is never taken for Unsat |
| MBA (`smt-mba`) | matrices, polynomials | `simplify`, `rref`, `normalize` | engine | simplified terms are equal |
| Parser, interfaces, CLI | symbol tables | parse, encode, call | engine | (text in, text out) |

The program is sequential. What is hard in it is not interleaving but state
that several parts share and update in steps: a watch list being rebuilt while
clauses move, a theory whose scopes must follow the decision levels, reasons
that outlive evictions, budgets that stop a search half way, scopes that are
popped after facts were derived in them. Concurrency and crashes meet only the
cache file. `PROJECT.json` lists each hazard at its line.

## Modules

| Module | Models | Notes |
| --- | --- | --- |
| `SatLits` | `lit.rs` | literals as signed integers, three truth values, entailment over all assignments (the reference semantics of the properties) |
| `Trail` | `trail.rs` | a record and operators; `TrailInv` is what it promises |
| `RestartStrategy` | `restart.rs` | Luby as a recursive function; the Glucose comparison of floating-point averages is a choice once `MinConflicts` is reached |
| `DratChecker` | `drat.rs`, `drat_checker.rs` | proof lines and the RUP checker, as `verify_proof` computes it |
| `SatSolver` | `solver.rs`, `clause.rs`, `watch.rs` | the state machine, composing the four above, and its properties |
| `MCSat` | - | clients for TLC |
| `SatSolver_proofs`, `Models_proofs`, `Sound_proofs` | - | theorems about `Trail` and `SatSolver`, each module on the invariants of the ones before it |
| `Congruence` | `term.rs` | terms and literals as the theories see them; congruence closure as a partition (the reference semantics) |
| `Euf` | `euf.rs` | union-find, proof forest, signatures, undo trail; `merge` and `pop` in steps |
| `Simplex` | `simplex.rs` | tableau, bounds and undo stack; `solve_simplex` in rounds |
| `NelsonOppen` | `nelson_oppen.rs`, the no-op calls of `array.rs` | the coordinator over `Euf` and `Simplex`, called as the search calls it, and the properties of all three |
| `MCTheories` | - | seven term arenas for TLC |
| `Theories_proofs` | - | theorems about `NelsonOppen` and the two engines under it |
| `Induction_proofs` | - | least counterexamples, recursion and folds: what the proofs of the theories, the cache and the lifter share |
| `BitVectors` | the arithmetic of `validator.rs` | bit-vector values and operations, shared by the meaning of terms and by the lifted machine |
| `Terms` | `term.rs` | terms as the trees they stand for, the constructors that simplify; `Meaning`, what SMT-LIB says a term denotes (the reference semantics) |
| `Preprocess` | `constant_folding.rs`, `rewrite.rs` | one operator per family of rules, applied bottom up as the code does |
| `Circuits` | gates of `bitvector.rs` and `tseitin.rs` | adders, multipliers, dividers, barrel shifters, comparators over bits |
| `Encoders` | `bitvector.rs`, `tseitin.rs` | the dispatch of `blast_bv`, `blast_bool` and `encode`, with the literals they leave unconstrained |
| `Validator` | `validator.rs` | `evaluate` with its defaults, `validate` |
| `AssertionStack` | - | what SMT-LIB promises of assertions and scopes (an abstract specification) |
| `Scopes` | `assertions` and `scopes` of `engine.rs` | the vector of assertions, a mark per scope, and what `assert_formula`, `push`, `pop` and `reset` do to them |
| `Scopes_proofs` | - | that `Scopes` implements `AssertionStack` |
| `Engine` | `engine.rs`, `opaque.rs` | the state machine over the six above, and its properties; its actions on the assertions are those of `Scopes` |
| `MCEngine` | - | sessions of calls for TLC |
| `Cache`, `MCCache` | `cache.rs` | several processes over one file, flushes in pieces, crashes |
| `Cache_proofs` | - | theorems about `Cache` |
| `X86` | instruction and register names of `lifter.rs`, its slices | roots and views, what an instruction uses and defines, `SemanticSlice` |
| `FlatMachine` | - | what a program does with flat registers and a flat byte memory (an abstract specification) |
| `Lifter` | `lifter.rs` | the state machine of `step`, scopes and branch resolution, and its properties |
| `Lifter_proofs` | - | theorems about `Lifter` |
| `MCLifter` | - | instructions, initial machines and settings for TLC |

### SatSolver, state and actions

`calls` is what the client still asks for, `inputs` the clauses it has added
and not popped (a history variable: it is what answers are judged by). `arena`,
`watches`, `tr`, `heap`, `restarts`, `proof`, `max_learned`, `scopes`, `model`,
`ok`, `num_vars` are the fields of `SatSolver`; `th` is the theory's list of
asserted literals with its scopes; `bcp`, `an`, `sv` hold the local variables
of `bcp`, `analyze_conflict` and `solve_with_theory`, and `pc` the place in the
code. A client action starts a call; the solver then runs it to its end:

- `NewVar`, `AddClause`, `Push`, `Pop`, `Solve` are the calls (`AddClause` with
  its clean-up, and its propagation when a unit is left).
- `BcpDequeue` takes a literal and its watch list; `VisitSkip`,
  `VisitSatisfied`, `VisitRewatch`, `VisitUnit`, `VisitConflict` are the five
  ways a watcher is handled, `VisitEnd` puts the list back; `BcpOk` returns and
  tells the theory of the new literals.
- `ConflictInAddClause`, `ConflictBeforeSearch`, `ConflictAtLevelZero` are the
  three ends; `StartAnalysis`, `MarkLit`, `PickLit` the first-UIP loop;
  `AssumptionsRefuted` and `Backjump` what follows it, with the restart;
  `ReduceDb` evicts; `Learn` stores and asserts (`pc = "panic"` is the
  assertion of `Trail::assign`).
- `BudgetExhausted`, `Loop`, `TheoryConflict`, `TheoryOk`, `DecideAssumption`,
  `DecideVar`, `AllAssigned`, `Finish`, `Return` are the search loop and the
  end of a solve.

Choices left open: which open variable of the heap VSIDS prefers, and which
assigned ones it pops on the way; when Glucose restarts; which false clause the
theory reports; whether a budget is exhausted. The theory is external: a set
of valid clauses, of which `check` reports one whose literals are all false;
with `EagerTheory` it always does when there is one. Activities of clauses are
never bumped by the code, so the eviction order is by LBD, then age.

### NelsonOppen, state and actions

`problem` is the arena and the literals over it that the search may assert; a
literal is an atom or its negation, since the engine gives each atom a SAT
variable. `AssertLit`, `Check`, `Push` and `Pop` are the calls of
`TheoryCallback`, in the order the search makes them: literals and checks until
a conflict, after Ok a scope and a literal, after a conflict a pop. `facts`
remembers the merges asked for and is cut back by `Pop`; it is what union-find
is judged by.

- `Euf`: `EufAssert` starts a merge or adds disequalities; `MergeSame` and
  `MergeLink` are the two ways into `merge`, `VisitUse` and `UsesVisited` its
  loop over the uses of the child and the merges it finds, in the order of the
  recursion, `MergeReturn` its end. `EufPop` takes records off the undo trail:
  `UndoLink`, `UndoProofEdge`, `UndoLookup`, `UndoDisequality`, `PopReturn`.
  `EufConflicts` is what `check` answers, with `Explain`.
- `Simplex`: `SimplexAssert` finds or makes the variable an atom bounds and sets
  the bound; `SolveSimplex` looks for contradictory bounds, moves the non-basic
  variables and enters the loop, whose rounds are `Pivot`, `Infeasible` and
  `Feasible`. The code iterates a hash map when it looks for a pivot: the model
  takes any candidate.
- The coordinator: `Check` asks `Euf`, then `Simplex` (`SimplexReturned`);
  `SharedVars`, `Resolve` and `MergeShared` are what can happen to a pair of
  shared terms, pairs to which nothing happens are passed over; `Recheck` asks
  `Euf` again.

Every term of an arena is registered before the first literal, as
`engine.rs:255` does, so `EufInit` is the result of the registrations. Sums and
products are opaque to `simplex.rs`, which only reads the two sides of a
comparison, and so they are to the model.

### Engine, state and actions

`arena`, `assertions`, `scopes`, `var_decls`, `last_model` and `logic` are the
fields of `Solver`. `query` is where `check_sat_assuming` is and what it has
computed, `verdict` its last answer with the formulas it was about, `job` the
call that asks, `calls` what the client still wants.

- `SetLogic`, `DeclareConst`, `AssertFormula`, `Push`, `Pop`, `Reset` are the
  calls that do not ask.
- `CheckSat` and `Return` surround a query: `Simplify` folds and rewrites the
  assertions and the assumptions and answers Unsat when one became false;
  `SolveQfBv` or `SolveCdclT`, by `IsPureBvProblem`, encodes them and finds a
  model or refutes them; `Conclude` validates the model against the formulas as
  they were and answers.
- `EnumerateModels` asks, `EnumerateNext` keeps a model and asserts its blocking
  clause, `EnumerateStop` ends.
- `FoldTrace` starts `fold_trace`, or `check_opaque` as a trace of one branch;
  `Classify` goes from answer to answer of `classify_contextual`, and from branch
  to branch.

The search is that of `SatSolver`, reduced to its answers: it finds any solution
of the clauses, or refutes them when there is none, and it refutes clauses that
have a solution where the code may. `Misled` says where that is, from what
`SatSolver` and `NelsonOppen` are shown to do: a query under assumptions, whose
backjumps are read as refutations (`FalseUnderAssumptionsHolds`); theory terms in
the arena that give conflicts which are none (`Misleads`: a distinct, whatever its
sign; equalities of numbers, merged without a reason; comparisons whose bound
shows too late); and any search, as it may restart (`RefutationsHold`). That is an
over-approximation: which of these searches really goes wrong depends on the
order VSIDS decides in, which this module does not carry. `verdict.misled`
records that an answer came of such a search, and the properties that rest on
refutations say which they mean. Under theories any literals that satisfy the
clauses may be found and any integers given to the variables, because the
theories may answer Ok too early (`OkMeansConsistent`). A model is judged by
`Validate` alone, as in the code. Terms are trees, so the arena is a set of trees; only the terms
before and after simplification are put into it, not the intermediate ones.

`Meaning` in `Terms` says what a term denotes; it is written from SMT-LIB and
shares only the arithmetic of `BitVectors` with the evaluator under test.

### Cache, state and actions

`file` is a sequence of characters. `Open` reads it, `Insert` changes the
entries and computes the text to write, `Truncate` and `Write` are `fs::write`,
which may go out in two pieces, each at the writer's own offset; `Crash` loses
what a process holds. `owner` and `mixed` record whose flush the file is and
whether pieces of two met.

### Lifter, state and actions

`lifter` has the fields of `Lifter` that a scope saves: the register cache, the
flags, the three memories (concrete, stack, symbolic stores) and the faults.
`world` is the initial machine of one run of the program and `setting` what the
loader and the client chose. A term is its value in that run, whether
`eval_concrete_u64` can compute it, and its expression: enough to decide every
test the code makes, so that each path of the code is followed without
symbolic execution in the model. `via` remembers by which term a byte was
reached, `stale` which cached narrow names are older than their root; no action
of the lifter reads either.

- `Step` executes one instruction (`StepMov`, `StepArithmetic`, `StepLogic`,
  `StepCompare`, `StepPush`, `StepPop`), reading and writing registers through
  their views and memory byte by byte (`ReadByte`, `WriteByte`).
- `Push` and `Pop` save and restore.
- `ResolveBranch` asks whether the condition can hold and can fail; each may be
  answered Sat, Unsat or Unknown, and `misled` records an Unsat that the run
  itself contradicts, as a search that restarts can give. Both the plain and
  the certified verdict are recorded.

Programs are run under a discipline (`Disciplined`), which the properties
need and programs may break; what happens then is listed under *What the
violations say*.

## Runs

| Run | Asks | Bounds |
| --- | --- | --- |
| `sat_core` | On plain SAT problems with a certificate: is propagation complete, is every learned clause asserting, are both answers right, does every refutation verify? | Three variables (a fourth in one script): every subset of the eight three-literal clauses, every set of at most three of twelve two-literal clauses, both followed by further calls; code limits for restarts and eviction, so none happens |
| `sat_full` | With a theory, assumptions, budgets, scopes, restarts and evictions: do the data structures stay consistent, are learned clauses consequences, are models models, does every call return? | Four variables, six in one script; scripts of up to eleven calls with clauses of two to four literals; `max_learned` 2, `luby_unit` 4 and `min_conflicts` 1 so that evictions and restarts happen |
| `sat_assumptions` | Does False under assumptions mean they are refuted? No | One script of two clauses |
| `sat_restart` | Is False without assumptions right when restarts happen? No | Subsets of the three-literal clauses, `luby_unit` 1 |
| `sat_interrupted` | Does every refutation carry a certificate? No | One script with an exhausted budget |
| `theories` | Is congruence exact, also after undoing; does the proof forest explain it; are bounds those of the literals in force; are conflicts consequences; is no equality conflict missed? | Seven arenas of six to eight terms, each with two or three atoms; scopes nest to 2, one is popped; 3 simplex iterations, coefficients up to 3 |
| `theories_conflict` | Is every conflict clause a consequence of the theories? No | As `theories` |
| `theories_ok` | Does Ok mean that the literals are consistent? No | One arena, two bounds and a difference; otherwise as `theories` |
| `engine` | Do folder, rewriter and both encoders keep the meaning of every formula; are models models, also after pops and resets, and refutations right where nothing misleads the search; are enumerations exact, and edges dead that are eliminated on right answers; are the assertions an SMT-LIB assertion stack? | 1188 sessions: one formula for each operator and rule (and operators nested in operators) over two- and three-bit vectors, Booleans and integers from -1 to 2, some results of one and four bits, by either encoder; twelve sessions of up to fourteen calls that mix scopes, assumptions, enumerations and traces |
| `engine_signed` | Has every Sat a model? No | Two sessions of one formula, a negated signed comparison of constants |
| `cache` | Does a flush read back whole, and is no unsatisfiable formula ever called satisfiable, with crashes and overlapping flushes? | Two processes, two hashes, terms with and without a separator; three inserts, three opens, one crash, flushes in one or two pieces |
| `lifter` | Is a program lifted to what it computes; are branch verdicts, slices and faults those of its run; is the store chain bounded? | Programs of up to three of eleven instructions, two initial machines, three settings, bytes of one bit (sixteen addresses), one scope opened and popped anywhere |

The bounds are small but not tame. Three-literal clauses over three variables
give conflicts at every level up to three, learned clauses of one to three
literals, backjumps over levels, and refutations of several conflicts. With six
variables and two assumptions a third conflict evicts while two learned clauses
of three literals are reasons; four variables already
give a backjump that keeps an assumption. Every action of the next-state
relation fires in a passing run. Which open variable is decided is never
bounded: the runs explore every order VSIDS could produce.

The arenas of `theories` are chosen for what can go wrong: a cycle of
applications of which the equality of the smallest follows only by two rounds
of congruence; functions of functions with a distinct of three terms; one
function with swapped and repeated arguments; two bounds and a difference that
contradict each other; a cycle of three differences; arithmetic that makes the
arguments of a function equal; two bounds on one variable beside an equality of
numbers. The literals come in any order, with scopes between them, and after a
pop they come again: then an atom gets a second slack row, over variables that
may be basic by now. `MaxCoefficient` ends the runs that come of that before
coefficients stop being whole numbers; `MaxPops` is needed because use lists
and columns are never undone and would grow for ever.

`ConflictsJustified` is about conflicts under two conditions, each a fault
of the code that `ConflictsValid` shows: no distinct is asserted false, and
arithmetic has merged nothing into EUF, which it does without a reason.
`EqualityConflictsFound` says of Ok that equality alone is not contradictory;
for arithmetic that does not hold (`OkMeansConsistent`). Consistency is decided
by brute force: for every order of the numbers, the congruence closure and the
cycles of the difference constraints. Over the integers fewer sets of literals
are consistent; the code never tells `Simplex` that a variable is an integer,
and the properties are about rationals.

The formulas of `engine` are chosen by rule: each operator of the folder and
the rewriter meets each kind of argument its rules distinguish (equal, zero,
all ones, constant, variable), in both positions, and the binary operators with
rules meet each other nested. Two bits are enough for every carry, borrow,
sign and zero divisor, three for a shift stage whose distance reaches the
width and a rotation that wraps; the reference is computed over all valuations.
`UsizeBits` is that of the machine the solver is built for.

Bits of a byte are scaled in `lifter`, not the structure: a register has four
views, an access one to four bytes, an access can wrap around the last address,
and a chain of symbolic stores can be full. Three instructions suffice to write
a register, reach memory through it and test what came of it; with a scope
around any of them.

### What the violations say

1. `solver.rs:513` returns False as soon as a backjump goes below the
   assumptions, even when the learned clause says nothing about them. With
   (!a or b), (!a or !b) and the assumption c the answer is False although
   {!a, c} is a model.
2. `solver.rs:521`: after a restart the learned literal is assigned at level 0
   while the rest of its clause is open. It is then treated as a fact, and a
   satisfiable problem can be answered False. The code restarts at the hundredth
   conflict at the latest (`luby_unit` 100), or earlier by the Glucose rule.
3. `solver.rs:446`: a refutation found by the first propagation of a solve is
   returned without the empty clause in the certificate.
4. `euf.rs:258`: a distinct asserted false forbids its arguments to be equal
   as one asserted true does, and check reports a conflict between consistent
   literals.
5. `simplex.rs:308`: the variable a pivot takes out of the basis keeps the value
   that was out of its bounds, and the loop only looks at basic ones: x >= 3,
   y <= 3 and x < y are answered Ok.
6. `bitvector.rs:445`: `bvsgt` and `bvsge` have no circuit and become free
   literals, and the validator has no arm for them and takes them for false. Their
   negation is answered Sat whatever the operands (in the run the constants 1 and
   0), although the validator "verifies that a candidate model satisfies all
   asserted formulas" (`validator.rs:1`).

The other properties that restarts break are stated for `restart_count = 0`
(`Unrestarted`); the structural ones, and the correctness of True, are
checked with restarts too.

Other properties carry a condition, which says where the code does not do what
one would expect of it. Without the condition TLC finds a counterexample.

- `ModelHolds`, `EnumerationExact`: not for the formulas of violation 6, nor, under
  theories, for operators the validator does not know, nor for sums of three and
  more, of which it adds two. After Unknown `get_model` returns the model that was
  turned down (`engine.rs:364`), so the properties speak of Sat.
- `RefutationsSound`, the completeness half of `EnumerationExact`: not for answers
  of a search that may be misled. What is left is that simplification, the choice of the
  encoder and encoding refute nothing of their own. The code does answer Unsat wrongly,
  because of violation 4: every `Eq` and `Distinct` of the arena is registered, also
  those that were rewritten away (`engine.rs:256`). (xor (distinct (< i 1) q) true)
  is rewritten to (= (< i 1) q), the abandoned distinct forbids that equality under either
  sign, and the answer is Unsat although i = 0, q = true satisfies the formula.
- `EdgesDeadAsAnswered`: as long as what the trace was answered Unsat for has
  no valuation. It says that folding adds no mistake to the answers.
  `EliminatedEdgesDead`, what it concludes, does not hold of the code without the
  condition, because of violation 1: every branch is classified by queries under
  assumptions (`opaque.rs:57`). Assert (q or not p), (not p or not q) and
  (p or not q), and classify a predicate that occurs in none of them: the query
  under its negation decides p or q true, conflicts, learns a unit and answers
  Unsat, so that the predicate is AlwaysTrue and a live edge is eliminated.
- `SatHonest`: not once pieces of two flushes have met in the file. The
  changelog speaks of "concurrent lock safety" (`CHANGELOG.md:43`); there is no
  lock, results of the other process are lost, and the verdict of one line can
  end up behind another hash. A line torn after its first separator is read as
  unsatisfiable, so the converse of `SatHonest` does not hold.
- `RoundTrip`: not for terms with a separator, which quoted symbols can have.
- `LiftsTheProgram`, under `Disciplined`: (a) a narrow name that was cached keeps
  its term when the root is written under another name (`lifter.rs:705`); (b) of
  two aliasing symbolic stores the older wins a read (`lifter.rs:1017`), symbolic
  and concrete stores are not ordered, and a symbolic read ignores concrete
  memory; (c) symbolic stores are checked neither for mapping nor for
  permission; (d) every push and pop with a symbolic rsp is at the same stack
  slot, rsp itself moving on; (e) a register read first by a narrow name gets a variable of that name,
  and its root, when made later, another one.
- `SliceExact`: whole registers only. Stores are no definitions, and a push or
  pop defines rsp unseen.
- `VerdictsTrue`: not when a query refutes what the run satisfies, as a search that
  restarts can (`solver.rs:521`). And plain resolution takes Unknown for refuted, and the certified
  one certifies `UnreachablePath` when a query is Unknown (`lifter.rs:1811`).
- `BlastExact`: `1 << stage` wraps in a barrel shifter of more stages than a
  word has bits, so vectors of more than 64 bits shift wrongly (with `UsizeBits` 2
  and four bits TLC shows it).

### Fairness

`FairSpec` adds weak fairness of the solver's own steps, and nothing of the
client's. The solver is a function on one thread: once called it is never
descheduled for good, and in every state inside a call some step is enabled.
`CallsReturn` then says that no call loops for ever, although restarts and
evictions undo work.

## Proofs

`SatSolver_proofs` first proves that each trail operation keeps `TrailInv` (the trail has
no repetitions, holds exactly the assigned variables with their values, levels
are monotone and below the current level, level marks and queue head lie
inside it) and that `BacktrackTo` removes a suffix. Then, for any number of variables, any clients, any theory
clauses and any limits,

- `TypesHold`: `Spec => []TypeOK`,
- `TrailHolds`: `Spec => []TrailConsistent`.

The inductive invariant is `TypeOK /\ TrailConsistent`. Neither is inductive
alone: that a backjump lands inside the trail needs the level marks of
`TrailInv`; that the trail never assigns twice needs that the literal of a
learned clause is open, which the code asserts (`panic`) and the guard of
`VisitUnit` gives. `TypeOK` is more than types: watchers refer to clauses with
two literals, reasons and conflicts to clauses of the arena, marks of scopes to
positions that exist, and `an.learned` is not empty once analysis runs; these
make every sequence access of the next step defined. There is one lemma per
action, `NextOK` collects them, and PTL concludes. The assumptions on the
constants are `SolverAssumption` and those of the modules it extends.

The second half of the module is about what the search relies on:

- `WatchedTwice`: `Spec => []TwoWatched`. Every clause that is neither deleted nor
  unwatched for good is watched exactly twice, by its first two literals. While
  bcp rebuilds a list a watcher is in one of five places (its list, the list
  under construction, the rest of the one being visited, the watcher at hand, the
  list it just moved to), so the invariant counts over all of them: `Places` sums
  the occurrences of a clause list by list, and the lemmas say how assigning
  one list changes the sum.
- `ReasonsHold`: `Spec => []ReasonsJustify`. The reason of an assigned literal
  has it first and the others false, earlier on the trail. It is the
  clause bcp visits, so the proof needs the watch invariant; that eviction
  keeps reasons needs the check `reduce_db` makes for locked clauses.
- `TheoryFollows`: `Spec => [](Unrestarted => TheoryMirrorsTrail)`. The scopes of the
  theory are the decision levels and its literals those of the trail, up to what
  it was not told yet.

The inductive invariant is `ReasonInv`. Its parts: `Justified` (reasons),
`Mirror` (theory and trail), `ConflictFalse` (a reported conflict is false),
`Analysing` (what is seen is assigned, the literals learned so far are false
and below the current level), `Learned` (the learned clause is false but for
its first literal after the backjump), `Resting` (between calls the trail is at
level 0). The last three are about false clauses under analysis and hold until a
restart, after which the learned clause need not be unit.

`Sound_proofs`:

- `LearnsOnlyConsequences`:
  `Spec /\ [][Inputs \subseteq Inputs']_vars => []ConsequencesOnly`,
- `RefutesOnlyUnsatisfiable`:
  `Spec /\ [][Inputs \subseteq Inputs']_vars => []UnsatSound`.

As long as the client withdraws no clause, and before a restart (both properties
say so), learned clauses and facts of level 0 hold in every model of the input
and the theory, and False without assumptions, or `ok` gone, means there is none.
The hypothesis is about the client: it may push, and pop scopes in which it added
nothing. It is needed: `pop` keeps the literals of level 0 that the popped clauses
had implied, and `ok`, so a client that pops a unit clause makes both properties
false. The clients of the runs pop a scope whose clause fixes nothing. The
argument is in `SoundInv`: every model satisfies one of the literals learned so far,
or the negation of a seen literal, or one of the clause at hand (`Resolving`), and
`path_count` is the number of seen variables of the current level that are still
to be resolved; when it reaches zero only the asserting literal is left. The step
that replaces a seen literal by its reason uses `ReasonsHold`.

- `LearnsAsserting`: `Spec => [](Eager => LearnedAsserting)`,
- `NeverPanics`: `Spec => []((Unrestarted /\ Eager) => pc # "panic")`.

A learned clause leaves exactly its first literal open after the backjump, so the
assertion in `Trail::assign` holds there. `LearnInv` says why: no level begins with
a theory clause that is false (`TheoryOpen`), so the clause in conflict has a literal
of the current level (`ConflictHigh`); `path_count` is the number of variables of that
level seen and not yet resolved on, without the alternative `Resolving` allows, and it
does not reach zero before analysis has picked one (`Counted`); so the literal picked
last is of the current level, which the backjump leaves (`FirstHigh`, `FirstOpen`).
`Eager` says that the theory reports a false clause at once, or has none. It is needed:
when a clause that became false at a lower level is reported late, analysis finds no
literal of the current level and the clause it returns has the placeholder in first place.

`Models_proofs`:

- `PropagationEnds`: `Spec => [](Unrestarted => PropagationComplete)`. The
  invariant `PropInv` says of a watched literal that is false and has been handed to
  propagation that its clause has a literal that is true, no later than at the
  level of the false one (`Guarded`). That is why backtracking touches no
  watch list: it undoes a guard only together with what it guards. There are two
  exemptions. A watcher still in `bcp.todo` has not been looked at (`Waits`). And after
  a conflict, watchers of the current level stay unvisited until the search leaves
  the level (`Damaged`); that it does leave it is `Learned`, from `ReasonInv`, and
  where the condition on restarts comes from. An input clause has two guarded
  watches. A learned one has only one, as a learned clause is stored with a false literal
  that is not the youngest in second place: for these the theorem says less. A
  blocker must be a literal of its clause, or a clause left unread could be false.
- `OpenStaysInHeap`: `Spec => []OpenInHeap`. `AllCovered` (every open variable is
  in the heap) is inductive beside `Inv`, which is needed for what
  backtracking unassigns: `BacktrackCovered` uses that exactly the variables of the
  suffix that is cut off become open, and those are the ones reinserted.
- `AnswersAreTotal`: `Spec => [][AllAssigned => Open(1..num_vars) = {}]_vars`. The
  step that answers True is taken only when every variable has a value.
- `InputsStay`: `Spec => []InputsKept`, restarts or not. A clause given to
  `add_clause` is stored without its false literals, or not at all when it is true or
  a tautology; what is kept of it stays while the clause is in force, as only the
  youngest scope deletes stored clauses and either takes the inputs after it along or is
  the scope a call with assumptions opened (`OwnScope`), in which none is added.
- `ModelsHold`: `Spec => []((Unrestarted /\ Eager /\ KnownVars) => SatSound)`. When
  all variables are assigned nothing is left to propagate, so a kept clause that is
  not true would have a guarded false watch (`KeptIsTrue`); a theory clause that is
  false would have been reported, as the theory knows the whole trail (`Mirror`); and
  the assumptions are true because they were decided in order, one level each at
  most, and no backjump reaches below them (`Assumed`). `Eager` says that the
  theory reports a false clause at once, or has none: with a theory that overlooks one
  True can be wrong, and the search cannot know. `KnownVars` says that the theory and the
  assumptions name created variables only, as the engine's do. `Unrestarted` is
  needed by this proof, not known to be needed by the code: TLC finds `SatSound`
  to hold with restarts too.

`Theories_proofs`, for any arenas and literals that satisfy `ProblemsAssumption` (a
term comes after its arguments, a literal stands for one atom, terms are interned):

- `BoundsHold`: `Spec => []BoundsFollow`. A bound is what the strictest asserted
  literal about its variable says. Pop takes bounds back record by record, so the
  inductive invariant `ArithIn` also says what every open scope goes back to:
  undoing the records above its mark leaves bounds that follow from the literals
  asserted when it was opened. Asserting one atom twice makes two slack rows; the
  invariant is about variables, and a row never changes what its variable stands for.
- `ClassesExact`: `Spec => []EqualityExact`. `EqIn` says that the classes are sound
  (equal in every congruence in which the merges asked for hold) and complete up to
  what is still to do: the merges called and not finished, the uses of a
  child not visited yet. An application is found under its signature or under that of
  an application of its class, or waits in one of these places; `History` says
  that undoing the trail to the mark of any open scope gives classes for which the
  same holds of the facts of that scope. `pop` is several steps in the model, so
  the invariant covers a pop half way. The reference partition, which
  `Congruence` computes by linking until nothing is left to link, is shown to be the least
  congruence over the facts; what both engines say of it then is one and the same.
- `ConflictsFound`: `Spec => [](BinaryEqualities => EqualityConflictsFound)`. What an
  asserted literal forbids is in the list of disequalities, with entries of the
  undo trail older than every scope that keeps the literal (`Denials`), and from the
  last look at them to Ok nothing more is merged (`Settles`). With
  `ClassesExact` a contradiction would be a listed pair in one class, which `check` reports.
  `BinaryEqualities` says that equalities have two arguments, as the arena's
  constructor makes them (`term.rs:276`); the engine looks at no others.

`Cache_proofs`, for any processes, hashes and terms that satisfy `HashAssumption`
(hashes are of one length, at least two characters, without a separator: the code
uses SHA-256 in hexadecimal) and `TextAssumption` (they are texts):

- `VerdictsKept`: `Spec => [](NoVerdicts => SatHonest)`. A text says that a formula is
  satisfiable wherever the hash stands followed by `|1`, at whatever place: `Honest`
  speaks of all places, so that it holds of every part of an honest text. That covers
  files cut off by a crash or read half way, and a line torn off before its verdict, which parses
  as unsatisfiable. A line is honest when its entry is, whole contents are honest because a
  hash contains no line break, and a piece laid over the file by a flush that meets no other
  leaves a part of one. What is parsed out of an honest text is honest, as the fields
  of a line are stretches of it; here the key of an entry may be any text, as a line
  can begin in the middle of another. `NoVerdicts` says that no simplified term contains
  the hash of an unsatisfiable formula followed by `|1`; the code writes terms as they are.
- `FlushesReadBack`: `Spec => [](NoLineBreaks => RoundTrip)`. Splitting and parsing undo writing, entry by
  entry, in whatever order the hash map hands them out. `NoLineBreaks` is needed for the same reason.

The inductive invariant is `Flushing`: what a process still has to write is the contents
of its entries, the file of an owner is the part it has written, and an owner that has finished
has its contents in the file (or has just read them).

`Scopes_proofs`:

- `ScopesAreAStack`: `StackSpec => ImplementsStack`. The marks are in order and within the
  assertions (`IsStack`), so the levels they cut the vector into change as SMT-LIB says: an
  assertion goes to the newest level, a push adds empty ones, a pop keeps a prefix of
  them, and popping more than there are keeps the first. `Engine` uses the actions of `Scopes`
  and adds what they do to its other fields; it reaches RECURSIVE operators, so that its
  own steps are steps of the stack is what the run `engine` checks.

The provers know no induction rule that takes an operator. Where a fact needs
induction over data (the closure, undoing a trail entry by entry, folds over a text) the proof assumes a counterexample and takes the least one, whose existence
`WellFoundedInduction` states without operators.

`Lifter_proofs`, for any instructions, initial machines, memory settings and widths that
satisfy `ProgramAssumption` (operands are registers, numbers or places of 1 to 4 bytes; a
machine gives every register a value; the limit of the chain is a number):

- `ChainStaysBounded`: `Spec => []ChainBounded`,
- `FaultsStay`: `Spec => FaultsLast`.

`LifterInv` says that the chain of symbolic stores is in bounds, of the lifter and of every
scope it saved, as a pop brings back what a scope holds. Beside it `StepFollows` says that an
instruction keeps what is whole and loses no fault: one lemma per operation of the lifter, from
the store of a byte, which is the only one that touches the chain, to the instruction, with the
folds over the bytes of an operand unrolled one byte at a time (`FoldsExist`, `FoldsStep`). The
discipline of the model is not used: both hold of every program. No address in the chain is a
constant because `ResolveAddress` sends every address that can be computed to the flat memory,
and a symbolic address plus the number of a byte stays symbolic.

- `SlicesExact`: `Spec => []SliceExact`. The slice is walked backward, the runs go
  forward: `SliceAgrees` puts them side by side. Once the block has executed k instructions and
  the slice those of them it keeps, the two machines agree on the registers the
  walk still needs at k (`SliceStepAgrees`, one instruction). The backward fold gives for each k
  what is needed there and the end of the slice that is kept (`WalkFacts`). The restriction to
  whole registers is in the property: on narrow views a slice can be wrong, as names are
  compared and not roots.

Only model-checked: `SatSound` after restarts, `Certified`, `ProofForest`, `ConflictsJustified` and `TypeOK` of
the theories, `TypeOK`, `VerdictsTrue` and the refinement `LiftsTheProgram` of the lifter, and the properties of the engine.
Those of the lifter rest on arithmetic modulo powers of a symbolic width (a value cut into bytes
and put together again is the value), by induction over the width, with powers that the SMT
backend does not know. The engine computes with RECURSIVE operators
(terms are trees), which the provers cannot be used with. Out of the provers'
reach altogether is `CallsReturn` (liveness under fairness and ENABLED).

## Not modelled

- In the SAT solver: `TheoryCallback::propagate` (no theory of the repository
  returns anything), statistics, activities of clauses and variables, the order
  of the VSIDS heap, the text of certificates. The model has one solver per
  client, as the engine does.
- In the theories: `reset`, fractions, arrays.
- In the engine: arrays and their axioms, reals, uninterpreted functions (`Apply`),
  the folder's limit of 100,000 steps, `enumerate_models_scored` (a sort of what
  enumeration returns), `execute_command` (a dispatch to the calls modelled), and
  the SAT solver the engine pushes and pops but never solves with.
- In the lifter: the list of stack values it keeps beside the stack memory,
  `security_violations`, floating point, and whole control-flow graphs.
  `load_process_image` sets `read_only_ranges` but neither mapped ranges nor those of
  the BSS; a client that wants them adds them. All of them are a setting of the
  model.
- Decoder and loaders: pure functions from bytes, tables of opcodes and of file
  formats; a model would restate them.
- Parser, binary codec, command line, fluent and C interfaces: text in, calls of
  the engine out. Crypto scanner: pattern matching over constants. MBA,
  synthesis, provenance, replay, explanation: planned below.

## Plan

Done: the SAT core, the theories, the engine with encodings, preprocessing and
opaque predicates, the cache, the lifter. What is left:

1. *Proofs about the search.* `Certified`: that each recorded clause is derived by unit
   propagation needs the resolution steps of analysis as a RUP derivation.
2. *Proofs about the theories.* `ProofForest` (explanations walk shortest paths, which
   are computed by search) and from it that explanations suffice.
3. *MBA.* `Mba`: elimination over GF(2), Zhegalkin form, linear signatures against
   truth tables.
4. *Clients of the engine.* Equivalence and synthesis (verdicts over the engine's
   answers), `Replay` (what an artifact records and a replay compares).
5. *VSIDS.* `Vsids` as a heap, to replace the open choice in a composed run.
6. *Arrays*, with values that are functions, and their axioms.
