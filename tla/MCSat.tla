------------------------------- MODULE MCSat -------------------------------
(***************************************************************************)
(* Clients of the SAT solver for the model checker.                        *)
(***************************************************************************)
EXTENDS SatSolver

Add(c) == [op |-> "add_clause", lits |-> c]
New == [op |-> "new_var"]
PushCall == [op |-> "push"]
PopCall == [op |-> "pop"]
SolveCall == [op |-> "solve", assumptions |-> << >>, budget |-> FALSE]
SolveUnder(as) == [op |-> "solve", assumptions |-> as, budget |-> FALSE]
SolveBudget == [op |-> "solve", assumptions |-> << >>, budget |-> TRUE]

AddAll(cs) == [i \in 1..Len(cs) |-> Add(cs[i])]
\* The clauses of a sequence whose positions are in S.
Pick(cs, S) == LET at == SelectSeq([i \in 1..Len(cs) |-> i], LAMBDA i : i \in S)
               IN  [i \in 1..Len(at) |-> cs[at[i]]]
Smaller(S, n) == {T \in SUBSET S : Cardinality(T) <= n}

\* All clauses of exactly three, and some of two, of the variables 1, 2, 3.
Cubes3 == << <<1, 2, 3>>, <<1, 2, -3>>, <<1, -2, 3>>, <<1, -2, -3>>,
             <<-1, 2, 3>>, <<-1, 2, -3>>, <<-1, -2, 3>>, <<-1, -2, -3>> >>
Pairs3 == << <<1, 2>>, <<1, -2>>, <<-1, 2>>, <<-1, -2>>, <<2, 3>>, <<2, -3>>,
             <<-2, 3>>, <<-2, -3>>, <<3, 1>>, <<-3, 1>>, <<3, -1>>, <<-3, -1>> >>
\* What a client adds between two solves: a unit, a clause, a tautology.
Later == {<< >>, <<Add(<<-1>>), SolveCall>>, <<Add(<<1, -1>>), Add(<<2, -3>>), SolveCall>>}

CoreScripts ==
    {AddAll(Pick(Cubes3, S)) \o <<SolveCall>> : S \in SUBSET (1..8)}
    \cup {AddAll(Pick(Cubes3, S)) \o <<SolveCall>> \o l :
            S \in {T \in SUBSET (1..8) : Cardinality(T) \in 6..7}, l \in Later}
    \cup {AddAll(Pick(Pairs3, S)) \o <<SolveCall>> : S \in Smaller(1..12, 3)}
    \cup {<<Add(<<-1, -2, -3, 4>>), Add(<<-1, -2, -3, -4>>), SolveCall>>,
          <<Add(<<-1, -3, 4>>), Add(<<-2, -3, -4>>), SolveCall>>,
          <<New, Add(<<2>>), Add(<<-2, -1>>), Add(<< >>), SolveCall>>}

-----------------------------------------------------------------------------
(* Assumptions, theory, budgets, scopes, restarts and evictions.            *)

\* Variables 1, 2, 3 are a = b, b = c, a = c.
Transitivity == {<<-1, -2, 3>>, <<-1, 2, -3>>, <<1, -2, -3>>}

Cubes4 == << <<-1, -2, -3, -4>>, <<-1, -2, -3, 4>>, <<-1, -2, 3, -4>>, <<-1, -2, 3, 4>>,
             <<-1, 2, -3, -4>>, <<-1, 2, -3, 4>>, <<1, -2, -3, -4>>, <<1, -2, -3, 4>> >>

\* Under the assumptions 1 and 2, each of 3, 4, 5 fails on its own, at a level
\* above theirs: learned clauses are reasons when later conflicts evict.
Failing == << <<-1, -2, -3, 6>>, <<-3, -6>>, <<-1, -2, -4, 6>>, <<-4, -6>>,
              <<-1, -2, -5, 6>>, <<-5, -6>> >>

FullScripts ==
    {AddAll(Failing) \o <<SolveUnder(<<1, 2>>)>>} \cup
    {AddAll(Pick(Cubes4, S)) \o <<SolveUnder(as), SolveCall>> :
        S \in {1..4, 1..8}, as \in {<< >>, <<3>>, <<-3, 4>>}}
    \cup {<<Add(<<1, 2>>), Add(<<3, -4>>), Add(<<-3, 4>>)>> \o x : x \in
             {<<Add(<<-1, 2>>), Add(<<-1, -2>>), SolveUnder(<<1>>)>>,
              <<Add(<<1, -2>>), Add(<<-1, 2>>), Add(<<-1, -2>>), SolveBudget, SolveCall>>,
              <<SolveBudget, SolveUnder(<<-1, -2>>)>>,
              <<SolveUnder(<<-1, 2, -3>>), Add(<<-2, 3>>), SolveCall>>,
              <<Add(<<1>>), Add(<<2>>), Add(<<-3>>), SolveUnder(<<4>>), SolveCall>>,
              <<PushCall, Add(<<1, 2, 4, 4>>), SolveCall, PopCall, PopCall, SolveCall>>}}

-----------------------------------------------------------------------------
(* Calls whose answers contradict the documentation.                        *)

AssumptionScripts == {<<Add(<<-1, 2>>), Add(<<-1, -2>>), SolveUnder(<<3>>)>>}

RestartScripts == {AddAll(Pick(Cubes3, S)) \o <<SolveCall>> : S \in SUBSET (1..8)}

InterruptedScripts ==
    {<<Add(<<1, 2>>), Add(<<1, -2>>), Add(<<-1, 2>>), Add(<<-1, -2>>), SolveBudget, SolveCall>>}
=============================================================================
