---------------------------- MODULE DratChecker ----------------------------
(***************************************************************************)
(* The certificate format of smt-sat (drat.rs) and its verifier            *)
(* (drat_checker.rs).  A proof is a sequence of steps, each adding ("a") or*)
(* deleting ("d") a clause; the text form of a line, and the errors of     *)
(* parsing it, are left out.  Clauses are sequences of literals.           *)
(***************************************************************************)
EXTENDS SatLits

ProofSteps == [op : {"a", "d"}, lits : Seq(Lits)]

\* DratProof::add_clause and delete_clause, one line each.
AddLine(lits) == [op |-> "a", lits |-> lits]
DeleteLine(lits) == [op |-> "d", lits |-> lits]

\* Under a set A of true literals.
Falsified(c, A) == \A i \in 1..Len(c) : Neg(c[i]) \in A
Satisfied(c, A) == \E i \in 1..Len(c) : c[i] \in A
Unassigned(c, A) == SelectSeq(c, LAMBDA l : l \notin A /\ Neg(l) \notin A)
IsUnit(c, A) == ~Satisfied(c, A) /\ Len(Unassigned(c, A)) = 1

\* check_rup: the negation of `cand` is refuted by unit propagation over the
\* clauses of db, one unit at a time, the first one in the order of db.
CheckRup(db, cand) ==
    LET start == {Neg(cand[i]) : i \in 1..Len(cand)}
        refutes[A \in SUBSET Lits] ==
            \/ \E i \in 1..Len(db) : Falsified(db[i], A)
            \/ LET units == {i \in 1..Len(db) : IsUnit(db[i], A)}
               IN  /\ units # {}
                   /\ LET i == CHOOSE i \in units : \A j \in units : i <= j
                      IN  refutes[A \cup {Unassigned(db[i], A)[1]}]
    IN  \/ \E l \in start : Neg(l) \in start
        \/ refutes[start]

\* delete_clause: the first clause with the same literals, counted with their
\* repetitions, is replaced by the last one (Vec::swap_remove).
SameClause(c, d) ==
    /\ Len(c) = Len(d)
    /\ \A l \in ToSet(c) \cup ToSet(d) :
         Len(SelectSeq(c, LAMBDA k : k = l)) = Len(SelectSeq(d, LAMBDA k : k = l))

DeleteClause(db, lits) ==
    LET same == {i \in 1..Len(db) : SameClause(db[i], lits)}
    IN  IF same = {} THEN db
        ELSE LET i == CHOOSE i \in same : \A j \in same : i <= j
             IN  SubSeq([db EXCEPT ![i] = db[Len(db)]], 1, Len(db) - 1)

\* verify_proof: the outcome of the lines from number n on, clauses being db.
VerifyProof(original, proof) ==
    LET verify[n \in 1..(Len(proof) + 1), db \in Seq(Seq(Lits))] ==
            IF n > Len(proof) THEN "MissingEmptyClause"
            ELSE IF proof[n].op = "d" THEN verify[n + 1, DeleteClause(db, proof[n].lits)]
            ELSE IF ~CheckRup(db, proof[n].lits) THEN "RupFailure"
            ELSE IF proof[n].lits = << >> THEN "Valid"
            ELSE verify[n + 1, Append(db, proof[n].lits)]
    IN  verify[1, original]
=============================================================================
