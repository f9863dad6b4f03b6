-------------------------- MODULE RestartStrategy --------------------------
(***************************************************************************)
(* The restart controller of smt-sat (restart.rs).  The two moving averages*)
(* of clause quality are abstracted: whether the fast one exceeds 1.25     *)
(* times the slow one is a free choice (`degraded`) of the caller.         *)
(***************************************************************************)
EXTENDS Integers

CONSTANTS MinConflicts,   \* min_conflicts, 50 in the code
          LubyUnit        \* luby_unit, 100 in the code

ASSUME RestartAssumption == MinConflicts \in Nat \ {0} /\ LubyUnit \in Nat \ {0}

\* luby(i): term i, counted from 0, of 1, 1, 2, 1, 1, 2, 4, ...
\* size grows to the first 2^k - 1 above i; then i is halved into that block
\* until it is the block's last position, whose term is (size + 1) / 2.
Luby(i) ==
    LET grow[s \in Nat] == IF s <= i THEN grow[2 * s + 1] ELSE s
        term[s, j \in Nat] ==
            IF s - 1 = j THEN (s + 1) \div 2
            ELSE LET h == (s - 1) \div 2 IN term[h, IF j >= h THEN j - h ELSE j]
    IN  term[grow[1], i]

NewRestarts == [conflicts_since_restart |-> 0, restart_count |-> 0, luby_index |-> 1]
RestartRecords == [conflicts_since_restart : Nat, restart_count : Nat, luby_index : Nat]

\* record_conflict: the controller afterwards, and whether it asks for a restart.
GlucoseRestart(rs, degraded) ==
    degraded /\ rs.conflicts_since_restart + 1 >= MinConflicts
LubyRestart(rs, degraded) ==
    /\ ~GlucoseRestart(rs, degraded)
    /\ rs.conflicts_since_restart + 1 >= Luby(rs.luby_index) * LubyUnit
RestartDue(rs, degraded) == GlucoseRestart(rs, degraded) \/ LubyRestart(rs, degraded)

RecordConflict(rs, degraded) ==
    [conflicts_since_restart |->
        IF RestartDue(rs, degraded) THEN 0 ELSE rs.conflicts_since_restart + 1,
     restart_count |-> rs.restart_count + (IF RestartDue(rs, degraded) THEN 1 ELSE 0),
     luby_index |-> rs.luby_index + (IF LubyRestart(rs, degraded) THEN 1 ELSE 0)]
=============================================================================
