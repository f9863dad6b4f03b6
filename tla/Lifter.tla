------------------------------- MODULE Lifter -------------------------------
(***************************************************************************)
(* The symbolic lifter (lifter.rs).  It is followed along one run of the   *)
(* lifted program: a term is its value in that run, whether                *)
(* eval_concrete_u64 can compute it (con), and the expression it is (e),   *)
(* which stands for its TermId.  A solver query is an answer that the run  *)
(* does not refute; Unknown is always possible.                            *)
(***************************************************************************)
EXTENDS X86

CONSTANTS
    Instructions,  \* what the program may execute
    Worlds,        \* initial register files and memories
    Settings,      \* memory policy, mapped, read-only and zeroed addresses, store-chain limit, memory loaded
    Declared,      \* roots the client initialises before the block
    Branches,      \* conditions a branch of the program tests
    MaxSteps, MaxScopes  \* bounds of the model: instructions of a run, open scopes

ASSUME ProgramAssumption ==
    /\ \A i \in Instructions : IsInstruction(i)
    /\ Declared \in Seq(Roots) /\ "rsp" \in Roots
    /\ \A w \in Worlds : DOMAIN w.file = Roots
    /\ \A st \in Settings : st.max_store_chain_depth \in Nat

VARIABLES
    world, setting,
    lifter,     \* the state the lifter saves in a scope
    scopes,
    done,       \* instructions executed, cut back by pop
    stale,      \* names cached before another name of their root was written
    verdict     \* what resolve_branch and resolve_branch_certified returned

vars == <<world, setting, lifter, scopes, done, stale, verdict>>

Some(x) == {x}
None == {}
The(option) == CHOOSE x \in option : TRUE

-----------------------------------------------------------------------------
(* Terms.                                                                   *)

ConstT(v, w) == [e |-> <<"const", v, w>>, v |-> v, w |-> w, con |-> TRUE]
VarT(name, v, w) == [e |-> <<"var", name>>, v |-> v, w |-> w, con |-> FALSE]
ExtractT(t, low, w) ==
    [e |-> <<"extract", t.e, low, w>>, v |-> Extract(t.v, Bits(low), Bits(w)), w |-> w, con |-> FALSE]
\* Mutant: the width of the lower part is forgotten.
ConcatHighWidth(high, low) ==
    [e |-> <<"concat", high.e, low.e>>, v |-> Concat(high.v, low.v, Bits(low.w)),
     w |-> high.w, con |-> FALSE]
ConcatT(high, low) ==
    [e |-> <<"concat", high.e, low.e>>, v |-> Concat(high.v, low.v, Bits(low.w)),
     w |-> high.w + low.w, con |-> FALSE]
BinaryV(op, a, b, w) ==
    CASE op = "Add" -> BvAdd(a, b, w) [] op = "Sub" -> BvSub(a, b, w) [] op = "Mul" -> BvMul(a, b, w)
      [] op = "And" -> BvAnd(a, b, w) [] op = "Or" -> BvOr(a, b, w) [] op = "Xor" -> BvXor(a, b, w)
BinaryT(op, a, b) ==
    [e |-> <<op, a.e, b.e>>, v |-> BinaryV(op, a.v, b.v, Bits(a.w)), w |-> a.w,
     con |-> op \in {"Add", "Sub", "Mul"} /\ a.con /\ b.con]
AddressT(v) == ConstT(v, 4)
Plus(t, k) == IF k = 0 THEN t ELSE BinaryT("Add", t, AddressT(k))

-----------------------------------------------------------------------------
(* Registers.  A read gives the term and the state after it, for it caches. *)

InitRegister(s, n) ==
    LET t == VarT(n, Shown(world.file[n.root], n), WidthOf(n.view))
        other == CASE n.view = "32" -> View64(n.root) [] n.view = "64" -> View32(n.root) [] OTHER -> n
        view == CASE n.view = "32" -> ConcatT(ConstT(0, 1), t)
                  [] n.view = "64" -> ExtractT(t, 0, 3) [] OTHER -> t
    IN  [t |-> t, s |-> [s EXCEPT !.regs[n] = Some(t), !.regs[other] = Some(view)]]

ReadReg(s, n) ==
    LET root == s.regs[View64(n.root)]
        sub == ExtractT(The(root), OffsetOf(n.view), WidthOf(n.view))
    IN  CASE s.regs[n] # None -> [t |-> The(s.regs[n]), s |-> s]
          [] s.regs[n] = None /\ root # None -> [t |-> sub, s |-> [s EXCEPT !.regs[n] = Some(sub)]]
          [] OTHER -> InitRegister(s, n)

\* The root's value with a narrow part replaced.
Merged(root, n, t) ==
    LET low == OffsetOf(n.view)
        high == low + WidthOf(n.view)
    IN  ConcatT(ExtractT(root, high, 4 - high), IF low = 0 THEN t ELSE ConcatT(t, ExtractT(root, 0, low)))

\* Mutant: a narrow write leaves the 32-bit view as it was.
WriteRegRootOnly(s0, n, t) ==
    LET s == [s0 EXCEPT !.regs[n] = Some(t)]
        read == ReadReg(s, View64(n.root))
    IN  CASE n.view = "32" -> [s EXCEPT !.regs[View64(n.root)] = Some(ConcatT(ConstT(0, 1), t))]
          [] n.view = "64" -> [s EXCEPT !.regs[View32(n.root)] = Some(ExtractT(t, 0, 3))]
          [] OTHER -> [read.s EXCEPT !.regs[View64(n.root)] = Some(Merged(read.t, n, t))]
\* A write refreshes the 64-bit and 32-bit views and the name itself, no other.
WriteReg(s0, n, t) ==
    LET s == [s0 EXCEPT !.regs[n] = Some(t)]
        read == ReadReg(s, View64(n.root))
        whole == Merged(read.t, n, t)
    IN  CASE n.view = "32" -> [s EXCEPT !.regs[View64(n.root)] = Some(ConcatT(ConstT(0, 1), t))]
          [] n.view = "64" -> [s EXCEPT !.regs[View32(n.root)] = Some(ExtractT(t, 0, 3))]
          [] OTHER -> [read.s EXCEPT !.regs[View64(n.root)] = Some(whole),
                                     !.regs[View32(n.root)] = Some(ExtractT(whole, 0, 3))]

-----------------------------------------------------------------------------
(* Addresses.                                                               *)

ReadPart(s, root) ==
    IF root = NoReg THEN [t |-> AddressT(0), s |-> s] ELSE ReadReg(s, View64(root))

AddressFrom(o, idx, base) ==
    LET offset == Mod(o.disp + idx.t.v * o.scale, WordBits)
        \* the symbolic address leaves out a displacement of zero, but never one without a base
        start == IF o.base = NoReg THEN AddressT(o.disp) ELSE Plus(base.t, o.disp)
        sum == IF o.index = NoReg THEN start
               ELSE BinaryT("Add", start, BinaryT("Mul", idx.t, AddressT(o.scale)))
        Address(kind, at) == [kind |-> kind, at |-> at, s |-> base.s]
    IN  CASE base.t.con /\ idx.t.con -> Address("Physical", Mod(base.t.v + offset, WordBits))
          [] ~base.t.con /\ idx.t.con /\ o.base = "rsp" -> Address("Stack", offset)
          [] OTHER -> Address("Symbolic", sum)

\* The index is read before the base.
ResolveAddress(s, o) ==
    LET idx == ReadPart(s, o.index) IN AddressFrom(o, idx, ReadPart(idx.s, o.base))

-----------------------------------------------------------------------------
(* Bytes.  No declared range means that every address is mapped.            *)

Strict == setting.policy = "StrictFault"
Mapped(x) == setting.mapped = {} \/ x \in setting.mapped

\* Mutant: the last address that faulted is kept.
FaultedLast(s, fault, x) == [s EXCEPT ![fault] = TRUE, !.fault_address = Some(x)]
Faulted(s, fault, x) ==
    [s EXCEPT ![fault] = TRUE, !.fault_address = IF @ = None THEN Some(x) ELSE @]
Unless(s, ok) == [s EXCEPT !.over_approximation = @ \/ ~ok]

\* The access is noted for the discipline and the properties only.
Via(s, x, path) == [s EXCEPT !.via[x] = @ \cup {path}]

\* Stores at symbolic addresses over a byte read at t.  The newest store to
\* the very same term ends the search; of the others that turn out to be at
\* the same address, the one tested first is the oldest.
Overlay(s, t, byte) ==
    LET chain == s.symbolic_memory
        same == {k \in DOMAIN chain : chain[k].at.e = t.e}
        equal == {k \in DOMAIN chain : chain[k].at.v = t.v}
        v == IF equal = {} THEN byte.v ELSE chain[Min(equal)].val.v
    IN  CASE same # {} -> chain[Max(same)].val
          [] same = {} /\ chain # << >> -> [byte EXCEPT !.e = <<"ite", t.e, chain, @>>, !.v = v, !.con = FALSE]
          [] OTHER -> byte

PhysicalByte(s0, x) ==
    LET s == Via(s0, x, <<"physical">>)
        cell == CASE s.memory[x] # None -> The(s.memory[x])
                  [] s.memory[x] = None /\ x \in setting.bss -> ConstT(0, 1)
                  [] OTHER -> VarT(<<"mem", x>>, world.ram[x], 1)
    IN  IF Strict /\ ~Mapped(x)
        THEN [t |-> VarT(<<"fault", x>>, 0, 1), s |-> Faulted(s, "unmapped_fault", x)]
        ELSE [t |-> Overlay(s, AddressT(x), cell),
              s |-> [Unless(s, Mapped(x)) EXCEPT !.memory[x] = Some(cell)]]

SymbolicByte(s0, t) ==
    LET s == Via(s0, t.v, t.e)
        blind == VarT(<<"sym", t.e>>, world.ram[t.v], 1)
    IN  [t |-> Overlay(s, t, blind),
         s |-> CASE Strict /\ setting.mapped # {} -> Faulted(s, "unmapped_fault", 0)
                 [] Strict /\ setting.mapped = {} -> s
                 [] OTHER -> Unless(s, FALSE)]

StackByte(s0, x) ==
    LET s == Via(s0, x, <<"stack">>)
        cell == IF s.stack_memory[x] = None THEN VarT(<<"stack", x>>, 0, 1) ELSE The(s.stack_memory[x])
    IN  [t |-> cell, s |-> [s EXCEPT !.stack_memory[x] = Some(cell)]]

ReadByte(s, a, k) ==
    CASE a.kind = "Physical" -> PhysicalByte(s, Mod(a.at + k, WordBits))
      [] a.kind = "Stack" -> StackByte(s, Mod(a.at + k, WordBits))
      [] a.kind = "Symbolic" -> SymbolicByte(s, Plus(a.at, k))

StorePhysical(s0, x, byte) ==
    LET s == Via(s0, x, <<"physical">>)
        mapped == Unless(s, Mapped(x))
        checked == IF x \in setting.read_only THEN Faulted(mapped, "permission_fault", x) ELSE mapped
    IN  CASE Strict /\ ~Mapped(x) -> Faulted(s, "unmapped_fault", x)
          [] Strict /\ Mapped(x) /\ x \in setting.read_only -> checked
          [] OTHER -> [checked EXCEPT !.memory[x] = Some(byte)]

\* Mutant: stores to one address are not merged.
StoreSymbolicAppending(s0, t, byte) ==
    LET s == Via(s0, t.v, t.e)
    IN  IF Len(s.symbolic_memory) >= setting.max_store_chain_depth THEN [s EXCEPT !.budget_exhaustion = TRUE]
        ELSE [s EXCEPT !.symbolic_memory = Append(@, [at |-> t, val |-> byte])]
\* Neither ranges nor permissions are looked at.  A store beyond the limit is dropped.
StoreSymbolic(s0, t, byte) ==
    LET s == Via(s0, t.v, t.e)
        same == {k \in DOMAIN s.symbolic_memory : s.symbolic_memory[k].at.e = t.e}
    IN  CASE same # {} -> [s EXCEPT !.symbolic_memory[Max(same)].val = byte]
          [] same = {} /\ Len(s.symbolic_memory) >= setting.max_store_chain_depth ->
                 [s EXCEPT !.budget_exhaustion = TRUE]
          [] OTHER -> [s EXCEPT !.symbolic_memory = Append(@, [at |-> t, val |-> byte])]

WriteByte(s, a, k, byte) ==
    CASE a.kind = "Physical" -> StorePhysical(s, Mod(a.at + k, WordBits), byte)
      [] a.kind = "Stack" -> [Via(s, Mod(a.at + k, WordBits), <<"stack">>) EXCEPT
                                  !.stack_memory[Mod(a.at + k, WordBits)] = Some(byte)]
      [] a.kind = "Symbolic" -> StoreSymbolic(s, Plus(a.at, k), byte)

-----------------------------------------------------------------------------
(* Operands: little endian, byte by byte.                                   *)

ReadBytes(a, w) ==
    LET Next(acc, k) == LET byte == ReadByte(acc.s, a, k) IN [t |-> ConcatT(byte.t, acc.t), s |-> byte.s]
    IN  FoldLeft(Next, ReadByte(a.s, a, 0), [k \in 1..(w - 1) |-> k])
ReadMemory(s, o) == ReadBytes(ResolveAddress(s, o), o.w)

WriteBytes(a, w, t) ==
    LET Part(k) == IF w = 1 THEN t ELSE ExtractT(t, k, 1)
    IN  FoldLeft(LAMBDA acc, k : WriteByte(acc, a, k - 1, Part(k - 1)), a.s, [k \in 1..w |-> k])
WriteMemory(s, o, t) == WriteBytes(ResolveAddress(s, o), o.w, t)

EvalOperand(s, o) ==
    CASE o.kind = "Reg" -> ReadReg(s, o.name)
      [] o.kind = "Imm" -> [t |-> ConstT(o.v, o.w), s |-> s]
      [] o.kind = "Mem" -> ReadMemory(s, o)

Assign(s, o, t) ==
    CASE o.kind = "Reg" -> WriteReg(s, o.name, t)
      [] o.kind = "Mem" -> WriteMemory(s, o, t)

-----------------------------------------------------------------------------
(* Flags: by the signs of operands and result.                              *)

Sign(v, w) == Msb(v, Bits(w))

\* Operands of different widths have no difference, and the flags that depend
\* on it stay as they are.
SubFlags(s, l, r) ==
    LET diff == BinaryT("Sub", l, r)
        signs == Sign(l.v, l.w) # Sign(r.v, l.w)
    IN  [s EXCEPT !.zero = Some(l.v = r.v), !.carry = Some(l.v < r.v),
                  !.sign = IF l.w = r.w THEN Some(Sign(diff.v, l.w) = 1) ELSE @,
                  !.overflow = IF l.w = r.w THEN Some(signs /\ Sign(diff.v, l.w) # Sign(l.v, l.w)) ELSE @]

AddFlags(s, l, r, sum) ==
    LET signs == Sign(l.v, l.w) = Sign(r.v, l.w)
    IN  [s EXCEPT !.zero = Some(sum.v = 0), !.carry = Some(sum.v < l.v),
                  !.sign = Some(Sign(sum.v, l.w) = 1),
                  !.overflow = Some(signs /\ Sign(sum.v, l.w) # Sign(l.v, l.w))]

LogicFlags(s, res) ==
    [s EXCEPT !.zero = Some(res.v = 0), !.carry = Some(FALSE), !.overflow = Some(FALSE),
              !.sign = Some(Sign(res.v, res.w) = 1)]

\* get_condition_term: None when a flag it needs has never been set.
ConditionTerm(s, c) ==
    LET needs == CASE c = "E" -> {"zero"} [] c = "B" -> {"carry"} [] c = "BE" -> {"carry", "zero"}
                   [] c = "L" -> {"sign", "overflow"} [] c = "LE" -> {"zero", "sign", "overflow"}
                   [] c = "S" -> {"sign"} [] c = "O" -> {"overflow"}
        Flag(f) == The(s[f])
        less == (Flag("sign") /\ ~Flag("overflow")) \/ (~Flag("sign") /\ Flag("overflow"))
        holds == CASE c = "E" -> Flag("zero") [] c = "B" -> Flag("carry")
                   [] c = "BE" -> Flag("carry") \/ Flag("zero")
                   [] c = "L" -> less [] c = "LE" -> Flag("zero") \/ less
                   [] c = "S" -> Flag("sign") [] c = "O" -> Flag("overflow")
    IN  IF \E f \in needs : s[f] = None THEN None ELSE Some(holds)

-----------------------------------------------------------------------------
(* Instructions.  An operation on operands of two widths is ignored.        *)

StepMov(s, i) == LET src == EvalOperand(s, i.src) IN Assign(src.s, i.dst, src.t)

\* The destination is read before the source.
Both(d, r) == [d |-> d.t, r |-> r.t, s |-> r.s]
Operands(s, i) == LET d == EvalOperand(s, i.dst) IN Both(d, EvalOperand(d.s, i.src))

StepArithmetic(i, o) ==
    LET res == BinaryT(i.op, o.d, o.r)
        wrote == Assign(o.s, i.dst, res)
    IN  CASE o.d.w # o.r.w -> o.s
          [] o.d.w = o.r.w /\ i.op = "Add" -> AddFlags(wrote, o.d, o.r, res)
          [] o.d.w = o.r.w /\ i.op = "Sub" -> SubFlags(wrote, o.d, o.r)

StepLogic(i, o) ==
    LET res == BinaryT(i.op, o.d, o.r)
    IN  IF o.d.w # o.r.w THEN o.s ELSE Assign(LogicFlags(o.s, res), i.dst, res)

StepCompare(i, o) ==
    CASE i.op = "Cmp" -> SubFlags(o.s, o.d, o.r)
      [] i.op = "Test" /\ o.d.w = o.r.w -> LogicFlags(o.s, BinaryT("And", o.d, o.r))
      [] OTHER -> o.s

Pushed(t, rsp) ==
    WriteMemory(WriteReg(rsp.s, View64("rsp"), BinaryT("Sub", rsp.t, AddressT(4))), TopOfStack, t)
StepPush(s, i) ==
    LET src == EvalOperand(s, i.src) IN Pushed(src.t, ReadReg(src.s, View64("rsp")))

Popped(i, t, rsp) ==
    Assign(WriteReg(rsp.s, View64("rsp"), BinaryT("Add", rsp.t, AddressT(4))), i.dst, t)
StepPop(s, i) ==
    LET top == ReadMemory(s, TopOfStack) IN Popped(i, top.t, ReadReg(top.s, View64("rsp")))

StepOf(s, i) ==
    CASE i.op = "Mov" -> StepMov(s, i)
      [] i.op \in Arithmetic -> StepArithmetic(i, Operands(s, i))
      [] i.op \in Logic -> StepLogic(i, Operands(s, i))
      [] i.op \in Compares -> StepCompare(i, Operands(s, i))
      [] i.op = "Push" -> StepPush(s, i)
      [] i.op = "Pop" -> StepPop(s, i)

-----------------------------------------------------------------------------
(* The discipline under which the lifter is exact.  A program that breaks   *)
(* it is lifted all the same.                                               *)

Overlap(n, m) ==
    /\ n.root = m.root
    /\ OffsetOf(n.view) < OffsetOf(m.view) + WidthOf(m.view)
    /\ OffsetOf(m.view) < OffsetOf(n.view) + WidthOf(n.view)

Writes(i) == DefReg(i) \cup (IF i.op \in {"Push", "Pop"} THEN {View64("rsp")} ELSE {})

StaleAfter(s, i) ==
    (stale \ Writes(i)) \cup
    {n \in Names : n.view \in {"16", "8", "8h"} /\ s.regs[n] # None
                   /\ \E m \in Writes(i) : n # m /\ Overlap(n, m)}

\* A register is read whole, or its root is there already.
WholeFirst(s, i) == \A n \in UseRegs(i) : n.view = "64" \/ s.regs[View64(n.root)] # None
\* A narrow name is not read after its root changed under another name.
FreshNames(i) == UseRegs(i) \cap stale = {}
\* A byte is reached through one address term, and the stack through a concrete rsp.
OnePath(s) == \A x \in ByteAddresses : Cardinality(s.via[x]) <= 1 /\ <<"stack">> \notin s.via[x]
\* A symbolic address is mapped and writable.
LegalSymbolic(s) ==
    \A x \in ByteAddresses : s.via[x] \subseteq {<<"physical">>} \/ (Mapped(x) /\ x \notin setting.read_only)

Disciplined(i, after) ==
    WholeFirst(lifter, i) /\ FreshNames(i) /\ OnePath(after) /\ LegalSymbolic(after)

-----------------------------------------------------------------------------

\* new, load_process_image, and init_register for the roots declared.
NewLifter ==
    [regs |-> [n \in Names |-> IF n = View64("rsp") THEN Some(AddressT(world.file["rsp"])) ELSE None],
     zero |-> None, carry |-> None, sign |-> None, overflow |-> None,
     memory |-> [x \in ByteAddresses |-> IF x \in setting.loaded THEN Some(ConstT(world.ram[x], 1)) ELSE None],
     stack_memory |-> [x \in ByteAddresses |-> None], symbolic_memory |-> << >>,
     over_approximation |-> FALSE, unmapped_fault |-> FALSE, permission_fault |-> FALSE,
     budget_exhaustion |-> FALSE, fault_address |-> None,
     via |-> [x \in ByteAddresses |-> {}]]

Init ==
    /\ world \in Worlds /\ setting \in Settings
    /\ \A x \in setting.bss : world.ram[x] = 0
    /\ lifter = FoldLeft(LAMBDA s, root : InitRegister(s, View64(root)).s, NewLifter, Declared)
    /\ scopes = << >> /\ done = << >> /\ stale = {} /\ verdict = None

Step(i) ==
    /\ verdict = None /\ Len(done) < MaxSteps
    /\ \E after \in {s \in {StepOf(lifter, i)} : Disciplined(i, s)} :
          lifter' = after /\ stale' = StaleAfter(after, i)
    /\ done' = Append(done, i)
    /\ UNCHANGED <<world, setting, scopes, verdict>>

\* pop restores what push saved, the faults and the ranges included.
Push ==
    /\ verdict = None /\ Len(scopes) < MaxScopes
    /\ scopes' = Append(scopes, [lifter |-> lifter, done |-> Len(done), stale |-> stale])
    /\ UNCHANGED <<world, setting, lifter, done, stale, verdict>>

Pop ==
    /\ scopes # << >>
    /\ lifter' = Last(scopes).lifter /\ stale' = Last(scopes).stale
    /\ done' = SubSeq(done, 1, Last(scopes).done)
    /\ scopes' = Front(scopes) /\ verdict' = None
    /\ UNCHANGED <<world, setting>>

\* Two queries, without assumptions: can the condition hold, can it fail.  A
\* search that restarts may refute even what this run satisfies.
Answers == {"Sat", "Unsat", "Unknown"}
Misled(s, c, t, f) ==
    \/ t = "Unsat" /\ ConditionTerm(s, c) = {TRUE}
    \/ f = "Unsat" /\ ConditionTerm(s, c) = {FALSE}

Fault(s) ==
    CASE s.unmapped_fault -> "UnmappedFault" [] s.permission_fault -> "PermissionFault"
      [] s.budget_exhaustion -> "BudgetExhausted" [] OTHER -> "none"

\* resolve_branch: an answer other than Sat counts as a refutation.
PlainResolution(t, f) ==
    CASE t = "Sat" /\ f # "Sat" -> "true" [] t # "Sat" /\ f = "Sat" -> "false"
      [] t = "Sat" /\ f = "Sat" -> "Conditional" [] OTHER -> "Unreachable"

\* Mutant: an answer other than Sat counts as a refutation here too.
CertifiedByDefault(t, f) == PlainResolution(t, f)
\* resolve_branch_certified: an answer Unknown makes the path unreachable.
CertifiedResolution(t, f) ==
    CASE t = "Sat" /\ f = "Unsat" -> "true" [] t = "Unsat" /\ f = "Sat" -> "false"
      [] t = "Sat" /\ f = "Sat" -> "Conditional" [] OTHER -> "Unreachable"

CertifiedStatus(s, resolution) ==
    CASE resolution \in {"true", "false"} ->
             IF s.over_approximation THEN "OverApproximated" ELSE "ProvenInvariant"
      [] resolution = "Conditional" -> "ProvenDynamic"
      [] OTHER -> "UnreachablePath"

\* Without a fault and with all flags set, the solver is asked.
Asked(s, c) == Fault(s) = "none" /\ ConditionTerm(s, c) # None

\* What both functions return for a branch on c, given the two answers, and
\* whether these were right about this run (history).
Resolved(s, c, t, f) ==
    LET fault == Fault(s)
        missing == ConditionTerm(s, c) = None
        direction == IF missing THEN "Conditional" ELSE CertifiedResolution(t, f)
        Verdict(plain, certified, status) ==
            [cond |-> c, t |-> t, f |-> f, plain |-> plain, certified |-> certified, status |-> status,
             misled |-> Misled(s, c, t, f)]
    IN  CASE fault = "BudgetExhausted" -> Verdict(fault, fault, "ResourceExhausted")
          [] fault \in {"UnmappedFault", "PermissionFault"} -> Verdict(fault, fault, "FaultDetected")
          [] OTHER -> Verdict(IF missing THEN "Conditional" ELSE PlainResolution(t, f),
                              direction, CertifiedStatus(s, direction))

ResolveBranch ==
    /\ verdict = None
    /\ \E c \in Branches :
       \E t \in IF Asked(lifter, c) THEN Answers ELSE {"not asked"} :
       \E f \in IF Asked(lifter, c) THEN Answers ELSE {"not asked"} :
           verdict' = Some(Resolved(lifter, c, t, f))
    /\ UNCHANGED <<world, setting, lifter, scopes, done, stale>>

Next == Push \/ Pop \/ ResolveBranch \/ \E i \in Instructions : Step(i)
Spec == Init /\ [][Next]_vars

-----------------------------------------------------------------------------
(* Properties.                                                              *)

TypeOK ==
    /\ world \in Worlds /\ setting \in Settings
    /\ \A n \in Names : \A t \in lifter.regs[n] :
           t.w = WidthOf(n.view) /\ t.v \in 0..AllOnes(Bits(t.w)) /\ t.con \in BOOLEAN
    /\ \A x \in ByteAddresses : \A t \in lifter.memory[x] \cup lifter.stack_memory[x] : t.w = 1
    /\ Len(scopes) <= MaxScopes /\ Len(done) <= MaxSteps /\ stale \subseteq Names

\* The lifter's state read as a state of the flat machine.
DenotedFile(s) ==
    [r \in Roots |-> IF s.regs[View64(r)] = None THEN world.file[r] ELSE The(s.regs[View64(r)]).v]

DenotedByte(s, x) ==
    LET stores == {k \in DOMAIN s.symbolic_memory : s.symbolic_memory[k].at.v = x}
    IN  CASE stores # {} -> s.symbolic_memory[Max(stores)].val.v
          [] stores = {} /\ s.memory[x] # None -> The(s.memory[x]).v
          [] OTHER -> world.ram[x]

Machine == INSTANCE FlatMachine WITH machine <- lifter, saved <- scopes

Denoted(s) ==
    IF Fault(s) # "none" THEN Machine!Halted
    ELSE [file |-> DenotedFile(s), ram |-> [x \in ByteAddresses |-> DenotedByte(s, x)],
          cond |-> [c \in Conditions |-> ConditionTerm(s, c)], halted |-> FALSE]

Flat == INSTANCE FlatMachine WITH
    machine <- Denoted(lifter), saved <- [k \in DOMAIN scopes |-> Denoted(scopes[k].lifter)]

\* Whatever the views of registers, the paths to memory, the caches and the
\* scopes, a disciplined program is lifted to what it computes: its registers,
\* bytes and branch conditions, or a fault.  A pop brings back the run saved.
LiftsTheProgram == Flat!Spec

\* The program's run, from its instructions alone.
Run == FoldLeft(LAMBDA m, i : Machine!Exec(i, m), Machine!Start(world), done)

\* As long as no query refutes what the run satisfies, a verdict is about the
\* run that was lifted: a proven direction is the one taken, and no byte outside
\* the image took part in the proof.  A direction from resolve_branch, or a path
\* called unreachable, can be wrong only after an answer Unknown.
VerdictsTrue ==
    \A r \in {r \in verdict : ~r.misled} :
        LET Taken(direction) == Run.cond[r.cond] = {direction = "true"}
            touched == {x \in ByteAddresses : lifter.via[x] # {}}
        IN  /\ r.status = "ProvenInvariant" =>
                   Taken(r.certified) /\ \A x \in touched : Mapped(x)
            /\ r.status = "OverApproximated" => Taken(r.certified)
            /\ r.plain \in {"true", "false"} => Taken(r.plain) \/ "Unknown" \in {r.t, r.f}
            /\ r.certified = "Unreachable" \/ r.plain = "Unreachable" => "Unknown" \in {r.t, r.f}

\* A fault of the run lasts until the scope it happened in is popped, and the
\* address reported is the first that faulted.
FaultsLast ==
    [][ Len(scopes') >= Len(scopes) =>
            /\ Fault(lifter) # "none" => Fault(lifter') # "none"
            /\ lifter.over_approximation => lifter'.over_approximation
            /\ lifter.fault_address # None => lifter'.fault_address = lifter.fault_address ]_vars

\* The store chain keeps one entry per address term, none of them a constant,
\* and never more than the limit, however stores and scopes alternate.
ChainBounded ==
    LET chain == lifter.symbolic_memory
    IN  /\ Len(chain) <= setting.max_store_chain_depth
        /\ \A k \in DOMAIN chain : ~chain[k].at.con
        /\ \A j, k \in DOMAIN chain : j # k => chain[j].at.e # chain[k].at.e

\* Registers only, all of them whole, and no use of the stack (a push or a pop
\* defines rsp unseen): the blocks a slice is exact for.
WholeRegisters(block) ==
    \A k \in DOMAIN block : block[k].op \notin {"Push", "Pop"} /\ \A o \in {block[k].dst, block[k].src} :
        o.kind = "Imm" \/ (o.kind = "Reg" /\ o.name.view = "64")

\* A slice of a block on whole registers leaves the registers it is made for as
\* the block does.
SliceExact ==
    WholeRegisters(done) =>
        \A criteria \in SUBSET {View64(r) : r \in Roots} :
            LET slice == SemanticSlice(done, criteria)
                m == FoldLeft(LAMBDA acc, i : Machine!Exec(i, acc), Machine!Start(world), slice)
            IN  \A n \in criteria : m.file[n.root] = Run.file[n.root]
=============================================================================
