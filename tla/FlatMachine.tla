---------------------------- MODULE FlatMachine ----------------------------
(***************************************************************************)
(* What the lifter promises: the registers, the memory and the branch      *)
(* conditions of one run of the program, with a flat register file, a flat *)
(* byte memory, and states saved and restored.  The run may stop at a      *)
(* fault.  Conditions are facts about numbers: flags do not appear.        *)
(***************************************************************************)
EXTENDS X86

CONSTANTS
    Instructions,  \* what the program may execute
    Worlds         \* initial register files and memories

VARIABLES machine, saved

Address(m, o) ==
    Mod(o.disp + (IF o.base = NoReg THEN 0 ELSE m.file[o.base])
        + (IF o.index = NoReg THEN 0 ELSE o.scale * m.file[o.index]), WordBits)

\* The bytes from an address on, the lowest first.
Loaded(m, address, w) ==
    [v |-> FoldSet(LAMBDA k, sum : sum + m.ram[Mod(address + k, WordBits)] * 2^Bits(k), 0, 0..(w - 1)),
     at |-> [k \in 0..(w - 1) |-> Mod(address + k, WordBits)]]

Value(m, o) ==
    CASE o.kind = "Reg" -> [v |-> Shown(m.file[o.name.root], o.name)]
      [] o.kind = "Imm" -> [v |-> o.v]
      [] o.kind = "Mem" -> Loaded(m, Address(m, o), o.w)

Assigned(m, o, v) ==
    CASE o.kind = "Reg" -> [m EXCEPT !.file[o.name.root] = Written(@, o.name, v)]
      [] o.kind = "Mem" ->
             LET at == Value(m, o).at
             IN  [m EXCEPT !.ram = [a \in ByteAddresses |->
                     IF \E k \in DOMAIN at : at[k] = a
                     THEN Extract(v, Bits(CHOOSE k \in DOMAIN at : at[k] = a), ByteBits) ELSE @[a]]]
      [] OTHER -> m

\* The result of an operation, and the exact number it stands for.
Result(op, l, r, w) ==
    CASE op \in {"Sub", "Cmp"} -> [v |-> BvSub(l, r, w), exact |-> Signed(l, w) - Signed(r, w)]
      [] op = "Add" -> [v |-> BvAdd(l, r, w), exact |-> Signed(l, w) + Signed(r, w)]
      [] op = "Xor" -> LET v == BvXor(l, r, w) IN [v |-> v, exact |-> Signed(v, w)]
      [] op = "Or" -> LET v == BvOr(l, r, w) IN [v |-> v, exact |-> Signed(v, w)]
      [] op \in {"And", "Test"} -> LET v == BvAnd(l, r, w) IN [v |-> v, exact |-> Signed(v, w)]

\* Which conditions hold after it: "less" is less exactly, not by a wrapped result.
ConditionsAfter(op, l, r, w) ==
    LET res == Result(op, l, r, w)
        below == CASE op \in {"Sub", "Cmp"} -> l < r [] op = "Add" -> l + r > AllOnes(w) [] OTHER -> FALSE
    IN  [E |-> res.v = 0, B |-> below, BE |-> below \/ res.v = 0,
         L |-> res.exact < 0, LE |-> res.exact < 0 \/ res.v = 0,
         S |-> Signed(res.v, w) < 0, O |-> Signed(res.v, w) # res.exact]

WithConditions(m, cond) == [m EXCEPT !.cond = [c \in Conditions |-> {cond[c]}]]

Exec(i, m) ==
    CASE i.op = "Mov" -> Assigned(m, i.dst, Value(m, i.src).v)
      [] i.op \in Arithmetic \cup Logic ->
             LET l == Value(m, i.dst).v
                 r == Value(m, i.src).v
             IN  WithConditions(Assigned(m, i.dst, Result(i.op, l, r, i.dst.w).v),
                                ConditionsAfter(i.op, l, r, i.dst.w))
      [] i.op \in Compares ->
             WithConditions(m, ConditionsAfter(i.op, Value(m, i.dst).v, Value(m, i.src).v, i.dst.w))
      [] i.op = "Push" ->
             Assigned([m EXCEPT !.file["rsp"] = Mod(@ + 2^WordBits - 4, WordBits)],
                      TopOfStack, Value(m, i.src).v)
      [] i.op = "Pop" ->
             Assigned([m EXCEPT !.file["rsp"] = Mod(@ + 4, WordBits)],
                      i.dst, Value(m, TopOfStack).v)

Start(world) ==
    [file |-> world.file, ram |-> world.ram, cond |-> [c \in Conditions |-> {}], halted |-> FALSE]
Halted == [file |-> << >>, ram |-> << >>, cond |-> << >>, halted |-> TRUE]

Init == machine \in {Start(world) : world \in Worlds} /\ saved = << >>

Step ==
    /\ \E i \in Instructions : machine' \in {IF machine.halted THEN Halted ELSE Exec(i, machine), Halted}
    /\ UNCHANGED saved
Save == saved' = Append(saved, machine) /\ UNCHANGED machine
Restore == saved # << >> /\ machine' = Last(saved) /\ saved' = Front(saved)

Next == Step \/ Save \/ Restore
Spec == Init /\ [][Next]_<<machine, saved>>
=============================================================================
