----------------------------- MODULE MCLifter -----------------------------
(***************************************************************************)
(* Programs, machines and settings for the lifter.  A byte has one bit:    *)
(* registers have four, there are sixteen addresses.                       *)
(***************************************************************************)
EXTENDS Lifter

rax == Reg("rax", "64")
eax == Reg("rax", "32")
ax == Reg("rax", "16")
al == Reg("rax", "8")
ah == Reg("rax", "8h")
rdi == Reg("rdi", "64")
AtRdi(disp, w) == Mem("rdi", NoReg, 1, disp, w)

\* Two worlds: rdi points into the image, or to its last byte.
MCWorlds ==
    { [file |-> [rax |-> 6, rdi |-> 9, rsp |-> 8], ram |-> [x \in ByteAddresses |-> x % 2]],
      [file |-> [rax |-> 13, rdi |-> 15, rsp |-> 2], ram |-> [x \in ByteAddresses |-> IF x < 8 THEN 1 ELSE 0]] }

Setting(policy, mapped, read_only, bss, depth, loaded) ==
    [policy |-> policy, mapped |-> mapped, read_only |-> read_only, bss |-> bss,
     max_store_chain_depth |-> depth, loaded |-> loaded]

MCSettings ==
    { Setting("StrictFault", {}, {}, {}, 5, {}),
      Setting("StrictFault", 2..15, {2}, {}, 5, 2..7),
      Setting("PermissiveOverApproximation", 2..15, {2}, {8, 10, 12}, 4, {}) }

\* Whole registers, narrow views, memory by an unknown pointer, the stack.
MCInstructions ==
    { Inst("Mov", rax, Imm(5, 4)), Inst("Sub", rax, rdi), Inst("Mov", ah, Imm(0, 1)), Inst("Or", eax, eax),
      Inst("Add", ax, Imm(3, 2)), Inst("Mov", AtRdi(0, 4), rax), Inst("Mov", ax, AtRdi(0, 2)),
      Inst("Test", AtRdi(1, 1), Imm(1, 1)), Inst("Push", rax, rax), Inst("Pop", rdi, rdi),
      Inst("Mov", Mem(NoReg, NoReg, 1, 2, 1), al) }

MCDeclared == <<"rdi">>
============================================================================
