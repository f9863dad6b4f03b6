-------------------------------- MODULE X86 --------------------------------
(***************************************************************************)
(* The instructions and registers the lifter works on (lifter.rs).  A      *)
(* register name is a root and a view of it.  Widths are counted in bytes  *)
(* of a scaled machine: a byte has ByteBits bits, the views of 8, 16, 32   *)
(* and 64 bits have 1, 2, 3 and 4 bytes.                                   *)
(***************************************************************************)
EXTENDS BitVectors, Sequences, SequencesExt

CONSTANTS
    Roots,        \* 64-bit registers
    ByteBits      \* bits of a byte

ASSUME ByteBitsAssumption == ByteBits \in Nat \ {0}

Views == {"64", "32", "16", "8", "8h"}
\* canonical_reg_mapping: where the view lies in its root.
WidthOf(view) == CASE view = "64" -> 4 [] view = "32" -> 3 [] view = "16" -> 2 [] OTHER -> 1
OffsetOf(view) == IF view = "8h" THEN 1 ELSE 0
Bits(bytes) == bytes * ByteBits
WordBits == Bits(4)
ByteAddresses == 0..(2^WordBits - 1)

R(root, view) == [root |-> root, view |-> view]
Names == [root : Roots, view : Views]
View64(root) == R(root, "64")
View32(root) == R(root, "32")

\* Part of a root's value a name shows, and a root's value after a write
\* through the name: 32-bit writes clear what lies above.
Shown(value, name) == Extract(value, Bits(OffsetOf(name.view)), Bits(WidthOf(name.view)))
Written(value, name, v) ==
    LET low == Bits(OffsetOf(name.view))
        w == Bits(WidthOf(name.view))
    IN  IF name.view \in {"32", "64"} THEN v ELSE value + (v - Shown(value, name)) * 2^low

-----------------------------------------------------------------------------
(* Operands and instructions.                                               *)

NoReg == "no register"
Reg(root, view) == [kind |-> "Reg", name |-> R(root, view), w |-> WidthOf(view)]
Imm(v, w) == [kind |-> "Imm", v |-> v, w |-> w]
Mem(base, index, scale, disp, w) ==
    [kind |-> "Mem", base |-> base, index |-> index, scale |-> scale, disp |-> disp, w |-> w]
TopOfStack == Mem("rsp", NoReg, 1, 0, 4)

Inst(op, dst, src) == [op |-> op, dst |-> dst, src |-> src]
Arithmetic == {"Add", "Sub"}
Logic == {"Xor", "And", "Or"}
Compares == {"Cmp", "Test"}

IsOperand(o) ==
    \/ o.kind = "Reg" /\ o.name \in Names
    \/ o.kind = "Imm"
    \/ o.kind = "Mem" /\ {o.base, o.index} \subseteq Roots \cup {NoReg} /\ o.w \in 1..4
IsPlace(o) == IsOperand(o) /\ o.kind # "Imm"
IsInstruction(i) ==
    \/ i.op \in {"Mov"} \cup Arithmetic \cup Logic /\ IsPlace(i.dst) /\ IsOperand(i.src)
    \/ i.op \in Compares /\ IsOperand(i.dst) /\ IsOperand(i.src)
    \/ i.op = "Push" /\ IsOperand(i.src)
    \/ i.op = "Pop" /\ IsPlace(i.dst)

Conditions == {"E", "B", "BE", "L", "LE", "S", "O"}   \* and the negation of each

-----------------------------------------------------------------------------
(* def_reg, use_regs and the backward slice of a block: names are compared  *)
(* as they are, whatever root they share.                                   *)

\* Mutant: only moves define a register.
DefRegOfMoves(i) == IF i.op \in {"Mov", "Pop"} /\ i.dst.kind = "Reg" THEN {i.dst.name} ELSE {}
DefReg(i) ==
    IF i.op \in {"Mov", "Pop"} \cup Arithmetic \cup Logic /\ i.dst.kind = "Reg"
    THEN {i.dst.name} ELSE {}

OperandRegs(o) ==
    CASE o.kind = "Reg" -> {o.name}
      [] o.kind = "Mem" -> {View64(r) : r \in {o.base, o.index} \ {NoReg}}
      [] OTHER -> {}

UseRegs(i) ==
    CASE i.op \in Arithmetic \cup Logic \cup Compares ->
             OperandRegs(i.dst) \cup OperandRegs(i.src)
      [] i.op = "Mov" -> OperandRegs(i.src) \cup
             (IF i.dst.kind = "Mem" THEN OperandRegs(i.dst) ELSE {})
      [] i.op = "Push" -> OperandRegs(i.src)
      [] i.op = "Pop" -> IF i.dst.kind = "Mem" THEN OperandRegs(i.dst) ELSE {}

\* One instruction of the backward walk: compares stay, and what defines a
\* needed name; a move ends the need.
SliceStep(acc, i) ==
    CASE i.op \in Compares ->
             [needed |-> acc.needed \cup UseRegs(i), kept |-> <<i>> \o acc.kept]
      [] DefReg(i) \cap acc.needed # {} ->
             [needed |-> (IF i.op = "Mov" THEN acc.needed \ DefReg(i) ELSE acc.needed) \cup UseRegs(i),
              kept |-> <<i>> \o acc.kept]
      [] OTHER -> acc

SemanticSlice(block, criteria) ==
    FoldRight(LAMBDA i, acc : SliceStep(acc, i), block, [needed |-> criteria, kept |-> << >>]).kept
=============================================================================
