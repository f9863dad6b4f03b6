--------------------------- MODULE Lifter_proofs ---------------------------
(***************************************************************************)
(* What holds of the lifter for any program, machine and memory setting:    *)
(* its faults last, its store chain stays in bounds, and slices of whole    *)
(* registers compute what the block does.                                   *)
(***************************************************************************)
EXTENDS Lifter, Induction_proofs

-----------------------------------------------------------------------------
(* What no operation of the lifter may lose.                                *)

Fields == {"symbolic_memory", "over_approximation", "unmapped_fault", "permission_fault",
           "budget_exhaustion", "fault_address"}

IsChain(c) ==
    /\ \E S : c \in Seq(S)
    /\ setting.max_store_chain_depth \in Nat /\ Len(c) <= setting.max_store_chain_depth
    /\ \A k \in DOMAIN c : "at" \in DOMAIN c[k] /\ ~c[k].at.con
    /\ \A j, k \in DOMAIN c : j # k => c[j].at.e # c[k].at.e
Whole(s) == Fields \subseteq DOMAIN s /\ IsChain(s.symbolic_memory)

\* The faults of s are faults of z.
Lasts(s, z) ==
    /\ s.unmapped_fault => z.unmapped_fault
    /\ s.permission_fault => z.permission_fault
    /\ s.budget_exhaustion => z.budget_exhaustion
    /\ s.over_approximation => z.over_approximation
    /\ s.fault_address # None => z.fault_address = s.fault_address
Follows(s, z) == Whole(s) => Whole(z) /\ Lasts(s, z)

\* Nothing of this has changed.
Same(s, z) == Fields \subseteq DOMAIN s => Fields \subseteq DOMAIN z /\ \A f \in Fields : z[f] = s[f]

LEMMA SameFollows ==
  ASSUME NEW s, NEW z, Same(s, z)
  PROVE  Follows(s, z)
<1> SUFFICES ASSUME Whole(s) PROVE Whole(z) /\ Lasts(s, z)
  BY DEF Follows
<1>1. Fields \subseteq DOMAIN z /\ \A f \in Fields : z[f] = s[f]
  BY DEF Same, Whole
<1>2. /\ z.symbolic_memory = s.symbolic_memory /\ z.over_approximation = s.over_approximation
      /\ z.unmapped_fault = s.unmapped_fault /\ z.permission_fault = s.permission_fault
      /\ z.budget_exhaustion = s.budget_exhaustion /\ z.fault_address = s.fault_address
  BY <1>1 DEF Fields
<1>3. Whole(z)
  BY <1>1, <1>2 DEF Whole
<1>4. Lasts(s, z)
  BY <1>2 DEF Lasts
<1> QED BY <1>3, <1>4

LEMMA SameTwice ==
  ASSUME NEW s, NEW y, NEW z, Same(s, y), Same(y, z)
  PROVE  Same(s, z)
BY DEF Same

LEMMA FollowsTwice ==
  ASSUME NEW s, NEW y, NEW z, Follows(s, y), Follows(y, z)
  PROVE  Follows(s, z)
<1> SUFFICES ASSUME Whole(s) PROVE Whole(z) /\ Lasts(s, z)
  BY DEF Follows
<1>1. Whole(y) /\ Lasts(s, y)
  BY DEF Follows
<1>2. Whole(z) /\ Lasts(y, z)
  BY <1>1 DEF Follows
<1>3. Lasts(s, z)
  BY <1>1, <1>2 DEF Lasts
<1> QED BY <1>2, <1>3

LEMMA Itself ==
  ASSUME NEW s
  PROVE  Same(s, s) /\ Follows(s, s)
BY DEF Same, Follows, Lasts

\* Another field is set.
LEMMA SetOther ==
  ASSUME NEW s, NEW f, f \notin Fields, NEW v
  PROVE  Same(s, [s EXCEPT ![f] = v])
BY DEF Same

-----------------------------------------------------------------------------
(* Registers and flags.                                                     *)

SetReg(s, n, t) == [s EXCEPT !.regs[n] = t]
SetRegs(s, n, t, m, u) == [s EXCEPT !.regs[n] = t, !.regs[m] = u]
SetFlags(s, z, c, g, o) == [s EXCEPT !.zero = z, !.carry = c, !.sign = g, !.overflow = o]

LEMMA RegsSame ==
  ASSUME NEW s, NEW n, NEW t, NEW m, NEW u
  PROVE  Same(s, SetReg(s, n, t)) /\ Same(s, SetRegs(s, n, t, m, u))
<1>1. "regs" \notin Fields
  BY DEF Fields
<1>2. Same(s, [s EXCEPT !.regs[n] = t])
  BY <1>1 DEF Same
<1>3. Same(s, [s EXCEPT !.regs[n] = t, !.regs[m] = u])
  BY <1>1 DEF Same
<1> QED BY <1>2, <1>3 DEF SetReg, SetRegs

LEMMA InitRegisterSame ==
  ASSUME NEW s, NEW n
  PROVE  Same(s, InitRegister(s, n).s)
<1>1. PICK t, u, other : InitRegister(s, n).s = SetRegs(s, n, t, other, u)
  BY DEF InitRegister, SetRegs
<1> QED BY <1>1, RegsSame

LEMMA ReadRegSame ==
  ASSUME NEW s, NEW n
  PROVE  Same(s, ReadReg(s, n).s)
<1>1. CASE s.regs[n] # None
  <2>1. ReadReg(s, n).s = s
    BY <1>1 DEF ReadReg, SetReg
  <2> QED BY <2>1, Itself
<1>2. CASE s.regs[n] = None /\ s.regs[View64(n.root)] # None
  <2>1. PICK t : ReadReg(s, n).s = SetReg(s, n, t)
    BY <1>2 DEF ReadReg, SetReg
  <2> QED BY <2>1, RegsSame
<1>3. CASE s.regs[n] = None /\ s.regs[View64(n.root)] = None
  <2>1. ReadReg(s, n) = InitRegister(s, n)
    BY <1>3 DEF ReadReg, SetReg
  <2> QED BY <2>1, InitRegisterSame
<1> QED BY <1>1, <1>2, <1>3

LEMMA WriteRegSame ==
  ASSUME NEW s, NEW n, NEW t
  PROVE  Same(s, WriteReg(s, n, t))
<1>1. PICK y : y = SetReg(s, n, Some(t))
  OBVIOUS
<1>2. Same(s, y)
  BY <1>1, RegsSame
<1>3. PICK read : read = ReadReg(y, View64(n.root))
  OBVIOUS
<1>4. Same(y, read.s)
  BY <1>3, ReadRegSame
<1>5. CASE n.view = "32"
  <2>1. PICK u : WriteReg(s, n, t) = SetReg(y, View64(n.root), u)
    BY <1>1, <1>5 DEF WriteReg, SetReg
  <2>2. Same(y, WriteReg(s, n, t))
    BY <2>1, RegsSame
  <2> QED BY <1>2, <2>2, SameTwice
<1>6. CASE n.view = "64"
  <2>1. PICK u : WriteReg(s, n, t) = SetReg(y, View32(n.root), u)
    BY <1>1, <1>6 DEF WriteReg, SetReg
  <2>2. Same(y, WriteReg(s, n, t))
    BY <2>1, RegsSame
  <2> QED BY <1>2, <2>2, SameTwice
<1>7. CASE n.view # "32" /\ n.view # "64"
  <2>1. PICK u, w : WriteReg(s, n, t) = SetRegs(read.s, View64(n.root), u, View32(n.root), w)
    BY <1>1, <1>3, <1>7 DEF WriteReg, SetReg, SetRegs
  <2>2. Same(read.s, WriteReg(s, n, t))
    BY <2>1, RegsSame
  <2>3. Same(s, read.s)
    BY <1>2, <1>4, SameTwice
  <2> QED BY <2>2, <2>3, SameTwice
<1> QED BY <1>5, <1>6, <1>7

LEMMA FlagsSame ==
  ASSUME NEW s, NEW z, NEW c, NEW g, NEW o
  PROVE  Same(s, SetFlags(s, z, c, g, o))
<1>1. {"zero", "carry", "sign", "overflow"} \cap Fields = {}
  BY DEF Fields
<1> QED BY <1>1 DEF Same, SetFlags

LEMMA SetFlagsSame ==
  ASSUME NEW s, NEW l, NEW r, NEW res
  PROVE  Same(s, SubFlags(s, l, r)) /\ Same(s, AddFlags(s, l, r, res)) /\ Same(s, LogicFlags(s, res))
<1>1. PICK z1, c1, g1, o1 :
        SubFlags(s, l, r) = SetFlags(s, z1, c1, g1, o1)
  BY DEF SubFlags, SetFlags
<1>2. PICK z2, c2, g2, o2 :
        AddFlags(s, l, r, res) = SetFlags(s, z2, c2, g2, o2)
  BY DEF AddFlags, SetFlags
<1>3. PICK z3, c3, g3, o3 :
        LogicFlags(s, res) = [s EXCEPT !.zero = z3, !.carry = c3, !.overflow = o3, !.sign = g3]
  BY DEF LogicFlags
<1>4. Same(s, LogicFlags(s, res))
  <2>1. {"zero", "carry", "sign", "overflow"} \cap Fields = {}
    BY DEF Fields
  <2> QED BY <1>3, <2>1 DEF Same
<1>5. Same(s, SubFlags(s, l, r)) /\ Same(s, AddFlags(s, l, r, res))
  BY <1>1, <1>2, FlagsSame
<1> QED BY <1>4, <1>5

-----------------------------------------------------------------------------
(* Addresses: one that is symbolic is no constant.                          *)

IsAddress(a) == a.kind \in {"Physical", "Stack", "Symbolic"} /\ (a.kind = "Symbolic" => ~a.at.con)

LEMMA PlusOpen ==
  ASSUME NEW t, ~t.con, NEW k
  PROVE  ~Plus(t, k).con
BY DEF Plus, BinaryT

LEMMA ReadPartSame ==
  ASSUME NEW s, NEW root
  PROVE  Same(s, ReadPart(s, root).s) /\ (root = NoReg => ReadPart(s, root).t.con)
<1>1. CASE root = NoReg
  <2>1. ReadPart(s, root) = [t |-> AddressT(0), s |-> s]
    BY <1>1 DEF ReadPart
  <2>2. AddressT(0).con
    BY DEF AddressT, ConstT
  <2> QED BY <2>1, <2>2, Itself
<1>2. CASE root # NoReg
  <2>1. ReadPart(s, root) = ReadReg(s, View64(root))
    BY <1>2 DEF ReadPart
  <2> QED BY <1>2, <2>1, ReadRegSame
<1> QED BY <1>1, <1>2

LEMMA AddressFacts ==
  ASSUME NEW o, NEW idx, NEW base, o.index = NoReg => idx.t.con, o.base = NoReg => base.t.con
  PROVE  IsAddress(AddressFrom(o, idx, base)) /\ AddressFrom(o, idx, base).s = base.s
<1>1. CASE base.t.con /\ idx.t.con
  <2>1. PICK x : AddressFrom(o, idx, base) = [kind |-> "Physical", at |-> x, s |-> base.s]
    BY <1>1 DEF AddressFrom
  <2> QED BY <2>1 DEF IsAddress
<1>2. CASE ~(base.t.con /\ idx.t.con) /\ ~base.t.con /\ idx.t.con /\ o.base = "rsp"
  <2>1. PICK x : AddressFrom(o, idx, base) = [kind |-> "Stack", at |-> x, s |-> base.s]
    BY <1>2 DEF AddressFrom
  <2> QED BY <2>1 DEF IsAddress
<1>3. CASE ~(base.t.con /\ idx.t.con) /\ ~(~base.t.con /\ idx.t.con /\ o.base = "rsp")
  <2>1. PICK start : start = IF o.base = NoReg THEN AddressT(o.disp) ELSE Plus(base.t, o.disp)
    OBVIOUS
  <2>2. PICK sum : sum = IF o.index = NoReg THEN start ELSE BinaryT("Add", start, BinaryT("Mul", idx.t, AddressT(o.scale)))
    OBVIOUS
  <2>3. AddressFrom(o, idx, base) = [kind |-> "Symbolic", at |-> sum, s |-> base.s]
    BY <1>3, <2>1, <2>2 DEF AddressFrom
  <2>4. ~base.t.con => ~start.con
    BY <2>1, PlusOpen
  <2>5. ~sum.con
    <3>1. CASE o.index = NoReg
      BY <1>3, <2>2, <2>4, <3>1
    <3>2. CASE o.index # NoReg
      <4>1. PICK product : product = BinaryT("Mul", idx.t, AddressT(o.scale))
        OBVIOUS
      <4>2. ~idx.t.con => ~product.con
        BY <4>1 DEF BinaryT
      <4>3. sum = BinaryT("Add", start, product)
        BY <2>2, <3>2, <4>1
      <4>4. ~start.con \/ ~product.con
        BY <1>3, <2>4, <4>2
      <4> QED BY <4>3, <4>4 DEF BinaryT
    <3> QED BY <3>1, <3>2
  <2> QED BY <2>3, <2>5 DEF IsAddress
<1> QED BY <1>1, <1>2, <1>3

LEMMA ResolveSame ==
  ASSUME NEW s, NEW o
  PROVE  IsAddress(ResolveAddress(s, o)) /\ Same(s, ResolveAddress(s, o).s)
<1>1. PICK idx : idx = ReadPart(s, o.index)
  OBVIOUS
<1>2. PICK base : base = ReadPart(idx.s, o.base)
  OBVIOUS
<1>3. ResolveAddress(s, o) = AddressFrom(o, idx, base)
  BY <1>1, <1>2 DEF ResolveAddress
<1>4. Same(s, idx.s) /\ (o.index = NoReg => idx.t.con)
  BY <1>1, ReadPartSame
<1>5. Same(idx.s, base.s) /\ (o.base = NoReg => base.t.con)
  BY <1>2, ReadPartSame
<1>6. IsAddress(AddressFrom(o, idx, base)) /\ AddressFrom(o, idx, base).s = base.s
  BY <1>4, <1>5, AddressFacts
<1>7. Same(s, base.s)
  BY <1>4, <1>5, SameTwice
<1> QED BY <1>3, <1>6, <1>7

-----------------------------------------------------------------------------
(* Bytes.                                                                   *)

LEMMA FaultedFollows ==
  ASSUME NEW s, NEW fault \in {"unmapped_fault", "permission_fault"}, NEW x
  PROVE  Follows(s, Faulted(s, fault, x))
<1> SUFFICES ASSUME Whole(s) PROVE Whole(Faulted(s, fault, x)) /\ Lasts(s, Faulted(s, fault, x))
  BY DEF Follows
<1>1. PICK z : z = Faulted(s, fault, x)
  OBVIOUS
<1>2. Fields \subseteq DOMAIN s
  BY DEF Whole
<1>3. DOMAIN z = DOMAIN s
  BY <1>1 DEF Faulted
<1>4. /\ z.symbolic_memory = s.symbolic_memory /\ z.over_approximation = s.over_approximation
      /\ z.budget_exhaustion = s.budget_exhaustion
  BY <1>1, <1>2 DEF Faulted, Fields
<1>5. /\ z.unmapped_fault = TRUE \/ z.unmapped_fault = s.unmapped_fault
      /\ z.permission_fault = TRUE \/ z.permission_fault = s.permission_fault
  BY <1>1, <1>2 DEF Faulted, Fields
<1>6. z.fault_address = IF s.fault_address = None THEN Some(x) ELSE s.fault_address
  BY <1>1, <1>2 DEF Faulted, Fields
<1>7. Whole(z)
  BY <1>2, <1>3, <1>4 DEF Whole
<1>8. Lasts(s, z)
  BY <1>4, <1>5, <1>6 DEF Lasts
<1> QED BY <1>1, <1>7, <1>8

LEMMA UnlessFollows ==
  ASSUME NEW s, NEW ok
  PROVE  Follows(s, Unless(s, ok))
<1> SUFFICES ASSUME Whole(s) PROVE Whole(Unless(s, ok)) /\ Lasts(s, Unless(s, ok))
  BY DEF Follows
<1>1. PICK z : z = Unless(s, ok)
  OBVIOUS
<1>2. Fields \subseteq DOMAIN s
  BY DEF Whole
<1>3. DOMAIN z = DOMAIN s
  BY <1>1 DEF Unless
<1>4. /\ z.symbolic_memory = s.symbolic_memory /\ z.unmapped_fault = s.unmapped_fault
      /\ z.permission_fault = s.permission_fault
      /\ z.budget_exhaustion = s.budget_exhaustion /\ z.fault_address = s.fault_address
  BY <1>1, <1>2 DEF Unless, Fields
<1>5. s.over_approximation => z.over_approximation
  BY <1>1, <1>2 DEF Unless, Fields
<1>6. Whole(z)
  BY <1>2, <1>3, <1>4 DEF Whole
<1>7. Lasts(s, z)
  BY <1>4, <1>5 DEF Lasts
<1> QED BY <1>1, <1>6, <1>7

LEMMA ViaSame ==
  ASSUME NEW s, NEW x, NEW path
  PROVE  Same(s, Via(s, x, path))
<1>1. "via" \notin Fields
  BY DEF Fields
<1> QED BY <1>1 DEF Same, Via

\* One field of the state set for a byte.
SetCell(s, x, c) == [s EXCEPT !.memory[x] = c]
SetStack(s, x, c) == [s EXCEPT !.stack_memory[x] = c]
Replaced(s, m, byte) == [s EXCEPT !.symbolic_memory[m].val = byte]
Chained(s, t, byte) == [s EXCEPT !.symbolic_memory = Append(@, [at |-> t, val |-> byte])]
Exhausted(s) == [s EXCEPT !.budget_exhaustion = TRUE]

LEMMA CellFollows ==
  ASSUME NEW s, NEW x, NEW c
  PROVE  Follows(s, SetCell(s, x, c)) /\ Follows(s, SetStack(s, x, c))
<1>1. "memory" \notin Fields /\ "stack_memory" \notin Fields
  BY DEF Fields
<1>2. Same(s, SetCell(s, x, c))
  BY <1>1 DEF Same, SetCell
<1>3. Same(s, SetStack(s, x, c))
  BY <1>1 DEF Same, SetStack
<1> QED BY <1>2, <1>3, SameFollows

LEMMA ExhaustedFollows ==
  ASSUME NEW s
  PROVE  Follows(s, Exhausted(s))
<1> SUFFICES ASSUME Whole(s) PROVE Whole(Exhausted(s)) /\ Lasts(s, Exhausted(s))
  BY DEF Follows
<1>1. PICK z : z = Exhausted(s)
  OBVIOUS
<1>2. Fields \subseteq DOMAIN s
  BY DEF Whole
<1>3. DOMAIN z = DOMAIN s
  BY <1>1 DEF Exhausted
<1>4. /\ z.symbolic_memory = s.symbolic_memory /\ z.unmapped_fault = s.unmapped_fault
      /\ z.permission_fault = s.permission_fault /\ z.budget_exhaustion = TRUE
      /\ z.over_approximation = s.over_approximation /\ z.fault_address = s.fault_address
  BY <1>1, <1>2 DEF Exhausted, Fields
<1>5. Whole(z)
  BY <1>2, <1>3, <1>4 DEF Whole
<1>6. Lasts(s, z)
  BY <1>4 DEF Lasts
<1> QED BY <1>1, <1>5, <1>6

\* Only the chain changes, and stays one.
LEMMA ChainFollows ==
  ASSUME NEW s, NEW z, Whole(s), Whole(s) => Fields \subseteq DOMAIN z,
         \A f \in Fields \ {"symbolic_memory"} : z[f] = s[f], IsChain(z.symbolic_memory)
  PROVE  Whole(z) /\ Lasts(s, z)
<1>1. /\ z.over_approximation = s.over_approximation
      /\ z.unmapped_fault = s.unmapped_fault /\ z.permission_fault = s.permission_fault
      /\ z.budget_exhaustion = s.budget_exhaustion /\ z.fault_address = s.fault_address
  BY DEF Fields
<1>2. Lasts(s, z)
  BY <1>1 DEF Lasts
<1> QED BY <1>2 DEF Whole

LEMMA ReplacedFollows ==
  ASSUME NEW s, NEW m \in DOMAIN s.symbolic_memory, NEW byte
  PROVE  Follows(s, Replaced(s, m, byte))
<1> SUFFICES ASSUME Whole(s) PROVE Whole(Replaced(s, m, byte)) /\ Lasts(s, Replaced(s, m, byte))
  BY DEF Follows
<1>1. PICK z : z = Replaced(s, m, byte)
  OBVIOUS
<1>2. PICK c : c = s.symbolic_memory
  OBVIOUS
<1>3. "symbolic_memory" \in DOMAIN s /\ Fields \subseteq DOMAIN s
  BY DEF Whole, Fields
<1>4. Fields \subseteq DOMAIN z /\ \A f \in Fields \ {"symbolic_memory"} : z[f] = s[f]
  BY <1>1, <1>3 DEF Replaced
<1>5. z.symbolic_memory = [c EXCEPT ![m].val = byte]
  BY <1>1, <1>2, <1>3 DEF Replaced
<1>6. PICK d : d = [c EXCEPT ![m].val = byte]
  OBVIOUS
<1>7. IsChain(c)
  BY <1>2 DEF Whole
<1>8. PICK S : c \in Seq(S)
  BY <1>7 DEF IsChain
<1>9. PICK n \in Nat : n = Len(c)
  BY <1>8
<1>10. DOMAIN c = 1..n /\ m \in 1..n
  BY <1>2, <1>8, <1>9
<1>11. \A k \in 1..n : k # m => d[k] = c[k]
  BY <1>6, <1>10
<1>12. d[m] = [c[m] EXCEPT !.val = byte]
  BY <1>6, <1>10
<1>13. d[m].at = c[m].at /\ DOMAIN d[m] = DOMAIN c[m]
  BY <1>12
<1>14. DOMAIN d = 1..n /\ Len(d) = n
  BY <1>6, <1>9, <1>10
<1>15. d \in Seq({d[k] : k \in 1..n})
  <2>1. d = [k \in 1..n |-> d[k]]
    BY <1>6, <1>10
  <2>2. PICK D : D = {d[k] : k \in 1..n}
    OBVIOUS
  <2>3. \A k \in 1..n : d[k] \in D
    BY <2>2
  <2>4. d \in [1..n -> D]
    BY <2>1, <2>3
  <2> QED BY <2>2, <2>4
<1>16. \A k \in 1..n : d[k].at = c[k].at /\ DOMAIN d[k] = DOMAIN c[k]
  BY <1>11, <1>13
<1>17. IsChain(d)
  <2>1. \A k \in 1..n : "at" \in DOMAIN c[k] /\ ~c[k].at.con
    BY <1>7, <1>10 DEF IsChain
  <2>2. \A j, k \in 1..n : j # k => c[j].at.e # c[k].at.e
    BY <1>7, <1>10 DEF IsChain
  <2>3. \A k \in 1..n : "at" \in DOMAIN d[k] /\ ~d[k].at.con
    BY <1>16, <2>1
  <2>4. \A j, k \in 1..n : j # k => d[j].at.e # d[k].at.e
    BY <1>16, <2>2
  <2>5. setting.max_store_chain_depth \in Nat /\ Len(d) <= setting.max_store_chain_depth
    BY <1>7, <1>9, <1>14 DEF IsChain
  <2> QED BY <1>14, <1>15, <2>3, <2>4, <2>5 DEF IsChain
<1> QED BY <1>1, <1>4, <1>5, <1>6, <1>17, ChainFollows

LEMMA ChainedFollows ==
  ASSUME NEW s, NEW t, ~t.con, NEW byte,
         \A k \in DOMAIN s.symbolic_memory : s.symbolic_memory[k].at.e # t.e,
         ~(Len(s.symbolic_memory) >= setting.max_store_chain_depth)
  PROVE  Follows(s, Chained(s, t, byte))
<1> SUFFICES ASSUME Whole(s) PROVE Whole(Chained(s, t, byte)) /\ Lasts(s, Chained(s, t, byte))
  BY DEF Follows
<1>1. PICK z : z = Chained(s, t, byte)
  OBVIOUS
<1>2. PICK c : c = s.symbolic_memory
  OBVIOUS
<1>3. "symbolic_memory" \in DOMAIN s /\ Fields \subseteq DOMAIN s
  BY DEF Whole, Fields
<1>4. Fields \subseteq DOMAIN z /\ \A f \in Fields \ {"symbolic_memory"} : z[f] = s[f]
  BY <1>1, <1>3 DEF Chained
<1>5. PICK entry : entry = [at |-> t, val |-> byte]
  OBVIOUS
<1>6. z.symbolic_memory = Append(c, entry)
  BY <1>1, <1>2, <1>3, <1>5 DEF Chained
<1>7. IsChain(c)
  BY <1>2 DEF Whole
<1>8. PICK S : c \in Seq(S)
  BY <1>7 DEF IsChain
<1>9. PICK n \in Nat : n = Len(c)
  BY <1>8
<1>10. PICK d : d = Append(c, entry)
  OBVIOUS
<1>11. PICK E : E = S \cup {entry}
  OBVIOUS
<1>12. c \in Seq(E) /\ entry \in E
  BY <1>8, <1>11
<1>13. d \in Seq(E) /\ Len(d) = n + 1 /\ d[n + 1] = entry /\ \A k \in 1..n : d[k] = c[k]
  BY <1>9, <1>10, <1>12
<1>14. DOMAIN c = 1..n /\ DOMAIN d = 1..(n + 1)
  BY <1>8, <1>9, <1>13
<1>15. \A k \in 1..(n + 1) : k = n + 1 \/ k \in 1..n
  OBVIOUS
<1>16. IsChain(d)
  <2>1. \A k \in 1..n : "at" \in DOMAIN c[k] /\ ~c[k].at.con
    BY <1>7, <1>14 DEF IsChain
  <2>2. \A j, k \in 1..n : j # k => c[j].at.e # c[k].at.e
    BY <1>7, <1>14 DEF IsChain
  <2>3. \A k \in 1..n : c[k].at.e # t.e
    BY <1>2, <1>14
  <2>4. entry.at = t /\ "at" \in DOMAIN entry
    BY <1>5
  <2>5. \A k \in 1..(n + 1) : "at" \in DOMAIN d[k] /\ ~d[k].at.con
    BY <1>13, <1>15, <2>1, <2>4
  <2>6. \A j, k \in 1..(n + 1) : j # k => d[j].at.e # d[k].at.e
    BY <1>13, <1>15, <2>2, <2>3, <2>4
  <2>7. setting.max_store_chain_depth \in Nat /\ n + 1 <= setting.max_store_chain_depth
    <3>1. setting.max_store_chain_depth \in Nat
      BY <1>7 DEF IsChain
    <3>2. ~(n >= setting.max_store_chain_depth)
      BY <1>2, <1>9
    <3> QED BY <3>1, <3>2
  <2> QED BY <1>13, <1>14, <2>5, <2>6, <2>7 DEF IsChain
<1> QED BY <1>1, <1>4, <1>6, <1>10, <1>16, ChainFollows

LEMMA PhysicalByteFollows ==
  ASSUME NEW s, NEW x
  PROVE  Follows(s, PhysicalByte(s, x).s)
<1>1. PICK y : y = Via(s, x, <<"physical">>)
  OBVIOUS
<1>2. Follows(s, y)
  BY <1>1, ViaSame, SameFollows
<1>3. CASE Strict /\ ~Mapped(x)
  <2>1. PhysicalByte(s, x).s = Faulted(y, "unmapped_fault", x)
    BY <1>1, <1>3 DEF PhysicalByte
  <2> QED BY <1>2, <2>1, FaultedFollows, FollowsTwice
<1>4. CASE ~(Strict /\ ~Mapped(x))
  <2>1. PICK z : z = Unless(y, Mapped(x))
    OBVIOUS
  <2>2. PICK c : PhysicalByte(s, x).s = SetCell(z, x, c)
    BY <1>1, <1>4, <2>1 DEF PhysicalByte, SetCell
  <2>3. Follows(y, z)
    BY <2>1, UnlessFollows
  <2>4. Follows(z, PhysicalByte(s, x).s)
    BY <2>2, CellFollows
  <2> QED BY <1>2, <2>3, <2>4, FollowsTwice
<1> QED BY <1>3, <1>4

LEMMA SymbolicByteFollows ==
  ASSUME NEW s, NEW t
  PROVE  Follows(s, SymbolicByte(s, t).s)
<1>1. PICK y : y = Via(s, t.v, t.e)
  OBVIOUS
<1>2. Follows(s, y)
  BY <1>1, ViaSame, SameFollows
<1>3. CASE Strict /\ setting.mapped # {}
  <2>1. SymbolicByte(s, t).s = Faulted(y, "unmapped_fault", 0)
    BY <1>1, <1>3 DEF SymbolicByte
  <2> QED BY <1>2, <2>1, FaultedFollows, FollowsTwice
<1>4. CASE Strict /\ setting.mapped = {}
  <2>1. SymbolicByte(s, t).s = y
    BY <1>1, <1>4 DEF SymbolicByte
  <2> QED BY <1>2, <2>1
<1>5. CASE ~Strict
  <2>1. SymbolicByte(s, t).s = Unless(y, FALSE)
    BY <1>1, <1>5 DEF SymbolicByte
  <2> QED BY <1>2, <2>1, UnlessFollows, FollowsTwice
<1> QED BY <1>3, <1>4, <1>5

LEMMA StackByteFollows ==
  ASSUME NEW s, NEW x
  PROVE  Follows(s, StackByte(s, x).s)
<1>1. PICK y : y = Via(s, x, <<"stack">>)
  OBVIOUS
<1>2. Follows(s, y)
  BY <1>1, ViaSame, SameFollows
<1>3. PICK c : StackByte(s, x).s = SetStack(y, x, c)
  BY <1>1 DEF StackByte, SetStack
<1> QED BY <1>2, <1>3, CellFollows, FollowsTwice

LEMMA ReadByteFollows ==
  ASSUME NEW s, NEW a, IsAddress(a), NEW k
  PROVE  Follows(s, ReadByte(s, a, k).s)
<1>1. CASE a.kind = "Physical"
  BY <1>1, PhysicalByteFollows DEF ReadByte
<1>2. CASE a.kind = "Stack"
  BY <1>2, StackByteFollows DEF ReadByte
<1>3. CASE a.kind = "Symbolic"
  BY <1>3, SymbolicByteFollows DEF ReadByte
<1> QED BY <1>1, <1>2, <1>3 DEF IsAddress

LEMMA StorePhysicalFollows ==
  ASSUME NEW s, NEW x, NEW byte
  PROVE  Follows(s, StorePhysical(s, x, byte))
<1>1. PICK y : y = Via(s, x, <<"physical">>)
  OBVIOUS
<1>2. Follows(s, y)
  BY <1>1, ViaSame, SameFollows
<1>3. PICK m : m = Unless(y, Mapped(x))
  OBVIOUS
<1>4. PICK c : c = IF x \in setting.read_only THEN Faulted(m, "permission_fault", x) ELSE m
  OBVIOUS
<1>5. Follows(y, m)
  BY <1>3, UnlessFollows
<1>6. Follows(m, c)
  BY <1>4, FaultedFollows, Itself
<1>7. Follows(s, c)
  BY <1>2, <1>5, <1>6, FollowsTwice
<1>8. CASE Strict /\ ~Mapped(x)
  <2>1. StorePhysical(s, x, byte) = Faulted(y, "unmapped_fault", x)
    BY <1>1, <1>8 DEF StorePhysical
  <2> QED BY <1>2, <2>1, FaultedFollows, FollowsTwice
<1>9. CASE Strict /\ Mapped(x) /\ x \in setting.read_only
  <2>1. StorePhysical(s, x, byte) = c
    BY <1>1, <1>3, <1>4, <1>9 DEF StorePhysical
  <2> QED BY <1>7, <2>1
<1>10. CASE ~(Strict /\ ~Mapped(x)) /\ ~(Strict /\ Mapped(x) /\ x \in setting.read_only)
  <2>1. StorePhysical(s, x, byte) = SetCell(c, x, Some(byte))
    BY <1>1, <1>3, <1>4, <1>10 DEF StorePhysical, SetCell
  <2>2. Follows(c, SetCell(c, x, Some(byte)))
    BY CellFollows
  <2> QED BY <1>7, <2>1, <2>2, FollowsTwice
<1> QED BY <1>8, <1>9, <1>10

\* Where a store at a term is found.
At(s, t) == {k \in DOMAIN s.symbolic_memory : s.symbolic_memory[k].at.e = t.e}

LEMMA StoreSymbolicFollows ==
  ASSUME NEW s, NEW t, ~t.con, NEW byte
  PROVE  Follows(s, StoreSymbolic(s, t, byte))
<1>1. PICK y : y = Via(s, t.v, t.e)
  OBVIOUS
<1>2. Follows(s, y)
  BY <1>1, ViaSame, SameFollows
<1>3. CASE At(y, t) # {}
  <2> SUFFICES ASSUME Whole(s) PROVE Whole(StoreSymbolic(s, t, byte)) /\ Lasts(s, StoreSymbolic(s, t, byte))
    BY DEF Follows
  <2>1. Whole(y)
    BY <1>2 DEF Follows
  <2>2. PICK n \in Nat : DOMAIN y.symbolic_memory = 1..n
    <3>1. PICK S : y.symbolic_memory \in Seq(S)
      BY <2>1 DEF Whole, IsChain
    <3> QED BY <3>1
  <2>3. At(y, t) \in SUBSET (1..n)
    BY <2>2 DEF At
  <2>4. PICK m : m = Max(At(y, t))
    OBVIOUS
  <2>5. m \in At(y, t)
    BY <1>3, <2>3, <2>4, MaxFacts
  <2>6. m \in DOMAIN y.symbolic_memory
    BY <2>5 DEF At
  <2>7. StoreSymbolic(s, t, byte) = Replaced(y, m, byte)
    BY <1>1, <1>3, <2>4 DEF StoreSymbolic, At, Replaced
  <2>8. Follows(y, Replaced(y, m, byte))
    BY <2>6, ReplacedFollows
  <2>9. Follows(s, StoreSymbolic(s, t, byte))
    BY <1>2, <2>7, <2>8, FollowsTwice
  <2> QED BY <2>9 DEF Follows
<1>4. CASE At(y, t) = {} /\ Len(y.symbolic_memory) >= setting.max_store_chain_depth
  <2>1. StoreSymbolic(s, t, byte) = Exhausted(y)
    BY <1>1, <1>4 DEF StoreSymbolic, At, Exhausted
  <2> QED BY <1>2, <2>1, ExhaustedFollows, FollowsTwice
<1>5. CASE At(y, t) = {} /\ ~(Len(y.symbolic_memory) >= setting.max_store_chain_depth)
  <2>1. StoreSymbolic(s, t, byte) = Chained(y, t, byte)
    BY <1>1, <1>5 DEF StoreSymbolic, At, Chained
  <2>2. \A k \in DOMAIN y.symbolic_memory : y.symbolic_memory[k].at.e # t.e
    BY <1>5 DEF At
  <2>3. Follows(y, Chained(y, t, byte))
    BY <1>5, <2>2, ChainedFollows
  <2> QED BY <1>2, <2>1, <2>3, FollowsTwice
<1> QED BY <1>3, <1>4, <1>5

LEMMA WriteByteFollows ==
  ASSUME NEW s, NEW a, IsAddress(a), NEW k, NEW byte
  PROVE  Follows(s, WriteByte(s, a, k, byte))
<1>1. CASE a.kind = "Physical"
  BY <1>1, StorePhysicalFollows DEF WriteByte
<1>2. CASE a.kind = "Stack"
  <2>1. PICK y : y = Via(s, Mod(a.at + k, WordBits), <<"stack">>)
    OBVIOUS
  <2>2. Follows(s, y)
    BY <2>1, ViaSame, SameFollows
  <2>3. WriteByte(s, a, k, byte) = SetStack(y, Mod(a.at + k, WordBits), Some(byte))
    BY <1>2, <2>1 DEF WriteByte, SetStack
  <2> QED BY <2>2, <2>3, CellFollows, FollowsTwice
<1>3. CASE a.kind = "Symbolic"
  <2>1. ~Plus(a.at, k).con
    BY <1>3, PlusOpen DEF IsAddress
  <2>2. WriteByte(s, a, k, byte) = StoreSymbolic(s, Plus(a.at, k), byte)
    BY <1>3 DEF WriteByte
  <2> QED BY <2>1, <2>2, StoreSymbolicFollows
<1> QED BY <1>1, <1>2, <1>3 DEF IsAddress

-----------------------------------------------------------------------------
(* Folds: one step of each of them, and their iterations.                   *)

NextByte(a, acc, k) ==
    [t |-> ConcatT(ReadByte(acc.s, a, k).t, acc.t), s |-> ReadByte(acc.s, a, k).s]
PartOf(t, w, k) == IF w = 1 THEN t ELSE ExtractT(t, k, 1)
Advance(how, acc, k) ==
    CASE how.kind = "reading" -> NextByte(how.a, acc, k)
      [] how.kind = "writing" -> WriteByte(acc, how.a, k - 1, PartOf(how.t, how.w, k - 1))
      [] how.kind = "declaring" -> InitRegister(acc, View64(Declared[k])).s
      [] how.kind = "running" -> Machine!Exec(how.block[k], acc)

Folds(h, n, base, how) ==
    h = [s \in SUBSET (1..n) |-> IF s = {} THEN base ELSE Advance(how, h[s \ {Max(s)}], Max(s))]

LEMMA FoldsExist ==
  ASSUME NEW how, NEW base, NEW n \in Nat
  PROVE  \E h : Folds(h, n, base, how)
<1> DEFINE T == {k \in Nat : \E h : Folds(h, k, base, how)}
<1>1. 0 \in T
  <2> DEFINE h == [s \in SUBSET (1..0) |-> base]
  <2>1. 1..0 = {}
    OBVIOUS
  <2>2. \A s \in SUBSET (1..0) : s = {}
    BY <2>1
  <2>3. Folds(h, 0, base, how)
    BY <2>2 DEF Folds
  <2> QED BY <2>3
<1>2. ASSUME NEW k \in Nat, k \in T PROVE k + 1 \in T
  <2>1. PICK f : Folds(f, k, base, how)
    BY <1>2
  <2> DEFINE g == [s \in SUBSET (1..(k + 1)) |->
                      IF s \in SUBSET (1..k) THEN f[s] ELSE Advance(how, f[s \ {k + 1}], k + 1)]
             G == [s \in SUBSET (1..(k + 1)) |-> IF s = {} THEN base ELSE Advance(how, g[s \ {Max(s)}], Max(s))]
  <2>2. \A s \in SUBSET (1..k) : f[s] = IF s = {} THEN base ELSE Advance(how, f[s \ {Max(s)}], Max(s))
    BY <2>1 DEF Folds
  <2>3. 1..k \subseteq 1..(k + 1)
    OBVIOUS
  <2>4. ASSUME NEW s \in SUBSET (1..k) PROVE s \in SUBSET (1..(k + 1)) /\ g[s] = f[s]
    BY <2>3
  <2> HIDE DEF g
  <2>5. ASSUME NEW s \in SUBSET (1..(k + 1))
        PROVE  g[s] = IF s = {} THEN base ELSE Advance(how, g[s \ {Max(s)}], Max(s))
    <3>1. CASE s = {}
      BY <2>2, <2>4, <3>1
    <3>2. CASE s # {} /\ s \in SUBSET (1..k)
      <4>1. s \ {Max(s)} \in SUBSET (1..k)
        BY <3>2
      <4>2. g[s \ {Max(s)}] = f[s \ {Max(s)}]
        BY <2>4, <4>1
      <4>3. g[s] = f[s]
        BY <2>4, <3>2
      <4> QED BY <2>2, <3>2, <4>2, <4>3
    <3>3. CASE s \notin SUBSET (1..k)
      <4>1. k + 1 \in s /\ s # {}
        <5>1. \A i \in 1..(k + 1) : i # k + 1 => i \in 1..k
          OBVIOUS
        <5> QED BY <3>3, <5>1
      <4>2. Max(s) \in s /\ \A i \in s : i <= Max(s)
        <5>1. PICK m \in Nat : m = k + 1
          OBVIOUS
        <5>2. s \in SUBSET (1..m)
          BY <5>1
        <5> QED BY <4>1, <5>2, MaxFacts
      <4>3. Max(s) \in 1..(k + 1) /\ k + 1 <= Max(s)
        BY <4>1, <4>2
      <4>4. Max(s) = k + 1
        BY <4>3
      <4>5. s \ {k + 1} \in SUBSET (1..k)
        <5>1. \A i \in 1..(k + 1) : i # k + 1 => i \in 1..k
          OBVIOUS
        <5> QED BY <5>1
      <4>6. g[s \ {k + 1}] = f[s \ {k + 1}]
        BY <2>4, <4>5
      <4>7. g[s] = Advance(how, f[s \ {k + 1}], k + 1)
        BY <3>3 DEF g
      <4> QED BY <4>1, <4>4, <4>6, <4>7
    <3> QED BY <3>1, <3>2, <3>3
  <2>6. g = G
    <3>1. g = [s \in SUBSET (1..(k + 1)) |-> g[s]]
      BY DEF g
    <3> QED BY <2>5, <3>1
  <2>7. Folds(g, k + 1, base, how)
    BY <2>6 DEF Folds
  <2> QED BY <2>7
<1> HIDE DEF T
<1>3. Nat \subseteq T
  BY <1>1, <1>2, Everything
<1> QED BY <1>3 DEF T

Stepped(h, n, base, how) == h[1..0] = base /\ \A k \in 1..n : h[1..k] = Advance(how, h[1..(k - 1)], k)
LEMMA FoldsStep ==
  ASSUME NEW how, NEW base, NEW n \in Nat, NEW h, Folds(h, n, base, how)
  PROVE  Stepped(h, n, base, how)
<1>1. h[1..0] = base
  <2>1. 1..0 = {} /\ {} \in SUBSET (1..n)
    OBVIOUS
  <2> QED BY <2>1 DEF Folds
<1>2. ASSUME NEW k \in 1..n PROVE h[1..k] = Advance(how, h[1..(k - 1)], k)
  <2>1. 1..k \in SUBSET (1..n) /\ 1..k # {} /\ Max(1..k) = k /\ (1..k) \ {Max(1..k)} = 1..(k - 1)
    BY UpTo
  <2>2. h[1..k] = Advance(how, h[(1..k) \ {Max(1..k)}], Max(1..k))
    BY <2>1 DEF Folds
  <2> QED BY <2>1, <2>2
<1> QED BY <1>1, <1>2 DEF Stepped

LEMMA ReadBytesSteps ==
  ASSUME NEW a, NEW w \in 1..4
  PROVE  \E h : /\ ReadBytes(a, w) = h[1..(w - 1)] /\ h[1..0] = ReadByte(a.s, a, 0)
                /\ \A k \in 1..(w - 1) : h[1..k] = NextByte(a, h[1..(k - 1)], k)
<1> DEFINE seq == [k \in 1..(w - 1) |-> k]
           base == ReadByte(a.s, a, 0)
           Iter(f) == f = [s \in SUBSET (DOMAIN seq) |->
                              IF s = {} THEN base
                              ELSE [t |-> ConcatT(ReadByte(f[s \ {Max(s)}].s, a, seq[Max(s)]).t, f[s \ {Max(s)}].t),
                                    s |-> ReadByte(f[s \ {Max(s)}].s, a, seq[Max(s)]).s]]
           how == [kind |-> "reading", a |-> a]
<1>1. PICK n \in Nat : n = w - 1
  OBVIOUS
<1>2. PICK f : Folds(f, n, base, how)
  BY FoldsExist
<1>3. DOMAIN seq = 1..n
  BY <1>1
<1>4. ASSUME NEW g PROVE Iter(g) <=> Folds(g, n, base, how)
  <2>1. ASSUME NEW s \in SUBSET (1..n), s # {}
        PROVE  Advance(how, g[s \ {Max(s)}], Max(s)) =
                 [t |-> ConcatT(ReadByte(g[s \ {Max(s)}].s, a, seq[Max(s)]).t, g[s \ {Max(s)}].t),
                  s |-> ReadByte(g[s \ {Max(s)}].s, a, seq[Max(s)]).s]
    <3>1. Max(s) \in 1..n
      BY <2>1, MaxFacts
    <3>2. seq[Max(s)] = Max(s)
      BY <1>1, <3>1
    <3>3. Advance(how, g[s \ {Max(s)}], Max(s)) = NextByte(a, g[s \ {Max(s)}], Max(s))
      BY DEF Advance
    <3> HIDE DEF seq
    <3> QED BY <3>2, <3>3 DEF NextByte
  <2> HIDE DEF how, seq, base
  <2> QED BY <1>3, <2>1 DEF Folds
<1> DEFINE h == CHOOSE f1 : Iter(f1)
<1>5. Iter(h)
  <2>1. Iter(f)
    BY <1>2, <1>4
  <2> HIDE DEF Iter
  <2> QED BY <2>1
<1>6. ReadBytes(a, w) = h[1..n]
  BY <1>1, <1>3 DEF ReadBytes, FoldLeft, MapThenFoldSet
<1> HIDE DEF h
<1>7. Folds(h, n, base, how)
  BY <1>4, <1>5
<1>8. h[1..0] = base /\ \A k \in 1..n : h[1..k] = Advance(how, h[1..(k - 1)], k)
  <2> HIDE DEF how, base
  <2>1. Stepped(h, n, base, how)
    BY <1>7, FoldsStep
  <2> QED BY <2>1 DEF Stepped
<1>9. ASSUME NEW k \in 1..n PROVE h[1..k] = NextByte(a, h[1..(k - 1)], k)
  BY <1>8 DEF Advance
<1> QED BY <1>1, <1>6, <1>8, <1>9

Writing(h, a, w, t) ==
    /\ WriteBytes(a, w, t) = h[1..w] /\ h[1..0] = a.s
    /\ \A k \in 1..w : h[1..k] = WriteByte(h[1..(k - 1)], a, k - 1, PartOf(t, w, k - 1))
LEMMA WriteBytesSteps ==
  ASSUME NEW a, NEW w \in 1..4, NEW t
  PROVE  \E h : Writing(h, a, w, t)
<1> DEFINE seq == [k \in 1..w |-> k]
           base == a.s
           Iter(f) == f = [s \in SUBSET (DOMAIN seq) |->
                              IF s = {} THEN base
                              ELSE WriteByte(f[s \ {Max(s)}], a, seq[Max(s)] - 1,
                                             IF w = 1 THEN t ELSE ExtractT(t, seq[Max(s)] - 1, 1))]
           how == [kind |-> "writing", a |-> a, w |-> w, t |-> t]
<1>1. PICK n \in Nat : n = w
  OBVIOUS
<1>2. PICK f : Folds(f, n, base, how)
  BY FoldsExist
<1>3. DOMAIN seq = 1..n
  BY <1>1
<1>4. ASSUME NEW g PROVE Iter(g) <=> Folds(g, n, base, how)
  <2>1. ASSUME NEW s \in SUBSET (1..n), s # {}
        PROVE  Advance(how, g[s \ {Max(s)}], Max(s)) =
                 WriteByte(g[s \ {Max(s)}], a, seq[Max(s)] - 1,
                           IF w = 1 THEN t ELSE ExtractT(t, seq[Max(s)] - 1, 1))
    <3>1. Max(s) \in 1..n
      BY <2>1, MaxFacts
    <3>2. seq[Max(s)] = Max(s)
      BY <1>1, <3>1
    <3>3. Advance(how, g[s \ {Max(s)}], Max(s)) = WriteByte(g[s \ {Max(s)}], a, Max(s) - 1, PartOf(t, w, Max(s) - 1))
      BY DEF Advance
    <3> HIDE DEF seq
    <3> QED BY <3>2, <3>3 DEF PartOf
  <2> HIDE DEF how, seq, base
  <2> QED BY <1>3, <2>1 DEF Folds
<1> DEFINE h == CHOOSE f1 : Iter(f1)
<1>5. Iter(h)
  <2>1. Iter(f)
    BY <1>2, <1>4
  <2> HIDE DEF Iter
  <2> QED BY <2>1
<1>6. WriteBytes(a, w, t) = h[1..n]
  BY <1>1, <1>3 DEF WriteBytes, FoldLeft, MapThenFoldSet
<1> HIDE DEF h
<1>7. Folds(h, n, base, how)
  BY <1>4, <1>5
<1>8. h[1..0] = base /\ \A k \in 1..n : h[1..k] = Advance(how, h[1..(k - 1)], k)
  <2> HIDE DEF how, base
  <2>1. Stepped(h, n, base, how)
    BY <1>7, FoldsStep
  <2> QED BY <2>1 DEF Stepped
<1>9. ASSUME NEW k \in 1..n PROVE h[1..k] = WriteByte(h[1..(k - 1)], a, k - 1, PartOf(t, w, k - 1))
  BY <1>8 DEF Advance
<1> QED BY <1>1, <1>6, <1>8, <1>9 DEF Writing

LEMMA ReadBytesFollows ==
  ASSUME NEW a, IsAddress(a), NEW w \in 1..4
  PROVE  Follows(a.s, ReadBytes(a, w).s)
<1>1. PICK h : /\ ReadBytes(a, w) = h[1..(w - 1)] /\ h[1..0] = ReadByte(a.s, a, 0)
               /\ \A k \in 1..(w - 1) : h[1..k] = NextByte(a, h[1..(k - 1)], k)
  BY ReadBytesSteps
<1> DEFINE T == {k \in Nat : k <= w - 1 => Follows(a.s, h[1..k].s)}
<1>2. 0 \in T
  BY <1>1, ReadByteFollows
<1>3. ASSUME NEW k \in Nat, k \in T PROVE k + 1 \in T
  <2> SUFFICES ASSUME k + 1 <= w - 1 PROVE Follows(a.s, h[1..(k + 1)].s)
    OBVIOUS
  <2>1. k + 1 \in 1..(w - 1) /\ (k + 1) - 1 = k /\ k <= w - 1
    OBVIOUS
  <2>2. h[1..(k + 1)] = NextByte(a, h[1..k], k + 1)
    BY <1>1, <2>1
  <2>3. h[1..(k + 1)].s = ReadByte(h[1..k].s, a, k + 1).s
    BY <2>2 DEF NextByte
  <2>4. Follows(a.s, h[1..k].s)
    BY <1>3, <2>1
  <2> QED BY <2>3, <2>4, ReadByteFollows, FollowsTwice
<1> HIDE DEF T
<1>4. Nat \subseteq T
  BY <1>2, <1>3, Everything
<1>5. w - 1 \in T
  BY <1>4
<1> QED BY <1>1, <1>5 DEF T

LEMMA WriteBytesFollows ==
  ASSUME NEW a, IsAddress(a), NEW w \in 1..4, NEW t
  PROVE  Follows(a.s, WriteBytes(a, w, t))
<1>0. PICK h : Writing(h, a, w, t)
  BY WriteBytesSteps
<1>1. /\ WriteBytes(a, w, t) = h[1..w] /\ h[1..0] = a.s
      /\ \A k \in 1..w : h[1..k] = WriteByte(h[1..(k - 1)], a, k - 1, PartOf(t, w, k - 1))
  BY <1>0 DEF Writing
<1> DEFINE T == {k \in Nat : k <= w => Follows(a.s, h[1..k])}
<1>2. 0 \in T
  BY <1>1, Itself
<1>3. ASSUME NEW k \in Nat, k \in T PROVE k + 1 \in T
  <2> SUFFICES ASSUME k + 1 <= w PROVE Follows(a.s, h[1..(k + 1)])
    OBVIOUS
  <2>1. k + 1 \in 1..w /\ (k + 1) - 1 = k /\ k <= w
    OBVIOUS
  <2>2. h[1..(k + 1)] = WriteByte(h[1..k], a, k, PartOf(t, w, k))
    BY <1>1, <2>1
  <2>3. Follows(a.s, h[1..k])
    BY <1>3, <2>1
  <2> QED BY <2>2, <2>3, WriteByteFollows, FollowsTwice
<1> HIDE DEF T
<1>4. Nat \subseteq T
  BY <1>2, <1>3, Everything
<1>5. w \in T
  BY <1>4
<1> QED BY <1>1, <1>5 DEF T

-----------------------------------------------------------------------------
(* Operands and instructions.                                               *)

LEMMA EvalOperandFollows ==
  ASSUME NEW s, NEW o, IsOperand(o)
  PROVE  Follows(s, EvalOperand(s, o).s)
<1>1. CASE o.kind = "Reg"
  <2>1. EvalOperand(s, o) = ReadReg(s, o.name)
    BY <1>1 DEF EvalOperand
  <2> QED BY <2>1, ReadRegSame, SameFollows
<1>2. CASE o.kind = "Imm"
  <2>1. EvalOperand(s, o).s = s
    BY <1>2 DEF EvalOperand
  <2> QED BY <2>1, Itself
<1>3. CASE o.kind = "Mem"
  <2>1. PICK a : a = ResolveAddress(s, o)
    OBVIOUS
  <2>2. EvalOperand(s, o) = ReadBytes(a, o.w)
    BY <1>3, <2>1 DEF EvalOperand, ReadMemory
  <2>3. IsAddress(a) /\ Follows(s, a.s)
    BY <2>1, ResolveSame, SameFollows
  <2>4. o.w \in 1..4
    BY <1>3 DEF IsOperand
  <2> QED BY <2>2, <2>3, <2>4, ReadBytesFollows, FollowsTwice
<1> QED BY <1>1, <1>2, <1>3 DEF IsOperand

LEMMA AssignFollows ==
  ASSUME NEW s, NEW o, IsPlace(o), NEW t
  PROVE  Follows(s, Assign(s, o, t))
<1>1. CASE o.kind = "Reg"
  <2>1. Assign(s, o, t) = WriteReg(s, o.name, t)
    BY <1>1 DEF Assign
  <2> QED BY <2>1, WriteRegSame, SameFollows
<1>2. CASE o.kind = "Mem"
  <2>1. PICK a : a = ResolveAddress(s, o)
    OBVIOUS
  <2>2. Assign(s, o, t) = WriteBytes(a, o.w, t)
    BY <1>2, <2>1 DEF Assign, WriteMemory
  <2>3. IsAddress(a) /\ Follows(s, a.s)
    BY <2>1, ResolveSame, SameFollows
  <2>4. o.w \in 1..4
    BY <1>2 DEF IsPlace, IsOperand
  <2> QED BY <2>2, <2>3, <2>4, WriteBytesFollows, FollowsTwice
<1> QED BY <1>1, <1>2 DEF IsPlace, IsOperand

LEMMA OperandsFollow ==
  ASSUME NEW s, NEW i, IsOperand(i.dst), IsOperand(i.src)
  PROVE  Follows(s, Operands(s, i).s)
<1>1. PICK d : d = EvalOperand(s, i.dst)
  OBVIOUS
<1>2. Operands(s, i).s = EvalOperand(d.s, i.src).s
  BY <1>1 DEF Operands, Both
<1> QED BY <1>1, <1>2, EvalOperandFollows, FollowsTwice

LEMMA ArithmeticFollows ==
  ASSUME NEW i, IsPlace(i.dst), i.op \in Arithmetic, NEW o
  PROVE  Follows(o.s, StepArithmetic(i, o))
<1>1. CASE o.d.w # o.r.w
  <2>1. StepArithmetic(i, o) = o.s
    BY <1>1 DEF StepArithmetic
  <2> QED BY <2>1, Itself
<1>2. CASE o.d.w = o.r.w
  <2>1. PICK res : res = BinaryT(i.op, o.d, o.r)
    OBVIOUS
  <2>2. PICK wrote : wrote = Assign(o.s, i.dst, res)
    OBVIOUS
  <2>3. StepArithmetic(i, o) = AddFlags(wrote, o.d, o.r, res) \/ StepArithmetic(i, o) = SubFlags(wrote, o.d, o.r)
    BY <1>2, <2>1, <2>2 DEF StepArithmetic, Arithmetic
  <2>4. Follows(wrote, StepArithmetic(i, o))
    BY <2>3, SetFlagsSame, SameFollows
  <2> QED BY <2>2, <2>4, AssignFollows, FollowsTwice
<1> QED BY <1>1, <1>2

LEMMA LogicFollows ==
  ASSUME NEW i, IsPlace(i.dst), NEW o
  PROVE  Follows(o.s, StepLogic(i, o))
<1>1. CASE o.d.w # o.r.w
  <2>1. StepLogic(i, o) = o.s
    BY <1>1 DEF StepLogic
  <2> QED BY <2>1, Itself
<1>2. CASE o.d.w = o.r.w
  <2>1. PICK res : res = BinaryT(i.op, o.d, o.r)
    OBVIOUS
  <2>2. PICK y : y = LogicFlags(o.s, res)
    OBVIOUS
  <2>3. StepLogic(i, o) = Assign(y, i.dst, res)
    BY <1>2, <2>1, <2>2 DEF StepLogic
  <2>4. Follows(o.s, y)
    BY <2>2, SetFlagsSame, SameFollows
  <2> QED BY <2>3, <2>4, AssignFollows, FollowsTwice
<1> QED BY <1>1, <1>2

LEMMA CompareFollows ==
  ASSUME NEW s, NEW i, NEW o, o.s = s
  PROVE  Follows(s, StepCompare(i, o))
<1>1. \/ StepCompare(i, o) = SubFlags(s, o.d, o.r)
      \/ StepCompare(i, o) = LogicFlags(s, BinaryT("And", o.d, o.r))
      \/ StepCompare(i, o) = s
  BY DEF StepCompare
<1> QED BY <1>1, SetFlagsSame, Itself, SameFollows

LEMMA TopIsPlace ==
  "rsp" \in Roots => IsPlace(TopOfStack)
BY DEF TopOfStack, Mem, IsPlace, IsOperand

LEMMA PushFollows ==
  ASSUME NEW s, NEW i, IsOperand(i.src), "rsp" \in Roots
  PROVE  Follows(s, StepPush(s, i))
<1>1. PICK src : src = EvalOperand(s, i.src)
  OBVIOUS
<1>2. PICK rsp : rsp = ReadReg(src.s, View64("rsp"))
  OBVIOUS
<1>3. PICK y : y = WriteReg(rsp.s, View64("rsp"), BinaryT("Sub", rsp.t, AddressT(4)))
  OBVIOUS
<1>4. StepPush(s, i) = WriteMemory(y, TopOfStack, src.t)
  BY <1>1, <1>2, <1>3 DEF StepPush, Pushed
<1>5. WriteMemory(y, TopOfStack, src.t) = Assign(y, TopOfStack, src.t)
  BY DEF Assign, TopOfStack, Mem
<1>6. Follows(s, src.s)
  BY <1>1, EvalOperandFollows
<1>7. Follows(src.s, rsp.s)
  BY <1>2, ReadRegSame, SameFollows
<1>8. Follows(rsp.s, y)
  BY <1>3, WriteRegSame, SameFollows
<1>9. Follows(y, StepPush(s, i))
  BY <1>4, <1>5, TopIsPlace, AssignFollows
<1>10. Follows(s, rsp.s)
  BY <1>6, <1>7, FollowsTwice
<1>11. Follows(s, y)
  BY <1>8, <1>10, FollowsTwice
<1> QED BY <1>9, <1>11, FollowsTwice

LEMMA PopFollows ==
  ASSUME NEW s, NEW i, IsPlace(i.dst), "rsp" \in Roots
  PROVE  Follows(s, StepPop(s, i))
<1>1. PICK top : top = ReadMemory(s, TopOfStack)
  OBVIOUS
<1>2. PICK rsp : rsp = ReadReg(top.s, View64("rsp"))
  OBVIOUS
<1>3. PICK y : y = WriteReg(rsp.s, View64("rsp"), BinaryT("Add", rsp.t, AddressT(4)))
  OBVIOUS
<1>4. StepPop(s, i) = Assign(y, i.dst, top.t)
  BY <1>1, <1>2, <1>3 DEF StepPop, Popped
<1>5. top = EvalOperand(s, TopOfStack)
  BY <1>1 DEF EvalOperand, TopOfStack, Mem
<1>6. Follows(s, top.s)
  BY <1>5, TopIsPlace, EvalOperandFollows DEF IsPlace
<1>7. Follows(top.s, rsp.s)
  BY <1>2, ReadRegSame, SameFollows
<1>8. Follows(rsp.s, y)
  BY <1>3, WriteRegSame, SameFollows
<1>9. Follows(y, StepPop(s, i))
  BY <1>4, AssignFollows
<1>10. Follows(s, rsp.s)
  BY <1>6, <1>7, FollowsTwice
<1>11. Follows(s, y)
  BY <1>8, <1>10, FollowsTwice
<1> QED BY <1>9, <1>11, FollowsTwice

LEMMA StepFollows ==
  ASSUME NEW s, NEW i, IsInstruction(i), "rsp" \in Roots
  PROVE  Follows(s, StepOf(s, i))
<1> USE DEF IsInstruction
<1>1. CASE i.op = "Mov"
  <2>1. PICK src : src = EvalOperand(s, i.src)
    OBVIOUS
  <2>2. StepOf(s, i) = Assign(src.s, i.dst, src.t)
    BY <1>1, <2>1 DEF StepOf, StepMov, Arithmetic, Logic, Compares
  <2>3. IsPlace(i.dst) /\ IsOperand(i.src)
    BY <1>1 DEF Arithmetic, Logic, Compares
  <2> QED BY <2>1, <2>2, <2>3, EvalOperandFollows, AssignFollows, FollowsTwice
<1>2. CASE i.op \in Arithmetic
  <2>1. PICK o : o = Operands(s, i)
    OBVIOUS
  <2>2. StepOf(s, i) = StepArithmetic(i, o)
    BY <1>2, <2>1 DEF StepOf, Arithmetic, Logic, Compares
  <2>3. IsPlace(i.dst) /\ IsOperand(i.src)
    BY <1>2 DEF Arithmetic, Logic, Compares
  <2>4. Follows(s, o.s)
    BY <2>1, <2>3, OperandsFollow DEF IsPlace
  <2>5. Follows(o.s, StepArithmetic(i, o))
    BY <1>2, <2>3, ArithmeticFollows
  <2> QED BY <2>2, <2>4, <2>5, FollowsTwice
<1>3. CASE i.op \in Logic
  <2>1. PICK o : o = Operands(s, i)
    OBVIOUS
  <2>2. StepOf(s, i) = StepLogic(i, o)
    BY <1>3, <2>1 DEF StepOf, Arithmetic, Logic, Compares
  <2>3. IsPlace(i.dst) /\ IsOperand(i.src)
    BY <1>3 DEF Arithmetic, Logic, Compares
  <2>4. Follows(s, o.s)
    BY <2>1, <2>3, OperandsFollow DEF IsPlace
  <2>5. Follows(o.s, StepLogic(i, o))
    BY <2>3, LogicFollows
  <2> QED BY <2>2, <2>4, <2>5, FollowsTwice
<1>4. CASE i.op \in Compares
  <2>1. PICK o : o = Operands(s, i)
    OBVIOUS
  <2>2. StepOf(s, i) = StepCompare(i, o)
    BY <1>4, <2>1 DEF StepOf, Arithmetic, Logic, Compares
  <2>3. IsOperand(i.dst) /\ IsOperand(i.src)
    BY <1>4 DEF Arithmetic, Logic, Compares
  <2>4. Follows(s, o.s)
    BY <2>1, <2>3, OperandsFollow
  <2>5. Follows(o.s, StepCompare(i, o))
    BY CompareFollows
  <2> QED BY <2>2, <2>4, <2>5, FollowsTwice
<1>5. CASE i.op = "Push"
  <2>1. StepOf(s, i) = StepPush(s, i)
    BY <1>5 DEF StepOf, Arithmetic, Logic, Compares
  <2>2. IsOperand(i.src)
    BY <1>5 DEF Arithmetic, Logic, Compares
  <2> QED BY <2>1, <2>2, PushFollows
<1>6. CASE i.op = "Pop"
  <2>1. StepOf(s, i) = StepPop(s, i)
    BY <1>6 DEF StepOf, Arithmetic, Logic, Compares
  <2>2. IsPlace(i.dst)
    BY <1>6 DEF Arithmetic, Logic, Compares
  <2> QED BY <2>1, <2>2, PopFollows
<1> QED BY <1>1, <1>2, <1>3, <1>4, <1>5, <1>6

-----------------------------------------------------------------------------
(* The lifter and the scopes it saved.                                      *)

LifterInv ==
    /\ setting \in Settings
    /\ Whole(lifter)
    /\ \E S : scopes \in Seq(S)
    /\ \A k \in DOMAIN scopes : Whole(scopes[k].lifter)

Declaring(h) ==
    /\ FoldLeft(LAMBDA s, root : InitRegister(s, View64(root)).s, NewLifter, Declared) = h[1..Len(Declared)]
    /\ h[1..0] = NewLifter
    /\ \A k \in 1..Len(Declared) : h[1..k] = InitRegister(h[1..(k - 1)], View64(Declared[k])).s

LEMMA DeclaringSteps == \E h : Declaring(h)
<1> DEFINE base == NewLifter
           Iter(f) == f = [s \in SUBSET (DOMAIN Declared) |->
                              IF s = {} THEN base
                              ELSE InitRegister(f[s \ {Max(s)}], View64(Declared[Max(s)])).s]
           how == [kind |-> "declaring"]
<1>1. PICK n \in Nat : n = Len(Declared)
  BY ProgramAssumption
<1>2. PICK f : Folds(f, n, base, how)
  BY FoldsExist
<1>3. DOMAIN Declared = 1..n
  BY <1>1, ProgramAssumption
<1>4. ASSUME NEW g PROVE Iter(g) <=> Folds(g, n, base, how)
  <2>1. ASSUME NEW acc, NEW k PROVE Advance(how, acc, k) = InitRegister(acc, View64(Declared[k])).s
    BY DEF Advance
  <2> HIDE DEF how, base
  <2>2. [s \in SUBSET (1..n) |-> IF s = {} THEN base
                                 ELSE InitRegister(g[s \ {Max(s)}], View64(Declared[Max(s)])).s]
            = [s \in SUBSET (1..n) |-> IF s = {} THEN base ELSE Advance(how, g[s \ {Max(s)}], Max(s))]
    BY <2>1
  <2>3. Iter(g) <=> g = [s \in SUBSET (1..n) |-> IF s = {} THEN base
                                 ELSE InitRegister(g[s \ {Max(s)}], View64(Declared[Max(s)])).s]
    BY ONLY <1>3
  <2> QED BY ONLY <2>2, <2>3 DEF Folds
<1> DEFINE h == CHOOSE f1 : Iter(f1)
<1>5. Iter(h)
  <2>1. Iter(f)
    BY <1>2, <1>4
  <2> HIDE DEF Iter
  <2> QED BY <2>1
<1>6. FoldLeft(LAMBDA s, root : InitRegister(s, View64(root)).s, NewLifter, Declared) = h[1..n]
  BY <1>3 DEF FoldLeft, MapThenFoldSet
<1> HIDE DEF h
<1>7. Folds(h, n, base, how)
  BY <1>4, <1>5
<1>8. h[1..0] = base /\ \A k \in 1..n : h[1..k] = Advance(how, h[1..(k - 1)], k)
  <2> HIDE DEF how, base
  <2>1. Stepped(h, n, base, how)
    BY <1>7, FoldsStep
  <2> QED BY <2>1 DEF Stepped
<1>9. \A k \in 1..n : h[1..k] = InitRegister(h[1..(k - 1)], View64(Declared[k])).s
  BY <1>8 DEF Advance
<1>10. Declaring(h)
  BY <1>1, <1>6, <1>8, <1>9 DEF Declaring
<1> QED BY <1>10

LEMMA NewIsWhole ==
  ASSUME setting \in Settings
  PROVE  Whole(NewLifter)
<1>1. PICK z : z = NewLifter
  OBVIOUS
<1>2. Fields \subseteq DOMAIN z /\ z.symbolic_memory = << >>
  BY <1>1 DEF NewLifter, Fields
<1>3. PICK e : e = << >>
  OBVIOUS
<1>4. e \in Seq({}) /\ Len(e) = 0 /\ DOMAIN e = {}
  BY <1>3
<1>5. setting.max_store_chain_depth \in Nat
  BY ProgramAssumption
<1>6. IsChain(e)
  BY <1>4, <1>5 DEF IsChain
<1> QED BY <1>1, <1>2, <1>3, <1>6 DEF Whole

LEMMA InitIsWhole == Init => LifterInv
<1> SUFFICES ASSUME Init PROVE LifterInv
  OBVIOUS
<1>1. setting \in Settings
  BY DEF Init
<1>2. PICK h : Declaring(h)
  BY DeclaringSteps
<1>3. PICK n \in Nat : n = Len(Declared)
  BY ProgramAssumption
<1> DEFINE T == {k \in Nat : k <= n => Whole(h[1..k])}
<1>4. 0 \in T
  BY <1>1, <1>2, NewIsWhole DEF Declaring
<1>5. ASSUME NEW k \in Nat, k \in T PROVE k + 1 \in T
  <2> SUFFICES ASSUME k + 1 <= n PROVE Whole(h[1..(k + 1)])
    OBVIOUS
  <2>1. k + 1 \in 1..n /\ (k + 1) - 1 = k /\ k <= n
    OBVIOUS
  <2>2. h[1..(k + 1)] = InitRegister(h[1..k], View64(Declared[k + 1])).s
    BY <1>2, <1>3, <2>1 DEF Declaring
  <2>3. Follows(h[1..k], h[1..(k + 1)])
    BY <2>2, InitRegisterSame, SameFollows
  <2> QED BY <1>5, <2>1, <2>3 DEF Follows
<1> HIDE DEF T
<1>6. Nat \subseteq T
  BY <1>4, <1>5, Everything
<1>7. Whole(h[1..n])
  BY <1>6 DEF T
<1>8. lifter = h[1..n]
  BY <1>2, <1>3 DEF Init, Declaring
<1>9. scopes = << >>
  BY DEF Init
<1>10. PICK e : e = << >>
  OBVIOUS
<1>11. e \in Seq({}) /\ DOMAIN e = {}
  BY <1>10
<1> QED BY <1>1, <1>7, <1>8, <1>9, <1>10, <1>11 DEF LifterInv

\* The last of the saved scopes, and the scopes without it.
LEMMA LastScope ==
  ASSUME NEW S, NEW q \in Seq(S), q # << >>
  PROVE  /\ Last(q) = q[Len(q)] /\ Len(q) \in DOMAIN q
         /\ Front(q) \in Seq(S) /\ Len(Front(q)) = Len(q) - 1 /\ Len(q) \in Nat
         /\ \A k \in DOMAIN Front(q) : k \in DOMAIN q /\ Front(q)[k] = q[k]
<1>1. PICK n \in Nat : n = Len(q)
  OBVIOUS
<1>2. n > 0 /\ DOMAIN q = 1..n
  BY <1>1
<1>3. PICK f : f = SubSeq(q, 1, n - 1)
  OBVIOUS
<1>4. f \in Seq(S) /\ Len(f) = n - 1 /\ \A k \in 1..(n - 1) : f[k] = q[k]
  BY <1>1, <1>2, <1>3
<1>5. Front(q) = f /\ Last(q) = q[n]
  BY <1>1, <1>3 DEF Front, Last
<1>6. DOMAIN f = 1..(n - 1)
  BY <1>2, <1>4
<1> QED BY <1>1, <1>2, <1>4, <1>5, <1>6

LEMMA StepIsWhole ==
  ASSUME LifterInv, NEW i \in Instructions, Step(i)
  PROVE  LifterInv' /\ Lasts(lifter, lifter')
<1>1. lifter' = StepOf(lifter, i) /\ UNCHANGED <<setting, scopes>>
  BY DEF Step
<1>2. IsInstruction(i) /\ "rsp" \in Roots
  BY ProgramAssumption
<1>3. PICK l : l = lifter
  OBVIOUS
<1>4. PICK z : z = StepOf(l, i)
  OBVIOUS
<1>5. Follows(l, z)
  BY <1>2, <1>4, StepFollows
<1>6. Whole(l)
  BY <1>3 DEF LifterInv
<1>7. Whole(z) /\ Lasts(l, z)
  BY <1>5, <1>6 DEF Follows
<1>8. Whole(lifter)'
  BY <1>1, <1>3, <1>4, <1>7 DEF Whole, IsChain
<1>9. \A k \in DOMAIN scopes' : Whole(scopes[k].lifter)'
  BY <1>1 DEF LifterInv, Whole, IsChain
<1>10. LifterInv'
  BY <1>1, <1>8, <1>9 DEF LifterInv
<1> QED BY <1>1, <1>3, <1>4, <1>7, <1>10

LEMMA PushIsWhole ==
  ASSUME LifterInv, Push
  PROVE  LifterInv' /\ lifter' = lifter
<1>1. /\ scopes' = Append(scopes, [lifter |-> lifter, done |-> Len(done), stale |-> stale])
      /\ lifter' = lifter /\ setting' = setting
  BY DEF Push
<1>2. PICK S : scopes \in Seq(S)
  BY DEF LifterInv
<1>3. PICK x : x = [lifter |-> lifter, done |-> Len(done), stale |-> stale]
  OBVIOUS
<1>4. PICK q : q = scopes
  OBVIOUS
<1>5. PICK E : E = S \cup {x}
  OBVIOUS
<1>6. q \in Seq(E) /\ x \in E
  BY <1>2, <1>4, <1>5
<1>7. PICK z : z = Append(q, x)
  OBVIOUS
<1>8. PICK n \in Nat : n = Len(q)
  BY <1>6
<1>9. z \in Seq(E) /\ Len(z) = n + 1 /\ z[n + 1] = x /\ (\A k \in 1..n : z[k] = q[k]) /\ DOMAIN q = 1..n
  BY <1>6, <1>7, <1>8
<1>10. ASSUME NEW k \in DOMAIN z PROVE Whole(z[k].lifter)
  <2>1. k \in 1..n \/ k = n + 1
    BY <1>9
  <2>2. CASE k = n + 1
    BY <1>3, <1>9, <2>2 DEF LifterInv
  <2>3. CASE k \in 1..n
    BY <1>4, <1>9, <2>3 DEF LifterInv
  <2> QED BY <2>1, <2>2, <2>3
<1>11. scopes' = z
  BY <1>1, <1>3, <1>4, <1>7
<1>12. \A k \in DOMAIN scopes' : Whole(scopes[k].lifter)'
  BY <1>1, <1>10, <1>11 DEF Whole, IsChain
<1>13. Whole(lifter)'
  BY <1>1 DEF LifterInv, Whole, IsChain
<1> QED BY <1>1, <1>9, <1>11, <1>12, <1>13 DEF LifterInv

LEMMA PopIsWhole ==
  ASSUME LifterInv, Pop
  PROVE  LifterInv' /\ ~(Len(scopes') >= Len(scopes))
<1>1. PICK q : q = scopes
  OBVIOUS
<1>2. PICK S : q \in Seq(S)
  BY <1>1 DEF LifterInv
<1>3. /\ q # << >> /\ lifter' = Last(q).lifter /\ scopes' = Front(q) /\ setting' = setting
  BY <1>1 DEF Pop
<1>4. /\ Last(q) = q[Len(q)] /\ Len(q) \in DOMAIN q
      /\ Front(q) \in Seq(S) /\ Len(Front(q)) = Len(q) - 1 /\ Len(q) \in Nat
      /\ \A k \in DOMAIN Front(q) : k \in DOMAIN q /\ Front(q)[k] = q[k]
  BY <1>2, <1>3, LastScope
<1>5. \A k \in DOMAIN q : Whole(q[k].lifter)
  BY <1>1 DEF LifterInv
<1>6. Whole(Last(q).lifter)
  BY <1>4, <1>5
<1>7. Whole(lifter)'
  BY <1>3, <1>6 DEF Whole, IsChain
<1>8. PICK f : f = Front(q)
  OBVIOUS
<1>9. \A k \in DOMAIN f : Whole(f[k].lifter)
  BY <1>4, <1>5, <1>8
<1>10. \A k \in DOMAIN scopes' : Whole(scopes[k].lifter)'
  BY <1>3, <1>8, <1>9 DEF Whole, IsChain
<1>11. LifterInv'
  BY <1>3, <1>4, <1>7, <1>10 DEF LifterInv
<1>12. ~(Len(scopes') >= Len(scopes))
  BY <1>1, <1>3, <1>4
<1> QED BY <1>11, <1>12

\* What a step keeps, and what it may not lose.
LEMMA StepKeepsWhole ==
  ASSUME LifterInv, [Next]_vars
  PROVE  LifterInv' /\ (Len(scopes') >= Len(scopes) => Lasts(lifter, lifter'))
<1>1. ASSUME NEW i \in Instructions, Step(i)
      PROVE  LifterInv' /\ Lasts(lifter, lifter')
  BY <1>1, StepIsWhole
<1>2. CASE Push
  BY <1>2, PushIsWhole DEF Lasts
<1>3. CASE Pop
  BY <1>3, PopIsWhole
<1>4. CASE ResolveBranch \/ UNCHANGED vars
  <2>1. lifter' = lifter /\ scopes' = scopes /\ setting' = setting
    BY <1>4 DEF ResolveBranch, vars
  <2>2. LifterInv'
    BY <2>1 DEF LifterInv, Whole, IsChain
  <2> QED BY <2>1, <2>2 DEF Lasts
<1> QED BY <1>1, <1>2, <1>3, <1>4 DEF Next

THEOREM LifterIsWhole == Spec => []LifterInv
<1>1. LifterInv /\ [Next]_vars => LifterInv'
  BY StepKeepsWhole
<1> QED BY <1>1, InitIsWhole, PTL DEF Spec

\* Whatever the program, the memory setting and the order of stores and scopes,
\* the chain of symbolic stores stays within its limit, holds no constant
\* address and no address twice (store_symbolic, push and pop of lifter.rs).
THEOREM ChainStaysBounded == Spec => []ChainBounded
<1>1. LifterInv => ChainBounded
  BY DEF LifterInv, Whole, IsChain, ChainBounded
<1> QED BY <1>1, LifterIsWhole, PTL

\* Whatever the program does, a fault, an over-approximation and the address
\* reported outlast every step but the pop of the scope they happened in.
THEOREM FaultsStay == Spec => FaultsLast
<1>1. ASSUME LifterInv, [Next]_vars, Len(scopes') >= Len(scopes)
      PROVE  /\ Fault(lifter) # "none" => Fault(lifter') # "none"
             /\ lifter.over_approximation => lifter'.over_approximation
             /\ lifter.fault_address # None => lifter'.fault_address = lifter.fault_address
  <2>1. Lasts(lifter, lifter')
    BY <1>1, StepKeepsWhole
  <2>2. PICK l, z : l = lifter /\ z = lifter'
    OBVIOUS
  <2>3. Fault(l) # "none" => l.unmapped_fault \/ l.permission_fault \/ l.budget_exhaustion
    BY DEF Fault
  <2>4. z.unmapped_fault \/ z.permission_fault \/ z.budget_exhaustion => Fault(z) # "none"
    BY DEF Fault
  <2>5. Fault(l) # "none" => Fault(z) # "none"
    BY <2>1, <2>2, <2>3, <2>4 DEF Lasts
  <2> QED BY <2>1, <2>2, <2>5 DEF Lasts
<1> DEFINE A == Len(scopes') >= Len(scopes) =>
                  /\ Fault(lifter) # "none" => Fault(lifter') # "none"
                  /\ lifter.over_approximation => lifter'.over_approximation
                  /\ lifter.fault_address # None => lifter'.fault_address = lifter.fault_address
<1>2. LifterInv /\ [Next]_vars => [A]_vars
  BY <1>1
<1>3. FaultsLast <=> [][A]_vars
  BY DEF FaultsLast
<1> HIDE DEF A
<1>4. Spec => [][A]_vars
  BY <1>2, LifterIsWhole, PTL DEF Spec
<1> QED BY <1>3, <1>4

-----------------------------------------------------------------------------
(* Instructions on whole registers, run by the flat machine.                *)

Wholes == {View64(r) : r \in Roots}
WholeInst(i) ==
    /\ i.op \notin {"Push", "Pop"}
    /\ \A o \in {i.dst, i.src} : o.kind = "Imm" \/ (o.kind = "Reg" /\ o.name.view = "64")
IsState(m) == "file" \in DOMAIN m /\ DOMAIN m.file = Roots
AgreeOn(m, z, needed) == \A n \in needed : m.file[n.root] = z.file[n.root]
\* What an instruction that defines a register leaves in it.
Computed(i, m) ==
    IF i.op = "Mov" THEN Machine!Value(m, i.src).v
    ELSE Machine!Result(i.op, Machine!Value(m, i.dst).v, Machine!Value(m, i.src).v, i.dst.w).v
\* Only the register defined has changed.
Defines(i, m, z) ==
    /\ IsState(z) /\ z.file[i.dst.name.root] = Computed(i, m)
    /\ \A r \in Roots : r # i.dst.name.root => z.file[r] = m.file[r]

LEMMA WholeName ==
  ASSUME NEW n \in Names, n.view = "64"
  PROVE  n \in Wholes /\ n.root \in Roots /\ n = View64(n.root)
BY DEF Names, Wholes, View64, R

LEMMA WholeRoots ==
  ASSUME NEW n \in Wholes
  PROVE  n.root \in Roots /\ n = View64(n.root)
BY DEF Wholes, View64, R

LEMMA ValueAgrees ==
  ASSUME NEW m, NEW z, NEW o, o.kind = "Imm" \/ (o.kind = "Reg" /\ m.file[o.name.root] = z.file[o.name.root])
  PROVE  Machine!Value(m, o).v = Machine!Value(z, o).v
BY DEF Machine!Value

LEMMA WholeKinds ==
  ASSUME NEW i, IsInstruction(i), WholeInst(i)
  PROVE  /\ i.op \in {"Mov"} \cup Arithmetic \cup Logic \cup Compares
         /\ i.op \notin Compares => i.dst.kind = "Reg" /\ i.dst.name \in Wholes
         /\ \A o \in {i.dst, i.src} : o.kind = "Imm" \/ (o.kind = "Reg" /\ o.name \in Wholes)
<1>1. i.op \in {"Mov"} \cup Arithmetic \cup Logic \cup Compares
  BY DEF IsInstruction, WholeInst
<1>2. IsOperand(i.dst) /\ IsOperand(i.src) /\ (i.op \notin Compares => IsPlace(i.dst))
  BY DEF IsInstruction, WholeInst, IsPlace
<1>3. ASSUME NEW o \in {i.dst, i.src} PROVE o.kind = "Imm" \/ (o.kind = "Reg" /\ o.name \in Wholes)
  <2>1. CASE o.kind = "Reg"
    <3>1. o.name \in Names
      BY <1>2, <2>1 DEF IsOperand
    <3>2. o.name.view = "64"
      BY <2>1 DEF WholeInst
    <3> QED BY <2>1, <3>1, <3>2, WholeName
  <2>2. CASE o.kind # "Reg"
    BY <2>2 DEF WholeInst
  <2> QED BY <2>1, <2>2
<1>4. i.op \notin Compares => i.dst.kind = "Reg" /\ i.dst.name \in Wholes
  BY <1>2, <1>3 DEF IsPlace
<1> QED BY <1>1, <1>3, <1>4

LEMMA ExecCompares ==
  ASSUME NEW m, IsState(m), NEW i, i.op \in Compares
  PROVE  IsState(Machine!Exec(i, m)) /\ Machine!Exec(i, m).file = m.file
<1>1. PICK c : Machine!Exec(i, m) = [m EXCEPT !.cond = c]
  BY DEF Machine!Exec, Machine!WithConditions, Machine!Compares, Machine!Arithmetic, Machine!Logic, Compares
<1>2. [m EXCEPT !.cond = c].file = m.file /\ DOMAIN [m EXCEPT !.cond = c] = DOMAIN m
  BY DEF IsState
<1> QED BY <1>1, <1>2 DEF IsState

SetFile(m, r, v) == [m EXCEPT !.file[r] = v]
SetCond(m, c) == [m EXCEPT !.cond = c]

LEMMA ExecDefines ==
  ASSUME NEW m, IsState(m), NEW i, IsInstruction(i), WholeInst(i), i.op \notin Compares
  PROVE  Defines(i, m, Machine!Exec(i, m))
<1>1. i.dst.kind = "Reg" /\ i.dst.name \in Wholes /\ i.op \in {"Mov"} \cup Arithmetic \cup Logic
  BY WholeKinds
<1>2. PICK r \in Roots : r = i.dst.name.root /\ i.dst.name.view = "64"
  BY <1>1 DEF Wholes, View64, R
<1>3. ASSUME NEW v PROVE Machine!Assigned(m, i.dst, v) = SetFile(m, r, v)
  BY <1>1, <1>2 DEF Machine!Assigned, Machine!Written, SetFile
<1>4. PICK v : v = Computed(i, m)
  OBVIOUS
<1>5. PICK y : y = SetFile(m, r, v)
  OBVIOUS
<1>6. IsState(y) /\ y.file[r] = v /\ \A q \in Roots : q # r => y.file[q] = m.file[q]
  BY <1>5 DEF SetFile, IsState
<1>7. CASE i.op = "Mov"
  <2>1. Machine!Exec(i, m) = y
    BY <1>3, <1>4, <1>5, <1>7
       DEF Machine!Exec, Machine!Arithmetic, Machine!Logic, Machine!Compares, Computed
  <2> QED BY <1>2, <1>4, <1>6, <2>1 DEF Defines
<1>8. CASE i.op # "Mov"
  <2>1. PICK c : Machine!Exec(i, m) = SetCond(y, c)
    BY <1>1, <1>3, <1>4, <1>5, <1>8
       DEF Machine!Exec, Machine!WithConditions, Machine!Arithmetic, Machine!Logic, Machine!Compares,
           Arithmetic, Logic, SetCond, Computed
  <2>2. SetCond(y, c).file = y.file /\ DOMAIN SetCond(y, c) = DOMAIN y
    BY <1>6 DEF SetCond, IsState
  <2> QED BY <1>2, <1>4, <1>6, <2>1, <2>2 DEF Defines, IsState
<1> QED BY <1>7, <1>8

-----------------------------------------------------------------------------
(* One instruction of the slice against the same one of the block.          *)

Keeps(acc, i) == i.op \in Compares \/ DefReg(i) \cap acc.needed # {}

LEMMA SliceStepKept ==
  ASSUME NEW acc, NEW i
  PROVE  SliceStep(acc, i).kept = IF Keeps(acc, i) THEN <<i>> \o acc.kept ELSE acc.kept
BY DEF SliceStep, Keeps

LEMMA SliceStepNeeds ==
  ASSUME NEW acc, acc.needed \subseteq Wholes, NEW i, IsInstruction(i), WholeInst(i)
  PROVE  /\ SliceStep(acc, i).needed \subseteq Wholes
         /\ Keeps(acc, i) => UseRegs(i) \subseteq SliceStep(acc, i).needed
         /\ i.op \in Compares => acc.needed \subseteq SliceStep(acc, i).needed
         /\ acc.needed \ DefReg(i) \subseteq SliceStep(acc, i).needed
<1>1. UseRegs(i) \subseteq Wholes
  <2>1. ASSUME NEW o \in {i.dst, i.src} PROVE OperandRegs(o) \subseteq Wholes
    BY <2>1, WholeKinds DEF OperandRegs
  <2>2. i.dst.kind # "Mem"
    BY WholeKinds
  <2>3. i.op \in {"Mov"} \cup Arithmetic \cup Logic \cup Compares
    BY WholeKinds
  <2> QED BY <2>1, <2>2, <2>3 DEF UseRegs, Arithmetic, Logic, Compares
<1>2. CASE i.op \in Compares
  <2>1. DefReg(i) = {}
    BY <1>2 DEF DefReg, Arithmetic, Logic, Compares
  <2>2. SliceStep(acc, i).needed = acc.needed \cup UseRegs(i)
    BY <1>2, <2>1 DEF SliceStep
  <2> QED BY <1>1, <2>2
<1>3. CASE i.op \notin Compares /\ DefReg(i) \cap acc.needed # {}
  BY <1>1, <1>3 DEF SliceStep, Keeps
<1>4. CASE i.op \notin Compares /\ DefReg(i) \cap acc.needed = {}
  BY <1>1, <1>4 DEF SliceStep, Keeps
<1> QED BY <1>2, <1>3, <1>4

\* What an instruction computes depends on the registers it uses.
LEMMA ComputedAgrees ==
  ASSUME NEW m, NEW z, NEW i, IsInstruction(i), WholeInst(i), i.op \notin Compares, AgreeOn(m, z, UseRegs(i))
  PROVE  Computed(i, m) = Computed(i, z)
<1>1. ASSUME NEW o \in {i.dst, i.src}, OperandRegs(o) \subseteq UseRegs(i)
      PROVE  Machine!Value(m, o).v = Machine!Value(z, o).v
  <2>1. o.kind = "Imm" \/ o.kind = "Reg"
    BY <1>1, WholeKinds
  <2>2. o.kind = "Reg" => o.name \in UseRegs(i)
    BY <1>1 DEF OperandRegs
  <2>3. o.kind = "Reg" => m.file[o.name.root] = z.file[o.name.root]
    BY <2>2 DEF AgreeOn
  <2> QED BY <2>1, <2>3, ValueAgrees
<1>2. CASE i.op = "Mov"
  <2>1. OperandRegs(i.src) \subseteq UseRegs(i)
    BY <1>2 DEF UseRegs, Arithmetic, Logic, Compares
  <2>2. Machine!Value(m, i.src).v = Machine!Value(z, i.src).v
    BY <1>1, <2>1
  <2> QED BY <1>2, <2>2 DEF Computed
<1>3. CASE i.op # "Mov"
  <2>1. i.op \in Arithmetic \cup Logic
    BY <1>3, WholeKinds
  <2>2. OperandRegs(i.src) \subseteq UseRegs(i) /\ OperandRegs(i.dst) \subseteq UseRegs(i)
    BY <2>1 DEF UseRegs, Arithmetic, Logic, Compares
  <2>3. Machine!Value(m, i.src).v = Machine!Value(z, i.src).v /\ Machine!Value(m, i.dst).v = Machine!Value(z, i.dst).v
    BY <1>1, <2>2
  <2> QED BY <1>3, <2>3 DEF Computed
<1> QED BY <1>2, <1>3

\* An instruction kept is run by both; one left out changes nothing needed.
LEMMA SliceStepAgrees ==
  ASSUME NEW acc, acc.needed \subseteq Wholes, NEW i, IsInstruction(i), WholeInst(i),
         NEW m, NEW z, IsState(m), IsState(z), AgreeOn(m, z, SliceStep(acc, i).needed)
  PROVE  /\ Keeps(acc, i) => AgreeOn(Machine!Exec(i, m), Machine!Exec(i, z), acc.needed)
         /\ ~Keeps(acc, i) => AgreeOn(m, Machine!Exec(i, z), acc.needed)
         /\ IsState(Machine!Exec(i, m)) /\ IsState(Machine!Exec(i, z))
<1>1. CASE i.op \in Compares
  <2>1. Keeps(acc, i)
    BY <1>1 DEF Keeps
  <2>2. AgreeOn(m, z, acc.needed)
    BY <1>1, SliceStepNeeds DEF AgreeOn
  <2>3. /\ Machine!Exec(i, m).file = m.file /\ IsState(Machine!Exec(i, m))
        /\ Machine!Exec(i, z).file = z.file /\ IsState(Machine!Exec(i, z))
    BY <1>1, ExecCompares
  <2> QED BY <2>1, <2>2, <2>3 DEF AgreeOn
<1>2. CASE i.op \notin Compares
  <2>1. PICK a, b : a = Machine!Exec(i, m) /\ b = Machine!Exec(i, z)
    OBVIOUS
  <2>2. Defines(i, m, a) /\ Defines(i, z, b)
    BY <1>2, <2>1, ExecDefines
  <2>3. i.dst.kind = "Reg" /\ i.dst.name \in Wholes /\ i.op \in {"Mov"} \cup Arithmetic \cup Logic
    BY <1>2, WholeKinds
  <2>4. DefReg(i) = {i.dst.name}
    BY <2>3 DEF DefReg
  <2>5. ASSUME NEW n \in acc.needed, n # i.dst.name
        PROVE  a.file[n.root] = m.file[n.root] /\ b.file[n.root] = z.file[n.root] /\ m.file[n.root] = z.file[n.root]
    <3>1. n.root \in Roots /\ n = View64(n.root) /\ i.dst.name = View64(i.dst.name.root)
      BY <2>3, WholeRoots
    <3>2. n.root # i.dst.name.root
      BY <2>5, <3>1
    <3>3. n \in SliceStep(acc, i).needed
      BY <2>4, <2>5, SliceStepNeeds
    <3> QED BY <2>2, <3>1, <3>2, <3>3 DEF Defines, AgreeOn
  <2>6. CASE Keeps(acc, i)
    <3>1. AgreeOn(m, z, UseRegs(i))
      BY <2>6, SliceStepNeeds DEF AgreeOn
    <3>2. Computed(i, m) = Computed(i, z)
      BY <1>2, <3>1, ComputedAgrees
    <3>3. a.file[i.dst.name.root] = b.file[i.dst.name.root]
      BY <2>2, <3>2 DEF Defines
    <3>4. ASSUME NEW n \in acc.needed PROVE a.file[n.root] = b.file[n.root]
      BY <2>5, <3>3
    <3> QED BY <2>1, <2>2, <2>6, <3>4 DEF AgreeOn, Defines
  <2>7. CASE ~Keeps(acc, i)
    <3>1. i.dst.name \notin acc.needed
      BY <2>4, <2>7 DEF Keeps
    <3>2. ASSUME NEW n \in acc.needed PROVE m.file[n.root] = b.file[n.root]
      BY <2>5, <3>1
    <3> QED BY <2>1, <2>2, <2>7, <3>2 DEF AgreeOn, Defines
  <2> QED BY <2>6, <2>7
<1> QED BY <1>1, <1>2

-----------------------------------------------------------------------------
(* A block run from its first instruction, and sliced from its last.        *)

Running(h, block, base) ==
    /\ FoldLeft(LAMBDA acc, i : Machine!Exec(i, acc), base, block) = h[1..Len(block)]
    /\ h[1..0] = base
    /\ \A k \in 1..Len(block) : h[1..k] = Machine!Exec(block[k], h[1..(k - 1)])

LEMMA RunningSteps ==
  ASSUME NEW S, NEW block \in Seq(S), NEW base
  PROVE  \E h : Running(h, block, base)
<1> DEFINE Iter(f) == f = [s \in SUBSET (DOMAIN block) |->
                              IF s = {} THEN base
                              ELSE Machine!Exec(block[Max(s)], f[s \ {Max(s)}])]
           how == [kind |-> "running", block |-> block]
<1>1. PICK n \in Nat : n = Len(block)
  OBVIOUS
<1>2. PICK f : Folds(f, n, base, how)
  BY FoldsExist
<1>3. DOMAIN block = 1..n
  BY <1>1
<1>4. ASSUME NEW g PROVE Iter(g) <=> Folds(g, n, base, how)
  <2>1. ASSUME NEW acc, NEW k PROVE Advance(how, acc, k) = Machine!Exec(block[k], acc)
    BY DEF Advance
  <2> HIDE DEF how
  <2> QED BY <1>3, <2>1 DEF Folds
<1> DEFINE h == CHOOSE f1 : Iter(f1)
<1>5. Iter(h)
  <2>1. Iter(f)
    BY <1>2, <1>4
  <2> HIDE DEF Iter
  <2> QED BY <2>1
<1>6. FoldLeft(LAMBDA acc, i : Machine!Exec(i, acc), base, block) = h[1..n]
  BY <1>3 DEF FoldLeft, MapThenFoldSet
<1> HIDE DEF h
<1>7. Folds(h, n, base, how)
  BY <1>4, <1>5
<1>8. h[1..0] = base /\ \A k \in 1..n : h[1..k] = Advance(how, h[1..(k - 1)], k)
  <2> HIDE DEF how
  <2>1. Stepped(h, n, base, how)
    BY <1>7, FoldsStep
  <2> QED BY <2>1 DEF Stepped
<1>9. \A k \in 1..n : h[1..k] = Machine!Exec(block[k], h[1..(k - 1)])
  BY <1>8 DEF Advance
<1>10. Running(h, block, base)
  BY <1>1, <1>6, <1>8, <1>9 DEF Running
<1> QED BY <1>10

\* A fold from the right: the iterations over the last elements.
SliceFold(a, lo, n, block, base) ==
    a = [s \in SUBSET (lo..n) |-> IF s = {} THEN base ELSE SliceStep(a[s \ {Min(s)}], block[Min(s)])]

LEMMA SliceFoldsExist ==
  ASSUME NEW block, NEW base, NEW n \in Nat
  PROVE  \E a : SliceFold(a, 1, n, block, base)
<1> DEFINE T == {k \in Nat : k <= n => \E a : SliceFold(a, n - k + 1, n, block, base)}
<1>1. 0 \in T
  <2> DEFINE a == [s \in SUBSET ((n - 0 + 1)..n) |-> base]
  <2>1. (n - 0 + 1)..n = {}
    OBVIOUS
  <2>2. \A s \in SUBSET ((n - 0 + 1)..n) : s = {}
    BY <2>1
  <2>3. SliceFold(a, n - 0 + 1, n, block, base)
    BY <2>2 DEF SliceFold
  <2> QED BY <2>3
<1>2. ASSUME NEW k \in Nat, k \in T PROVE k + 1 \in T
  <2> SUFFICES ASSUME k + 1 <= n PROVE \E a : SliceFold(a, n - (k + 1) + 1, n, block, base)
    OBVIOUS
  <2>0. PICK lo \in Nat : lo = n - k /\ lo > 0 /\ lo <= n /\ n - k + 1 = lo + 1 /\ n - (k + 1) + 1 = lo
    <3>1. n - k \in Nat /\ n - k > 0 /\ n - k <= n /\ n - (k + 1) + 1 = n - k
      OBVIOUS
    <3> QED BY <3>1
  <2>1. PICK f : SliceFold(f, lo + 1, n, block, base)
    BY <1>2, <2>0
  <2> DEFINE g == [s \in SUBSET (lo..n) |->
                      IF s \in SUBSET ((lo + 1)..n) THEN f[s] ELSE SliceStep(f[s \ {lo}], block[lo])]
             G == [s \in SUBSET (lo..n) |-> IF s = {} THEN base ELSE SliceStep(g[s \ {Min(s)}], block[Min(s)])]
  <2>2. \A s \in SUBSET ((lo + 1)..n) : f[s] = IF s = {} THEN base ELSE SliceStep(f[s \ {Min(s)}], block[Min(s)])
    BY <2>1 DEF SliceFold
  <2>3. (lo + 1)..n \subseteq lo..n
    OBVIOUS
  <2>4. ASSUME NEW s \in SUBSET ((lo + 1)..n) PROVE s \in SUBSET (lo..n) /\ g[s] = f[s]
    BY <2>3
  <2> HIDE DEF g
  <2>5. ASSUME NEW s \in SUBSET (lo..n)
        PROVE  g[s] = IF s = {} THEN base ELSE SliceStep(g[s \ {Min(s)}], block[Min(s)])
    <3>1. CASE s = {}
      BY <2>2, <2>4, <3>1
    <3>2. CASE s # {} /\ s \in SUBSET ((lo + 1)..n)
      <4>1. s \ {Min(s)} \in SUBSET ((lo + 1)..n)
        BY <3>2
      <4>2. g[s \ {Min(s)}] = f[s \ {Min(s)}]
        BY <2>4, <4>1
      <4>3. g[s] = f[s]
        BY <2>4, <3>2
      <4> QED BY <2>2, <3>2, <4>2, <4>3
    <3>3. CASE s \notin SUBSET ((lo + 1)..n)
      <4>0. \A i \in lo..n : i # lo => i \in (lo + 1)..n
        OBVIOUS
      <4>1. lo \in s /\ s # {}
        BY <3>3, <4>0
      <4>2. s \in SUBSET Nat
        OBVIOUS
      <4>3. Min(s) \in s /\ \A i \in s : Min(s) <= i
        BY <4>1, <4>2, MinFacts
      <4>4. Min(s) = lo
        <5>1. Min(s) \in lo..n /\ Min(s) <= lo
          BY <4>1, <4>3
        <5> QED BY <5>1
      <4>5. s \ {lo} \in SUBSET ((lo + 1)..n)
        BY <4>0
      <4>6. g[s \ {lo}] = f[s \ {lo}]
        BY <2>4, <4>5
      <4>7. g[s] = SliceStep(f[s \ {lo}], block[lo])
        BY <3>3 DEF g
      <4> QED BY <4>1, <4>4, <4>6, <4>7
    <3> QED BY <3>1, <3>2, <3>3
  <2>6. g = G
    <3>1. g = [s \in SUBSET (lo..n) |-> g[s]]
      BY DEF g
    <3> QED BY <2>5, <3>1
  <2>7. SliceFold(g, lo, n, block, base)
    BY <2>6 DEF SliceFold
  <2> QED BY <2>0, <2>7
<1> HIDE DEF T
<1>3. Nat \subseteq T
  BY <1>1, <1>2, Everything
<1>4. n - n + 1 = 1 /\ n \in T
  BY <1>3
<1> QED BY <1>4 DEF T

Slicing(a, block, criteria) ==
    /\ SemanticSlice(block, criteria) = a[1..Len(block)].kept
    /\ a[{}] = [needed |-> criteria, kept |-> << >>]
    /\ \A k \in 1..Len(block) : a[k..Len(block)] = SliceStep(a[(k + 1)..Len(block)], block[k])

LEMMA SlicingSteps ==
  ASSUME NEW S, NEW block \in Seq(S), NEW criteria
  PROVE  \E a : Slicing(a, block, criteria)
<1> DEFINE base == [needed |-> criteria, kept |-> << >>]
           Iter(f) == f = [s \in SUBSET (DOMAIN block) |->
                              IF s = {} THEN base ELSE SliceStep(f[s \ {Min(s)}], block[Min(s)])]
<1>1. PICK n \in Nat : n = Len(block)
  OBVIOUS
<1>2. PICK f : SliceFold(f, 1, n, block, base)
  BY SliceFoldsExist
<1>3. DOMAIN block = 1..n
  BY <1>1
<1>4. ASSUME NEW g PROVE Iter(g) <=> SliceFold(g, 1, n, block, base)
  <2> HIDE DEF base
  <2> QED BY <1>3 DEF SliceFold
<1> DEFINE a == CHOOSE f1 : Iter(f1)
<1>5. Iter(a)
  <2>1. Iter(f)
    BY <1>2, <1>4
  <2> HIDE DEF Iter
  <2> QED BY <2>1
<1>6. SemanticSlice(block, criteria) = a[1..n].kept
  BY <1>3 DEF SemanticSlice, FoldRight, MapThenFoldSet
<1> HIDE DEF a
<1>7. SliceFold(a, 1, n, block, base)
  BY <1>4, <1>5
<1> HIDE DEF base
<1>8. a[{}] = base
  BY <1>7 DEF SliceFold
<1>9. ASSUME NEW k \in 1..n PROVE a[k..n] = SliceStep(a[(k + 1)..n], block[k])
  <2>0. k \in Nat /\ k <= n /\ 1 <= k
    OBVIOUS
  <2>6. k \in k..n
    BY <2>0
  <2>7. k..n \in SUBSET (1..n)
    BY <2>0
  <2>8. k..n \in SUBSET Nat
    BY <2>0
  <2>1. k..n \in SUBSET (1..n) /\ k..n # {} /\ k \in k..n /\ k..n \in SUBSET Nat
    BY <2>6, <2>7, <2>8
  <2>2. Min(k..n) \in k..n /\ \A i \in k..n : Min(k..n) <= i
    BY <2>1, MinFacts
  <2>3. Min(k..n) = k
    BY <2>1, <2>2
  <2>4. (k..n) \ {k} = (k + 1)..n
    OBVIOUS
  <2>5. a[k..n] = SliceStep(a[(k..n) \ {Min(k..n)}], block[Min(k..n)])
    BY <1>7, <2>1 DEF SliceFold
  <2> QED BY <2>3, <2>4, <2>5
<1>10. Slicing(a, block, criteria)
  BY <1>1, <1>6, <1>8, <1>9 DEF Slicing, base
<1> QED BY <1>10

-----------------------------------------------------------------------------
(* The slice of a block and the block, side by side.                        *)

Ran(block, base) == FoldLeft(LAMBDA acc, i : Machine!Exec(i, acc), base, block)

\* What the backward walk holds once it has passed the instructions after k.
Walk(a, n, k) == a[(k + 1)..n]
WalkIs(a, n, block) ==
    \A k \in 0..n : /\ Walk(a, n, k).needed \subseteq Wholes
                    /\ Walk(a, n, k).kept \in Seq(Instructions)
                    /\ k < n => Walk(a, n, k) = SliceStep(Walk(a, n, k + 1), block[k + 1])

\* The end of s is t.
Ends(s, t) ==
    /\ Len(t) \in Nat /\ Len(s) \in Nat /\ Len(t) <= Len(s)
    /\ \A j \in 1..Len(t) : s[Len(s) - Len(t) + j] = t[j]

LEMMA EndsItself ==
  ASSUME NEW s \in Seq(Instructions)
  PROVE  Ends(s, s)
<1>1. Len(s) \in Nat
  OBVIOUS
<1>2. \A j \in 1..Len(s) : Len(s) - Len(s) + j = j
  BY <1>1
<1> QED BY <1>1, <1>2 DEF Ends

LEMMA EndsShorter ==
  ASSUME NEW s, NEW i \in Instructions, NEW t \in Seq(Instructions), Ends(s, <<i>> \o t)
  PROVE  /\ Ends(s, t) /\ Len(s) - Len(t) \in 1..Len(s)
         /\ s[Len(s) - Len(t)] = i /\ Len(s) - Len(<<i>> \o t) = Len(s) - Len(t) - 1
<1>1. PICK n \in Nat : n = Len(t)
  OBVIOUS
<1>2. PICK u : u = <<i>> \o t
  OBVIOUS
<1>3. PICK p : p = <<i>>
  OBVIOUS
<1>4. p \in Seq(Instructions) /\ Len(p) = 1 /\ p[1] = i
  BY <1>3
<1>5. u = p \o t
  BY <1>2, <1>3
<1>6. Len(u) = n + 1 /\ u[1] = i /\ \A j \in 1..n : u[j + 1] = t[j]
  <2>1. Len(u) = 1 + n /\ u = [j \in 1..(1 + n) |-> IF j <= 1 THEN p[j] ELSE t[j - 1]]
    <3>1. Len(p \o t) = Len(p) + Len(t)
          /\ p \o t = [j \in 1..(Len(p) + Len(t)) |-> IF j <= Len(p) THEN p[j] ELSE t[j - Len(p)]]
      BY <1>4, ConcatIs
    <3> QED BY <1>1, <1>4, <1>5, <3>1
  <2>2. u[1] = i
    BY <1>4, <2>1
  <2>3. ASSUME NEW j \in 1..n PROVE u[j + 1] = t[j]
    <3>1. j + 1 \in 1..(1 + n) /\ ~(j + 1 <= 1) /\ (j + 1) - 1 = j
      OBVIOUS
    <3> QED BY <2>1, <3>1
  <2> QED BY <2>1, <2>2, <2>3
<1>7. PICK l \in Nat : l = Len(s)
  BY DEF Ends
<1>8. n + 1 <= l /\ \A j \in 1..(n + 1) : s[l - (n + 1) + j] = u[j]
  BY <1>2, <1>6, <1>7 DEF Ends
<1>9. s[l - n] = i
  <2>1. l - (n + 1) + 1 = l - n /\ 1 \in 1..(n + 1)
    OBVIOUS
  <2> QED BY <1>6, <1>8, <2>1
<1>10. ASSUME NEW j \in 1..n PROVE s[l - n + j] = t[j]
  <2>1. j + 1 \in 1..(n + 1) /\ l - (n + 1) + (j + 1) = l - n + j
    OBVIOUS
  <2> QED BY <1>6, <1>8, <2>1
<1>11. Ends(s, t)
  BY <1>1, <1>7, <1>8, <1>10 DEF Ends
<1>12. l - n \in 1..l /\ l - (n + 1) = l - n - 1
  BY <1>8
<1> QED BY <1>1, <1>2, <1>6, <1>7, <1>9, <1>11, <1>12

LEMMA WalkFacts ==
  ASSUME NEW block \in Seq(Instructions), WholeRegisters(block), NEW criteria \in SUBSET Wholes,
         NEW a, Slicing(a, block, criteria), NEW n, n = Len(block)
  PROVE  WalkIs(a, n, block) /\ Walk(a, n, n) = [needed |-> criteria, kept |-> << >>]
<1>1. n \in Nat
  OBVIOUS
<1>2. (n + 1)..n = {}
  BY <1>1
<1>3. Walk(a, n, n) = [needed |-> criteria, kept |-> << >>]
  BY <1>2 DEF Walk, Slicing
<1>4. ASSUME NEW k \in 0..n, k < n PROVE Walk(a, n, k) = SliceStep(Walk(a, n, k + 1), block[k + 1])
  <2>1. PICK j \in 1..n : j = k + 1
    BY <1>1, <1>4
  <2>2. a[j..n] = SliceStep(a[(j + 1)..n], block[j])
    BY <2>1 DEF Slicing
  <2> QED BY <2>1, <2>2 DEF Walk
<1>5. ASSUME NEW k \in 1..n
      PROVE  block[k] \in Instructions /\ IsInstruction(block[k]) /\ WholeInst(block[k])
  <2>1. k \in DOMAIN block /\ block[k] \in Instructions
    BY <1>5
  <2>2. WholeInst(block[k])
    BY <2>1 DEF WholeRegisters, WholeInst
  <2> QED BY <2>1, <2>2, ProgramAssumption
<1> DEFINE Typed(w) == w.needed \subseteq Wholes /\ w.kept \in Seq(Instructions)
           T == {j \in Nat : j <= n => Typed(Walk(a, n, n - j))}
<1>6. 0 \in T
  <2>1. n - 0 = n
    BY <1>1
  <2>2. PICK e : e = << >>
    OBVIOUS
  <2>3. e \in Seq(Instructions)
    BY <2>2
  <2>4. Typed([needed |-> criteria, kept |-> << >>])
    BY <2>2, <2>3
  <2> QED BY <1>3, <2>1, <2>4
<1>7. ASSUME NEW j \in Nat, j \in T PROVE j + 1 \in T
  <2> SUFFICES ASSUME j + 1 <= n PROVE Typed(Walk(a, n, n - (j + 1)))
    OBVIOUS
  <2>1. PICK k \in 0..n : k = n - (j + 1) /\ k < n /\ k + 1 = n - j /\ k + 1 \in 1..n
    <3>1. n - (j + 1) \in 0..n /\ n - (j + 1) < n /\ n - (j + 1) + 1 = n - j /\ n - (j + 1) + 1 \in 1..n
      BY <1>1
    <3> QED BY <3>1
  <2>2. PICK w : w = Walk(a, n, k + 1)
    OBVIOUS
  <2>3. Typed(w)
    <3>1. j <= n
      BY <1>1
    <3> QED BY <1>7, <2>1, <2>2, <3>1
  <2>4. PICK i \in Instructions : i = block[k + 1] /\ IsInstruction(i) /\ WholeInst(i)
    BY <1>5, <2>1
  <2>5. Walk(a, n, k) = SliceStep(w, i)
    BY <1>4, <2>1, <2>2, <2>4
  <2>6. SliceStep(w, i).needed \subseteq Wholes
    BY <2>3, <2>4, SliceStepNeeds
  <2>7. SliceStep(w, i).kept \in Seq(Instructions)
    <3>1. SliceStep(w, i).kept = <<i>> \o w.kept \/ SliceStep(w, i).kept = w.kept
      BY SliceStepKept
    <3>2. PICK p : p = <<i>>
      OBVIOUS
    <3>3. p \in Seq(Instructions)
      BY <3>2
    <3>4. p \o w.kept \in Seq(Instructions)
      BY <2>3, <3>3
    <3> QED BY <2>3, <3>1, <3>2, <3>4
  <2> QED BY <2>1, <2>5, <2>6, <2>7
<1> HIDE DEF Typed, T
<1>8. Nat \subseteq T
  BY <1>6, <1>7, Everything
<1>9. ASSUME NEW k \in 0..n PROVE Typed(Walk(a, n, k))
  <2>0. n - k \in Nat
    BY ONLY <1>1, k \in 0..n
  <2>1. PICK j \in Nat : j = n - k
    BY <2>0
  <2>2. j <= n /\ n - j = k
    BY <1>1, <2>1
  <2>3. j \in T
    BY <1>8
  <2> QED BY <2>2, <2>3 DEF T
<1> QED BY <1>3, <1>4, <1>9 DEF WalkIs, Typed

LEMMA SliceAgrees ==
  ASSUME NEW block \in Seq(Instructions), WholeRegisters(block), NEW criteria \in SUBSET Wholes,
         NEW base, IsState(base), NEW slice, slice = SemanticSlice(block, criteria)
  PROVE  AgreeOn(Ran(slice, base), Ran(block, base), criteria)
<1>1. PICK n \in Nat : n = Len(block)
  OBVIOUS
<1>2. PICK a : Slicing(a, block, criteria)
  BY SlicingSteps
<1>3. WalkIs(a, n, block) /\ Walk(a, n, n) = [needed |-> criteria, kept |-> << >>]
  BY <1>1, <1>2, WalkFacts
<1>4. slice = Walk(a, n, 0).kept
  <2>1. (0 + 1)..n = 1..n
    OBVIOUS
  <2> QED BY <1>1, <1>2, <2>1 DEF Slicing, Walk
<1>5. slice \in Seq(Instructions)
  <2>1. 0 \in 0..n
    OBVIOUS
  <2> QED BY <1>3, <1>4, <2>1 DEF WalkIs
<1>6. PICK h : Running(h, slice, base)
  BY <1>5, RunningSteps
<1>7. PICK g : Running(g, block, base)
  BY RunningSteps
<1>8. PICK l \in Nat : l = Len(slice)
  BY <1>5
<1> DEFINE Kept(k) == Walk(a, n, k).kept
           \* The slice has run all but what is kept of the rest of the block.
           Along(k) == /\ Ends(slice, Kept(k))
                       /\ IsState(h[1..(l - Len(Kept(k)))]) /\ IsState(g[1..k])
                       /\ AgreeOn(h[1..(l - Len(Kept(k)))], g[1..k], Walk(a, n, k).needed)
           T == {k \in Nat : k <= n => Along(k)}
<1>9. 0 \in T
  <2>1. Ends(slice, Kept(0))
    BY <1>4, <1>5, EndsItself
  <2>2. l - Len(Kept(0)) = 0
    BY <1>4, <1>8
  <2>3. h[1..0] = base /\ g[1..0] = base
    BY <1>6, <1>7 DEF Running
  <2>4. AgreeOn(base, base, Walk(a, n, 0).needed)
    BY DEF AgreeOn
  <2>5. Along(0)
    BY <2>1, <2>2, <2>3, <2>4
  <2> QED BY <2>5
<1>10. ASSUME NEW k \in Nat, k \in T PROVE k + 1 \in T
  <2> SUFFICES ASSUME k + 1 <= n PROVE Along(k + 1)
    OBVIOUS
  <2>1. k \in 0..n /\ k + 1 \in 0..n /\ k < n /\ k + 1 \in 1..n /\ k <= n /\ (k + 1) - 1 = k
    OBVIOUS
  <2>2. PICK i \in Instructions : i = block[k + 1]
    BY <1>1, <2>1
  <2>3. IsInstruction(i) /\ WholeInst(i)
    <3>1. k + 1 \in DOMAIN block
      BY <1>1, <2>1
    <3>2. WholeInst(i)
      BY <2>2, <3>1 DEF WholeRegisters, WholeInst
    <3> QED BY <3>2, ProgramAssumption
  <2>4. PICK w : w = Walk(a, n, k + 1)
    OBVIOUS
  <2>5. w.needed \subseteq Wholes /\ w.kept \in Seq(Instructions) /\ Walk(a, n, k) = SliceStep(w, i)
    BY <1>3, <2>1, <2>2, <2>4 DEF WalkIs
  <2>6. Along(k)
    BY <1>10, <2>1
  <2>7. g[1..(k + 1)] = Machine!Exec(i, g[1..k])
    BY <1>1, <1>7, <2>1, <2>2 DEF Running
  <2>8. PICK m, z : m = h[1..(l - Len(Kept(k)))] /\ z = g[1..k]
    OBVIOUS
  <2>9. IsState(m) /\ IsState(z) /\ AgreeOn(m, z, SliceStep(w, i).needed) /\ Ends(slice, SliceStep(w, i).kept)
    BY <2>5, <2>6, <2>8
  <2>10. /\ Keeps(w, i) => AgreeOn(Machine!Exec(i, m), Machine!Exec(i, z), w.needed)
         /\ ~Keeps(w, i) => AgreeOn(m, Machine!Exec(i, z), w.needed)
         /\ IsState(Machine!Exec(i, m)) /\ IsState(Machine!Exec(i, z))
    BY <2>3, <2>5, <2>9, SliceStepAgrees
  <2>11. CASE Keeps(w, i)
    <3>1. Kept(k) = <<i>> \o w.kept
      BY <2>5, <2>11, SliceStepKept
    <3>2. /\ Ends(slice, w.kept) /\ l - Len(w.kept) \in 1..l
          /\ slice[l - Len(w.kept)] = i /\ l - Len(Kept(k)) = l - Len(w.kept) - 1
      <4>1. PICK t \in Seq(Instructions) : t = w.kept
        BY <2>5
      <4>2. SliceStep(w, i).kept = <<i>> \o t /\ Kept(k) = <<i>> \o t
        BY <2>5, <3>1, <4>1
      <4>3. Ends(slice, <<i>> \o t)
        BY <2>9, <4>2
      <4>4. /\ Ends(slice, t) /\ Len(slice) - Len(t) \in 1..Len(slice)
            /\ slice[Len(slice) - Len(t)] = i /\ Len(slice) - Len(<<i>> \o t) = Len(slice) - Len(t) - 1
        BY <4>3, EndsShorter
      <4> QED BY <1>8, <4>1, <4>2, <4>4
    <3>3. PICK c \in 1..l : c = l - Len(w.kept)
      BY <3>2
    <3>4. h[1..c] = Machine!Exec(slice[c], h[1..(c - 1)])
      BY <1>6, <1>8 DEF Running
    <3>5. h[1..c] = Machine!Exec(i, m)
      BY <2>8, <3>2, <3>3, <3>4
    <3> QED BY <2>4, <2>7, <2>8, <2>10, <2>11, <3>2, <3>3, <3>5
  <2>12. CASE ~Keeps(w, i)
    <3>1. Kept(k) = w.kept
      BY <2>5, <2>12, SliceStepKept
    <3> QED BY <2>4, <2>6, <2>7, <2>8, <2>9, <2>10, <2>12, <3>1
  <2> QED BY <2>11, <2>12
<1> HIDE DEF Along, T
<1>11. Nat \subseteq T
  BY <1>9, <1>10, Everything
<1>12. Along(n)
  BY <1>11 DEF T
<1>13. Walk(a, n, n).needed = criteria /\ Len(Kept(n)) = 0
  BY <1>3
<1>14. AgreeOn(h[1..l], g[1..n], criteria)
  <2>1. l - 0 = l
    OBVIOUS
  <2> QED BY <1>12, <1>13, <2>1 DEF Along
<1>15. Ran(slice, base) = h[1..l] /\ Ran(block, base) = g[1..n]
  BY <1>1, <1>6, <1>7, <1>8 DEF Ran, Running
<1> QED BY <1>14, <1>15

-----------------------------------------------------------------------------
(* The block executed so far, and what the scopes remember of it.           *)

Remembers(q, d) == \A k \in DOMAIN q : q[k].done \in Nat /\ q[k].done <= Len(d)
Nested(q) == \A j, k \in DOMAIN q : j <= k => q[j].done <= q[k].done
BlockInv ==
    /\ world \in Worlds /\ done \in Seq(Instructions)
    /\ \E S : scopes \in Seq(S)
    /\ Remembers(scopes, done) /\ Nested(scopes)

LEMMA PushKeepsBlock ==
  ASSUME BlockInv, Push
  PROVE  BlockInv'
<1>1. /\ scopes' = Append(scopes, [lifter |-> lifter, done |-> Len(done), stale |-> stale])
      /\ done' = done /\ world' = world
  BY DEF Push
<1>2. PICK S : scopes \in Seq(S)
  BY DEF BlockInv
<1>3. PICK x : x = [lifter |-> lifter, done |-> Len(done), stale |-> stale]
  OBVIOUS
<1>4. PICK q : q = scopes
  OBVIOUS
<1>5. PICK E : E = S \cup {x}
  OBVIOUS
<1>6. q \in Seq(E) /\ x \in E
  BY <1>2, <1>4, <1>5
<1>7. PICK z : z = Append(q, x)
  OBVIOUS
<1>8. PICK n \in Nat : n = Len(q)
  BY <1>6
<1>9. /\ z \in Seq(E) /\ z[n + 1] = x /\ (\A k \in 1..n : z[k] = q[k])
      /\ DOMAIN q = 1..n /\ DOMAIN z = 1..(n + 1)
  BY <1>6, <1>7, <1>8
<1>10. PICK d : d = done
  OBVIOUS
<1>11. PICK l \in Nat : l = Len(d)
  BY <1>10 DEF BlockInv
<1>12. x.done = l
  BY <1>3, <1>10, <1>11
<1>13. Remembers(q, d) /\ Nested(q)
  BY <1>4, <1>10 DEF BlockInv
<1>14. \A k \in 1..n : z[k].done \in Nat /\ z[k].done <= l
  BY <1>9, <1>11, <1>13 DEF Remembers
<1>15. \A k \in 1..(n + 1) : k \in 1..n \/ k = n + 1
  OBVIOUS
<1>16. Remembers(z, d)
  BY <1>9, <1>11, <1>12, <1>14, <1>15 DEF Remembers
<1>17. ASSUME NEW j \in 1..(n + 1), NEW k \in 1..(n + 1), j <= k PROVE z[j].done <= z[k].done
  <2>1. CASE k = n + 1
    BY <1>9, <1>11, <1>12, <1>14, <1>15, <2>1
  <2>2. CASE k \in 1..n
    <3>1. j \in 1..n
      BY <1>17, <2>2
    <3> QED BY <1>9, <1>13, <1>17, <2>2, <3>1 DEF Nested
  <2> QED BY <1>15, <2>1, <2>2
<1>18. Nested(z)
  BY <1>9, <1>17 DEF Nested
<1>19. scopes' = z
  BY <1>1, <1>3, <1>4, <1>7
<1> QED BY <1>1, <1>9, <1>10, <1>16, <1>18, <1>19 DEF BlockInv

LEMMA PopKeepsBlock ==
  ASSUME BlockInv, Pop
  PROVE  BlockInv'
<1>1. PICK q : q = scopes
  OBVIOUS
<1>2. PICK S : q \in Seq(S)
  BY <1>1 DEF BlockInv
<1>3. /\ q # << >> /\ done' = SubSeq(done, 1, Last(q).done) /\ scopes' = Front(q) /\ world' = world
  BY <1>1 DEF Pop
<1>4. /\ Last(q) = q[Len(q)] /\ Len(q) \in DOMAIN q
      /\ Front(q) \in Seq(S) /\ Len(Front(q)) = Len(q) - 1 /\ Len(q) \in Nat
      /\ \A k \in DOMAIN Front(q) : k \in DOMAIN q /\ Front(q)[k] = q[k]
  BY <1>2, <1>3, LastScope
<1>5. PICK d : d = done
  OBVIOUS
<1>6. d \in Seq(Instructions) /\ Remembers(q, d) /\ Nested(q)
  BY <1>1, <1>5 DEF BlockInv
<1>7. PICK n : n = Len(q)
  OBVIOUS
<1>8. n \in DOMAIN q /\ Last(q) = q[n] /\ \A k \in DOMAIN q : k <= n
  <2>1. DOMAIN q = 1..n /\ n \in Nat
    BY <1>2, <1>7
  <2> QED BY <1>4, <1>7, <2>1
<1>9. PICK m \in Nat : m = Last(q).done /\ m <= Len(d)
  BY <1>6, <1>8 DEF Remembers
<1>10. PICK c : c = SubSeq(d, 1, m)
  OBVIOUS
<1>11. c \in Seq(Instructions) /\ Len(c) = m
  BY <1>6, <1>9, <1>10
<1>12. PICK f : f = Front(q)
  OBVIOUS
<1>13. \A k \in DOMAIN f : k \in DOMAIN q /\ f[k] = q[k]
  BY <1>4, <1>12
<1>14. \A k \in DOMAIN f : f[k].done \in Nat /\ f[k].done <= m
  BY <1>6, <1>8, <1>9, <1>13 DEF Remembers, Nested
<1>15. Remembers(f, c)
  BY <1>11, <1>14 DEF Remembers
<1>16. Nested(f)
  BY <1>6, <1>13 DEF Nested
<1>17. world \in Worlds
  BY DEF BlockInv
<1>18. done' = c /\ scopes' = f /\ f \in Seq(S)
  BY <1>3, <1>4, <1>5, <1>9, <1>10, <1>12
<1> QED BY <1>3, <1>11, <1>15, <1>16, <1>17, <1>18 DEF BlockInv

LEMMA StepKeepsBlock ==
  ASSUME BlockInv, [Next]_vars
  PROVE  BlockInv'
<1>1. ASSUME NEW i \in Instructions, Step(i) PROVE BlockInv'
  <2>1. done' = Append(done, i) /\ world' = world /\ scopes' = scopes
    BY <1>1 DEF Step
  <2>2. PICK d \in Seq(Instructions) : d = done
    BY DEF BlockInv
  <2>3. PICK e : e = Append(d, i)
    OBVIOUS
  <2>4. e \in Seq(Instructions) /\ Len(e) = Len(d) + 1 /\ Len(d) \in Nat
    BY <2>2, <2>3
  <2>5. PICK q : q = scopes
    OBVIOUS
  <2>6. Remembers(q, d)
    BY <2>2, <2>5 DEF BlockInv
  <2>7. Remembers(q, e)
    BY <2>4, <2>6 DEF Remembers
  <2>8. done' = e /\ scopes' = q
    BY <2>1, <2>2, <2>3, <2>5
  <2> QED BY <2>1, <2>4, <2>5, <2>7, <2>8 DEF BlockInv
<1>2. CASE Push
  BY <1>2, PushKeepsBlock
<1>3. CASE Pop
  BY <1>3, PopKeepsBlock
<1>4. CASE ResolveBranch \/ UNCHANGED vars
  <2>1. done' = done /\ scopes' = scopes /\ world' = world
    BY <1>4 DEF ResolveBranch, vars
  <2> QED BY <2>1 DEF BlockInv
<1> QED BY <1>1, <1>2, <1>3, <1>4 DEF Next

LEMMA InitBlock == Init => BlockInv
<1> SUFFICES ASSUME Init PROVE BlockInv
  OBVIOUS
<1>1. world \in Worlds /\ scopes = << >> /\ done = << >>
  BY DEF Init
<1>2. PICK e : e = << >>
  OBVIOUS
<1>3. e \in Seq(Instructions) /\ DOMAIN e = {}
  BY <1>2
<1>4. Remembers(e, e) /\ Nested(e)
  BY <1>3 DEF Remembers, Nested
<1> QED BY <1>1, <1>2, <1>3, <1>4 DEF BlockInv

\* Whatever the program, a slice of a block on whole registers leaves the
\* registers it is made for as the block does (semantic_slice of lifter.rs).
THEOREM SlicesExact == Spec => []SliceExact
<1>1. BlockInv => SliceExact
  <2> SUFFICES ASSUME BlockInv, WholeRegisters(done),
                      NEW criteria \in SUBSET {View64(r) : r \in Roots}
               PROVE  LET slice == SemanticSlice(done, criteria)
                          m == FoldLeft(LAMBDA acc, i : Machine!Exec(i, acc), Machine!Start(world), slice)
                      IN  \A n \in criteria : m.file[n.root] = Run.file[n.root]
    BY DEF SliceExact
  <2>1. PICK base : base = Machine!Start(world)
    OBVIOUS
  <2>2. IsState(base)
    <3>1. world \in Worlds
      BY DEF BlockInv
    <3>2. DOMAIN world.file = Roots
      BY <3>1, ProgramAssumption
    <3> QED BY <2>1, <3>2 DEF IsState, Machine!Start
  <2>3. PICK slice : slice = SemanticSlice(done, criteria)
    OBVIOUS
  <2>4. criteria \in SUBSET Wholes
    BY DEF Wholes
  <2>5. done \in Seq(Instructions)
    BY DEF BlockInv
  <2>6. AgreeOn(Ran(slice, base), Ran(done, base), criteria)
    BY <2>2, <2>3, <2>4, <2>5, SliceAgrees
  <2>7. Run = Ran(done, base)
    BY <2>1 DEF Run, Ran
  <2>8. FoldLeft(LAMBDA acc, i : Machine!Exec(i, acc), Machine!Start(world), SemanticSlice(done, criteria))
            = Ran(slice, base)
    BY <2>1, <2>3 DEF Ran
  <2> QED BY <2>6, <2>7, <2>8 DEF AgreeOn
<1>2. BlockInv /\ [Next]_vars => BlockInv'
  BY StepKeepsBlock
<1> QED BY <1>1, <1>2, InitBlock, PTL DEF Spec
=============================================================================
