------------------------------ MODULE MCEncode ------------------------------
(***************************************************************************)
(* The linker's words read back by the disassembler and run: what an       *)
(* instruction of the linker means (Meaning), and that its words mean it.  *)
(***************************************************************************)
EXTENDS LinkEncode

M == INSTANCE Riscv
D == INSTANCE MachDecode

XLEN == IF RV64 THEN 64 ELSE 32
\* the value of a long, in a register
Long(n) == M!Con(M!Low(Bits(n) \cup (IF n < 0 THEN 32..63 ELSE {}), XLEN))
Signed(b) == M!Con(M!Low(b \cup (IF 31 \in b THEN 32..63 ELSE {}), XLEN))
Plus(v, w) == M!Eval("ADD", v, w, XLEN)

\* the registers before the instruction: patterns of their own, SB the static
\* base; and the address of byte i of the instruction
Pattern(r) == {b \in 0..63 : (b * 7 + r * 13) % 11 < 5}
Registers ==
  [n \in {32, 64} |-> [r \in 0..63 |-> IF r = 0 THEN M!Con({}) ELSE IF r < 32 THEN M!Con(M!Low(Pattern(r), n))
                                     ELSE M!App("F", <<M!Con({r})>>)]]
Before0 == [Registers[XLEN] EXCEPT ![REGSB] = Long(ld.dat + BIG)]
At(i) == Long(InitText + p.pc + i)
Bytes(words) == [i \in DOMAIN words |-> IF {0, 1} \subseteq words[i] THEN 4 ELSE 2]
RECURSIVE UpTo(_, _)
UpTo(sizes, i) == IF i = 0 THEN 0 ELSE UpTo(sizes, i - 1) + sizes[i]
After == At(UpTo(Bytes(text.words), Len(text.words)))

-----------------------------------------------------------------------------
(* Meaning *)

Address0(a, r) ==
  CASE a.name = "EXTERN" -> Long(a.symv + a.off + (IF a.symt = "STEXT" THEN InitText ELSE ld.dat))
    [] a.name \in {"AUTO", "PARAM"} ->
         Plus(r[REGSP], Long(Autosize + a.off + (IF a.name = "PARAM" THEN ptrsize ELSE 0)))
    [] a.name = "NONE" -> IF a.reg = NREG THEN Long(a.off) ELSE Plus(r[a.reg], Long(a.off))
Extensions0 == [MOVB |-> 8, MOVH |-> 16, MOVW |-> 32]
Truncations == [MOVBU |-> 8, MOVHU |-> 16, MOVWU |-> 32]
Relations == {"BEQ", "BNE", "BLT", "BGE", "BLTU", "BGEU"}
Operators == {o.as : o \in RegReg \cup RegImm} \ {"MOV"}
FpOperators == {o.as : o \in {u \in Floating : u.type = 0}} \ {"MOVF", "MOVD"}

Meaning ==
  LET r == Before0
      st == M!State(r, After)
      f == p.from  t == p.to
      of(a) == CASE a.type = "REG" -> r[a.reg] [] a.type = "FREG" -> r[32 + a.reg]
                 [] a.type \in {"CONST", "OREG"} -> Address0(a, r)
      dst == IF t.type = "FREG" THEN 32 + t.reg ELSE t.reg
      second == IF t.type = "FREG" \/ f.type = "FREG" THEN 32 + p.reg ELSE p.reg
      there == IF t.type = "BRANCH" THEN At(p.dist) ELSE of(t)
  IN CASE p.as \in Relations -> M!Branch(st, p.as, IF p.reg = NREG THEN r[0] ELSE r[p.reg], of(f), there)
       [] p.as = "JMP" -> M!Jump(st, there)
       [] p.as = "JAL" -> M!Put(M!Jump(st, there), IF p.reg = NREG THEN REGLINK ELSE p.reg, After)
       [] p.as = "SYS" -> [st EXCEPT !.ctl.kind = IF t.off = 0 THEN "ECALL" ELSE IF t.off = 1 THEN "EBREAK" ELSE "SYS"]
       [] f.type = "CTLREG" ->
            LET csr == M!Con(Bits(f.off) \cap Low12)
            IN M!Put(st, dst, M!App(p.as, <<csr, IF p.as \in {"CSRRW", "CSRRS", "CSRRC"} THEN r[p.reg] ELSE Long(p.reg)>>))
       [] p.as \in Operators \cup FpOperators ->
            M!Put(st, dst, M!Eval(p.as, r[IF p.reg = NREG THEN dst ELSE second], of(f), XLEN))
       [] t.type = "OREG" -> M!Store(st, M!Size[p.as], of(t), of(f))
       [] f.type = "OREG" -> M!Put(st, dst, M!Loaded(p.as, of(f)))
       [] f.type = "CONST" -> M!Put(st, dst, of(f))
       [] p.as = "MOV" -> M!Put(st, dst, of(f))
       [] f.type = "REG" /\ t.type = "REG" ->
            LET b == of(f).bits
            IN M!Put(st, dst, M!Con(M!Low(IF p.as \in DOMAIN Extensions0 THEN M!Extend(b, Extensions0[p.as])
                                          ELSE M!Low(b, Truncations[p.as]), XLEN)))
       [] OTHER -> M!Put(st, dst, M!App(p.as, <<of(f)>>))

-----------------------------------------------------------------------------
(* the words, read back *)

Operand(d, x, i) ==
  CASE x = "s" -> M!Reg(d.rs1) [] x = "fs" -> M!FReg(d.rs1) [] x = "2" -> M!Reg(d.rs2) [] x = "f2" -> M!FReg(d.rs2)
    [] x = "d" -> M!Reg(d.rd) [] x = "fd" -> M!FReg(d.rd)
    [] x = "js" -> M!Imm(Long(d.rs1)) [] x = "c" -> M!CSR(M!Con(d.imm \cap Low12))
    [] x = "i" -> M!Imm(Signed(d.imm))
    [] x = "a" -> M!Mem(d.rs1, Signed(d.imm))
    [] x = "$a" -> M!Imm(Plus(Long(ld.dat + BIG), Signed(d.imm)))       \* sym+off(SB): imm + mach->sb
    [] x = "p" -> M!Place(Plus(At(i), Signed(d.imm)))
    [] x = "iPC" -> M!Imm(Plus(At(i), Signed(d.imm)))

Step(st, w, i) ==
  LET d == D!decode(w, RV64)
      shown == D!mkinstr(d, RV64, ld.dat + BIG)
      args == [k \in DOMAIN shown.fmt |-> Operand(d, shown.fmt[k], i)]
      in == IF d.n = 2 THEN M!Expanded(shown.as, args) ELSE [as |-> shown.as, args |-> args]
  IN M!Exec(st, in.as, in.args, At(i + d.n), XLEN)
RECURSIVE Run(_)
Run(k) == IF k = 0 THEN M!State(Before0, At(0))
          ELSE Step(Run(k - 1), text.words[k], UpTo(Bytes(text.words), k - 1))

Written == text # Unwritten /\ ~text.bad
N == Len(text.words)

Far(a) == regoff(a) > MaxLong - 2048
LinkDeviates ==
  \/ RV64 /\ opt.type = 14 /\ Far(p.from)              \* asm.c:822 builds in to.reg, adds REGTMP
  \/ RV64 /\ opt.type = 18                             \* asm.c:880 AUIPC of an absolute address
  \/ RV64 /\ opt.type = 15 /\ Far(p.to)                \* asm.c:842 LUI is negative
  \/ RV64 /\ opt.type = 16 /\ Far(p.from)
ShowDeviates ==
  \/ p.as \in {"CMPEQF", "CMPLEF", "CMPLTF", "CMPEQD", "CMPLED", "CMPLTD"}   \* idb.c:583 two operands of three
  \/ N = 1 /\ D!decode(text.words[1], RV64).aop = 43                         \* idb.c:215 LDSP without its bit 4
  \/ \E k \in 1..N : LET d == D!decode(text.words[k], RV64)
                    IN d.op = "OP_IMM" /\ d.func3 = 5 /\ d.func7 = 33       \* idb.c:600 SRA by 32 and more: SRL
Faithful ==
  Written /\ ~LinkDeviates /\ ~ShowDeviates =>
    LET got == Run(N)  want == Meaning
    IN /\ \A r \in 0..63 \ {REGTMP} : got.r[r] = want.r[r]
       /\ got.store = want.store
       /\ got.ctl = want.ctl
(* For any instruction, what the disassembler shows of the words the linker *)
(* writes does what the instruction means: the same registers but REGTMP,   *)
(* the same store and the same jump (asmout of cmd/il/asm.c, asmcompressed  *)
(* of compress.c, and decode and mkinstr of libmach/idb.c).                 *)
CodeMeans == [][Faithful]_linkVars

FollDeviates ==
  \/ opt.type \in {5, 18} /\ Bytes(text.words)[N] = 4                         \* idb.c:706 the register of JALR
  \/ N = 1 /\ Bytes(text.words) = <<2>> /\ D!decode(text.words[1], RV64).aop \in {9, 42}  \* idb.c:672 no i.rv64
Followed ==
  Written /\ ~FollDeviates =>
    \A rv64 \in BOOLEAN :
      LET i == UpTo(Bytes(text.words), N - 1)
          before == Run(N - 1)
          after == Step(before, text.words[N], i)
          next == {IF f.reg = D!PC THEN Plus(At(i), Signed(f.off)) ELSE before.r[f.reg] : f \in D!foll(text.words[N], rv64)}
      IN CASE after.ctl.kind = "jump" -> after.ctl.to \in next
           [] after.ctl.kind = "branch" -> {after.ctl.to, At(i + Bytes(text.words)[N])} \subseteq next
           [] OTHER -> At(i + Bytes(text.words)[N]) \in next
(* A debugger that steps over a word finds the next one among the addresses *)
(* of riscvfoll, whatever its stack held in i.rv64 (libmach/idb.c:669-712). *)
FollowsRight == [][Followed]_linkVars

-----------------------------------------------------------------------------
(* the instructions *)

Nowhere == Adr("NONE", "NONE", NREG, 0, "none", 0)
RegAdr(r) == Adr("REG", "NONE", r, 0, "none", 0)
FRegAdr(r) == Adr("FREG", "NONE", r, 0, "none", 0)
Const(n) == Adr("CONST", "NONE", NREG, n, "none", 0)
Prog(as, from, reg, to) == [as |-> as, from |-> from, reg |-> reg, to |-> to, dist |-> 0, pc |-> 64]
Of(k, n) == IF k = "FREG" THEN FRegAdr(n) ELSE RegAdr(n)

Dests == {0, 2, 8, 15, 31}
Sources == {0, 1, 2, 9, 16}
Small == {-2048, -528, -512, -33, -32, -1, 0, 1, 4, 16, 31, 32, 496, 512, 1020, 1024, 2047}
Large == {-2147483647 - 1, -1048577, -2049, 2048, 4095, 4096, 131072, 305419896, 2147481599, 2147481600, 2147483647}
Offsets == {0, 2, 4, 124, 128, 248, 252, 256, 504, 512, 2047, -4}
FarOffsets == {2048, -2049, 305419896, 2147481599, 2147481600}

\* an address of memory: from a register, in the frame, or of static data
Memory ==
  {Adr("OREG", "NONE", r, n, "none", 0) : r \in {2, 8, 16}, n \in Offsets \cup FarOffsets}
  \cup {Adr("OREG", name, NREG, n, "none", 0) : name \in {"AUTO", "PARAM"}, n \in {-16, -8, 0, 232, 2024, 2048, 8192}}
  \cup {Adr("OREG", "EXTERN", NREG, n, "SDATA", v) : n \in {0, 4}, v \in {0, 8, 2048, 4092, 4096, 8188, 65536}}
Symbols ==
  {Adr("CONST", "EXTERN", NREG, n, t, v) : t \in {"STEXT", "SDATA"}, n \in {0, 4}, v \in {0, 8, 2048, 4092, 4096, 65536}}
  \cup {Adr("CONST", name, NREG, n, "none", 0) : name \in {"AUTO", "PARAM"}, n \in {-8, 0, 2024, 2048, 8192}}
Wide(as) == as \in {"ADDW", "SUBW", "SLLW", "SRLW", "SRAW", "MULW", "DIVW", "DIVUW", "REMW", "REMUW", "MOVWU"}

RegisterForms(as) ==
  \E s \in {0, 8, 9, 16}, r \in {0, 8, 16, NREG}, d \in {0, 8, 16} :
    p = Prog(as, RegAdr(s), r, RegAdr(d))
ImmediateForms(as) ==
  \E r \in {0, 2, 8, 16, NREG}, d \in {0, 2, 8, 16} : \E n \in Small \cup Large :
    /\ IF as \in {"SLL", "SRL", "SRA"} THEN n \in 0..(XLEN - 1) ELSE
       IF as \in {"SLLW", "SRLW", "SRAW"} THEN n \in 0..31
       ELSE Short(n) \/ as \in {"ADD", "AND", "OR", "XOR"}
    /\ p = Prog(as, Const(n), r, RegAdr(d))
MemoryForms ==
  \E o \in Stores \cup Loads : \E a \in Memory :
    LET store == o \in Stores
        regclass == IF store THEN o.a1 ELSE o.a3
        rs == IF store THEN {0, 9, NREG} ELSE {1, 9}
    IN /\ ~(~RV64 /\ o.as \in {"MOV", "MOVWU"})
       /\ o.type \in {6, 7}
       /\ a.name # "EXTERN" => ld.dat = 65536
       /\ \E r \in rs :
            LET x == IF regclass = "FREG" THEN FRegAdr(r % 32) ELSE IF r = NREG THEN Const(0) ELSE RegAdr(r)
            IN p = IF store THEN Prog(o.as, x, NREG, a) ELSE Prog(o.as, a, NREG, x)
MoveForms ==
  \E d \in Dests \cup {16} :
    \/ \E c \in {Const(n) : n \in Small \cup Large} \cup Symbols, as \in IF RV64 THEN {"MOV", "MOVW"} ELSE {"MOV"} :
         (c.name = "EXTERN" \/ ld.dat = 65536) /\ p = Prog(as, c, NREG, RegAdr(d))
    \/ \E s \in Sources \cup {8}, as \in {"MOV", "MOVB", "MOVBU", "MOVH", "MOVHU"} \cup (IF RV64 THEN {"MOVW", "MOVWU"} ELSE {}) :
         ld.dat = 65536 /\ p = Prog(as, RegAdr(s), NREG, RegAdr(d))
BranchForms ==
  \E n \in {-4096, -2048, -258, -256, -4, 0, 2, 254, 256, 2046, 2048, 4094} :
    \E q \in {Prog(o.as, RegAdr(s), r, Adr("BRANCH", "NONE", NREG, 0, "none", 0)) :
                o \in Branches, s \in {0, 1, 9}, r \in {0, 8, 16, NREG}}
             \cup {Prog(as, Nowhere, r, Adr("BRANCH", "NONE", to, 0, "none", 0)) :
                as \in {"JAL", "JMP"}, r \in {NREG}, to \in {NREG, 5}} :
      p = [q EXCEPT !.dist = n, !.pc = 8192]
JumpForms ==
  \/ \E n \in {-1048576, -2050, 65536, 1048574}, as \in {"JAL", "JMP"} :
       p = [Prog(as, Nowhere, NREG, Adr("BRANCH", "NONE", NREG, 0, "none", 0)) EXCEPT !.dist = n, !.pc = 2097152]
  \/ \E r \in {1, 8, 16}, n \in {0, 4, -2048, 2047}, as \in {"JAL", "JMP"} :
       p = Prog(as, Nowhere, NREG, Adr("OREG", "NONE", r, n, "none", 0))
SystemForms ==
  \/ \E n \in {0, 1, 258} : p = Prog("SYS", Nowhere, NREG, Const(n))
  \/ \E o \in System \ {Row("SYS", "NONE", "SCON", 24, 0, 4, "SYSTEM", 0, 0)}, r \in {0, 5, 31}, d \in Dests, n \in {1, 3072, 4095} :
       p = Prog(o.as, Adr("CTLREG", "NONE", NREG, n, "none", 0), r, RegAdr(d))
FloatingForms ==
  \E o \in Floating, s, d \in {0, 9, 31} :
    \E r \in IF o.a1 = "FREG" /\ o.type = 0 /\ o.as \notin {"MOVF", "MOVD"} THEN {8, NREG} ELSE {NREG} :
      /\ o.a3 = "REG" /\ o.type = 0 => r # NREG
      /\ p = Prog(o.as, Of(o.a1, s), r, Of(o.a3, d))

\* stands for the rest of the program
Past == Prog("NOP", Nowhere, NREG, Nowhere)
MCInit ==
  /\ ld \in [thechar : {"i", "j"}, compress : BOOLEAN, dat : {65536, 2147410000}]
  /\ opt = None /\ text = Unwritten
  /\ \/ \E as \in Operators : (RV64 \/ ~Wide(as)) /\ ld.dat = 65536 /\ \E o \in RegReg : o.as = as /\ RegisterForms(as)
     \/ \E as \in {o.as : o \in RegImm} : (RV64 \/ ~Wide(as)) /\ ld.dat = 65536 /\ ImmediateForms(as)
     \/ MemoryForms
     \/ MoveForms
     \/ ld.dat = 65536 /\ (BranchForms \/ JumpForms \/ SystemForms \/ FloatingForms)

\* on to whatever follows
Advance == text # Unwritten /\ text' = Unwritten /\ opt' = None /\ p' = Past /\ UNCHANGED ld
Done == p = Past /\ UNCHANGED linkVars
MCNext == (p # Past /\ oplook) \/ Asmout \/ Advance \/ Done
MCSpec == MCInit /\ [][MCNext]_linkVars
=============================================================================
