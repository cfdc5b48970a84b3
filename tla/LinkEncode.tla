----------------------------- MODULE LinkEncode -----------------------------
(***************************************************************************)
(* How the linker turns one instruction into words: the classes of its     *)
(* operands and the choice of a row of optab (cmd/il/span.c, optab.c), the *)
(* words of that row (asm.c, asmout) and the 2-byte forms (compress.c).    *)
(*                                                                         *)
(* Numbers that C shifts and masks are the sets of their bits, so that |   *)
(* is union, & intersection, and a field that runs into its neighbour      *)
(* shows.  C's longs of 32 bits are integers (Wrapped).                    *)
(***************************************************************************)
EXTENDS Integers, Sequences, FiniteSets

CONSTANTS InitText, Autosize          \* INITTEXT; the frame of the function

VARIABLES
  ld,      \* the link: thechar, compress (no -c) and INITDAT
  p,       \* the instruction: as, from, reg, to, dist (p->cond->pc - pc), pc
  opt,     \* the row oplook chose, or None
  text     \* what was written: words of 32 or 16 bits; and whether it was
           \* diagnosed

linkVars == <<ld, p, opt, text>>

RV64 == ld.thechar = "j"
NREG == 32
REGZERO == 0
REGLINK == 1
REGSP == 2
REGSB == 3
REGTMP == 4
BIG == 2048
ptrsize == IF RV64 THEN 8 ELSE 4

-----------------------------------------------------------------------------
(* bits *)

MaxLong == 2147483647
MinLong == -MaxLong - 1
Pow == [k \in 0..30 |-> 2^k]
Bits(n) == {k \in 0..30 : (n \div Pow[k]) % 2 = 1} \cup (IF n < 0 THEN {31} ELSE {})
Shl(s, k) == {b + k : b \in s}
Shr(s, k) == {b - k : b \in {c \in s : c >= k}}
R(r) == Bits(r) \cap 0..4                       \* r & 0x1F
Low12 == 0..11
High20 == 12..31

\* x + n as a long, n in -4096..4096
Wrapped(x, n) ==
  IF n > 0 /\ x > MaxLong - n THEN ((x - MaxLong) + n - 1) + MinLong ELSE x + n

-----------------------------------------------------------------------------
(* operands: type, name, register, offset; a symbol's type and value       *)

Adr(type, name, reg, off, symt, symv) ==
  [type |-> type, name |-> name, reg |-> reg, off |-> off, symt |-> symt, symv |-> symv]

Short(n) == n >= -BIG /\ n < BIG

Consize(n) ==
  IF n = 0 THEN "ZCON" ELSE IF n >= -2048 /\ n <= 2047 THEN "SCON"
  ELSE IF n % 4096 = 0 THEN "UCON" ELSE "LCON"

\* aclass with the instoffset and instoffx it leaves
Classed(class, off, x) == [class |-> class, off |-> off, x |-> x]
ShortOrLong(off, short, long) == Classed(IF Short(off) THEN short ELSE long, off, 0)
aclass(a) ==
  LET frame == Autosize + a.off + (IF a.name = "PARAM" THEN ptrsize ELSE 0)
      sym == a.symv + a.off
      class == [NONE |-> "NONE", REG |-> "REG", CTLREG |-> "CTLREG", FREG |-> "FREG",
                BRANCH |-> IF a.reg = NREG THEN "SBRA" ELSE "LBRA"]
  IN CASE a.type \in DOMAIN class -> Classed(class[a.type], 0, 0)
       [] a.type = "OREG" /\ a.name = "EXTERN" -> ShortOrLong(sym - BIG, "SEXT", "LEXT")
       [] a.type = "OREG" /\ a.name \in {"AUTO", "PARAM"} -> ShortOrLong(frame, "SAUTO", "LAUTO")
       [] a.type = "OREG" /\ a.name = "NONE" ->
            IF a.off = 0 THEN Classed("ZOREG", 0, 0) ELSE ShortOrLong(a.off, "SOREG", "LOREG")
       [] a.type = "CONST" /\ a.name = "NONE" ->
            IF a.reg \notin {NREG, REGZERO} THEN ShortOrLong(a.off, "SRCON", "LRCON")
            ELSE Classed(Consize(a.off), a.off, 0)
       [] a.type = "CONST" /\ a.name = "EXTERN" ->
            CASE a.symt = "STEXT" -> Classed("LECON", sym, InitText)
              [] a.symt = "SDATA" /\ Short(sym - BIG) /\ sym # BIG -> Classed("SECON", sym - BIG, 0)
              [] OTHER -> Classed("LECON", sym, ld.dat)
       [] a.type = "CONST" /\ a.name \in {"AUTO", "PARAM"} -> ShortOrLong(frame, "SACON", "LACON")

regoff(a) == aclass(a).off
classreg(a) ==
  LET class == aclass(a).class IN
  IF a.reg # NREG THEN a.reg
  ELSE IF class \in {"SEXT", "SECON", "LECON"} THEN REGSB
  ELSE IF class \in {"SAUTO", "LAUTO", "SACON", "LACON"} THEN REGSP
  ELSE NREG

\* cmp: the classes a row of class a takes
Takes(a) == {a} \cup
  CASE a = "LCON" -> {"ZCON", "SCON", "UCON"} [] a \in {"UCON", "SCON"} -> {"ZCON"}
    [] a = "LACON" -> {"SACON"} [] a = "LRCON" -> {"SRCON"} [] a = "LBRA" -> {"SBRA"}
    [] a = "LEXT" -> {"SEXT"} [] a = "LAUTO" -> {"SAUTO"} [] a = "ZREG" -> {"REG", "ZCON"}
    [] a = "LOREG" -> {"ZOREG", "SOREG", "SAUTO", "LAUTO"}
    [] a = "SOREG" -> {"ZOREG", "SAUTO", "SEXT"}
    [] OTHER -> {}

-----------------------------------------------------------------------------
(* optab: as, classes, asmout's case, compress.c's case, size, major       *)
(* opcode, func3, param                                                    *)

Row(as, a1, a3, type, ctype, size, op, func3, param) ==
  [as |-> as, a1 |-> a1, a3 |-> a3, type |-> type, ctype |-> ctype, size |-> size,
   op |-> op, func3 |-> func3, param |-> param]

\* major opcodes, as the enum numbers them
Major ==
  [LOAD |-> 0, LOAD_FP |-> 1, OP_IMM |-> 4, AUIPC |-> 5, OP_IMM_32 |-> 6, STORE |-> 8,
   STORE_FP |-> 9, OP |-> 12, LUI |-> 13, OP_32 |-> 14, OP_FP |-> 20, BRANCH |-> 24,
   JALR |-> 25, JAL |-> 27, SYSTEM |-> 28]

RegReg == {Row(t[1], "REG", "REG", 0, t[2], 4, t[3], t[4], t[5]) : t \in {
  <<"ADD", 1, "OP", 0, 0>>,  <<"SUB", 5, "OP", 0, 32>>,  <<"SLL", 0, "OP", 1, 0>>,
  <<"SLT", 0, "OP", 2, 0>>,  <<"SLTU", 0, "OP", 3, 0>>,  <<"XOR", 5, "OP", 4, 0>>,
  <<"SRL", 0, "OP", 5, 0>>,  <<"SRA", 0, "OP", 5, 32>>,  <<"OR", 5, "OP", 6, 0>>,
  <<"AND", 5, "OP", 7, 0>>,  <<"MUL", 0, "OP", 0, 1>>,   <<"MULH", 0, "OP", 1, 1>>,
  <<"MULHSU", 0, "OP", 2, 1>>, <<"MULHU", 0, "OP", 3, 1>>, <<"DIV", 0, "OP", 4, 1>>,
  <<"DIVU", 0, "OP", 5, 1>>, <<"REM", 0, "OP", 6, 1>>,   <<"REMU", 0, "OP", 7, 1>>,
  <<"ADDW", 22, "OP_32", 0, 0>>, <<"SUBW", 22, "OP_32", 0, 32>>, <<"SLLW", 0, "OP_32", 1, 0>>,
  <<"SRLW", 0, "OP_32", 5, 0>>,  <<"SRAW", 0, "OP_32", 5, 32>>,  <<"MULW", 0, "OP_32", 0, 1>>,
  <<"DIVW", 0, "OP_32", 4, 1>>,  <<"DIVUW", 0, "OP_32", 5, 1>>,  <<"REMW", 0, "OP_32", 6, 1>>,
  <<"REMUW", 0, "OP_32", 7, 1>>, <<"MOV", 2, "OP", 0, 0>>}}

RegImm == {Row(t[1], "SCON", "REG", t[2], t[3], 4, t[4], t[5], t[6]) : t \in {
  <<"SLL", 1, 8, "OP_IMM", 1, 0>>,  <<"SRL", 1, 9, "OP_IMM", 5, 0>>, <<"SRA", 1, 9, "OP_IMM", 5, 32>>,
  <<"ADD", 2, 10, "OP_IMM", 0, 0>>, <<"SLT", 2, 0, "OP_IMM", 2, 0>>, <<"SLTU", 2, 0, "OP_IMM", 3, 0>>,
  <<"XOR", 2, 0, "OP_IMM", 4, 0>>,  <<"OR", 2, 0, "OP_IMM", 6, 0>>,  <<"AND", 2, 13, "OP_IMM", 7, 0>>,
  <<"ADDW", 2, 23, "OP_IMM_32", 0, 0>>, <<"SLLW", 1, 0, "OP_IMM_32", 1, 0>>,
  <<"SRLW", 1, 0, "OP_IMM_32", 5, 0>>,  <<"SRAW", 1, 0, "OP_IMM_32", 5, 32>>}}

Branches == {Row(t[1], "REG", "SBRA", 3, t[2], 4, "BRANCH", t[3], 0) : t \in {
  <<"BEQ", 14, 0>>, <<"BNE", 15, 1>>, <<"BLT", 0, 4>>, <<"BGE", 0, 5>>, <<"BLTU", 0, 6>>, <<"BGEU", 0, 7>>}}

Jumps == {
  Row("JAL", "NONE", "SBRA", 4, 11, 4, "JAL", 0, REGLINK),
  Row("JMP", "NONE", "SBRA", 4, 12, 4, "JAL", 0, REGZERO),
  Row("JAL", "NONE", "LBRA", 18, 0, 8, "JALR", 0, REGLINK),
  Row("JMP", "NONE", "LBRA", 18, 0, 8, "JALR", 0, REGZERO),
  Row("JAL", "NONE", "SOREG", 5, 3, 4, "JALR", 0, REGLINK),
  Row("JMP", "NONE", "SOREG", 5, 4, 4, "JALR", 0, REGZERO)}

\* each store and load: with a short offset, to large data, with a long offset
Forms(as, reg, ctype, op, func3, store) ==
  {IF store THEN Row(as, reg, f[1], f[2], f[4], f[5], op, func3, 0)
   ELSE Row(as, f[1], reg, f[3], f[4], f[5], op, func3, 0) :
     f \in {<<"SOREG", 6, 7, ctype, 4>>, <<"LEXT", 12, 13, 0, 8>>, <<"LOREG", 15, 16, 0, 12>>}}
Stores == UNION {Forms(t[1], t[2], t[3], t[4], t[5], TRUE) : t \in {
  <<"MOVB", "ZREG", 0, "STORE", 0>>, <<"MOVBU", "ZREG", 0, "STORE", 0>>, <<"MOVH", "ZREG", 0, "STORE", 1>>,
  <<"MOVW", "ZREG", 19, "STORE", 2>>, <<"MOV", "ZREG", 25, "STORE", 3>>,
  <<"MOVF", "FREG", 20, "STORE_FP", 2>>, <<"MOVD", "FREG", 21, "STORE_FP", 3>>}}
Loads == UNION {Forms(t[1], t[2], t[3], t[4], t[5], FALSE) : t \in {
  <<"MOVB", "REG", 0, "LOAD", 0>>, <<"MOVH", "REG", 0, "LOAD", 1>>, <<"MOVW", "REG", 16, "LOAD", 2>>,
  <<"MOV", "REG", 24, "LOAD", 3>>, <<"MOVBU", "REG", 0, "LOAD", 4>>, <<"MOVHU", "REG", 0, "LOAD", 5>>,
  <<"MOVWU", "REG", 0, "LOAD", 6>>, <<"MOVF", "FREG", 17, "LOAD_FP", 2>>, <<"MOVD", "FREG", 18, "LOAD_FP", 3>>}}

Constants ==
  {Row("MOV", "UCON", "REG", 8, 7, 4, "LUI", 0, 0)}
  \cup {Row(as, f[1], "REG", f[2], f[3], f[4], "OP_IMM", 0, 0) : as \in {"MOVW", "MOV"}, f \in {
        <<"SCON", 11, 6, 4>>, <<"SECON", 11, 0, 4>>, <<"SACON", 11, 0, 4>>,
        <<"LCON", 9, 0, 8>>, <<"LECON", 20, 0, 8>>, <<"LACON", 14, 0, 12>>}}
  \cup {Row(t[1], "LCON", "REG", 14, 0, 12, "OP_IMM", t[2], 0) : t \in {
        <<"ADD", 0>>, <<"AND", 7>>, <<"OR", 6>>, <<"XOR", 4>>}}

Extensions == {
  Row("MOVW", "REG", "REG", 19, 23, 4, "OP_IMM_32", 0, 0),
  Row("MOVBU", "ZREG", "REG", 10, 0, 4, "OP_IMM", 7, 255),
  Row("MOVHU", "ZREG", "REG", 10, 0, 8, "OP_IMM", 5, 16),
  Row("MOVWU", "ZREG", "REG", 10, 0, 8, "OP_IMM", 5, 0),
  Row("MOVB", "ZREG", "REG", 10, 0, 8, "OP_IMM", 5, 24 + 32 * 32),
  Row("MOVH", "ZREG", "REG", 10, 0, 8, "OP_IMM", 5, 16 + 32 * 32)}

System ==
  {Row("SYS", "NONE", "SCON", 24, 0, 4, "SYSTEM", 0, 0)} \cup
  {Row(t[1], "CTLREG", "REG", 22, 0, 4, "SYSTEM", t[2], 0) : t \in {
     <<"CSRRW", 1>>, <<"CSRRS", 2>>, <<"CSRRC", 3>>, <<"CSRRWI", 5>>, <<"CSRRSI", 6>>, <<"CSRRCI", 7>>}}

Floating ==
  {Row(t[1], "FREG", "FREG", 0, 0, 4, "OP_FP", 7, t[2]) : t \in {
     <<"ADDF", 0>>, <<"SUBF", 4>>, <<"MULF", 8>>, <<"DIVF", 12>>,
     <<"ADDD", 1>>, <<"SUBD", 5>>, <<"MULD", 9>>, <<"DIVD", 13>>}}
  \cup {Row(t[1], "FREG", "REG", 0, 0, 4, "OP_FP", t[2], t[3]) : t \in {
     <<"CMPEQF", 2, 80>>, <<"CMPLEF", 0, 80>>, <<"CMPLTF", 1, 80>>,
     <<"CMPEQD", 2, 81>>, <<"CMPLED", 0, 81>>, <<"CMPLTD", 1, 81>>}}
  \cup {Row("MOVF", "FREG", "FREG", 0, 0, 4, "OP_FP", 0, 16),
        Row("MOVD", "FREG", "FREG", 0, 0, 4, "OP_FP", 0, 17)}
  \cup {Row(t[1], t[2], t[3], 17, 0, 4, "OP_FP", t[4], t[5]) : t \in {
     <<"MOVFD", "FREG", "FREG", 0, 33>>, <<"MOVDF", "FREG", "FREG", 1, 32>>,
     <<"MOVFW", "FREG", "REG", 0, 96>>,  <<"MOVDW", "FREG", "REG", 0, 97>>,
     <<"MOVWF", "REG", "FREG", 0, 104>>, <<"MOVUF", "REG", "FREG", 1, 104>>,
     <<"MOVWD", "REG", "FREG", 0, 105>>, <<"MOVUD", "REG", "FREG", 1, 105>>,
     <<"MOVFV", "FREG", "REG", 2, 96>>,  <<"MOVDV", "FREG", "REG", 2, 97>>,
     <<"MOVVF", "REG", "FREG", 2, 104>>, <<"MOVUVF", "REG", "FREG", 3, 104>>,
     <<"MOVVD", "REG", "FREG", 2, 105>>, <<"MOVUVD", "REG", "FREG", 3, 105>>}}

optab == RegReg \cup RegImm \cup Branches \cup Jumps \cup Stores \cup Loads \cup Constants
         \cup Extensions \cup System \cup Floating

\* the order of the classes, in which ocmp sorts the rows of an opcode
ClassOrder ==
  <<"NONE", "REG", "CTLREG", "FREG", "ZREG", "ZCON", "SCON", "UCON", "LCON", "SACON", "SECON", "LACON",
    "LECON", "SRCON", "LRCON", "SBRA", "LBRA", "SAUTO", "ZOREG", "SOREG", "LOREG", "LAUTO", "SEXT", "LEXT">>
Rank(class) == CHOOSE i \in DOMAIN ClassOrder : ClassOrder[i] = class
Before(o, u) == Rank(o.a1) < Rank(u.a1) \/ (o.a1 = u.a1 /\ Rank(o.a3) <= Rank(u.a3))

Rows == [as \in {o.as : o \in optab} |-> {o \in optab : o.as = as}]
Fitting(q) ==
  LET a1 == aclass(q.from).class  a3 == aclass(q.to).class
  IN {o \in Rows[q.as] : a1 \in Takes(o.a1) /\ a3 \in Takes(o.a3)}

-----------------------------------------------------------------------------
(* the words *)

OPX(op) == {0, 1} \cup Shl(Bits(Major[op]), 2)
OPF(o) == OPX(o.op) \cup Shl(Bits(o.func3), 12)
Regs(rs1, rs2, rd) == Shl(Bits(rd), 7) \cup Shl(R(rs1), 15) \cup Shl(R(rs2), 20)

OP_R(o, rs1, rs2, rd) == OPF(o) \cup Regs(rs1, rs2, rd) \cup Shl(Bits(o.param), 25)
OP_RF(o, rs1, rs2, rd, rm) == OPX(o.op) \cup Shl(Bits(rm), 12) \cup Regs(rs1, rs2, rd) \cup Shl(Bits(o.param), 25)
OP_RO(o, rs1, rs2, rd) == OPX("OP") \cup Shl(Bits(o.func3), 12) \cup Regs(rs1, rs2, rd)
OP_ADD(rs1, rs2, rd) == OPX("OP") \cup Regs(rs1, rs2, rd)
OP_I(o, rs1, rd, v) == OPF(o) \cup Regs(rs1, 0, rd) \cup Shl(Bits(v), 20)
OP_FI(o, func3, rs1, rd, v) == OPX(o.op) \cup Shl(Bits(func3), 12) \cup Regs(rs1, 0, rd) \cup Shl(Bits(v), 20)
OP_S(o, rs1, rs2, v) ==
  OPF(o) \cup Shl(Bits(v) \cap 0..4, 7) \cup Regs(rs1, rs2, 0) \cup Shl(Shr(Bits(v), 5), 25)
OP_B(o, rs1, rs2, v) ==
  LET b == Bits(v)
  IN OPF(o) \cup Regs(rs1, rs2, 0) \cup Shr(b \cap {11}, 4) \cup Shl(b \cap 1..4, 7)
     \cup Shl(b \cap 5..10, 20) \cup Shl(b \cap {12}, 19)
OP_U(rd, v) == OPX("LUI") \cup Shl(Bits(rd), 7) \cup (Bits(v) \cap High20)
OP_UP(rd, v) == OPX("AUIPC") \cup Shl(Bits(rd), 7) \cup (Bits(v) \cap High20)
OP_J(o, rd, v) ==
  LET b == Bits(v)
  IN OPX(o.op) \cup Shl(Bits(rd), 7) \cup (b \cap 12..19) \cup Shl(b \cap {11}, 9)
     \cup Shl(b \cap 1..10, 20) \cup Shl(b \cap {20}, 11)

\* asmout's r
Reg(q) ==
  IF q.reg # NREG THEN q.reg
  ELSE IF q.as \in {"MOVF", "MOVD"} /\ q.from.type = "FREG" /\ q.to.type = "FREG" THEN q.from.reg
  ELSE IF q.as \in {"MOV", "JMP"} THEN REGZERO
  ELSE IF q.as = "JAL" THEN REGLINK ELSE q.to.reg

-----------------------------------------------------------------------------
(* compress.c: the halfword, or {} *)

COMPREG(r) == r \in 8..15
R3(r) == Bits(r) \cap 0..2
Op(n) == Bits(n)
COP_CR(op, rs, rd) == op \cup Shl(Bits(rs), 2) \cup Shl(Bits(rd), 7)
COP_CI(op, rd, i) == op \cup Shl(Bits(rd), 7) \cup Shl(i \cap {5}, 7) \cup Shl(i \cap 0..4, 2)
COP_CB(op, rs, i) == op \cup Shl(rs, 7) \cup Shl(i \cap 0..4, 2) \cup Shl(i \cap 5..7, 5)
COP_CL(op, rs, rd, i) == op \cup Shl(rs, 7) \cup Shl(rd, 2) \cup Shl(i \cap 0..2, 4) \cup Shl(i \cap 3..5, 7)
COP_CSS(op, rs, i) == op \cup Shl(rs, 2) \cup Shl(i \cap 0..5, 7)
immbits(v, permute) == {i - 1 : i \in {j \in DOMAIN permute : permute[j] \in Bits(v)}}

asmcjmp(op, q) ==
  IF q.dist >= -2048 /\ q.dist < 2048
  THEN op \cup Shl(immbits(q.dist, <<5, 1, 2, 3, 7, 6, 10, 8, 9, 4, 11>>), 2) ELSE {}

asmcbz(op, q) ==
  LET zero == q.reg \in {REGZERO, NREG}
      r == IF zero THEN q.from.reg ELSE q.reg
  IN IF (zero \/ q.from.reg = REGZERO) /\ COMPREG(r) /\ q.dist >= -256 /\ q.dist < 256
     THEN COP_CB(op, R3(r), immbits(q.dist, <<5, 1, 2, 6, 7, 3, 4, 8>>)) ELSE {}

\* asmcload and asmcstore: a is the address, reg the register moved
AnyOffset(v, len, max) == v >= 0 /\ v < max          \* a mutant of Scaled
Scaled(v, len, max) == v % len = 0 /\ v >= 0 /\ v < max
asmcmem(op, a, reg, len, maxoff, store) ==
  LET v == regoff(a)  b == Bits(v)  r == classreg(a)
  IN IF COMPREG(r) /\ COMPREG(reg)
     THEN IF Scaled(v, len, maxoff)
          THEN COP_CL(op, R3(r), R3(reg), b \cup (Shr(b, 5) \ {0})) ELSE {}
     ELSE IF r = REGSP /\ Scaled(v, len, 2 * maxoff)
          THEN IF store THEN COP_CSS(op \cup {1}, R(reg), b \cup Shr(b, 6))
               ELSE COP_CI(op \cup {1}, reg, b \cup Shr(b, 6))
          ELSE {}

Six(v) == v >= -32 /\ v < 32
When(c, w) == IF c THEN w ELSE {}
Shiftable(v) == v > 0 /\ v < 64 /\ (v >= 32 => RV64)

\* case 10: C.ADDI, C.ADDI16SP, C.ADDI4SPN, C.NOP
AddForms(v, r, d) ==
  IF r = d /\ r # REGZERO /\ v # 0 /\ Six(v) THEN COP_CI(Op(1), d, Bits(v))
  ELSE IF r = d /\ r = REGSP /\ v # 0 /\ v % 16 = 0 /\ v >= -512 /\ v < 512
  THEN COP_CI(Op(24577), REGSP, immbits(v, <<5, 7, 8, 6, 4, 9>>))
  ELSE IF r = REGSP /\ COMPREG(d) /\ v % 4 = 0 /\ v > 0 /\ v < 1024
  THEN Shl(R3(d), 2) \cup Shl(immbits(v, <<3, 2, 6, 7, 8, 9, 4, 5>>), 5)
  ELSE When(r = d /\ r = REGZERO /\ v = 0, Op(1))

\* cases 5 and 22: two operands in the eight registers
TwoOperands(o, q, r, op) ==
  LET f == CASE o.as \in {"SUB", "SUBW"} -> 0 [] o.as \in {"XOR", "ADDW"} -> 1 [] o.as = "OR" -> 2 [] o.as = "AND" -> 3
  IN When(r = q.to.reg /\ COMPREG(q.from.reg) /\ COMPREG(q.to.reg),
          COP_CL(Op(op) \cup Shl(Bits(f), 5), R3(q.to.reg), R3(q.from.reg), {}))

asmcompressed(o, q, r) ==
  LET v == q.from.off  d == q.to.reg  s == q.from.reg
      high == v \div 4096
      word == IF q.as = "MOVW" THEN 0 ELSE v          \* case 23
      base == IF q.as = "MOVW" THEN s ELSE r
  IN CASE o.ctype = 1 -> When(s # REGZERO /\ d # REGZERO /\ r = d, COP_CR(Op(36866), s, r))
       [] o.ctype = 2 -> When(d # REGZERO, IF s # REGZERO THEN COP_CR(Op(32770), s, d) ELSE COP_CI(Op(16385), d, {}))
       [] o.ctype = 3 -> When(r = REGLINK /\ d # REGZERO /\ q.to.off = 0, COP_CR(Op(36866), 0, d))
       [] o.ctype = 4 -> When(d # REGZERO /\ q.to.off = 0, COP_CR(Op(32770), 0, d))
       [] o.ctype = 5 -> TwoOperands(o, q, r, 35841)
       [] o.ctype = 6 -> When(d # REGZERO /\ Six(v), COP_CI(Op(16385), d, Bits(v)))
       [] o.ctype = 7 -> When(v % 4096 = 0 /\ d \notin {REGZERO, REGSP} /\ Six(high), COP_CI(Op(24577), d, Bits(high)))
       [] o.ctype = 8 -> When(r = d /\ r # REGZERO /\ Shiftable(v), COP_CI(Op(2), d, Bits(v)))
       [] o.ctype = 9 -> When(r = d /\ COMPREG(r) /\ Shiftable(v),
                              COP_CI(Op(IF o.as = "SRA" THEN 33793 ELSE 32769), r - 8, Bits(v)))
       [] o.ctype = 10 -> AddForms(v, r, d)
       [] o.ctype = 11 -> When(~RV64 /\ r = REGLINK, asmcjmp(Op(8193), q))
       [] o.ctype = 12 -> asmcjmp(Op(40961), q)
       [] o.ctype = 13 -> When(r = d /\ COMPREG(r) /\ Six(v), COP_CI(Op(34817), r - 8, Bits(v)))
       [] o.ctype = 14 -> asmcbz(Op(49153), q)
       [] o.ctype = 15 -> asmcbz(Op(57345), q)
       [] o.ctype = 16 -> asmcmem(Op(16384), q.from, d, 4, 128, FALSE)
       [] o.ctype = 17 -> When(~RV64, asmcmem(Op(24576), q.from, d, 4, 128, FALSE))
       [] o.ctype = 18 -> asmcmem(Op(8192), q.from, d, 8, 256, FALSE)
       [] o.ctype = 19 -> asmcmem(Op(49152), q.to, s, 4, 128, TRUE)
       [] o.ctype = 20 -> When(~RV64, asmcmem(Op(57344), q.to, s, 4, 128, TRUE))
       [] o.ctype = 21 -> asmcmem(Op(40960), q.to, s, 8, 256, TRUE)
       [] o.ctype = 22 -> When(RV64, TwoOperands(o, q, r, 39937))
       [] o.ctype = 23 -> When(RV64 /\ base = d /\ base # REGZERO /\ Six(word), COP_CI(Op(8193), d, Bits(word)))
       [] o.ctype = 24 -> When(RV64, asmcmem(Op(24576), q.from, d, 8, 256, FALSE))
       [] o.ctype = 25 -> When(RV64, asmcmem(Op(57344), q.to, s, 8, 256, TRUE))
       [] OTHER -> {}

-----------------------------------------------------------------------------
(* asmout: the words, and whether diag was called *)

Out(words, bad) == [words |-> words, bad |-> bad]
Rounded(v) == IF 11 \in Bits(v) THEN Wrapped(v, 4096) ELSE v
Field(v) == Bits(v) \cap Low12
AsImm(o, rs1, rd, v) == OPF(o) \cup Regs(rs1, 0, rd) \cup Shl(Field(v), 20)
AsImmF(o, f, rs1, rd, v) == OPX(o.op) \cup Shl(Bits(f), 12) \cup Regs(rs1, 0, rd) \cup Shl(Field(v), 20)
AsStore(o, rs1, rs2, v) ==
  OPF(o) \cup Shl(Field(v) \cap 0..4, 7) \cup Regs(rs1, rs2, 0) \cup Shl(Shr(Field(v), 5), 25)

\* an address on riscv64 is measured from pc, with 12 bits to spare at the top
Address(a) == IF RV64 THEN a - InitText - p.pc ELSE a
TooFar(v) == RV64 /\ v >= MaxLong - 2047
Upper(rd, v) == IF RV64 THEN OP_UP(rd, Rounded(v)) ELSE OP_U(rd, Rounded(v))
Edge(v) == RV64 /\ v >= MaxLong - 2047          \* v >= 0x7ffff800

\* the cases of one instruction, or two (10)
OneWord(o, q, r) ==
  LET s == q.from.reg  d == q.to.reg
      from == regoff(q.from)  to == regoff(q.to)
  IN CASE o.type = 0 -> Out(<<OP_R(o, r, s, d)>>, FALSE)
       [] o.type = 1 ->
            LET v == Bits(q.from.off) \cap (IF RV64 THEN 0..5 ELSE 0..4)
            IN Out(<<OPF(o) \cup Regs(r, 0, d) \cup Shl(v \cup Shl(Bits(o.param), 5), 20)>>, FALSE)
       [] o.type = 2 -> Out(<<OP_I(o, r, d, q.from.off)>>, ~Short(q.from.off))
       [] o.type = 3 -> Out(<<OP_B(o, IF r = NREG THEN REGZERO ELSE r, s, q.dist)>>,
                            q.dist < -4096 \/ q.dist >= 4096)
       [] o.type = 4 -> Out(<<OP_J(o, r, q.dist)>>, q.dist < -1048576 \/ q.dist >= 1048576)
       [] o.type = 5 -> Out(<<OP_I(o, classreg(q.to), r, to)>>, ~Short(to))
       [] o.type = 6 -> Out(<<OP_S(o, classreg(q.to), s, to)>>, ~Short(to))
       [] o.type \in {7, 11} -> Out(<<OP_I(o, classreg(q.from), d, from)>>, ~Short(from))
       [] o.type = 8 -> Out(<<OP_U(d, q.from.off)>>, FALSE)
       [] o.type = 10 ->
            LET v == o.param + (IF RV64 THEN 32 ELSE 0)
            IN Out(IF q.as = "MOVBU" THEN <<OP_I(o, s, d, o.param)>>
                   ELSE <<OPX(o.op) \cup {12} \cup Regs(s, 0, d) \cup Shl(Bits(v) \cap 0..5, 20), OP_I(o, d, d, v)>>, FALSE)
       [] o.type = 17 -> Out(<<OP_RF(o, s, o.func3, d, IF o.a3 = "REG" THEN 1 ELSE 7)>>, FALSE)
       [] o.type = 19 -> Out(<<OP_I(o, s, d, 0)>>, FALSE)
       [] o.type = 22 -> Out(<<OPF(o) \cup Regs(q.reg, 0, d) \cup Shl(Field(q.from.off), 20)>>, FALSE)
       [] o.type = 24 -> Out(<<OPF(o) \cup Shl(Field(q.to.off), 20)>>, FALSE)

\* the cases that build a constant or an address first
Built(o, q, r) ==
  LET s == q.from.reg  d == q.to.reg
      from == regoff(q.from)  to == regoff(q.to)
      data(off) == Address(off + ld.dat + BIG)
  IN CASE o.type = 9 ->
            Out(IF Edge(from) THEN <<OP_U(d, -from), AsImmF(o, 4, d, d, from)>>
                ELSE <<OP_U(d, Rounded(from)), AsImm(o, d, d, from)>>, FALSE)
       [] o.type = 12 ->
            Out(<<Upper(REGTMP, data(to)), AsStore(o, REGTMP, s, Rounded(data(to)))>>, TooFar(data(to)))
       [] o.type = 13 ->
            Out(<<Upper(REGTMP, data(from)), AsImm(o, REGTMP, d, Rounded(data(from)))>>, TooFar(data(from)))
       [] o.type = 14 ->
            LET b == IF q.as \in {"MOVW", "MOV"} THEN classreg(q.from) ELSE r
            IN Out((IF Edge(from) THEN <<OP_U(d, -from), AsImmF(o, 4, d, d, from)>>
                    ELSE <<OP_U(REGTMP, Rounded(from)), AsImmF(o, 0, REGTMP, REGTMP, from)>>)
                   \o <<OP_RO(o, b, REGTMP, d)>>, FALSE)
       [] o.type = 15 ->
            Out(<<OP_U(REGTMP, Rounded(to)), OP_ADD(classreg(q.to), REGTMP, REGTMP), AsStore(o, REGTMP, s, to)>>, FALSE)
       [] o.type = 16 ->
            Out(<<OP_U(REGTMP, Rounded(from)), OP_ADD(classreg(q.from), REGTMP, REGTMP), AsImm(o, REGTMP, d, from)>>, FALSE)
       [] o.type = 18 ->
            LET v == InitText + p.pc + q.dist
            IN Out(<<IF RV64 THEN OP_UP(REGTMP, Rounded(v)) ELSE OP_U(REGTMP, Rounded(v)),
                     AsImm(o, REGTMP, r, v)>>, TooFar(v))
       [] o.type = 20 ->
            LET v == Address(from + aclass(q.from).x)
            IN Out(<<Upper(d, v), AsImm(o, d, d, Rounded(v))>>, TooFar(v))

asmout(o, q) ==
  LET r == Reg(q)
      half == asmcompressed(o, q, r)
  IN IF ld.compress /\ o.ctype # 0 /\ half # {} THEN Out(<<half \cap 0..15>>, FALSE)
     ELSE IF o.type \in {9, 12, 13, 14, 15, 16, 18, 20} THEN Built(o, q, r) ELSE OneWord(o, q, r)

-----------------------------------------------------------------------------
None == [as |-> "none"]
Unwritten == [words |-> <<>>, bad |-> FALSE]

oplook ==
  /\ opt = None
  /\ LET fit == Fitting(p)
     IN /\ fit # {}                     \* "illegal combination" otherwise
        /\ opt' = CHOOSE o \in fit : \A u \in fit : Before(o, u)
  /\ UNCHANGED <<ld, p, text>>

Asmout ==
  /\ opt # None /\ text = Unwritten
  /\ text' = [asmout(opt, p) EXCEPT !.words = [i \in DOMAIN @ |-> @[i] \cap 0..31]]
  /\ UNCHANGED <<ld, p, opt>>
=============================================================================
