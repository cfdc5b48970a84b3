----------------------------- MODULE MachDecode -----------------------------
(***************************************************************************)
(* The disassembler the debuggers use (libmach/idb.c): decoding a word of  *)
(* 16 or 32 bits, the instruction it prints, and the addresses at which    *)
(* execution may follow (riscvfoll).  A word is the set of its bits.  An   *)
(* instruction is a mnemonic and the operands its format shows.            *)
(***************************************************************************)
EXTENDS Integers, Sequences, FiniteSetsExt

\* the number written with the bits of s, fewer than 31 of them
Number(s) == MapThenSumSet(LAMBDA b : 2^b, s)

-----------------------------------------------------------------------------
(* decode *)

FIELD(w, hi, lo, off) == {b - lo + off : b \in w \cap lo..hi}
SFIELD(w, lo, off) ==
  {b - lo + off : b \in w \cap lo..31} \cup (IF 31 \in w THEN (31 - lo + off)..31 ELSE {})
Part(w, hi, lo) == Number(FIELD(w, hi, lo, 0))

MajorNames ==
  <<"LOAD", "LOAD_FP", "", "MISC_MEM", "OP_IMM", "AUIPC", "OP_IMM_32", "", "STORE", "STORE_FP", "", "AMO",
    "OP", "LUI", "OP_32", "", "", "", "", "", "OP_FP", "", "", "", "BRANCH", "JALR", "", "JAL", "SYSTEM",
    "", "", "">>

Immediate(w, op, func3) ==
  CASE op \in {"STORE", "STORE_FP"} -> SFIELD(w, 25, 5) \cup FIELD(w, 11, 7, 0)
    [] op = "BRANCH" -> SFIELD(w, 31, 12) \cup FIELD(w, 7, 7, 11) \cup FIELD(w, 30, 25, 5) \cup FIELD(w, 11, 8, 1)
    [] op \in {"OP_IMM", "OP_IMM_32"} /\ func3 \in {1, 5} -> FIELD(w, 25, 20, 0)
    [] op \in {"OP_IMM", "OP_IMM_32", "LOAD", "LOAD_FP", "MISC_MEM", "JALR", "SYSTEM"} -> SFIELD(w, 20, 0)
    [] op \in {"AUIPC", "LUI"} -> SFIELD(w, 12, 12)
    [] op = "JAL" -> SFIELD(w, 31, 20) \cup FIELD(w, 19, 12, 12) \cup FIELD(w, 20, 20, 11) \cup FIELD(w, 30, 21, 1)
    [] OTHER -> {}

\* the compressed forms, by aop: mnemonic, operands shown, the shift of
\* immshuffle, whether it is arithmetic, and the bits of the immediate in the
\* order they are shifted in
CI6 == <<2, 3, 4, 5, 6, 12>>
COffset == <<3, 4, 5, 11, 2, 7, 6, 9, 10, 8, 12>>
BOffset == <<3, 4, 10, 11, 2, 5, 6, 12>>
Words == <<6, 10, 11, 12, 5>>
Doubles == <<10, 11, 12, 5, 6>>
NoImm == <<>>
C(name, fmt, shift, arith, bits) == [name |-> name, fmt |-> fmt, shift |-> shift, arith |-> arith, bits |-> bits]
Unknown == C("? ", <<>>, 0, FALSE, NoImm)
RegsOnly(name, fmt) == C(name, fmt, 0, FALSE, NoImm)
rv32compressed == <<
  C("ADDI4SPN", <<"i", "d">>, 22, FALSE, <<6, 5, 11, 12, 7, 8, 9, 10>>),
  C("FLD", <<"a", "fd">>, 24, FALSE, Doubles), C("LW", <<"a", "d">>, 25, FALSE, Words),
  C("FLW", <<"a", "fd">>, 25, FALSE, Words),   Unknown,
  C("FSD", <<"f2", "a">>, 24, FALSE, Doubles), C("SW", <<"2", "a">>, 25, FALSE, Words),
  C("FSW", <<"f2", "a">>, 25, FALSE, Words),
  C("ADDI", <<"i", "d">>, 26, TRUE, CI6), C("JAL", <<"p">>, 20, TRUE, COffset),
  C("LI", <<"i", "d">>, 26, TRUE, CI6),   C("LUI", <<"i", "d">>, 14, TRUE, CI6), Unknown,
  C("J", <<"p">>, 20, TRUE, COffset),     C("BEQZ", <<"s", "p">>, 23, TRUE, BOffset),
  C("BNEZ", <<"s", "p">>, 23, TRUE, BOffset),
  C("SLLI", <<"i", "d">>, 26, FALSE, CI6), C("FLDSP", <<"i", "fd">>, 23, FALSE, <<5, 6, 12, 2, 3, 4>>),
  C("LWSP", <<"i", "d">>, 24, FALSE, <<4, 5, 6, 12, 2, 3>>),
  C("FLWSP", <<"i", "fd">>, 24, FALSE, <<4, 5, 6, 12, 2, 3>>), Unknown,
  C("FSDSP", <<"f2", "i">>, 23, FALSE, <<10, 11, 12, 7, 8, 9>>),
  C("SWSP", <<"2", "i">>, 24, FALSE, <<9, 10, 11, 12, 7, 8>>),
  C("FSWSP", <<"f2", "i">>, 24, FALSE, <<9, 10, 11, 12, 7, 8>>),
  C("SRLI", <<"i", "d">>, 26, FALSE, CI6), C("SRAI", <<"i", "d">>, 26, FALSE, CI6),
  C("ANDI", <<"i", "d">>, 26, TRUE, CI6),
  RegsOnly("SUB", <<"2", "d">>), RegsOnly("XOR", <<"2", "d">>), RegsOnly("OR", <<"2", "d">>),
  RegsOnly("AND", <<"2", "d">>), RegsOnly("SUBW", <<"2", "d">>), RegsOnly("ADDW", <<"2", "d">>),
  Unknown, Unknown,
  RegsOnly("JR", <<"s">>), RegsOnly("MV", <<"2", "d">>), RegsOnly("JALR", <<"s">>), RegsOnly("ADD", <<"2", "d">>),
  C("ADDI16SP", <<"i">>, 22, TRUE, <<6, 2, 5, 3, 4, 12>>),
  C("LD", <<"a", "d">>, 24, FALSE, Doubles), C("SD", <<"2", "a">>, 24, FALSE, Doubles),
  C("ADDIW", <<"i", "d">>, 26, TRUE, CI6),   C("LDSP", <<"i", "d">>, 23, FALSE, <<5, 6, 12, 2, 3>>),
  C("SDSP", <<"2", "i">>, 23, FALSE, <<10, 11, 12, 7, 8, 9>>),
  RegsOnly("EBREAK", <<>>)>>

immshuffle(w, c) ==
  LET n == Len(c.bits)
  IN {31 - n + j - c.shift : j \in {k \in 1..n : c.bits[k] \in w}}
     \cup (IF c.arith /\ c.bits[n] \in w THEN (31 - c.shift)..31 ELSE {})

\* aop, from the two low bits and the bits of the function
Aop(w, rv64) ==
  LET op == Part(w, 1, 0)  func3 == Part(w, 15, 13)  rd == Part(w, 11, 7)
      mid == 24 + Part(w, 11, 10)
      plain == IF func3 # 4 \/ op = 0 THEN op * 8 + func3
               ELSE IF op = 1
               THEN IF mid = 27 THEN mid + 4 * Part(w, 12, 12) + Part(w, 6, 5) ELSE mid
               ELSE LET a == 35 + 2 * Part(w, 12, 12) + (IF Part(w, 6, 2) # 0 THEN 1 ELSE 0)
                    IN IF a = 38 /\ rd = 0 THEN 45 ELSE a
      alternate == [k \in {3, 7, 9, 19, 23} |->
                      CASE k = 3 -> 40 [] k = 7 -> 41 [] k = 9 -> 42 [] k = 19 -> 43 [] k = 23 -> 44]
      a == IF plain = 11 /\ rd = 2 THEN 39 ELSE plain
  IN IF rv64 /\ a \in DOMAIN alternate THEN alternate[a] ELSE a

decompress(w, rv64) ==
  LET op == Part(w, 1, 0)
      aop == Aop(w, rv64)
      short == 8 + Part(w, 9, 7)
      rd == CASE op = 0 -> 8 + Part(w, 4, 2)
              [] op = 1 -> IF 15 \in w THEN short ELSE Part(w, 11, 7)
              [] op = 2 -> Part(w, 11, 7)
      c == rv32compressed[aop + 1]
  IN [n |-> 2, op |-> "C", aop |-> aop, name |-> c.name, fmt |-> c.fmt, func3 |-> 0, func7 |-> 0, rd |-> rd,
      rs1 |-> IF op = 0 THEN short ELSE rd,
      rs2 |-> CASE op = 0 -> rd [] op = 1 -> 8 + Part(w, 4, 2) [] op = 2 -> Part(w, 6, 2),
      imm |-> immshuffle(w, c)]

decode(w, rv64) ==
  IF ~({0, 1} \subseteq w) THEN decompress(w, rv64)
  ELSE LET op == MajorNames[Part(w, 6, 2) + 1]
       IN [n |-> 4, op |-> op, aop |-> 0, name |-> "", fmt |-> <<>>, func3 |-> Part(w, 14, 12), func7 |-> Part(w, 31, 25),
           rd |-> Part(w, 11, 7), rs1 |-> Part(w, 19, 15), rs2 |-> Part(w, 24, 20),
           imm |-> Immediate(w, op, Part(w, 14, 12))]

-----------------------------------------------------------------------------
(* mkinstr: the mnemonic and the format *)

Eight(name) == [i \in 1..8 |-> name]
\* the rows of a class: func7, and the mnemonic of each func3
Alu == <<"ADD", "SLL", "SLT", "SLTU", "XOR", "SRL", "OR", "AND">>
AluW == <<"ADDW", "SLLW", "", "", "", "SRLW", "", "">>
opclass == [
  LOAD      |-> [fmt |-> <<"a", "d">>, tab |-> <<<<0, <<"MOVB", "MOVH", "MOVW", "MOV", "MOVBU", "MOVHU", "MOVWU", "">>>>>>],
  LOAD_FP   |-> [fmt |-> <<"a", "fd">>, tab |-> <<<<0, <<"", "", "MOVF", "MOVD", "", "", "", "">>>>>>],
  OP_IMM    |-> [fmt |-> <<"i", "s", "d">>, tab |-> <<<<32, <<"", "", "", "", "", "SRA", "", "">>>>, <<0, Alu>>>>],
  AUIPC     |-> [fmt |-> <<"iPC", "d">>, tab |-> <<<<0, Eight("LUI")>>>>],
  OP_IMM_32 |-> [fmt |-> <<"i", "s", "d">>, tab |-> <<<<32, <<"", "", "", "", "", "SRAW", "", "">>>>, <<0, AluW>>>>],
  STORE     |-> [fmt |-> <<"2", "a">>, tab |-> <<<<0, <<"MOVB", "MOVH", "MOVW", "MOV", "", "", "", "">>>>>>],
  STORE_FP  |-> [fmt |-> <<"f2", "a">>, tab |-> <<<<0, <<"", "", "MOVF", "MOVD", "", "", "", "">>>>>>],
  OP        |-> [fmt |-> <<"2", "s", "d">>, tab |->
                  <<<<1, <<"MUL", "MULH", "MULHSU", "MULHU", "DIV", "DIVU", "REM", "REMU">>>>,
                    <<32, <<"SUB", "", "", "", "", "SRA", "", "">>>>, <<0, Alu>>>>],
  LUI       |-> [fmt |-> <<"i", "d">>, tab |-> <<<<0, Eight("LUI")>>>>],
  OP_32     |-> [fmt |-> <<"2", "s", "d">>, tab |->
                  <<<<1, <<"MULW", "", "", "", "DIVW", "DIVUW", "REMW", "REMUW">>>>,
                    <<32, <<"SUBW", "", "", "", "", "SRAW", "", "">>>>, <<0, AluW>>>>],
  BRANCH    |-> [fmt |-> <<"2", "s", "p">>, tab |-> <<<<0, <<"BEQ", "BNE", "", "", "BLT", "BGE", "BLTU", "BGEU">>>>>>],
  JALR      |-> [fmt |-> <<"d", "a">>, tab |-> <<<<0, Eight("JALR")>>>>],
  JAL       |-> [fmt |-> <<"d", "p">>, tab |-> <<<<0, Eight("JAL")>>>>],
  SYSTEM    |-> [fmt |-> <<"c", "s", "d">>, tab |-> <<<<0, <<"SYS", "CSRRW", "CSRRS", "CSRRC", "", "CSRRWI", "CSRRSI", "CSRRCI">>>>>>]]

\* OP_FP: single, double
FpArith == <<<<"ADDF", "SUBF", "MULF", "DIVF", "MOVF", "", "", "">>, <<"ADDD", "SUBD", "MULD", "DIVD", "MOVD", "", "", "">>>>
FpConv == <<"MOVDF", "MOVFD">>
FpCmp == <<<<"CMPLEF", "CMPLTF", "CMPEQF", "", "", "", "", "">>, <<"CMPLED", "CMPLTD", "CMPEQD", "", "", "", "", "">>>>
FpInt == <<<<"MOVFW", "", "MOVFV", "", "MOVWF", "MOVUF", "MOVVF", "MOVUVF">>,
           <<"MOVDW", "", "MOVDV", "", "MOVWD", "MOVUD", "MOVVD", "MOVUVD">>>>

Shown(as, fmt) == [as |-> IF as = "" THEN "???" ELSE as, fmt |-> IF as = "" THEN <<>> ELSE fmt]

FpShown(d) ==
  LET dp == 1 + (d.func7 % 2)  kind == d.func7 \div 32  fn == (d.func7 \div 4) % 8
      move == d.func7 \div 2 = 8
  IN CASE kind = 0 -> IF ~move THEN Shown(FpArith[dp][fn + 1], <<"f2", "fs", "fd">>)
                      ELSE Shown(IF d.func3 = 0 /\ d.rs1 = d.rs2 THEN FpArith[dp][fn + 1] ELSE "", <<"fs", "fd">>)
       [] kind = 1 -> Shown(IF fn = 0 THEN FpConv[dp] ELSE "", <<"fs", "fd">>)
       [] kind = 2 -> Shown(FpCmp[dp][d.func3 + 1], <<"fs", "fd">>)
       [] kind = 3 -> Shown(IF (d.func7 \div 16) % 2 = 1 THEN ""
                            ELSE FpInt[dp][4 * ((d.func7 \div 8) % 2) + (d.rs2 % 4) + 1],
                            IF (d.func7 \div 8) % 2 = 1 THEN <<"s", "fd">> ELSE <<"fs", "d">>)

\* the row of the class: the first whose func7 is the word's and which has
\* the function, or the last
RowOf(tab, d) ==
  LET fits == {i \in DOMAIN tab : tab[i][1] = 0 \/ (tab[i][1] = d.func7 /\ tab[i][2][d.func3 + 1] # "")}
  IN tab[CHOOSE i \in fits : \A j \in fits : i <= j][2]

\* pseudo: the forms with a name of their own
pseudo(d, as, fmt, rv64, sb) ==
  CASE as = "JAL" /\ d.rd = 0 -> Shown("JMP", <<"p">>)
    [] as = "JALR" /\ d.rd = 0 -> Shown("JMP", <<"a">>)
    [] as = "ADD" /\ d.op = "OP_IMM" /\ d.rs1 = 0 -> Shown(IF rv64 THEN "MOV" ELSE "MOVW", <<"i", "d">>)
    [] as = "ADD" /\ d.op = "OP_IMM" /\ d.rs1 = 3 /\ sb # 0 /\ d.rd # 3 ->
         Shown(IF rv64 THEN "MOV" ELSE "MOVW", <<"$a", "d">>)
    [] as = "ADD" /\ d.op = "OP_IMM" /\ d.imm = {} ->
         Shown(IF rv64 THEN "MOV" ELSE "MOVW", <<"s", "d">>)
    [] as = "SYS" /\ d.imm = {} -> Shown("ECALL", <<>>)
    [] as = "SYS" /\ d.imm = {0} -> Shown("EBREAK", <<>>)
    [] OTHER -> Shown(as, fmt)

mkinstr(d, rv64, sb) ==
  CASE d.op = "C" -> Shown(d.name, d.fmt)
    [] d.op = "OP_FP" -> FpShown(d)
    [] d.op \in DOMAIN opclass ->
         LET oc == opclass[d.op]
             fmt == IF d.op # "SYSTEM" THEN oc.fmt
                    ELSE IF d.func3 = 0 THEN <<"i">> ELSE IF d.func3 > 4 THEN <<"c", "js", "d">> ELSE oc.fmt
         IN pseudo(d, RowOf(oc.tab, d)[d.func3 + 1], fmt, rv64, sb)
    [] OTHER -> Shown("", <<>>)

-----------------------------------------------------------------------------
(* riscvfoll: where execution may go from pc, as offsets from a register.   *)
(* i.rv64 is set by the two disassemblers only: rv64 here is what the stack *)
(* held.                                                                    *)

OnlyJump == {13}                         \* a mutant of MayJump
MayJump == {13, 14, 15}                  \* C.J, C.BEQZ and C.BNEZ
PC == -1                                 \* stands for a register
foll(w, rv64) ==
  LET d == decode(w, rv64)
      next == [reg |-> PC, off |-> IF d.n = 2 THEN {1} ELSE {2}]
      there == [reg |-> PC, off |-> d.imm]
      In(r) == [reg |-> r, off |-> {}]
  IN IF d.n = 2
     THEN CASE d.aop \in MayJump -> {next, there}
            [] d.aop = 9 -> {there}
            [] d.aop \in {35, 37} -> {In(d.rs1)}
            [] OTHER -> {next}
     ELSE CASE d.op = "BRANCH" -> {next, there}
            [] d.op = "JAL" -> {there}
            [] d.op = "JALR" -> {In(d.rd)}
            [] OTHER -> {next}
=============================================================================
