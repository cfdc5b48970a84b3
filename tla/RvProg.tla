------------------------------- MODULE RvProg -------------------------------
(***************************************************************************)
(* What a list of the compiler's instructions does when it runs, as the    *)
(* loader (cmd/il) makes machine code of it: the registers of 4 or 8       *)
(* bytes, floating registers that know whether they hold a float or a      *)
(* double, branches by the number of the instruction, and calls of the     *)
(* functions of CLang with their arguments where the compiler puts them.   *)
(***************************************************************************)
EXTENDS CLang

XLEN == BYTE * SZ_IND
LONG == BYTE * SZ_LONG
IMM == 32                             \* of 8 bits; 2048 of 32
NREG == 32
REGZERO == 0
REGSP == 2
REGRET == 8
REGARG == 8

\* operands: none, reg, freg, mem, const, fconst, branch
Opd(t, sym, reg, off) == [t |-> t, sym |-> sym, reg |-> reg, off |-> off]
None == Opd("none", "", NREG, 0)
Prog(as, from, reg, to) == [as |-> as, from |-> from, reg |-> reg, to |-> to]

Reg(x) == Signed(x, XLEN)
Word(x) == Signed(x, LONG)
Based(s, a) == IF a.sym # "" THEN Place(a.sym) + a.off
               ELSE IF a.reg = NREG THEN a.off ELSE s.r[a.reg] + a.off
At(s, a) == Unsigned(Based(s, a), XLEN)
\* what an operand of an integer instruction is
Value(s, a) == IF a.t = "reg" THEN s.r[a.reg] ELSE IF a.t = "const" THEN Reg(Based(s, a)) ELSE 0
\* a float's instruction finds NaN in a register that holds a double, and so
\* the other way
FValue(s, a, kind) ==
  IF a.t = "fconst" THEN a.off
  ELSE IF s.f[a.reg].kind = kind THEN s.f[a.reg].v ELSE NaN

PutReg(s, a, x) == IF a.reg = REGZERO THEN s ELSE [s EXCEPT !.r[a.reg] = Reg(x)]
PutF(s, a, kind, x) == [s EXCEPT !.f[a.reg] = [kind |-> kind, v |-> x]]
Onward(s) == [s EXCEPT !.pc = @ + 1]

Moved == [MOVB |-> Type("char"), MOVBU |-> Type("uchar"), MOVH |-> Type("short"),
          MOVHU |-> Type("ushort"), MOVW |-> Type("int"), MOVWU |-> Type("uint"),
          MOV |-> Type("vlong")]
FMoved == [MOVF |-> Type("float"), MOVD |-> Type("double")]
KindOf == [float |-> "F", double |-> "D"]
\* floating conversions: from and to
Between == [MOVFD |-> <<"F", "D">>, MOVDF |-> <<"D", "F">>]
FromInt == [MOVWF |-> <<"int", "F">>, MOVWD |-> <<"int", "D">>, MOVUF |-> <<"uint", "F">>, MOVUD |-> <<"uint", "D">>,
            MOVVF |-> <<"vlong", "F">>, MOVVD |-> <<"vlong", "D">>, MOVUVF |-> <<"uvlong", "F">>, MOVUVD |-> <<"uvlong", "D">>]
ToInt == [MOVFW |-> <<"F", "int">>, MOVDW |-> <<"D", "int">>, MOVFV |-> <<"F", "vlong">>, MOVDV |-> <<"D", "vlong">>]
FloatArith == [ADDF |-> <<"ADD", "F">>, SUBF |-> <<"SUB", "F">>, MULF |-> <<"MUL", "F">>, DIVF |-> <<"DIV", "F">>,
               ADDD |-> <<"ADD", "D">>, SUBD |-> <<"SUB", "D">>, MULD |-> <<"MUL", "D">>, DIVD |-> <<"DIV", "D">>]
FloatTest == [CMPEQF |-> <<"EQ", "F">>, CMPLTF |-> <<"LT", "F">>, CMPLEF |-> <<"LE", "F">>,
              CMPEQD |-> <<"EQ", "D">>, CMPLTD |-> <<"LT", "D">>, CMPLED |-> <<"LE", "D">>]
\* integer instructions: the operator, and the type it works in
Computes == [ADD |-> "ADD", SUB |-> "SUB", AND |-> "AND", OR |-> "OR", XOR |-> "XOR", MUL |-> "MUL",
             DIV |-> "DIV", DIVU |-> "DIV", REM |-> "MOD", REMU |-> "MOD", SLL |-> "ASHL", SRL |-> "LSHR", SRA |-> "ASHR",
             ADDW |-> "ADD", SUBW |-> "SUB", MULW |-> "MUL", DIVW |-> "DIV", DIVUW |-> "DIV", REMW |-> "MOD",
             REMUW |-> "MOD", SLLW |-> "ASHL", SRLW |-> "LSHR", SRAW |-> "ASHR"]
WForms == {"ADDW", "SUBW", "MULW", "DIVW", "DIVUW", "REMW", "REMUW", "SLLW", "SRLW", "SRAW"}
UForms == {"DIVU", "REMU", "SRL", "DIVUW", "REMUW", "SRLW"}
WorksIn(as) ==
  IF as \in WForms \/ thechar = "i" THEN Type(IF as \in UForms THEN "uint" ELSE "int")
  ELSE Type(IF as \in UForms THEN "uvlong" ELSE "vlong")
Compute(as, x, y) ==
  LET t == WorksIn(as)
      o == Computes[as]
      count == Unsigned(y, IF t.etype \in {"int", "uint"} THEN 3 ELSE 4)
  IN IF o \in Shifts THEN Arith(o, t, Fit(x, t), count)
     ELSE IF o \in {"DIV", "MOD"} /\ Fit(y, t) = 0 THEN IF o = "DIV" THEN -1 ELSE x
     ELSE Signed(Arith(o, t, Fit(x, t), Fit(y, t)), BYTE * Width(t))
Branches == [BEQ |-> "EQ", BNE |-> "NE", BLT |-> "LT", BLE |-> "LE", BGE |-> "GE", BGT |-> "GT",
             BLTU |-> "LO", BLEU |-> "LS", BGEU |-> "HS", BGTU |-> "HI"]
Compares(o, x, y) ==
  IF o \in {"LO", "LS", "HI", "HS"} THEN Holds(o, Type("int"), Unsigned(x, XLEN), Unsigned(y, XLEN))
  ELSE Holds(o, Type("int"), x, y)

\* where a function finds its parameters (cc's offsets, by align), given that
\* the first comes in REGARG when a register can hold it
Round(x, w) == ((x + w - 1) \div w) * w
ParamAt(t, off) == IF Width(t) <= SZ_LONG THEN off ELSE Round(off + SZ_IND, SZ_VLONG) - SZ_IND
RECURSIVE Fetch(_, _, _, _)
Fetch(s, params, i, off) ==
  IF i > Len(params) THEN <<>>
  ELSE LET t == params[i]
           at == ParamAt(t, off)
           x == IF i = 1 /\ off = 0 /\ t.etype \in typeword THEN Fit(s.r[REGARG], t)
                ELSE Load(s.m, Unsigned(s.r[REGSP] + SZ_IND + at, XLEN), t)
       IN <<x>> \o Fetch(s, params, i + 1, Round(at + Width(t), SZ_LONG))
\* the callee may use every register that is not reserved, and its parameters
Junk == 85
Called(s, fn) ==
  LET byptr == Result(fn).etype \in typecmplx
      params == IF byptr THEN <<Pointer(0)>> \o Params(fn) ELSE Params(fn)
      a == Fetch(s, params, 1, 0)
      x == Returns(fn, IF byptr THEN Tail(a) ELSE a)
      m == Counted(s.m)
      area == (s.r[REGSP] + SZ_IND)..(s.r[REGSP] + SZ_IND + 7)
      used == [i \in DOMAIN m |-> IF i \in area THEN 1 ELSE m[i]]
      left == [s EXCEPT !.m = IF byptr THEN Store(used, Unsigned(a[1], XLEN), Result(fn), x) ELSE used,
                        !.r = [i \in DOMAIN @ |-> IF i \in {0, 2, 3} THEN @[i] ELSE Reg(Junk)],
                        !.f = [i \in DOMAIN @ |-> IF i >= 28 THEN @[i] ELSE [kind |-> "D", v |-> Junk]]]
  IN IF byptr THEN left
     ELSE IF Result(fn).etype \in typefd THEN PutF(left, [reg |-> 0], KindOf[Result(fn).etype], x)
     ELSE PutReg(left, [reg |-> REGRET], Signed(x, BYTE * Width(Result(fn))))

\* an access outside the memory stops the program short of its end
Within(s, a, w) == At(s, a) \in Addresses /\ At(s, a) + w - 1 \in Addresses
Faults(s, p) ==
  LET w == Width(IF p.as \in DOMAIN Moved THEN Moved[p.as] ELSE FMoved[p.as])
  IN /\ p.as \in DOMAIN Moved \cup DOMAIN FMoved
     /\ \/ p.from.t = "mem" /\ ~Within(s, p.from, w)
        \/ p.to.t = "mem" /\ ~Within(s, p.to, w)
Step(s, p) ==
  LET second == IF p.reg # NREG THEN p.reg ELSE p.to.reg
  IN CASE Faults(s, p) -> [s EXCEPT !.pc = 0]
       [] p.as = "NOP" -> Onward(s)
       [] p.as \in DOMAIN Moved /\ p.from.t = "mem" ->
            Onward(PutReg(s, p.to, Load(s.m, At(s, p.from), Moved[p.as])))
       [] p.as \in DOMAIN Moved /\ p.to.t = "mem" ->
            Onward([s EXCEPT !.m = Store(@, At(s, p.to), Moved[p.as], Value(s, p.from))])
       [] p.as \in DOMAIN Moved /\ p.from.t # "mem" /\ p.to.t = "reg" ->
            Onward(PutReg(s, p.to, Fit(Value(s, p.from), Moved[p.as])))
       [] p.as \in DOMAIN FMoved /\ p.from.t = "mem" ->
            Onward(PutF(s, p.to, KindOf[FMoved[p.as].etype], Load(s.m, At(s, p.from), FMoved[p.as])))
       [] p.as \in DOMAIN FMoved /\ p.to.t = "mem" ->
            Onward([s EXCEPT !.m = Store(@, At(s, p.to), FMoved[p.as],
                    IF p.from.t = "const" THEN 0 ELSE FValue(s, p.from, KindOf[FMoved[p.as].etype]))])
       [] p.as \in DOMAIN FMoved /\ p.from.t # "mem" /\ p.to.t = "freg" ->
            Onward(PutF(s, p.to, KindOf[FMoved[p.as].etype], FValue(s, p.from, KindOf[FMoved[p.as].etype])))
       [] p.as \in DOMAIN Between ->
            Onward(PutF(s, p.to, Between[p.as][2], FValue(s, p.from, Between[p.as][1])))
       [] p.as \in DOMAIN FromInt ->
            Onward(PutF(s, p.to, FromInt[p.as][2], 2 * Fit(Value(s, p.from), Type(FromInt[p.as][1]))))
       [] p.as \in DOMAIN ToInt ->
            Onward(PutReg(s, p.to, Fit(Truncated(FValue(s, p.from, ToInt[p.as][1])), Type(ToInt[p.as][2]))))
       [] p.as \in DOMAIN FloatArith ->
            LET o == FloatArith[p.as]
            IN Onward(PutF(s, p.to, o[2], Arith(o[1], Type("double"), FValue(s, [t |-> "freg", reg |-> second], o[2]), FValue(s, p.from, o[2]))))
       [] p.as \in DOMAIN FloatTest ->
            LET o == FloatTest[p.as]
            IN Onward(PutReg(s, p.to, Truth(Holds(o[1], Type("double"), FValue(s, [t |-> "freg", reg |-> second], o[2]), FValue(s, p.from, o[2])))))
       [] p.as \in DOMAIN Computes -> Onward(PutReg(s, p.to, Compute(p.as, s.r[second], Value(s, p.from))))
       [] p.as = "SLT" -> Onward(PutReg(s, p.to, Truth(Compares("LT", s.r[second], Value(s, p.from)))))
       [] p.as = "SLTU" -> Onward(PutReg(s, p.to, Truth(Compares("LO", s.r[second], Value(s, p.from)))))
       [] p.as \in DOMAIN Branches ->
            LET o == Branches[p.as]
                \* with one register the comparison is of it with zero
                taken == IF p.reg = NREG THEN Compares(o, Value(s, p.from), 0)
                         ELSE Compares(o, s.r[p.reg], Value(s, p.from))
            IN IF taken THEN [s EXCEPT !.pc = p.to.off] ELSE Onward(s)
       [] p.as = "JMP" -> [s EXCEPT !.pc = p.to.off]
       [] p.as = "JAL" /\ p.to.sym # "" -> Onward(Called(s, p.to.sym))
       [] p.as = "JAL" /\ p.to.sym = "" ->     \* only fi's address is ever taken
            IF At(s, p.to) = Place("fi") THEN Onward(Called(s, "fi")) ELSE [s EXCEPT !.pc = 0]

\* to the end of the code, or until the steps are used up
RECURSIVE Run(_, _, _)
Run(code, s, fuel) ==
  IF s.pc \notin DOMAIN code \/ fuel = 0 THEN s
  ELSE Run(code, Step(s, code[s.pc]), fuel - 1)

-----------------------------------------------------------------------------
(* what the loader has an encoding for: a row of optab, after ldobj's      *)
(* rewriting and the last loop of regopt                                   *)
Takes(p) ==
  LET constant == p.from.t = "const" /\ p.from.sym = "" /\ p.from.reg = NREG
      n == IF p.as \in {"SUB", "SUBW"} THEN -p.from.off ELSE p.from.off
      short == n >= -IMM /\ n < IMM
  IN CASE p.as \in DOMAIN Moved /\ p.from.t = "const" ->
            IF p.to.t = "mem" \/ p.as \in {"MOVB", "MOVBU", "MOVH", "MOVHU", "MOVWU"} THEN constant /\ n = 0 ELSE TRUE
       [] p.as \in DOMAIN Computes \cup {"SLT", "SLTU"} /\ p.from.t = "const" ->
            /\ constant
            /\ \/ p.as \in {"ADD", "SUB", "AND", "OR", "XOR"}
               \/ p.as \in {"ADDW", "SUBW", "SLT", "SLTU", "SLL", "SRL", "SRA", "SLLW", "SRLW", "SRAW"} /\ short
       [] p.as = "JAL" -> p.to.t = "mem"
       [] OTHER -> TRUE
=============================================================================
