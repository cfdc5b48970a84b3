------------------------------ MODULE CodeRegs ------------------------------
(***************************************************************************)
(* cmd/ic/txt.c: registers and temporaries, the addresses of nodes, moves  *)
(* with conversion, and the instruction for an operator.                   *)
(*                                                                         *)
(* The compiler's globals are one record: code, the instructions so far;   *)
(* reg, the uses of each register (floating ones from NREG); lasti, where  *)
(* regalloc looks first; cursafe, curarg and maxargsafe, bytes of          *)
(* temporaries and arguments; multab; errors, what was diagnosed; and n,   *)
(* the node a call made.                                                   *)
(***************************************************************************)
EXTENDS RvProg, MulCode

REGALLOC == 15
FREGRET == 0
FREGZERO == 28
FREGHALF == 29
FREGONE == 30
FREGTWO == 31

regnode == Leaf("REGISTER", Type("long"), 11)
nodconst(v) == Const(v, Type("long"))
nodgconst(v, t) == Const(v, IF t.etype \in typev THEN Type("vlong") ELSE Type("long"))
nod32const(v) == nodconst(Word(v))
nodfconst(d) == Const(2 * d, Type("double"))
nodrat(t) == Name(".rathole", t)

Error(g, what) == [g EXCEPT !.errors = @ \cup {what}]
Emit(g, as, from, reg, to) == [g EXCEPT !.code = Append(@, Prog(as, from, reg, to))]
pc(g) == Len(g.code) + 1
p(g) == Len(g.code)
patch(g, op, to) == [g EXCEPT !.code[op].to = Opd("branch", "", NREG, to)]
gbranch(g) == Emit(g, "JMP", None, NREG, None)

-----------------------------------------------------------------------------
(* registers *)

nodreg(nn, r) == [regnode EXCEPT !.reg = r, !.type = nn.type]
InRange(o, lo, hi) == o.op = "REGISTER" /\ o.reg \in lo..hi
Taken(g, tn, r) == [g EXCEPT !.reg[r] = @ + 1, !.n = nodreg(tn, r)]

\* the registers regalloc tries, in its order
Rotation(lasti) == [k \in 1..(REGALLOC - REGRET) |-> REGRET + 1 + ((lasti + k - 1) % (REGALLOC - REGRET))]
regalloc(g, tn, o) ==
  IF tn.type.etype \in typefd
  THEN LET free == {j \in NREG..(NREG + 15) : g.reg[j] = 0}
       IN IF o # Z /\ InRange(o, NREG, NREG + NREG - 1) THEN Taken(g, tn, o.reg)
          ELSE IF free = {} THEN Error([g EXCEPT !.n = nodreg(tn, 0)], "out of float registers")
          ELSE Taken(g, tn, CHOOSE j \in free : \A k \in free : j <= k)
  ELSE IF tn.type.etype \in typechlp \cup typev
  THEN LET order == Rotation(g.lasti)
           free == {k \in DOMAIN order : g.reg[order[k]] = 0}
       IN IF o # Z /\ InRange(o, 1, NREG - 1) THEN Taken(g, tn, o.reg)
          ELSE IF free = {} THEN Error([g EXCEPT !.n = nodreg(tn, 0)], "out of fixed registers")
          ELSE [Taken(g, tn, order[CHOOSE k \in free : \A j \in free : k <= j]) EXCEPT !.lasti = (@ + 1) % 5]
  ELSE Error([g EXCEPT !.n = nodreg(tn, 0)], "unknown type in regalloc")
regialloc(g, tn, o) == regalloc(g, [tn EXCEPT !.type = Pointer(0)], o)
regret(g, nn) == Taken(g, nn, IF nn.type.etype \in typefd THEN NREG + FREGRET ELSE REGRET)
regfree(g, n) ==
  IF n.op \in {"REGISTER", "INDREG"} /\ g.reg[n.reg] > 0 THEN [g EXCEPT !.reg[n.reg] = @ - 1]
  ELSE Error(g, "error in regfree")
tmpreg(g) ==
  LET free == {i \in (REGRET + 1)..(REGALLOC - 1) : g.reg[i] = 0}
  IN IF free = {} THEN 0 ELSE CHOOSE i \in free : \A k \in free : i <= k
regind(n, nn) == [n EXCEPT !.op = "INDREG", !.type = nn.type]

\* swt.c: where a parameter or a temporary begins and ends
Aarg1(i, t) == ParamAt(t, i)
Aarg2(i, t) == Round(i + Width(t), SZ_LONG)
Aaut3(i, t) == Round(i, IF Width(t) >= SZ_VLONG THEN SZ_VLONG ELSE Width(t)) + Width(t)
maxround(max, v) == LET r == Round(v, SZ_IND) IN IF r > max THEN r ELSE max
\* A mutant of regsalloc and regaalloc: the frame has room for temporaries or for
\* arguments, but not for both.
NotBoth(g) == [g EXCEPT !.maxargsafe = maxround(@, IF g.cursafe > g.curarg THEN g.cursafe ELSE g.curarg)]
Roomy(g) == [g EXCEPT !.maxargsafe = maxround(@, g.cursafe + g.curarg)]

regsalloc(g, nn) ==
  LET safe == Aaut3(g.cursafe, nn.type)
  IN Roomy([g EXCEPT !.cursafe = safe, !.n = [Name(".safe", nn.type) EXCEPT !.off = -safe]])
regaalloc1(g, nn) ==
  Roomy([Taken(g, nn, REGARG) EXCEPT !.curarg = Aarg2(Aarg1(@, nn.type), nn.type)])
regaalloc(g, nn) ==
  LET at == Aarg1(g.curarg, nn.type)
  IN Roomy([g EXCEPT !.curarg = Aarg2(at, nn.type),
                     !.n = [nn EXCEPT !.op = "INDREG", !.reg = REGSP, !.off = at + SZ_IND, !.complex = 0, !.addable = 20]])

-----------------------------------------------------------------------------
(* addresses *)

RECURSIVE naddr(_)
naddr(n) ==
  CASE n = Z -> None
    [] n.op = "REGISTER" -> IF n.reg >= NREG THEN Opd("freg", "", n.reg - NREG, 0) ELSE Opd("reg", "", n.reg, 0)
    [] n.op = "IND" -> [naddr(n.l) EXCEPT !.t = "mem"]
    [] n.op = "INDREG" -> Opd("mem", "", n.reg, n.off)
    [] n.op = "NAME" -> Opd("mem", n.sym, NREG, n.off)
    [] n.op = "CONST" -> Opd(IF n.type.etype \in typefd THEN "fconst" ELSE "const", "", NREG, n.v)
    [] n.op = "ADDR" -> [naddr(n.l) EXCEPT !.t = "const"]
    [] n.op = "ADD" ->
         IF n.l.op = "CONST" THEN [naddr(n.r) EXCEPT !.off = @ + n.l.v]
         ELSE [naddr(n.l) EXCEPT !.off = @ + naddr(n.r).off]
\* the register field: the second operand of an instruction
raddr(n) == IF n = Z THEN NREG
            ELSE LET a == naddr(n) IN IF a.t = "const" /\ a.off = 0 THEN REGZERO ELSE a.reg
gins(g, as, f, t) == Emit(g, as, naddr(f), NREG, naddr(t))

vconst0(n) == n.op = "CONST" /\ n.v = 0
\* A mutant of sconst: the range of the immediates is one too long.
SconstWide(n) == n.op = "CONST" /\ n.type.etype \notin typefd /\ n.v >= -IMM /\ n.v <= IMM
sconst(n) == n.op = "CONST" /\ n.type.etype \notin typefd /\ n.v >= -IMM /\ n.v < IMM
samaddr(f, t) == f.op = t.op /\ f.op = "REGISTER" /\ f.reg = t.reg

-----------------------------------------------------------------------------
(* gopcode *)

tword(t) == thechar = "j" /\ t # Z /\ t.type.etype # "ind" /\ t.type.etype \notin typev
OpOf(o) == IF o \in DOMAIN Assigns THEN Assigns[o] ELSE o

FloatOp == [ADD |-> "ADD", SUB |-> "SUB", MUL |-> "MUL", DIV |-> "DIV"]
IntOp == [ADD |-> "ADD", SUB |-> "SUB", OR |-> "OR", AND |-> "AND", XOR |-> "XOR", LSHR |-> "SRL",
          ASHR |-> "SRA", ASHL |-> "SLL", MUL |-> "MUL", LMUL |-> "MUL", DIV |-> "DIV", MOD |-> "REM",
          LDIV |-> "DIVU", LMOD |-> "REMU", COND |-> "SLTU", COMMA |-> "SLT", FUNC |-> "JAL",
          EQ |-> "BEQ", NE |-> "BNE", LT |-> "BLT", LE |-> "BLE", GE |-> "BGE", GT |-> "BGT",
          LO |-> "BLTU", LS |-> "BLEU", HS |-> "BGEU", HI |-> "BGTU"]
Widened == {"ADD", "SUB", "SRL", "SRA", "SLL", "MUL", "DIV", "REM", "DIVU", "REMU"}
OpCode(o, et, word) ==
  IF et \in typefd /\ o \in DOMAIN FloatOp THEN FloatOp[o] \o (IF et = "float" THEN "F" ELSE "D")
  ELSE IntOp[o] \o (IF word /\ IntOp[o] \in Widened THEN "W" ELSE "")

\* a floating comparison leaves 1 or 0: the instruction, and what a branch on it is
FloatCompare == [EQ |-> <<"EQ", "BNE">>, NE |-> <<"EQ", "BEQ">>, LT |-> <<"LT", "BNE">>,
                 LE |-> <<"LE", "BNE">>, GE |-> <<"LT", "BEQ">>, GT |-> <<"LE", "BEQ">>]
cmpfloat(g, o, f1, f2, t) ==
  LET c == FloatCompare[o]
      e == IF t = Z /\ tmpreg(g) = 0 THEN Error(g, "out of fixed registers") ELSE g
      as == "CMP" \o c[1] \o (IF f1.type.etype = "float" THEN "F" ELSE "D")
      tmp == Opd("reg", "", tmpreg(g), 0)
      g1 == Emit(e, as, naddr(f1), raddr(f2), IF t # Z THEN naddr(t) ELSE tmp)
  IN IF t = Z THEN Emit(g1, c[2], tmp, NREG, None)
     ELSE IF c[2] = "BNE" THEN Emit(g1, "XOR", naddr(nodconst(1)), raddr(t), naddr(t))
     ELSE g1

\* any operator but OAS
Instruction(g, op, f1, f2, t) ==
  LET o == OpOf(op)
      et == IF f1 = Z THEN "long" ELSE f1.type.etype
  IN IF o \in DOMAIN FloatCompare /\ et \in typefd THEN cmpfloat(g, o, f1, f2, t)
     ELSE Emit(g, OpCode(o, et, tword(t)), naddr(f1), raddr(f2), naddr(t))

-----------------------------------------------------------------------------
(* gmove *)

Unnormal == [char |-> "MOVB", uchar |-> "MOVBU", short |-> "MOVH", ushort |-> "MOVHU"]
Narrow(tt) == Unnormal[tt]
Ints == {"int", "uint", "long", "ulong"}

LoadOp(ft) ==
  CASE ft = "float" -> "MOVF" [] ft = "double" -> "MOVD" [] ft \in DOMAIN Unnormal -> Narrow(ft)
    [] ft \in Ints -> "MOVW" [] ft = "ind" -> IF thechar = "j" THEN "MOV" ELSE "MOVW"
    [] OTHER -> "MOV"
StoreOp(tt) ==
  CASE tt = "float" -> "MOVF" [] tt = "double" -> "MOVD" [] tt \in DOMAIN Unnormal -> Narrow(tt)
    [] tt \in typev -> "MOV" [] tt = "ind" -> IF thechar = "j" THEN "MOV" ELSE "MOVW"
    [] OTHER -> "MOVW"

\* the type x type cross table: the instructions, of which the first may go through
\* a register of its own
FromFloating(ft, tt) ==
  LET f == IF ft = "float" THEN "F" ELSE "D" IN
  CASE tt \in typefd -> <<IF ft = tt THEN "MOV" \o f ELSE IF tt = "double" THEN "MOVFD" ELSE "MOVDF">>
    [] tt \in typev -> <<"MOV" \o f \o "V">>
    [] tt \in {"uint", "ulong"} -> <<"MOV" \o f \o "V", "MOVW">>
    [] OTHER -> <<"MOV" \o f \o "W">>
FromVlong(ft, tt) ==
  CASE tt \in typefd -> <<"MOV" \o (IF ft = "uvlong" THEN "UV" ELSE "V") \o (IF tt = "float" THEN "F" ELSE "D")>>
    [] tt \in typev \cup {"ind"} -> <<"MOV">>
    [] tt \in Ints -> <<"MOVW">>
    [] OTHER -> <<Narrow(tt)>>
FromInteger(ft, tt, constant) ==
  LET u == ft \in {"uint", "ulong", "ind"} IN
  CASE tt \in typefd -> <<"MOV" \o (IF u THEN "U" ELSE "W") \o (IF tt = "float" THEN "F" ELSE "D")>>
    [] tt \in typev -> <<IF u THEN "MOVWU" ELSE "MOVW">>
    [] tt \in Ints \cup {"ind"} -> <<IF u /\ thechar = "j" /\ constant THEN "MOVW" ELSE "MOV">>
    [] OTHER -> <<Narrow(tt)>>
FromNarrow(ft, tt) ==
  CASE tt \in typefd -> <<Unnormal[ft], "MOVW" \o (IF tt = "float" THEN "F" ELSE "D")>>
    [] ft = tt -> <<"MOV">>
    [] <<ft, tt>> \in {<<"char", "short">>, <<"uchar", "short">>, <<"uchar", "ushort">>} -> <<Narrow(ft)>>
    [] tt \in Ints \cup typev \cup {"ind"} -> <<Narrow(ft)>>
    [] OTHER -> <<Narrow(tt)>>
Conversion(ft, tt, constant) ==
  CASE ft \in typefd -> FromFloating(ft, tt)
    [] ft \in typev \/ (ft = "ind" /\ thechar = "j") -> FromVlong(ft, tt)
    [] ft \in Ints \cup {"ind"} -> FromInteger(ft, tt, constant)
    [] OTHER -> FromNarrow(ft, tt)

InMemory(n) == n.op \in {"NAME", "INDREG", "IND"}
Plain(as, ft, tt) ==
  \/ as \in {"MOV", "MOVF", "MOVD"}
  \/ thechar = "i" /\ as \in {"MOVW", "MOVWU"} /\ ewidth(ft) = ewidth(tt)

RECURSIVE gmove(_, _, _)
\* constants that F28-F31 hold, or a sum of two of them (counted in halves)
Held == [h \in {0, 1, 2, 4} |-> CASE h = 0 -> FREGZERO [] h = 1 -> FREGHALF [] h = 2 -> FREGONE [] h = 4 -> FREGTWO]
Sum2 == [h \in {-1, -2, -4, 3, 5, 6} |->
          CASE h = -1 -> <<"SUB", FREGHALF, FREGZERO>> [] h = -2 -> <<"SUB", FREGONE, FREGZERO>>
            [] h = -4 -> <<"SUB", FREGTWO, FREGZERO>> [] h = 3 -> <<"ADD", FREGONE, FREGHALF>>
            [] h = 5 -> <<"ADD", FREGTWO, FREGHALF>> [] h = 6 -> <<"ADD", FREGTWO, FREGONE>>]
fop(g, op, f1, f2, t) ==
  LET a == regalloc(g, t, t)
      g1 == Instruction(a, op, nodreg(t, NREG + f1), nodreg(t, NREG + f2), a.n)
  IN regfree(gmove(g1, a.n, t), a.n)
gmove(g, f, t) ==
  LET ft == f.type.etype
      tt == t.type.etype
      c == Conversion(ft, tt, f.op = "CONST")
  IN CASE f.op = "CONST" /\ ((ft = "double" /\ f.v \in DOMAIN Held) \/ (ft = "float" /\ f.v = 0)) ->
            gmove(g, [nodreg(f, NREG + Held[f.v]) EXCEPT !.type = Type("double")], t)
       [] f.op = "CONST" /\ ft = "double" /\ f.v \in DOMAIN Sum2 ->
            fop(g, Sum2[f.v][1], Sum2[f.v][2], Sum2[f.v][3], t)
       [] InMemory(f) ->
            LET a == IF ft \in typechlp /\ tt \in typeilp THEN regalloc(g, t, t) ELSE regalloc(g, f, t)
            IN regfree(gmove(gins(a, LoadOp(ft), f, a.n), a.n, t), a.n)
       [] ~InMemory(f) /\ InMemory(t) ->
            IF ft \notin typefd /\ vconst0(f) THEN gins(g, StoreOp(tt), f, t)
            ELSE LET a == regalloc(g, t, IF ft = tt THEN f ELSE Z)
                 IN regfree(gins(gmove(a, f, a.n), StoreOp(tt), a.n, t), a.n)
       [] OTHER ->
            IF Len(c) = 2
            THEN LET a == IF ft \in typefd THEN regalloc(g, t, Z) ELSE regalloc(g, f, Z)
                 IN regfree(gins(gins(a, c[1], f, a.n), c[2], a.n, t), a.n)
            ELSE IF Plain(c[1], ft, tt) /\ samaddr(f, t) THEN g
            ELSE gins(g, c[1], f, t)

gopcode(g, o, f1, f2, t) == IF o = "AS" THEN gmove(g, f1, t) ELSE Instruction(g, o, f1, f2, t)
=============================================================================
