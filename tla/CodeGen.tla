------------------------------- MODULE CodeGen -------------------------------
(***************************************************************************)
(* cmd/ic: the code generator proper.  xcom of sgen.c orders a tree and    *)
(* says what is addressable; cgen.c makes the code of expressions, of      *)
(* conditions and of copies of structures; swt.c that of bit fields, of    *)
(* multiplications by a constant and of switches; txt.c that of arguments. *)
(*                                                                         *)
(* cgen(g, n, nn) is g after the code that leaves n in nn, or drops it     *)
(* when nn is Z.                                                           *)
(***************************************************************************)
EXTENDS CodeRegs

-----------------------------------------------------------------------------
(* xcom *)

vlog(n) == IF n.op # "CONST" \/ n.type.etype \in typefd \/ n.v <= 0 THEN {} ELSE {k \in 0..15 : n.v = Pow2(k)}
TheOne(s) == CHOOSE k \in s : TRUE
Count(n, t) == [n EXCEPT !.v = t, !.type = Type("int")]
Swapped(n) == [n EXCEPT !.l = n.r, !.r = n.l]
\* products by powers of two
Strength(n) ==
  LET t == vlog(n.r)
      shift == [LDIV |-> "LSHR", MUL |-> "ASHL", LMUL |-> "ASHL", ASLDIV |-> "ASLSHR",
                ASMUL |-> "ASASHL", ASLMUL |-> "ASASHL"]
      mask == [LMOD |-> "AND", ASLMOD |-> "ASAND"]
  IN IF t = {} THEN n
     ELSE IF n.op \in DOMAIN shift THEN [n EXCEPT !.op = shift[n.op], !.r = Count(n.r, TheOne(t))]
     ELSE IF n.op \in DOMAIN mask THEN [n EXCEPT !.op = mask[n.op], !.r.v = @ - 1]
     ELSE n
Arranged(n) == Strength(IF n.op \in {"MUL", "LMUL"} /\ vlog(n.l) # {} THEN Swapped(n) ELSE n)
\* the count of a shift assigned to a vlong is made a vlong
Widened64(n) ==
  IF n.op \in {"ASLSHR", "ASASHL", "ASASHR"} /\ n.l.type.etype \in typev /\ n.r.type.etype \notin typev
  THEN IF n.r.op = "CONST" THEN [n EXCEPT !.r.type = Type("vlong")]
       ELSE [n EXCEPT !.r = [Node("CAST", Type("vlong"), n.r, Z) EXCEPT !.complex = IF n.r.complex = 0 THEN 1 ELSE n.r.complex]]
  ELSE n
\* a sum of an address and a constant
SumAddable(a, b) == IF a = 20 /\ b \in {2, 3} THEN b ELSE IF b = 20 /\ a \in {2, 3} THEN a ELSE 0
Addable(n) ==
  CASE n.op = "ADDR" -> IF n.l.addable = 10 THEN 2 ELSE IF n.l.addable = 12 THEN 3 ELSE 0
    [] n.op = "IND" -> IF n.l.addable \in {11, 3} THEN 12 ELSE IF n.l.addable = 2 THEN 10 ELSE 0
    [] n.op = "ADD" -> SumAddable(n.l.addable, n.r.addable)
    [] OTHER -> 0
complex(l, r) ==
  LET a == IF l = Z THEN 0 ELSE l.complex
      c == IF r = Z THEN a ELSE IF r.complex = a THEN a + 1 ELSE IF r.complex > a THEN r.complex ELSE a
  IN IF c = 0 THEN 1 ELSE c
ConstRight == {"ADD", "XOR", "AND", "OR", "EQ", "NE"}
RECURSIVE xcom(_)
xcom(n) ==
  IF n = Z \/ n.op \in {"CONST", "NAME", "REGISTER", "INDREG"} THEN n
  ELSE LET m == Widened64(Arranged([n EXCEPT !.l = xcom(n.l), !.r = xcom(n.r)]))
           a == Addable(m)
           d == [m EXCEPT !.addable = a, !.complex = IF a >= 10 THEN 0 ELSE IF m.op = "FUNC" THEN FNX ELSE complex(m.l, m.r)]
       IN IF a < 10 /\ m.op \in ConstRight /\ m.l.op = "CONST" THEN Swapped(d) ELSE d

-----------------------------------------------------------------------------
(* what the cases of cgen share *)

RECURSIVE cgen(_, _, _), boolgen(_, _, _, _), sugen(_, _, _, _), lcgen(_, _, _)

bcgen(g, n, true) == boolgen(g, n, true, Z)
move(g, f, t) == gopcode(g, "AS", f, Z, t)
\* to nn, when there is one
Given(g, f, nn) == IF nn = Z THEN g ELSE move(g, f, nn)
\* the value of n in a register of its own, or in nn's
Held1(g, n, nn) ==
  LET a == regalloc(g, n, nn) IN [cgen(a, n, a.n) EXCEPT !.n = a.n]
Fcn(n) == n # Z /\ n.complex >= FNX
\* the value of a call, saved in the frame
Saved(g, n) ==
  LET a == regret(g, n)
      b == regsalloc(cgen(a, n, a.n), n)
  IN [regfree(move(b, a.n, b.n), a.n) EXCEPT !.n = b.n]
Jump(g, to) == patch(gbranch(g), Len(g.code) + 1, to)
\* the code of a condition's two branches
Branched(g, cond, Then(_), Else(_)) ==
  LET a == bcgen(g, cond, TRUE)
      b == gbranch(Then(a))
      c == Else(patch(b, p(a), pc(b)))
  IN patch(c, p(b), pc(c))

\* the address with the last constant of its sum left out, and that constant
RECURSIVE Offset(_)
Offset(l) ==
  IF l.op = "ADD" THEN LET r == Offset(l.r) IN [v |-> r.v, n |-> [l EXCEPT !.r = r.n]]
  ELSE IF sconst(l) THEN [v |-> l.v, n |-> [l EXCEPT !.v = 0]] ELSE [v |-> 0, n |-> l]
reglcgen(g, n, nn) ==
  LET a == regialloc(g, n, nn)
      o == IF n.op = "IND" THEN Offset(n.l) ELSE [v |-> 0, n |-> Z]
      b == IF n.op = "IND" THEN lcgen(a, [n EXCEPT !.l = o.n], a.n) ELSE lcgen(a, n, a.n)
  IN [b EXCEPT !.n = regind([a.n EXCEPT !.off = o.v], n)]
lcgen(g, n, nn) ==
  CASE n.op = "COMMA" -> lcgen(cgen(g, n.l, n.l), n.r, nn)
    [] n.op = "IND" -> cgen(g, n.l, nn)
    [] n.op = "COND" ->
         LET Then(a) == lcgen(a, n.r.l, nn)
             Else(a) == lcgen(a, n.r.r, nn)
         IN Branched(g, n.l, Then, Else)
    [] OTHER ->
         IF n.addable < INDEXED THEN Error(g, "unknown op in lcgen")
         ELSE move(g, Node("ADDR", Pointer(0), n, Z), nn)
\* an operand that is read and written
Lvalue(g, l) == IF l.addable < INDEXED THEN reglcgen(g, l, Z) ELSE [g EXCEPT !.n = l]
\* A mutant: the register of the address is not freed.
LvalueKept(g, l, n) == g
LvalueFree(g, l, n) == IF l.addable < INDEXED THEN regfree(g, n) ELSE g

-----------------------------------------------------------------------------
(* swt.c: bit fields; n1 has the value, n2 the address and n3 the contents *)

Mask(t) == Pow2(t.nbits) - 1
FieldShift(t) == IF t.etype \in typeu THEN "LSHR" ELSE "ASHR"
Extract(g, t, n1) ==
  LET up == LONG - t.shift - t.nbits
      down == LONG - t.nbits
      a == IF up > 0 THEN gopcode(g, "ASHL", nodconst(up), Z, n1) ELSE g
  IN IF t.shift = 0 /\ t.etype \in typeu THEN gopcode(g, "AND", nodconst(Mask(t)), Z, n1)
     ELSE IF down > 0 THEN gopcode(a, FieldShift(t), nodconst(down), Z, n1) ELSE a
bitload(g, b, nn) ==
  LET a == regalloc(g, b.l, nn)
      c == reglcgen(a, b.l, Z)
      d == regalloc(c, b.l, Z)
      e == move(move(d, c.n, d.n), d.n, a.n)
  IN [g |-> Extract(e, b.type, a.n), n1 |-> a.n, n2 |-> c.n, n3 |-> d.n]
Around(g, t, n3, nod) ==
  LET a == IF t.shift > 0 THEN gopcode(g, "ASHL", nodconst(t.shift), Z, nod) ELSE g
      b == gopcode(a, "AND", nodconst(Word(-1 - Mask(t) * Pow2(t.shift))), Z, n3)
  IN gopcode(b, "OR", n3, Z, nod)
bitstore(g, b, n1, n2, n3, nn) ==
  LET a == regalloc(g, b.l, Z)
      c == gopcode(a, "AND", nodconst(Mask(b.type)), Z, n1)
      d == Around(Given(move(c, n1, a.n), n1, nn), b.type, n3, a.n)
  IN regfree(regfree(regfree(regfree(move(d, a.n, n2), a.n), n1), n2), n3)

-----------------------------------------------------------------------------
(* swt.c: multiplication by a constant; done says whether code was made    *)

Pair(n1, n2, second) == IF second = 1 THEN n2 ELSE n1
RECURSIVE Multiplied(_, _, _, _, _)
Multiplied(g, code, i, n1, n2) ==
  IF i > Len(code) THEN g
  ELSE LET o == code[i][1]
           v == code[i][2]
           l == Pair(n1, n2, v % 2)
           b1 == Pair(n1, n2, (v \div 2) % 2)
           b2 == Pair(n1, n2, v \div 4)
           a == IF o = PLUS THEN gopcode(g, "ADD", l, b1, b2)
                ELSE IF o = MINUS THEN gopcode(g, "SUB", l, b1, b2)
                ELSE IF o < 0 \/ o >= 32 THEN Error(g, "mulcon unknown op")
                ELSE gopcode(g, "ASHL", nodconst(o), l, b1)
       IN Multiplied(a, code, i + 1, n1, n2)
mulcon(g, n, nn) ==
  LET r == IF n.l.op = "CONST" THEN n.l ELSE n.r
      l == IF n.l.op = "CONST" THEN n.r ELSE n.l
      None1 == [done |-> FALSE, g |-> g]
      m == mulcon0(g.mul, r.v)
      kept == [g EXCEPT !.mul = m.mul]
      a == regalloc(kept, n, nn)
      h == cgen(a, l, a.n)
      b == regalloc(IF r.v < 0 THEN gopcode(h, "SUB", a.n, nodconst(0), a.n) ELSE h, n, Z)
      c == regfree(Multiplied(b, CHOOSE x \in m.m : TRUE, 1, a.n, b.n), b.n)
  IN IF n.type.etype \in typefd \/ r.op # "CONST" THEN None1
     ELSE IF Fit(r.v, n.type) # r.v \/ Word(r.v) # r.v THEN None1
     ELSE IF m.m = {} THEN [done |-> FALSE, g |-> kept]
     ELSE [done |-> TRUE, g |-> regfree(move(c, a.n, nn), a.n)]

-----------------------------------------------------------------------------
(* swt.c: switches; q, the cases in increasing order, each a value and a   *)
(* label; n, a register                                                    *)

RECURSIVE swit2(_, _, _, _, _)
Tested(g, n, tn, c) == LET a == gopcode(gmove(g, nodgconst(c.val, n.type), tn), "EQ", tn, n, Z) IN patch(a, p(a), c.label)
RECURSIVE Linear(_, _, _, _)
Linear(g, q, n, tn) == IF q = <<>> THEN g ELSE Linear(Tested(g, n, tn, Head(q)), Tail(q), n, tn)
Around2(q, i) == <<SubSeq(q, 1, i), SubSeq(q, i + 2, Len(q))>>
swit2(g, q, def, n, tn) ==
  LET i == Len(q) \div 2
      a == gopcode(gmove(g, nodgconst(q[i + 1].val, n.type), tn), "GT", tn, n, Z)
      b == gopcode(a, "EQ", tn, n, Z)
      c == swit2(patch(b, p(b), q[i + 1].label), Around2(q, i)[1], def, n, tn)
  IN IF Len(q) < 5 THEN Jump(Linear(g, q, n, tn), def)
     ELSE swit2(patch(c, p(a), pc(c)), Around2(q, i)[2], def, n, tn)
swit1(g, q, def, n) ==
  LET a == regalloc(g, [regnode EXCEPT !.type = Type(IF n.type.etype \in typev THEN "vlong" ELSE "long")], Z)
  IN regfree(swit2(a, q, def, n, a.n), a.n)

-----------------------------------------------------------------------------
(* txt.c: arguments.  The first pass computes those that call functions,   *)
(* into temporaries; the second places all of them.                        *)

First(g, n) == n.complex >= FNX
\* w: [g, temps], with the temporaries in the order they were made
RECURSIVE Computed(_, _), Placed(_, _)
Computed(w, n) ==
  IF n = Z THEN w
  ELSE IF n.op = "LIST" THEN Computed(Computed(w, n.l), n.r)
  ELSE IF ~First(w.g, n) THEN w
  ELSE LET a == regsalloc(w.g, n)
       IN [g |-> cgen(a, Node("AS", n.type, a.n, n), Z), temps |-> Append(w.temps, a.n)]
PlacedOne(g, n) ==
  LET t == n.type.etype
      a == regaalloc(g, n)
      b == regaalloc1(g, n)
      c == Held1(g, n, Z)
      d == regaalloc(c, n)
  IN IF t \in typecmplx THEN sugen(a, n, a.n, Width(n.type))
     ELSE IF g.curarg = 0 /\ t \in typeword THEN cgen(b, n, b.n)
     ELSE IF vconst0(n) THEN move(a, n, a.n)
     ELSE regfree(move(d, c.n, d.n), c.n)
Placed(w, n) ==
  IF n = Z THEN w
  ELSE IF n.op = "LIST" THEN Placed(Placed(w, n.l), n.r)
  ELSE IF First(w.g, n) THEN [g |-> PlacedOne(w.g, Head(w.temps)), temps |-> Tail(w.temps)]
  ELSE [w EXCEPT !.g = PlacedOne(@, n)]
gargs(g, n) ==
  LET a == Computed([g |-> g, temps |-> <<>>], n)
  IN [Placed([a EXCEPT !.g.curarg = 0], n).g EXCEPT !.cursafe = g.cursafe]

-----------------------------------------------------------------------------
(* cgen: assignments *)

Assign(g, n, nn) ==
  LET l == n.l
      r == n.r
      direct == l.addable >= INDEXED /\ l.complex < FNX
      a == IF r.complex >= FNX /\ nn = Z THEN regret(g, r) ELSE regalloc(g, r, nn)
      b == cgen(a, r, a.n)
      left == reglcgen(g, l, Z)
      c == Held1(left, r, nn)
      e == Held1(g, r, nn)
      f == reglcgen(e, l, Z)
  IN CASE direct /\ (nn # Z \/ r.addable < INDEXED) -> regfree(Given(gmove(b, a.n, l), a.n, nn), a.n)
       [] direct /\ ~(nn # Z \/ r.addable < INDEXED) -> gmove(g, r, l)
       [] ~direct /\ l.complex >= r.complex ->
            IF r.addable >= INDEXED THEN regfree(Given(gmove(left, r, left.n), r, nn), left.n)
            ELSE regfree(regfree(gmove(c, c.n, left.n), c.n), left.n)
       [] OTHER -> regfree(regfree(gmove(f, e.n, f.n), e.n), f.n)
\* bitas: the address, the value, and the contents of the cell
FieldAssign(g, n, nn) ==
  LET cell == n.l.l
      a == regalloc(g, n.r, nn)
      first == n.l.complex >= n.r.complex
      b == IF first THEN reglcgen(a, cell, Z) ELSE reglcgen(cgen(a, n.r, a.n), cell, Z)
      c == regalloc(IF first THEN cgen(b, n.r, a.n) ELSE b, cell, Z)
  IN bitstore(move(c, b.n, c.n), n.l, a.n, b.n, c.n, nn)

Immediate(n) == sconst(n.r) /\ n.type.etype \notin typefd
AssignConst(g, n, nn) ==
  LET a == Lvalue(g, n.l)
      b == regalloc(a, n.r, nn)
      c == gopcode(move(b, a.n, b.n), n.op, n.r, Z, b.n)
  IN LvalueFree(regfree(move(c, b.n, a.n), b.n), n.l, a.n)
AssignOp(g, n, nn) ==
  LET l == n.l
      r == n.r
      left == Lvalue(g, l)
      right == Held1(g, r, Z)
      first == l.complex >= r.complex
      after == IF first THEN Held1(left, r, Z) ELSE Lvalue(right, l)
      n1 == IF first THEN after.n ELSE right.n
      n2 == IF first THEN left.n ELSE after.n
      a == IF n1.type.etype = n2.type.etype \/ n1.type.etype \notin typefd
           THEN regalloc(after, n2, nn) ELSE regalloc(after, n1, Z)
      b == gmove(a, n2, a.n)
      c == regalloc(b, a.n, Z)
      same == n1.type.etype = a.n.type.etype
      d == IF same THEN b ELSE regfree(gmove(c, n1, c.n), n1)
      m1 == IF same THEN n1 ELSE c.n
      e == gmove(gopcode(d, n.op, m1, a.n, a.n), a.n, n2)
  IN LvalueFree(regfree(regfree(Given(e, a.n, nn), a.n), m1), l, n2)
\* asbitop
FieldOp(g, n, nn) ==
  LET a == regalloc(g, n, nn)
      first == n.l.complex >= n.r.complex
      early == Held1(a, n.r, Z)
      w == bitload(IF first THEN a ELSE early, n.l, a.n)
      late == Held1(w.g, n.r, Z)
      n3 == IF first THEN late.n ELSE early.n
      b == gopcode(gmove(IF first THEN late ELSE w.g, w.n1, a.n), n.op, n3, Z, a.n)
      c == regfree(gmove(regfree(b, n3), a.n, w.n1), a.n)
  IN bitstore(c, n.l, w.n1, w.n2, w.n3, nn)

-----------------------------------------------------------------------------
(* cgen: increments *)

By(n) == (IF n.l.type.etype = "ind" THEN n.l.type.w ELSE 1) * (IF n.op \in {"PREINC", "POSTINC"} THEN 1 ELSE -1)
\* nod1 = nod + v
Added(g, v, l, nod, nod1) ==
  LET a == regalloc(g, l, Z)
      b == gopcode(move(a, nodfconst(Abs(v)), a.n), IF v < 0 THEN "SUB" ELSE "ADD", a.n, IF nod = nod1 THEN Z ELSE nod, nod1)
  IN IF l.type.etype \in typefd THEN regfree(b, a.n)
     ELSE gopcode(g, "ADD", nodconst(v), IF nod = nod1 THEN Z ELSE nod, nod1)
PreIncrement(g, n, nn) ==
  LET a == Lvalue(g, n.l)
      b == regalloc(a, n.l, nn)
      c == move(Added(move(b, a.n, b.n), By(n), n.l, b.n, b.n), b.n, a.n)
      d == IF nn # Z /\ n.l.op = "NAME" THEN gins(c, "NOP", n.l, Z) ELSE c
  IN LvalueFree(regfree(d, b.n), n.l, a.n)
PostIncrement(g, n, nn) ==
  LET a == Lvalue(g, n.l)
      b == regalloc(a, n.l, nn)
      c == regalloc(move(b, a.n, b.n), n.l, Z)
      d == move(Added(c, By(n), n.l, b.n, c.n), c.n, a.n)
  IN LvalueFree(regfree(regfree(d, b.n), c.n), n.l, a.n)
FieldIncrement(g, n, nn) ==
  LET post == nn # Z /\ n.op \in {"POSTINC", "POSTDEC"}
      w == bitload(g, n.l, IF post THEN Z ELSE nn)
      a == gopcode(IF post THEN move(w.g, w.n1, nn) ELSE w.g, "ADD", nodconst(By(n)), Z, w.n1)
  IN bitstore(a, n.l, w.n1, w.n2, w.n3, IF post THEN Z ELSE nn)

-----------------------------------------------------------------------------
(* cgen: operators *)

Operator(g, n, nn) ==
  LET l == n.l
      r == n.r
      shift64 == n.type.etype \in typev /\ n.op \in Shifts
      a == Held1(g, l, nn)
      b == Held1(a, r, Z)
      c == Held1(g, r, IF shift64 THEN Z ELSE nn)
      d == Held1(c, l, IF shift64 THEN nn ELSE Z)
      Done(w, nod, nod1) == regfree(regfree(move(w, nod, nn), nod), nod1)
  IN IF l.complex >= r.complex THEN Done(gopcode(b, n.op, b.n, Z, a.n), a.n, b.n)
     ELSE IF shift64 THEN Done(gopcode(d, n.op, c.n, Z, d.n), d.n, c.n)
     ELSE Done(gopcode(d, n.op, c.n, d.n, c.n), c.n, d.n)
\* immediate operands
OperatorConst(g, n, nn) ==
  LET a == cgen(g, n.l, nn)
  IN IF n.r.v = 0 /\ n.op # "AND" THEN a ELSE gopcode(a, n.op, n.r, Z, nn)
Product(g, n, nn) ==
  LET m == mulcon(g, n, nn)
  IN IF n.op \notin {"MUL", "LMUL"} THEN Operator(g, n, nn)
     ELSE IF m.done THEN m.g ELSE Operator(m.g, n, nn)

Function(g, n, nn) ==
  LET l == n.l
      \* the address that a call left, from the frame
      s == Saved(g, l.l)
      a == gargs(g, n.r)
      f == reglcgen(a, l, Z)
      b == IF l.addable < INDEXED THEN regfree(gopcode(f, "FUNC", Z, Z, f.n), f.n) ELSE gopcode(a, "FUNC", Z, Z, l)
      c == [b EXCEPT !.reg[REGARG] = IF @ # g.reg[REGARG] THEN @ - 1 ELSE @]
      d == regret(c, n)
  IN IF l.complex >= FNX THEN cgen(s, [n EXCEPT !.l = [l EXCEPT !.l = s.n, !.complex = 1]], nn)
     ELSE IF nn = Z THEN c ELSE regfree(move(d, d.n, nn), d.n)

Indirect(g, n, nn) ==
  LET a == regialloc(g, n, nn)
      o == Offset(n.l)
      b == cgen(a, o.n, a.n)
      nod == regind([a.n EXCEPT !.off = o.v], n)
  IN regfree(move(b, nod, nn), nod)

\* conversions that need no instruction
NoCast(t1, t2) ==
  LET a == t1.etype
      b == t2.etype
      vlongs == IF thechar = "j" THEN typev \cup {"ind"} ELSE typev
      longs == IF thechar = "j" THEN Ints ELSE Ints \cup {"ind"}
  IN /\ t1.nbits = 0
     /\ \/ a \in Ints /\ b \in longs
        \/ a \in vlongs /\ b \in vlongs
        \/ a = "ind" /\ thechar = "i" /\ b \in {"long", "ulong", "ind"}
        \/ a = b /\ a \notin {"ind", "struct"}
Cast(g, n, nn) ==
  LET a == Held1(g, n.l, nn)
      b == regalloc(a, n, a.n)
  IN IF NoCast(n.l.type, n.type) /\ NoCast(n.type, nn.type) THEN cgen(g, n.l, nn)
     ELSE regfree(regfree(move(move(b, a.n, b.n), b.n, nn), b.n), a.n)
Dot(g, n, nn) ==
  LET a == sugen(g, n.l, nodrat(n.l.type), n.l.type.w)
  IN IF nn = Z THEN a ELSE cgen(a, [nodrat(n.type) EXCEPT !.off = n.r.v], nn)

Increments == {"PREINC", "PREDEC", "POSTINC", "POSTDEC"}
ByConst == {"ASLSHR", "ASASHL", "ASASHR", "ASAND", "ASADD", "ASSUB", "ASXOR", "ASOR"}
\* of the operators that do nothing when no one wants the value
Null == Sums \cup Shifts \cup Products \cup Relations \cup {"BIT", "ADDR", "IND", "NOT", "CAST"}
Wanted(g, n, nn) ==
  LET o == n.op
      Then(a) == cgen(a, n.r.l, nn)
      Else(a) == cgen(a, n.r.r, nn)
      truth == boolgen(g, n, TRUE, nn)
      field == bitload(g, n, nn)
  IN CASE o = "AS" -> IF IsField(n.l) THEN FieldAssign(g, n, nn) ELSE Assign(g, n, nn)
       [] o \in DOMAIN Assigns ->
            IF IsField(n.l) THEN FieldOp(g, n, nn)
            ELSE IF o \in ByConst /\ Immediate(n) THEN AssignConst(g, n, nn) ELSE AssignOp(g, n, nn)
       [] o \in Increments ->
            IF IsField(n.l) THEN FieldIncrement(g, n, nn)
            ELSE IF o \in {"PREINC", "PREDEC"} \/ nn = Z THEN PreIncrement(g, n, nn) ELSE PostIncrement(g, n, nn)
       [] o = "BIT" ->
            LET a == Held1(g, n.l, nn)
                b == Extract(a, n.type, a.n)
            IN regfree(move(b, a.n, nn), a.n)
       [] o \in Sums \cup Shifts -> IF Immediate(n) THEN OperatorConst(g, n, nn) ELSE Operator(g, n, nn)
       [] o \in Products -> Product(g, n, nn)
       [] o = "ADDR" -> lcgen(g, n.l, nn)
       [] o = "FUNC" -> Function(g, n, nn)
       [] o = "IND" -> Indirect(g, n, nn)
       [] o \in Relations \cup {"NOT"} -> truth
       [] o \in {"ANDAND", "OROR"} -> IF nn = Z THEN patch(truth, p(truth), pc(truth)) ELSE truth
       [] o = "COMMA" -> cgen(cgen(g, n.l, Z), n.r, nn)
       [] o = "CAST" -> Cast(g, n, nn)
       [] o = "DOT" -> Dot(g, n, nn)
       [] o = "COND" -> Branched(g, n.l, Then, Else)
cgen(g, n, nn) ==
  LET s == Saved(g, n.r)
  IN CASE n.type.etype \in typecmplx -> sugen(g, n, nn, Width(n.type))
       [] n.type.etype \notin typecmplx /\ n.addable >= INDEXED -> IF nn = Z THEN g ELSE gmove(g, n, nn)
       [] OTHER ->
            IF Fcn(n) /\ Fcn(n.l) /\ Fcn(n.r) /\ n.op \notin {"FUNC", "COMMA", "ANDAND", "OROR", "COND", "DOT"}
            THEN cgen(s, [n EXCEPT !.r = s.n], nn)
            ELSE IF nn = Z /\ n.op \in Null THEN g
            ELSE [Wanted(g, n, nn) EXCEPT !.cursafe = IF n.op = "FUNC" /\ Fcn(n.l) THEN @ ELSE g.cursafe]

-----------------------------------------------------------------------------
(* boolgen: a branch taken when n is not true, or n's truth in nn          *)

comrel == [EQ |-> "NE", NE |-> "EQ", LE |-> "GT", LS |-> "HI", LT |-> "GE", LO |-> "HS",
           GE |-> "LT", HS |-> "LO", GT |-> "LE", HI |-> "LS"]
\* com: 1 where the code falls through, 0 where it branches
Common(g, nn) ==
  LET b == gbranch(move(g, nodconst(1), nn))
      c == move(patch(b, p(g), pc(b)), nodconst(0), nn)
  IN IF nn = Z THEN g ELSE patch(c, p(b), pc(c))
\* caseand and caseor
BothTrue(g, n, true, nn) ==
  LET a == bcgen(g, n.l, true)
      b == bcgen(a, n.r, ~true)
      c == gbranch(patch(b, p(a), pc(b)))
  IN Common(patch(c, p(b), pc(c)), nn)
EitherTrue(g, n, true, nn) ==
  LET a == bcgen(g, n.l, ~true)
      b == bcgen(a, n.r, ~true)
      c == gbranch(b)
  IN Common(patch(patch(c, p(a), pc(c)), p(b), pc(c)), nn)
CondTrue(g, n, true, nn) ==
  LET a == bcgen(g, n.l, TRUE)
      b == bcgen(a, n.r.l, true)
      c == gbranch(b)
      d == bcgen(patch(c, p(a), pc(c)), n.r.r, ~true)
      e == gbranch(patch(d, p(b), pc(d)))
  IN Common(patch(patch(e, p(c), pc(e)), p(d), pc(e)), nn)
ConstTrue(g, n, true, nn) ==
  LET a == gbranch(g)
      b == gbranch(a)
  IN Common(IF (n.v # 0) = true THEN patch(b, p(a), pc(b)) ELSE a, nn)
\* default: is n's value zero?
Zero(g, n, true, nn) ==
  LET a == Held1(g, n, nn)
      fd == n.type.etype \in typefd
      zero == [nodreg(n, NREG + FREGZERO) EXCEPT !.type = Type("double")]
      wide == regalloc(a, zero, Z)
      b == IF n.type.etype = "float" THEN [regfree(gmove(wide, a.n, wide.n), a.n) EXCEPT !.n = wide.n] ELSE a
      o == IF true THEN "EQ" ELSE "NE"
      c == regalloc(b, nn, nn)
      d == IF true THEN gopcode(b, "COND", b.n, nodconst(0), b.n) ELSE gopcode(b, "COND", nodconst(1), b.n, b.n)
  IN CASE nn = Z /\ fd -> regfree(gopcode(b, o, b.n, zero, Z), b.n)
       [] nn = Z /\ ~fd -> regfree(gopcode(b, o, b.n, Z, Z), b.n)
       [] nn # Z /\ fd -> regfree(regfree(move(gopcode(c, o, b.n, zero, c.n), c.n, nn), c.n), b.n)
       [] OTHER -> regfree(move(d, b.n, nn), b.n)

\* nod = (nod1 o nod), by SLT (OCOMMA) and SLTU (OCOND)
IntTruth(g, o, nod, nod1) ==
  LET Not(a) == gopcode(a, "XOR", nodconst(1), nod, nod)
      Less(f1, f2) == gopcode(g, "COMMA", f1, f2, nod)
      Lower(f1, f2) == gopcode(g, "COND", f1, f2, nod)
      d == gopcode(g, "SUB", nod1, nod, nod)
  IN CASE o = "EQ" -> gopcode(d, "COND", nod, nodconst(0), nod)
       [] o = "NE" -> gopcode(d, "COND", nodconst(1), nod, nod)
       [] o = "LE" -> Less(nod1, nod) [] o = "GT" -> Not(Less(nod1, nod))
       [] o = "LT" -> Not(Less(nod, nod1)) [] o = "GE" -> Less(nod, nod1)
       [] o = "LS" -> Lower(nod1, nod) [] o = "HI" -> Not(Lower(nod1, nod))
       [] o = "LO" -> Not(Lower(nod, nod1)) [] o = "HS" -> Lower(nod, nod1)
\* a > b is b < a
Ordered(n) ==
  IF n.l.type.etype \in typefd /\ n.op \in {"GT", "GE"}
  THEN [Swapped(n) EXCEPT !.op = IF @ = "GT" THEN "LT" ELSE "LE"] ELSE n
Compared(g, n0, true, nn) ==
  LET n == Ordered(n0)
      o == IF true THEN comrel[n.op] ELSE n.op
      first == n.l.complex >= n.r.complex
      a == Held1(g, IF first THEN n.l ELSE n.r, nn)
      b == Held1(a, IF first THEN n.r ELSE n.l, Z)
      nod1 == IF first THEN a.n ELSE b.n
      nod == IF first THEN b.n ELSE a.n
      fd == n.l.type.etype \in typefd
      c == regalloc(b, nn, nn)
      Free(w) == regfree(regfree(w, nod), nod1)
  IN CASE nn # Z /\ fd -> Free(regfree(gopcode(c, o, nod, nod1, c.n), c.n))
       [] nn # Z /\ ~fd -> Free(move(IntTruth(b, o, nod, nod1), nod, nn))
       [] OTHER -> Free(gopcode(b, o, nod, nod1, Z))
boolgen(g, n, true, nn) ==
  LET s == Saved(g, n.r)
      w == CASE n.op = "CONST" -> ConstTrue(g, n, true, nn)
             [] n.op = "COMMA" -> boolgen(cgen(g, n.l, Z), n.r, true, nn)
             [] n.op = "NOT" -> boolgen(g, n.l, ~true, nn)
             [] n.op = "COND" -> CondTrue(g, n, true, nn)
             [] n.op \in {"ANDAND", "OROR"} ->
                  IF (n.op = "ANDAND") = true THEN BothTrue(g, n, true, nn) ELSE EitherTrue(g, n, true, nn)
             [] n.op \in Relations ->
                  IF Fcn(n.l) /\ Fcn(n.r) THEN boolgen(s, [n EXCEPT !.r = s.n], true, nn)
                  ELSE Compared(g, n, true, nn)
             [] OTHER -> Zero(g, n, true, nn)
  IN [w EXCEPT !.cursafe = g.cursafe]

-----------------------------------------------------------------------------
(* sugen: structures, and vlongs on riscv, of w bytes                      *)

Long(n) == [n EXCEPT !.type = Type("long")]
Past(n, words) == [n EXCEPT !.off = @ + words * SZ_LONG]
\* words c from f to t, and cv to cn
RECURSIVE layout(_, _, _, _, _, _)
layout(g, f, t, c, cv, cn) ==
  LET a == regalloc(g, regnode, Z)
      b == regalloc(a, regnode, Z)
      If(cond, w, from, to) == IF cond THEN move(w, from, to) ELSE w
      d == If(cn # Z, If(c > 0, b, f, a.n), nodconst(cv), cn)
      e == If(c > 0, If(c > 1, d, Past(f, 1), b.n), a.n, t)
      h == If(c > 1, If(c > 2, e, Past(f, 2), a.n), b.n, Past(t, 1))
  IN IF c > 3 THEN layout(layout(g, f, t, 2, 0, Z), Past(f, 2), Past(t, 2), c - 2, cv, cn)
     ELSE regfree(regfree(If(c > 2, h, a.n, Past(t, 2)), a.n), b.n)
Rest(w, c) == w % c
\* the words a round of the loop copies: the last of the least i + w % i
Unrolled(w) ==
  LET tries == (IF w <= 15 THEN 2 ELSE 3)..5
  IN CHOOSE i \in tries : \A j \in tries : i + (w % i) < j + (w % j) \/ (i + (w % i) = j + (w % j) /\ i >= j)
Loop(g, f, t, w) ==
  LET c == Unrolled(w)
      rest == Rest(w, c)
      a == regalloc(g, regnode, Z)
      b == layout(a, f, t, rest, w \div c, a.n)
      d == gopcode(layout(b, Past(f, rest), Past(t, rest), c, 0, Z), "SUB", nodconst(1), Z, a.n)
      Pointed(n) == [n EXCEPT !.op = "REGISTER", !.type = Pointer(0)]
      e == gopcode(d, "ADD", nodconst(c * SZ_LONG), Z, Pointed(f))
      h == gopcode(gopcode(e, "ADD", nodconst(c * SZ_LONG), Z, Pointed(t)), "EQ", a.n, Z, Z)
  IN regfree(patch([h EXCEPT !.code[p(h)].as = "BGT"], p(h), pc(b)), a.n)
Copy(g, n, nn, w) ==
  LET \* both sides call: the address of the left one is saved in the frame
      a == regialloc(g, Long(nn), Z)
      s == regsalloc(lcgen(a, Long(nn), a.n), Long(nn))
      saved == [s.n EXCEPT !.type = Pointer(nn.type.w)]
      again == [Node("IND", nn.type, saved, Z) EXCEPT !.complex = 1]
      first == n.complex > nn.complex
      b == reglcgen(g, Long(IF first THEN n ELSE nn), Z)
      c == reglcgen(b, Long(IF first THEN nn ELSE n), Z)
      n1 == IF first THEN b.n ELSE c.n
      n2 == IF first THEN c.n ELSE b.n
      words == w \div SZ_LONG
      d == IF words <= 5 THEN layout(c, n1, n2, words, 0, Z) ELSE Loop(c, n1, n2, words)
  IN IF nn = Z THEN g
     ELSE IF Fcn(n) /\ Fcn(nn) THEN sugen(regfree(move(s, a.n, s.n), a.n), n, again, w)
     ELSE regfree(regfree(d, n1), n2)
\* the place for the result becomes the first argument
SuFunction(g, n, nn) ==
  LET at == IF nn.op = "IND" THEN nn.l ELSE Node("ADDR", Pointer(0), nn, Z)
      args == IF n.r = Z THEN at ELSE Node("LIST", n.type, at, n.r)
  IN cgen(g, [Node("FUNC", Type("void"), n.l, args) EXCEPT !.complex = 0], Z)
SuConst(g, n, nn) ==
  LET a == reglcgen(g, Long(nn), Z)
      b == move(a, nod32const(n.v), a.n)
  IN regfree(move(b, nod32const(n.v \div Pow2(LONG)), Past(a.n, 1)), a.n)
sugen(g, n, nn, w) ==
  LET Then(a) == sugen(a, n.r.l, nn, w)
      Else(a) == sugen(a, n.r.r, nn, w)
      rat == nodrat(n.type)
  IN CASE n.op = "CONST" -> IF nn = Z THEN g ELSE SuConst(g, n, nn)
       [] n.op = "DOT" ->
            LET a == sugen(g, n.l, nodrat(n.l.type), n.l.type.w)
            IN IF nn = Z THEN a ELSE sugen(a, [nodrat(n.type) EXCEPT !.off = n.r.v], nn, w)
       [] n.op = "AS" ->
            IF nn = Z THEN sugen(g, n.r, n.l, w)
            ELSE sugen(sugen(sugen(g, n.r, rat, w), rat, n.l, w), rat, nn, w)
       [] n.op = "FUNC" -> SuFunction(g, n, IF nn = Z THEN rat ELSE nn)
       [] n.op = "COND" -> Branched(g, n.l, Then, Else)
       [] n.op = "COMMA" -> sugen(cgen(g, n.l, Z), n.r, nn, w)
       [] OTHER -> Copy(g, n, nn, w)
==============================================================================
