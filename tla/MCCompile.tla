------------------------------ MODULE MCCompile ------------------------------
(***************************************************************************)
(* Statements of C, in the trees the front end makes of them, compiled by  *)
(* the code generator of cmd/ic and run in several worlds of variables; or *)
(* no statements, but the multiplications of Multiplied.                   *)
(***************************************************************************)
EXTENDS CodeGen, Multiplied

VARIABLE tree                           \* the statement, Z after the last one

vars == <<thechar, tree, mulVars>>

-----------------------------------------------------------------------------
(* trees as tcom leaves them                                               *)

CInt == Type("int")
Uint == Type("uint")
Double == Type("double")
Vlong == Type("vlong")
TypeOf(sym) ==
  CASE sym = "c" -> Type("char") [] sym = "uc" -> Type("uchar") [] sym = "s" -> Type("short")
    [] sym = "us" -> Type("ushort") [] sym \in {"x", "y", "count"} -> CInt [] sym \in {"ux", "uy"} -> Uint
    [] sym = "v" -> Vlong [] sym = "uv" -> Type("uvlong") [] sym = "f" -> Type("float") [] sym = "d" -> Double
    [] sym \in {"p", "P"} -> Pointer(4) [] sym = "b" -> Type("long") [] OTHER -> Type("func")
V(sym) == Name(sym, TypeOf(sym))
K(v) == Const(v, CInt)
Conv(e, t) ==
  IF e.type.etype = t.etype THEN e
  ELSE IF e.op = "CONST" THEN Const(Convert(e.v, e.type, [t EXCEPT !.nbits = 0]), [t EXCEPT !.nbits = 0, !.shift = 0])
  ELSE Node("CAST", [t EXCEPT !.nbits = 0, !.shift = 0], e, Z)
\* the type two operands are brought to
Rank == <<"int", "uint", "vlong", "uvlong", "float", "double">>
Level(t) == IF \E i \in DOMAIN Rank : Rank[i] = t.etype THEN CHOOSE i \in DOMAIN Rank : Rank[i] = t.etype
            ELSE IF t.etype = "ulong" THEN 2 ELSE 1
Common2(l, r) == IF l.type.etype = "ind" THEN l.type ELSE Type(Rank[IF Level(l.type) > Level(r.type) THEN Level(l.type) ELSE Level(r.type)])
UnsignedOp == [MUL |-> "LMUL", DIV |-> "LDIV", MOD |-> "LMOD", ASHR |-> "LSHR", LT |-> "LO", LE |-> "LS", GT |-> "HI", GE |-> "HS",
               ASMUL |-> "ASLMUL", ASDIV |-> "ASLDIV", ASMOD |-> "ASLMOD", ASASHR |-> "ASLSHR"]
Op(o, t) == IF t.etype \in typeu /\ o \in DOMAIN UnsignedOp THEN UnsignedOp[o] ELSE o
Bin(o, l, r) ==
  LET t == IF o \in Shifts THEN Common2(l, K(0)) ELSE Common2(l, r)
  IN Node(Op(o, t), IF o \in Relations THEN CInt ELSE t, Conv(l, t), Conv(r, IF o \in Shifts THEN CInt ELSE t))
AsOp(o, l, r) ==
  IF r.type.etype \in typefd /\ l.type.etype \notin typefd THEN Node(o, r.type, l, r)
  ELSE Node(Op(o, l.type), l.type, l, IF o \in {"ASASHL", "ASASHR"} THEN Conv(r, CInt) ELSE Conv(r, l.type))
Set(l, e) == Node("AS", l.type, l, Conv(e, l.type))
Inc(o, l) == Node(o, l.type, l, Z)
Un(o, t, e) == Node(o, t, e, Z)
Star(e) == Node("IND", CInt, e, Z)
Cond(c, a, b) == Node("COND", a.type, c, Node("COLON", a.type, a, b))
List(a, b) == Node("LIST", CInt, a, b)
Call(fn, args) == Node("FUNC", Result(fn), Name(fn, Type("func")), args)
FieldOf(etype, nbits, shift) == Node("BIT", Field(etype, nbits, shift), V("b"), Z)
\* *(p + n)
Elem(n) == Star(Node("ADD", Pointer(4), V("p"), Const(n, Pointer(4))))
StructAt(sym, w) == Name(sym, Struct(w))
StarStruct(e, w) == Node("IND", Struct(w), e, Z)
Do(t) == Node("EXPR", CInt, t, Z)

-----------------------------------------------------------------------------
(* the statements                                                          *)

Narrows == {"c", "uc", "s", "us"}
Words == {"x", "ux"}
Vlongs == IF thechar = "j" THEN {"v", "uv"} ELSE {}
Floats == {"f", "d"}
Scalars == Narrows \cup Words \cup Vlongs \cup Floats
Integers1 == Narrows \cup Words \cup Vlongs

Few == {K(0), K(5), K(-IMM), K(IMM), V("y"), V("uc"), V("ux"), Star(V("p")), Bin("MUL", V("y"), K(3)),
        Call("fi", List(List(V("y"), K(2)), V("x")))}
Fields == {FieldOf("uint", 3, 0), FieldOf("uint", 2, 3), FieldOf("int", 3, 2), FieldOf("uint", 3, 5)}
Places == {V("x"), V("c"), Star(V("p")), FieldOf("uint", 2, 3)}

IsConversion(t) == \E a \in Scalars, b \in Scalars : t = Set(V(a), V(b))
IsConstant(t) ==
  \/ \E a \in Integers1, k \in {-3, 0, 1, 7, IMM, 127} : t = Set(V(a), K(k))
  \/ \E k \in {-5, 0, 1, 300} : t = Set(V("v"), Const(k, Vlong))
  \/ t = Set(V("v"), V("v"))
  \/ \E k \in -5..8 : t = Set(V("d"), Const(k, Double))
  \/ \E k \in {0, 3} : t = Set(V("f"), Const(k, Type("float")))
\* divisors that are not zero, counts that are less than the width
Divisor(e) == IF e.op = "CONST" THEN e ELSE Bin("OR", e, K(1))
Counter(e) == IF e.op = "CONST" THEN K(e.v % 8) ELSE Bin("AND", e, K(3))
Proper(o, r) == IF o \in {"DIV", "MOD"} THEN Divisor(r) ELSE IF o \in Shifts THEN Counter(r) ELSE r
IntOps == Sums \cup {"MUL", "DIV", "MOD", "ASHL", "ASHR"}
Usable(o, l, r) == ~(l.op = "CONST" /\ r.op = "CONST") /\ ~(o \in {"DIV", "MOD", "MUL"} /\ K(0) \in {l, r})
IsBinary(t) ==
  \/ \E o \in IntOps, l \in Few, r \in Few : Usable(o, l, r) /\ t = Set(V("x"), Bin(o, l, Proper(o, r)))
  \/ \E o \in {"SUB", "MUL", "ASHR"}, a \in Places, r \in Few : r # K(0) /\ t = Set(a, Bin(o, V("y"), Proper(o, r)))
  \/ \E o \in {"ADD", "SUB", "MUL"}, a \in Floats, r \in {V("f"), V("d"), V("ux"), Const(3, Double), Call("fd", List(V("d"), V("y")))} :
       t = Set(V("d"), Bin(o, V(a), r))
  \/ \E o \in IntOps, a \in Vlongs, r \in {K(3), V("y"), V("v"), Call("fv", List(List(V("y"), V("v")), K(1)))} :
       thechar = "j" /\ t = Set(V("v"), Bin(o, V(a), Proper(o, r)))
  \/ \E n \in {0, 4}, r \in Few : t = Set(Elem(n), Bin("ADD", r, V("y")))

AssignOps == {"ASADD", "ASSUB", "ASAND", "ASOR", "ASXOR", "ASMUL", "ASDIV", "ASMOD", "ASASHL", "ASASHR"}
Bare(o) == Assigns[o]
IsAssignOp(t) ==
  \E o \in AssignOps, l \in {V(a) : a \in Integers1} \cup {Star(V("p"))} \cup Fields, r \in {K(1), K(3), V("y"), V("uc"), Call("fi", List(List(V("y"), K(2)), V("x")))} :
    /\ Fit(r.v, [l.type EXCEPT !.nbits = 0]) = r.v
    /\ \/ t = AsOp(o, l, Proper(Bare(o), r))
       \/ t = Set(V("uy"), AsOp(o, l, Proper(Bare(o), r)))
       \/ t = Set(V("us"), AsOp(o, l, Proper(Bare(o), r)))
IsFloatOp(t) ==
  \/ \E o \in {"ASADD", "ASSUB", "ASMUL"}, l \in Floats, r \in {V("d"), V("y"), Const(6, Double)} :
       t \in {AsOp(o, V(l), r), Set(V("d"), AsOp(o, V(l), r))}
  \/ \E o \in {"ASADD", "ASSUB"}, l \in Words \cup Narrows, r \in {V("d"), V("f")} : t = AsOp(o, V(l), r)
Steps1 == {"PREINC", "PREDEC", "POSTINC", "POSTDEC"}
IsIncrement(t) ==
  \E o \in Steps1, l \in {V(a) : a \in Scalars \cup {"p"}} \cup {Star(V("p"))} \cup Fields :
    \/ t = Inc(o, l)
    \/ l.type.etype # "ind" /\ t \in {Set(V("y"), Inc(o, l)), Set(V("us"), Inc(o, l))}
    \/ l.type.etype = "ind" /\ t = Set(V("P"), Inc(o, l))
    \/ t = Set(V("y"), Star(Inc(o, V("p"))))

\* conditions
Rels == {"EQ", "NE", "LT", "LE", "GT", "GE"}
Pairs == {<<V("x"), V("y")>>, <<V("ux"), V("uy")>>, <<V("c"), V("s")>>, <<V("uc"), K(2)>>, <<V("y"), K(0)>>,
          <<V("f"), V("f")>>, <<V("d"), V("f")>>, <<V("d"), Const(0, Double)>>, <<V("y"), Bin("ADD", V("x"), V("uc"))>>,
          <<V("y"), Call("fi", List(List(V("y"), K(2)), V("x")))>>,
          <<Call("fi", List(List(V("y"), K(2)), V("x"))), Call("fi", List(List(K(1), Conv(V("uc"), CInt)), K(0)))>>,
          <<Call("fd", List(V("d"), V("y"))), V("d")>>}
Pairs64 == IF thechar = "j" THEN {<<V("v"), V("v")>>, <<V("v"), V("y")>>, <<V("uv"), Const(3, Type("uvlong"))>>} ELSE {}
Simple == {Bin(o, q[1], q[2]) : o \in Rels, q \in Pairs \cup Pairs64}
            \cup {V(a) : a \in Scalars} \cup {Inc(o, V(a)) : o \in Steps1, a \in {"uc", "s", "x", "f"}}
            \cup {Set(V("us"), V("y")), AsOp("ASADD", V("uc"), K(3)), AsOp("ASADD", V("c"), V("uc")), FieldOf("uint", 3, 0)}
Lt(a, b) == Bin("LT", V(a), V(b))
Compound ==
  {Node("ANDAND", CInt, a, b) : a \in {Lt("x", "y"), V("d")}, b \in {Bin("EQ", V("uc"), K(2)), Inc("POSTINC", V("x"))}}
    \cup {Node("OROR", CInt, Lt("x", "y"), Node("ANDAND", CInt, V("uc"), Un("NOT", CInt, V("f"))))}
    \cup {Node("OROR", CInt, Node("COMMA", CInt, Set(V("x"), K(1)), V("y")), K(k)) : k \in {0, 1}}
    \cup {Un("NOT", CInt, Node("OROR", CInt, Lt("ux", "uy"), Call("fc", V("y"))))}
    \cup {Cond(V("uc"), Lt("x", "y"), Un("NOT", CInt, V("x")))}
    \cup {Node("ANDAND", CInt, Call("fc", V("y")), Cond(Lt("x", "y"), V("s"), Lt("c", "uc")))}
IsCondition(t) ==
  \E e \in Simple \cup Compound, k \in 1..4 :
    \/ k = 1 /\ t = Set(V("x"), Cond(e, K(5), V("y")))
    \/ k = 2 /\ t = Set(V("y"), IF e.op \in Relations \cup {"ANDAND", "OROR"} THEN e ELSE Un("NOT", CInt, e))
    \/ k = 3 /\ t = Set(V("uc"), Un("NOT", CInt, IF e.op \in Relations THEN Un("NOT", CInt, e) ELSE e))
    \/ k = 4 /\ t = Node("ANDAND", CInt, e, Inc("POSTINC", V("count")))

\* calls: what is computed before what is placed
Arg == {V("y"), K(0), V("c"), Bin("SUB", V("x"), V("y")), Call("fi", List(List(V("y"), K(2)), V("x"))), Call("fc", V("uy")), Inc("PREINC", V("x"))}
Ints3 == {a \in Arg \X Arg \X Arg : Cardinality({i \in 1..3 : a[i].op = "PREINC"}) = 0 \/ a = <<V("c"), Inc("PREINC", V("x")), V("c")>>}
IsCall(t) ==
  \/ \E a \in Ints3 : t = Set(V("x"), Call("fi", List(List(Conv(a[1], CInt), Conv(a[2], CInt)), Conv(a[3], CInt))))
  \/ \E a \in {V("y"), K(0), Call("fc", V("y"))}, e \in {V("v"), Const(300, Vlong), Call("fv", List(List(V("x"), V("v")), K(1)))} :
       t = Set(V("v"), Call("fv", List(List(Conv(a, CInt), e), V("x"))))
  \/ \E e \in {V("d"), Const(0, Double), Call("fd", List(V("d"), V("x")))} :
       t \in {Set(V("d"), Call("fd", List(e, V("y")))), Call("fd", List(e, Call("fi", List(List(V("y"), K(2)), V("x")))))}
  \/ \E e \in {StructAt("A", 8), Call("fs", List(V("x"), V("y")))} : t = Set(V("x"), Call("ft", List(e, V("y"))))
  \/ \E e \in {Star(Call("fp", V("y"))), Star(V("p"))} : t \in {Set(V("ux"), e), Set(e, Call("fi", List(List(V("y"), K(2)), V("x")))), AsOp("ASADD", e, V("y"))}
  \/ \E fn \in {V("P"), Call("fq", V("y"))}, a \in {V("y"), Call("fc", V("y"))} :
       t = Set(V("x"), Node("FUNC", CInt, Node("IND", Type("func"), fn, Z), List(List(Conv(a, CInt), K(2)), V("ux"))))

\* structures
Sizes == {4, 8, 12, 16, 20, 24, 28, 32, 36, 40} \cup (IF thechar = "j" THEN {44, 48, 64, 68, 72, 76, 80} ELSE {})
Sides(w) == IF w > 40 THEN <<"G", "H">> ELSE <<"A", "B">>
Member(e, off, t) == Node("DOT", t, e, Const(off, CInt))
IsStructure(t) ==
  \/ \E w \in Sizes : t = Set(StructAt(Sides(w)[1], w), StructAt(Sides(w)[2], w))
  \/ \E a \in {StructAt("A", 8), StarStruct(V("p"), 8), StarStruct(Call("fp", V("y")), 8)},
        e \in {StructAt("B", 8), StarStruct(V("p"), 8), StarStruct(Call("fp", V("x")), 8), Call("fs", List(V("x"), V("y"))),
               Cond(Lt("x", "y"), StructAt("B", 8), Call("fs", List(V("x"), V("y")))),
               Node("COMMA", Struct(8), Set(V("x"), K(1)), StructAt("B", 8))} :
       t = Node("AS", Struct(8), a, e)
  \/ t = Call("fs", List(V("x"), V("y")))
  \/ t = Node("AS", Struct(8), StructAt("A", 8), Node("AS", Struct(8), StructAt("B", 8), StarStruct(V("p"), 8)))
  \/ \E off \in {0, 4}, a \in {V("x"), V("us")} : t = Set(a, Member(Call("fs", List(V("x"), V("y"))), off, IF off = 0 THEN CInt ELSE Type("short")))
  \/ t = Set(V("x"), Call("ft", List(Node("DOT", Struct(8), Call("fs", List(V("x"), V("y"))), Const(0, CInt)), K(3))))

\* bit fields
IsField1(t) ==
  \/ \E a \in Fields, e \in {K(1), K(5), V("y"), V("c"), Call("fi", List(List(V("y"), K(2)), V("x")))} :
       t \in {Set(a, e), Set(V("us"), Set(a, e))}
  \/ \E a \in Fields : t \in {Set(V("y"), Bin("ADD", a, V("x"))), Set(V("us"), a), Set(a, FieldOf("uint", 3, 0))}

\* full trees of operations, up to six deep: these hold a value in each of the seven
\* registers of regalloc, and one more level is "out of fixed registers"
Deepest == 6
RECURSIVE Full(_, _, _)
Full(o, e, d) == IF d = 0 THEN e ELSE Bin(o, Full(o, e, d - 1), Full(o, e, d - 1))
IsDeep(t) ==
  \E d \in 3..Deepest, o \in {"SUB", "MUL"}, e \in {V("y"), V("uc"), Star(V("p")), Call("fc", V("y"))} :
    (e.op = "FUNC" => d = 3) /\ t = Set(V("x"), Full(o, e, d))

IsProduct(t, k) == t = Set(V("x"), Bin("MUL", Star(V("p")), K(k)))

\* switches of n cases on an int, or on a vlong, with 5 as the o-th; case i sets x to
\* i + 1, and the default sets it to 1
Cases(n, o, e) == [Node("SWITCH", CInt, e, Z) EXCEPT !.v = n, !.off = o]
IsSwitch(t) == \E n \in 1..13, o \in 1..13, e \in {V("y")} \cup (IF thechar = "j" THEN {V("v")} ELSE {}) :
  o <= n /\ t = Cases(n, o, e)
CaseOf(t, i) == 3 * (i - t.off) + 5

-----------------------------------------------------------------------------
(* compiling                                                               *)

Fresh == [code |-> <<>>, reg |-> [r \in 0..(NREG + NREG - 1) |-> IF r = REGZERO THEN 1 ELSE 0], lasti |-> 0,
          cursafe |-> 0, curarg |-> 0, maxargsafe |-> 0, mul |-> NoMul, errors |-> {}, n |-> Z]
\* the bodies of the cases and of the default come first; each sets x
RECURSIVE Bodies(_, _, _)
Bodies(w, i, n) == IF i > n THEN w ELSE Bodies(gbranch(gmove(w, K(i + 1), V("x"))), i + 1, n)
\* the numbers of the jumps over the bodies and out of them, and the labels of the bodies
Compiled(w, t) ==
  LET n == t.v
      a == Bodies(gbranch(w), 0, n)
      size == (p(a) - 1) \div (n + 1)
      label(i) == 2 + i * size
      b == Held1(patch(a, 1, pc(a)), t.l, Z)
      c == regfree(swit1(b, [i \in 1..n |-> [val |-> CaseOf(t, i), label |-> label(i)]], label(0), b.n), b.n)
      Out(code, i) == [code EXCEPT ![label(i) + size - 1].to = Opd("branch", "", NREG, pc(c))]
      RECURSIVE Outs(_, _)
      Outs(code, i) == IF i > n THEN code ELSE Outs(Out(code, i), i + 1)
  IN IF t.op = "SWITCH" THEN [c EXCEPT !.code = Outs(@, 0)] ELSE cgen(w, xcom(t), Z)
\* the statement's code, with what the compiler kept from the statements before
Code == Compiled([Fresh EXCEPT !.mul = multab], tree)

IsStatement(t) ==
  \/ IsConversion(t) \/ IsConstant(t) \/ IsBinary(t) \/ IsAssignOp(t) \/ IsFloatOp(t)
  \/ IsIncrement(t) \/ IsCondition(t) \/ IsCall(t) \/ IsStructure(t) \/ IsField1(t) \/ IsSwitch(t) \/ IsDeep(t)
IsCode == tree # Z
Init ==
  \/ /\ thechar \in {"i", "j"} /\ multab = NoMul /\ MulIdle
     /\ IsStatement(tree) \/ IsProduct(tree, -20)
  \/ thechar = "i" /\ tree = Z /\ MulInit
\* the next of a row of statements that multiply
NextProduct ==
  \E k \in (-20..42) \ {0} :
    /\ IsProduct(tree, k)
    /\ multab' = mulcon0(multab, k).mul
    /\ IsProduct(tree', IF k = -1 THEN 1 ELSE k + 1) /\ UNCHANGED <<thechar, row, asked, answer>>
\* no statement is left
Last ==
  /\ tree # Z /\ \A k \in (-20..42) \ {0} : ~IsProduct(tree, k)
  /\ tree' = Z /\ UNCHANGED <<thechar, mulVars>>
Done == tree = Z /\ ~Remain /\ UNCHANGED vars
Next == NextProduct \/ Last \/ (Multiply /\ UNCHANGED <<thechar, tree>>) \/ Done
Spec == Init /\ [][Next]_vars

-----------------------------------------------------------------------------
(* worlds                                                                  *)

Pick(list, k) == list[1 + (k % Len(list))]
Whole(k) == Pick(<<5, -1, 3, 0, -128, 127, 31, -33, 2>>, k)
Halves2(k) == Pick(<<3, NaN, -2, 0, 5, 6>>, k)
Worlds == 0..7
World(k) ==
  LET Put1(m, sym, x) == Store(m, Place(sym), TypeOf(sym), x)
      m0 == [a \in Addresses |-> ((a * (k + 1)) \div 3) % 4]
      m1 == Put1(Put1(Put1(Put1(m0, "c", Pick(<<1, -2, -1, 0>>, k)), "uc", Pick(<<3, 0, 1, 2>>, k)), "s", Pick(<<-8, 7, -1, 3, 0>>, k)),
                 "us", Pick(<<15, 8, 0, 7>>, k))
      m2 == Put1(Put1(Put1(Put1(m1, "x", Whole(k)), "y", Whole(k * 2 + (k \div 4))), "ux", Whole(k + 4)), "uy", Whole(k * 3 + 1))
      m3 == Put1(Put1(Put1(Put1(m2, "v", Pick(<<5, -300, 127, 256, -1>>, k)), "uv", Pick(<<-1, 4, 200, 0>>, k)), "f", Pick(<<NaN, 0, 7, -3, 4>>, k)),
                 "d", Halves2(k))
  IN Put1(Put1(Put1(m3, "p", Place(Pick(<<"x", "A", "ux">>, k))), "P", Place("fi")), "count", 0)
\* the element of a set of at most one
CaseIn(s) == IF s = {} THEN 0 ELSE CHOOSE i \in s : TRUE
Observed == Statics \ Rathole
Wanted1(k) ==
  LET w == World(k)
      y == Load(w, Place(tree.l.sym), tree.l.type)
  IN IF tree.op = "SWITCH"
     THEN Store(w, Place("x"), CInt, 1 + CaseIn({i \in 1..tree.v : CaseOf(tree, i) = y}))
     ELSE Means(tree, w).m
Ran(g, k) ==
  LET sp == Top - g.maxargsafe - SZ_IND
      Fixed(i) == CASE i = FREGHALF -> 1 [] i = FREGONE -> 2 [] i = FREGTWO -> 4 [] OTHER -> 0
  IN Run(g.code, [pc |-> 1, r |-> [i \in 0..31 |-> IF i = REGSP THEN Reg(sp) ELSE IF i = REGZERO THEN 0 ELSE Reg(77)],
                  f |-> [i \in 0..31 |-> [kind |-> "D", v |-> Fixed(i)]], m |-> World(k)], 300)

\* what the compiler is known to make otherwise, of a node e that is an operand of u:
RECURSIVE Nodes(_)
Nodes(t) == IF t = Z THEN {} ELSE {t} \cup Nodes(t.l) \cup Nodes(t.r)
Stepping == DOMAIN Assigns \cup {"PREINC", "PREDEC"}
\* the value of ++ and op= of a narrow type keeps the bits that did not fit, which a
\* test for zero and the conversion of a char to an unsigned short see;
Unfitted(u, e) ==
  /\ e.op \in Stepping /\ e.type.etype \in DOMAIN Unnormal
  /\ \/ u.op \in {"NOT", "ANDAND", "OROR"}
     \/ u.op = "COND" /\ e = u.l
     \/ u.op = "CAST" /\ e.type.etype = "char" /\ u.type.etype = "ushort"
\* the value of an assignment to a field with a sign has none;
SignLost(e) == e.op \in Stepping \cup {"AS"} /\ IsField(e.l) /\ e.l.type.etype \notin typeu
\* on riscv64, the address of a structure is kept in four bytes while the other is computed
Truncates(e) ==
  LET x == xcom(e)
  IN thechar = "j" /\ e.op = "AS" /\ e.type.etype = "struct" /\ Fcn(x.l) /\ Fcn(x.r) /\ x.r.op = "IND"
Deviates ==
  \E u \in Nodes(tree) : Truncates(u) \/ \E e \in {u.l, u.r} \ {Z} : Unfitted(u, e) \/ SignLost(e)
\* the least immediate, when subtracted, is added as one too many on riscv64
Least1(q) == q.as = "SUBW" /\ q.from.t = "const" /\ q.from.off = -IMM

RunsAsC(g) ==
  ~Deviates =>
    \A k \in Worlds :
      LET s == Ran(g, k)
          m == Wanted1(k)
      IN s.pc = Len(g.code) + 1 /\ \A a \in Observed : s.m[a] = m[a]
\* The code of a statement runs to its end and leaves every variable as C says the
\* statement does, in every world: what cgen, boolgen, sugen, gargs, gmove and the
\* field and multiplication code of swt.c make, with calls that destroy the registers
\* and their own arguments, floating registers that do not convert, NaN, the wrapping
\* of 4 and 8 bytes, and the cache of multiplications that earlier statements filled.
ComputesC == [][IsCode => RunsAsC(Code)]_vars

IsClean(g) == g.errors = {} /\ g.reg = Fresh.reg
\* No statement of these runs out of registers or meets a node the generator does not
\* know, and each leaves every register's count of uses as it found it: what regalloc,
\* regret, gargs and bitload take, regfree and bitstore give back on every path.
Clean == [][IsCode => IsClean(Code)]_vars

IsTaken(g) == \A i \in DOMAIN g.code : Takes(g.code[i]) \/ Least1(g.code[i])
\* Every instruction has a row in the loader's optab: an immediate that sconst of
\* txt.c lets through, or that gmove stores, is one that cmd/il can encode.
LinkerTakes == [][IsCode => IsTaken(Code)]_vars
=============================================================================
