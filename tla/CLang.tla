-------------------------------- MODULE CLang --------------------------------
(***************************************************************************)
(* What C expressions mean: the trees the shared front end (cmd/cc, not in *)
(* this tree) hands to the RISC-V code generator, and their values.        *)
(*                                                                         *)
(* A byte has 2 bits here, so that a char has 4 values, an int 256 and a   *)
(* vlong 65536; widths in bytes, and with them every decision of the code  *)
(* generator, are the real ones.  A floating number is counted in halves;  *)
(* one value stands for NaN.  Signed overflow wraps.                       *)
(***************************************************************************)
EXTENDS Integers, Sequences, FiniteSets

VARIABLE thechar                      \* "i", the compiler for riscv, or "j"

-----------------------------------------------------------------------------
(* types *)

SZ_LONG == 4
SZ_VLONG == 8
SZ_IND == IF thechar = "j" THEN 8 ELSE 4

\* etype; the width of a structure or of what a pointer points to; a bit field
Type(etype) == [etype |-> etype, w |-> 0, nbits |-> 0, shift |-> 0]
Pointer(w) == [Type("ind") EXCEPT !.w = w]
Struct(w) == [Type("struct") EXCEPT !.w = w]
Field(etype, nbits, shift) == [Type(etype) EXCEPT !.nbits = nbits, !.shift = shift]

ewidth(e) ==
  CASE e \in {"char", "uchar"} -> 1 [] e \in {"short", "ushort"} -> 2
    [] e \in {"int", "uint", "long", "ulong", "float"} -> 4
    [] e \in {"vlong", "uvlong", "double"} -> 8
    [] e = "ind" -> SZ_IND
Width(t) == IF t.etype = "struct" THEN t.w ELSE ewidth(t.etype)

typeu == {"uchar", "ushort", "uint", "ulong", "uvlong", "ind"}
typev == {"vlong", "uvlong"}
typefd == {"float", "double"}
typeilp == {"int", "uint", "long", "ulong", "ind"}
typechlp == typeilp \cup {"char", "uchar", "short", "ushort"}
typeword == IF thechar = "j" THEN typechlp \cup typev ELSE typechlp
typecmplx == IF thechar = "j" THEN {"struct"} ELSE {"struct"} \cup typev

-----------------------------------------------------------------------------
(* trees *)

Z == [op |-> "Z"]
FNX == 100
INDEXED == 9

\* op, type and operands; the number of a constant (the count of halves of a
\* floating one); the symbol, register and offset of an address
Node(op, type, l, r) ==
  [op |-> op, type |-> type, l |-> l, r |-> r, v |-> 0, sym |-> "", reg |-> 0,
   off |-> 0, addable |-> 0, complex |-> 0]
Leaf(op, type, addable) == [Node(op, type, Z, Z) EXCEPT !.addable = addable]
Const(v, type) == [Leaf("CONST", type, 20) EXCEPT !.v = v]
Name(sym, type) == [Leaf("NAME", type, 10) EXCEPT !.sym = sym]

Relations == {"EQ", "NE", "LT", "LE", "GT", "GE", "LO", "LS", "HI", "HS"}
Shifts == {"ASHL", "ASHR", "LSHR"}
Products == {"MUL", "LMUL", "DIV", "LDIV", "MOD", "LMOD"}
Sums == {"ADD", "SUB", "AND", "OR", "XOR"}
\* op= and the operator it applies
Assigns == [ASADD |-> "ADD", ASSUB |-> "SUB", ASAND |-> "AND", ASOR |-> "OR", ASXOR |-> "XOR",
            ASASHL |-> "ASHL", ASASHR |-> "ASHR", ASLSHR |-> "LSHR", ASMUL |-> "MUL",
            ASLMUL |-> "LMUL", ASDIV |-> "DIV", ASLDIV |-> "LDIV", ASMOD |-> "MOD", ASLMOD |-> "LMOD"]

-----------------------------------------------------------------------------
(* numbers *)

BYTE == 2                             \* bits of a byte
Pow2(k) == 2^k
Unsigned(x, bits) == x % Pow2(bits)
Signed(x, bits) ==
  LET u == Unsigned(x, bits) IN IF u >= Pow2(bits - 1) THEN u - Pow2(bits) ELSE u
BitSet(x, bits) == {k \in 0..(bits - 1) : (x \div Pow2(k)) % 2 = 1}
RECURSIVE Total(_)
Total(s) == IF s = {} THEN 0 ELSE LET k == CHOOSE k \in s : TRUE IN Pow2(k) + Total(s \ {k})
Bitwise(o, x, y) ==
  LET a == BitSet(x, 16)
      b == BitSet(y, 16)
  IN Signed(Total(CASE o = "AND" -> a \cap b [] o = "OR" -> a \cup b
                    [] o = "XOR" -> (a \cup b) \ (a \cap b)), 16)
Abs(x) == IF x < 0 THEN -x ELSE x
Quotient(x, y) == IF (x < 0) = (y < 0) THEN Abs(x) \div Abs(y) ELSE -(Abs(x) \div Abs(y))

\* as a value of an integer type
Fit(x, t) == IF t.etype \in typeu THEN Unsigned(x, BYTE * Width(t)) ELSE Signed(x, BYTE * Width(t))

NaN == -32768
Truncated(h) == Quotient(h, 2)
Convert(x, from, to) ==
  IF from = to \/ from.etype = "struct" THEN x
  ELSE IF from.etype \in typefd THEN IF to.etype \in typefd THEN x ELSE Fit(Truncated(x), to)
  ELSE IF to.etype \in typefd THEN 2 * x ELSE Fit(x, to)

Arith(o, t, x, y) ==
  IF t.etype \in typefd
  THEN IF NaN \in {x, y} THEN NaN
       ELSE CASE o = "ADD" -> x + y [] o = "SUB" -> x - y [] o = "MUL" -> (x * y) \div 2
              [] o = "DIV" -> (2 * x) \div y
  ELSE Fit(CASE o = "ADD" -> x + y [] o = "SUB" -> x - y
             [] o \in {"MUL", "LMUL"} -> Signed(x, 16) * Signed(y, 16)
             [] o \in {"DIV", "LDIV"} -> Quotient(x, y)
             [] o \in {"MOD", "LMOD"} -> x - (y * Quotient(x, y))
             [] o = "ASHL" -> Signed(x, 16 - y) * Pow2(y)
             [] o \in {"ASHR", "LSHR"} -> x \div Pow2(y)
             [] o \in {"AND", "OR", "XOR"} -> Bitwise(o, x, y), t)
Holds(o, t, x, y) ==
  IF t.etype \in typefd /\ NaN \in {x, y} THEN o = "NE"
  ELSE CASE o = "EQ" -> x = y [] o = "NE" -> x # y [] o \in {"LT", "LO"} -> x < y
         [] o \in {"LE", "LS"} -> x <= y [] o \in {"GT", "HI"} -> x > y [] o \in {"GE", "HS"} -> x >= y

-----------------------------------------------------------------------------
(* memory: the bytes at addresses; where each symbol is *)

Top == IF thechar = "j" THEN 440 ELSE 252     \* of the frame
Place(sym) ==
  CASE sym = "c" -> 0 [] sym = "uc" -> 1 [] sym = "s" -> 2 [] sym = "us" -> 4
    [] sym = "x" -> 8 [] sym = "y" -> 12 [] sym = "ux" -> 16 [] sym = "uy" -> 20
    [] sym = "v" -> 24 [] sym = "uv" -> 32 [] sym = "f" -> 40 [] sym = "d" -> 48
    [] sym = "p" -> 56 [] sym = "b" -> 64 [] sym = "count" -> 68
    [] sym = "A" -> 72 [] sym = "B" -> 112 [] sym = ".rathole" -> 152
    [] sym = "P" -> 192 [] sym = "G" -> 228 [] sym = "H" -> 308 [] sym = ".safe" -> Top
    [] sym = "fi" -> 253
Statics == 0..(IF thechar = "j" THEN 387 ELSE 199)
Rathole == 152..191
Addresses == 0..(Top - 1)

Byte(x, i) == (x \div Pow2(BYTE * i)) % Pow2(BYTE)
Number(bytes) ==
  LET RECURSIVE Sum(_)
      Sum(i) == IF i > Len(bytes) THEN 0 ELSE bytes[i] * Pow2(BYTE * (i - 1)) + Sum(i + 1)
  IN Sum(1)
Bytes(m, a, w) == [i \in 1..w |-> m[a + i - 1]]
Raw(m, a, w) == Signed(Number(Bytes(m, a, w)), BYTE * w)
RECURSIVE Stored(_, _, _, _)
Stored(m, a, w, x) == IF w = 0 THEN m ELSE Stored([m EXCEPT ![a + w - 1] = Byte(x, w - 1)], a, w - 1, x)

\* the least float stands for NaN as the least double does
ToFloat(x) == IF x = NaN THEN -128 ELSE x
FromFloat(x) == IF x = -128 THEN NaN ELSE x
Load(m, a, t) ==
  CASE t.etype = "struct" -> Bytes(m, a, t.w)
    [] t.etype = "float" -> FromFloat(Raw(m, a, 4))
    [] t.etype = "double" -> Raw(m, a, 8)
    [] OTHER -> Fit(Raw(m, a, Width(t)), t)
Store(m, a, t, x) ==
  CASE t.etype = "struct" -> [i \in DOMAIN m |-> IF i \in a..(a + t.w - 1) THEN x[i - a + 1] ELSE m[i]]
    [] t.etype = "float" -> Stored(m, a, 4, ToFloat(x))
    [] OTHER -> Stored(m, a, Width(t), x)
\* a bit field within its long
FieldLoad(m, a, t) == Fit((Unsigned(Raw(m, a, 4), 4 * BYTE) \div Pow2(t.shift)), [t EXCEPT !.nbits = 0])
FieldFit(x, t) == IF t.etype \in typeu THEN Unsigned(x, t.nbits) ELSE Signed(x, t.nbits)
FieldStore(m, a, t, x) ==
  LET old == Unsigned(Raw(m, a, 4), 4 * BYTE)
      low == old % Pow2(t.shift)
      high == old \div Pow2(t.shift + t.nbits)
  IN Stored(m, a, 4, low + Unsigned(x, t.nbits) * Pow2(t.shift) + high * Pow2(t.shift + t.nbits))

-----------------------------------------------------------------------------
(* the functions that are called: their parameters, their result, what     *)
(* they return and what they do                                            *)

Params(fn) ==
  CASE fn = "fi" -> <<Type("int"), Type("int"), Type("int")>>
    [] fn = "fc" -> <<Type("int")>>
    [] fn = "fd" -> <<Type("double"), Type("int")>>
    [] fn = "fv" -> <<Type("int"), Type("vlong"), Type("int")>>
    [] fn = "fs" -> <<Type("int"), Type("int")>>
    [] fn = "ft" -> <<Struct(8), Type("int")>>
    [] fn \in {"fp", "fq"} -> <<Type("int")>>
Result(fn) ==
  CASE fn \in {"fi", "ft"} -> Type("int") [] fn = "fc" -> Type("uchar") [] fn = "fd" -> Type("double")
    [] fn = "fv" -> Type("vlong") [] fn = "fs" -> Struct(8) [] fn \in {"fp", "fq"} -> Pointer(4)
Returns(fn, a) ==
  CASE fn = "fi" -> Fit(a[1] + 3 * a[2] + 5 * a[3], Type("int"))
    [] fn = "fc" -> Fit(a[1] + 1, Type("uchar"))
    [] fn = "fd" -> IF a[1] = NaN THEN NaN ELSE a[1] + a[2]
    [] fn = "fv" -> Fit(a[1] + 3 * a[2] + 5 * a[3], Type("vlong"))
    [] fn = "fs" -> [i \in 1..8 |-> Byte(Unsigned(a[1] + 3 * a[2], 16), i - 1)]
    [] fn = "ft" -> Fit(Number(a[1]) + a[2], Type("int"))
    [] fn = "fp" -> IF a[1] % 2 = 0 THEN Place("x") ELSE Place("y")
    [] fn = "fq" -> Place("fi")
Counted(m) == Store(m, Place("count"), Type("int"), Load(m, Place("count"), Type("int")) + 1)

-----------------------------------------------------------------------------
(* meaning: the value and the memory left *)

Answer(v, m) == [v |-> v, m |-> m]
Truth(b) == IF b THEN 1 ELSE 0
IsField(e) == e.op = "BIT"
\* where the node is evaluated, its operands left to right
RECURSIVE Means(_, _), Where(_, _), Arguments(_, _)
Where(e, m) ==
  CASE e.op = "NAME" -> Answer(Place(e.sym) + e.off, m)
    [] e.op = "IND" -> Means(e.l, m)
    [] e.op = "BIT" -> Where(e.l, m)
\* the values of a list of arguments, each as its own type
Arguments(e, m) ==
  IF e = Z THEN Answer(<<>>, m)
  ELSE IF e.op = "LIST"
  THEN LET x == Arguments(e.l, m)
           y == Arguments(e.r, x.m)
       IN Answer(x.v \o y.v, y.m)
  ELSE LET x == Means(e, m) IN Answer(<<x.v>>, x.m)

Read(e, w) == IF IsField(e) THEN FieldFit(FieldLoad(w.m, w.v, e.type), e.type) ELSE Load(w.m, w.v, e.type)
Write(e, w, m, x) == IF IsField(e) THEN FieldStore(m, w.v, e.type, x) ELSE Store(m, w.v, e.type, x)
AsStored(e, x) == IF IsField(e) THEN FieldFit(x, e.type) ELSE x
Bump(e) == IF e.type.etype = "ind" THEN e.type.w ELSE IF e.type.etype \in typefd THEN 2 ELSE 1

Means(e, m) ==
  CASE e.op = "CONST" -> Answer(e.v, m)
    [] e.op \in {"NAME", "IND", "BIT"} -> LET w == Where(e, m) IN Answer(Read(e, w), w.m)
    [] e.op = "ADDR" -> Where(e.l, m)
    [] e.op = "CAST" -> LET x == Means(e.l, m) IN Answer(Convert(x.v, e.l.type, e.type), x.m)
    [] e.op \in Sums \cup Products \cup Shifts ->
         LET x == Means(e.l, m)
             y == Means(e.r, x.m)
         IN Answer(Arith(e.op, e.type, x.v, y.v), y.m)
    [] e.op \in Relations ->
         LET x == Means(e.l, m)
             y == Means(e.r, x.m)
         IN Answer(Truth(Holds(e.op, e.l.type, x.v, y.v)), y.m)
    [] e.op = "NOT" -> LET x == Means(e.l, m) IN Answer(Truth(x.v = 0), x.m)
    [] e.op \in {"ANDAND", "OROR"} ->
         LET x == Means(e.l, m)
             y == Means(e.r, x.m)
         IN IF (x.v # 0) = (e.op = "OROR") THEN Answer(Truth(x.v # 0), x.m)
            ELSE Answer(Truth(y.v # 0), y.m)
    [] e.op = "COND" ->
         LET x == Means(e.l, m) IN IF x.v # 0 THEN Means(e.r.l, x.m) ELSE Means(e.r.r, x.m)
    [] e.op = "COMMA" -> Means(e.r, Means(e.l, m).m)
    [] e.op = "DOT" ->
         LET x == Means(e.l, m)
             part == SubSeq(x.v, e.r.v + 1, e.r.v + Width(e.type))
         IN Answer(IF e.type.etype = "struct" THEN part ELSE Fit(Number(part), e.type), x.m)
    [] e.op = "AS" ->
         LET x == Means(e.r, m)
             w == Where(e.l, x.m)
         IN Answer(AsStored(e.l, x.v), Write(e.l, w, w.m, x.v))
    [] e.op \in DOMAIN Assigns ->
         LET x == Means(e.r, m)
             w == Where(e.l, x.m)
             old == Convert(Read(e.l, w), e.l.type, IF e.r.type.etype \in typefd THEN e.r.type ELSE e.l.type)
             new == Convert(Arith(Assigns[e.op], IF e.r.type.etype \in typefd THEN e.r.type ELSE [e.l.type EXCEPT !.nbits = 0, !.shift = 0], old, x.v),
                            IF e.r.type.etype \in typefd THEN e.r.type ELSE e.l.type, e.l.type)
         IN Answer(AsStored(e.l, new), Write(e.l, w, w.m, new))
    [] e.op \in {"PREINC", "PREDEC", "POSTINC", "POSTDEC"} ->
         LET w == Where(e.l, m)
             old == Read(e.l, w)
             step == IF e.op \in {"PREINC", "POSTINC"} THEN Bump(e.l) ELSE -Bump(e.l)
             new == IF e.l.type.etype \in typefd THEN IF old = NaN THEN NaN ELSE old + step
                    ELSE AsStored(e.l, Fit(old + step, [e.l.type EXCEPT !.nbits = 0, !.shift = 0]))
         IN Answer(IF e.op \in {"PREINC", "PREDEC"} THEN new ELSE old, Write(e.l, w, w.m, new))
    [] e.op = "FUNC" ->
         LET fn == IF e.l.op = "NAME" THEN Answer(e.l.sym, m) ELSE Answer("fi", Means(e.l.l, m).m)
             a == Arguments(e.r, fn.m)
         IN Answer(Returns(fn.v, a.v), Counted(a.m))
=============================================================================
