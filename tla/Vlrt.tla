-------------------------------- MODULE Vlrt --------------------------------
(***************************************************************************)
(* 64-bit arithmetic of the 32-bit RISC-V: libc/riscv/vlrt.c and vlop.s.   *)
(*                                                                         *)
(* The compiler turns every operation on vlongs into a call of one of      *)
(* these routines.  A vlong is two ulongs of W bits; a short has W/2 bits, *)
(* a char W/4, and a double is laid over a vlong with HM bits of its       *)
(* mantissa in the high word.  One behaviour is one call: Init chooses it, *)
(* Begin runs the routine up to its return or to dodiv, whose two loops    *)
(* are the actions ShiftDivisor and Subtract, and Finish is what follows   *)
(* dodiv.                                                                  *)
(***************************************************************************)
EXTENDS Integers, Bitwise

CONSTANTS W, HM, FM,  \* the widths above, and the mantissa of a float; 32, 20 and 23 in the source
          Words       \* the ulongs that operands are made of

ASSUME WidthsAssumption == W % 4 = 0 /\ W > 4 /\ HM \in 1..(W - 3) /\ FM \in 1..(W - 1)

VARIABLES call,     \* the routine and its arguments
          div,      \* dodiv's locals, at = "idle" outside dodiv
          ret       \* what the routine returned, done = FALSE before

vlrtVars == <<call, div, ret>>

Mod == 2^W
SIGN == 2^(W - 1)
Vlong(lo, hi) == [lo |-> lo, hi |-> hi]
Zero == Vlong(0, 0)

Ulong(n) == n % Mod
Long(w) == IF w >= SIGN THEN w - Mod ELSE w
Shl(w, k) == Ulong(w * 2^k)
Shr(w, k) == w \div 2^k
Sar(w, k) == Ulong(Long(w) \div 2^k)
Truth(p) == IF p THEN 1 ELSE 0

Less(a, b) == a.hi < b.hi \/ (a.hi = b.hi /\ a.lo < b.lo)
LessSigned(a, b) == Long(a.hi) < Long(b.hi) \/ (a.hi = b.hi /\ a.lo < b.lo)

\* a RISC-V divide truncates, gives all ones for a divisor of zero, and wraps
Truncated(x, y) ==
  LET q == (IF x < 0 THEN -x ELSE x) \div (IF y < 0 THEN -y ELSE y)
  IN IF (x < 0) = (y < 0) THEN q ELSE -q
Quo(x, y) == IF y = 0 THEN Mod - 1 ELSE Ulong(Truncated(x, y))
Rem(x, y) == IF y = 0 THEN Ulong(x) ELSE Ulong(x - y * Truncated(x, y))

-----------------------------------------------------------------------------
(* addition, multiplication, logic *)

CarryOnEqual(lo, a) == Truth(lo <= a.lo)      \* a mutant of Carry
Carry(lo, a) == Truth(lo < a.lo)
Addv(a, b) ==
  LET lo == Ulong(a.lo + b.lo)
  IN Vlong(lo, Ulong(a.hi + b.hi + Carry(lo, a)))

Subv(a, b) ==
  LET lo == Ulong(a.lo - b.lo)
  IN Vlong(lo, Ulong(a.hi - b.hi - Truth(lo > a.lo)))

Mulv(x, y) ==
  Vlong(Ulong(x.lo * y.lo),
        Ulong((x.lo * y.lo) \div Mod + Ulong(x.hi * y.lo) + Ulong(x.lo * y.hi)))

Vneg(v) == IF v.lo = 0 THEN Vlong(0, Ulong(-v.hi)) ELSE Vlong(Ulong(-v.lo), Mod - 1 - v.hi)

Incr(r) == LET lo == Ulong(r.lo + 1) IN Vlong(lo, Ulong(r.hi + Truth(lo = 0)))
Decr(r) == Vlong(Ulong(r.lo - 1), Ulong(r.hi - Truth(r.lo = 0)))

(* shifts: b is an int and may be out of range *)
Rshav(a, b) ==
  CASE b >= 2 * W -> Vlong(Sar(a.hi, W - 1), Sar(a.hi, W - 1))
    [] b >= W /\ b < 2 * W -> Vlong(Sar(a.hi, b - W), Sar(a.hi, W - 1))
    [] b <= 0 -> a
    [] OTHER -> Vlong(Shl(a.hi, W - b) | Shr(a.lo, b), Sar(a.hi, b))

Rshlv(a, b) ==
  CASE b >= 2 * W -> Zero
    [] b >= W /\ b < 2 * W -> Vlong(Shr(a.hi, b - W), 0)
    [] b <= 0 -> a
    [] OTHER -> Vlong(Shl(a.hi, W - b) | Shr(a.lo, b), Shr(a.hi, b))

Lshv(a, b) ==
  CASE b >= 2 * W -> Zero
    [] b >= W /\ b < 2 * W -> Vlong(0, Shl(a.lo, b - W))
    [] b <= 0 -> a
    [] OTHER -> Vlong(Shl(a.lo, b), Shr(a.lo, W - b) | Shl(a.hi, b))

-----------------------------------------------------------------------------
(* conversions *)

SignExtended(w, bits) == Sar(Shl(w, W - bits), W - bits)
LowBits(w, bits) == w % 2^bits
ToVlong(t) == Vlong(t, Sar(t, W - 1))

\* a double: sign, W-1-HM bits of exponent, M bits of mantissa
M == W + HM
Bias == 2^(W - 2 - HM) - 1
Exponent(x) == Shr(x.hi, HM) % 2^(W - 1 - HM)

\* _d2v for a double that a vlong can hold; the "overflow" arm is left out
D2v(x) ==
  LET xhi == (x.hi % 2^HM) | 2^HM
      sh == Bias + M - Exponent(x)
      y == CASE sh = 0 -> Vlong(x.lo, xhi)
             [] sh > 0 /\ sh < W -> Vlong(Shr(x.lo, sh) | Shl(xhi, W - sh), Shr(xhi, sh))
             [] sh >= W /\ sh < 2 * W -> Vlong(Shr(xhi, sh - W), 0)
             [] sh >= 2 * W -> Zero
             [] OTHER -> Vlong(Shl(x.lo, -sh), Shl(xhi, -sh) | Shr(x.lo, W + sh))
  IN IF x.hi >= SIGN THEN Vneg(y) ELSE y

\* the nearest number of bits + 1 bits, ties to even: floating addition and conversion
Nearby(n, bits) ==
  LET p == 2^(bits + 1)
      s == IF n < p THEN 1 ELSE 2^(CHOOSE k \in 1..(2 * W) : n < p * 2^k /\ n >= p * 2^(k - 1))
      q == n \div s
      up == 2 * (n % s) > s \/ (2 * (n % s) = s /\ q % 2 = 1)
  IN (q + Truth(up)) * s
Rounded(n, bits) == IF n < 0 THEN -Nearby(-n, bits) ELSE Nearby(n, bits)

\* the conversion of a double to an int, MOVDW: a number out of range becomes the nearest int
ToInt(n) == Ulong(IF n < -SIGN THEN -SIGN ELSE IF n >= SIGN THEN SIGN - 1 ELSE n)

\* _v2d has no type, so it returns an int: the sum of doubles is converted to one
V2d(x) ==
  LET sum(v) == Rounded(Long(v.hi) * Mod + v.lo, M)
  IN ToInt(IF x.hi >= SIGN THEN -sum(Vneg(x)) ELSE sum(x))
\* _v2f returns that int as a float
V2f(x) == Rounded(Long(V2d(x)), FM)

-----------------------------------------------------------------------------
(* _vasop: the type codes of its switch, and what it loads and stores *)

SignedTypes == {1, 3, 5, 9}
TypeBits(t) == CASE t \in {1, 2} -> W \div 4 [] t \in {3, 4} -> W \div 2 [] OTHER -> W

Loaded(t, lv) ==
  LET w == LowBits(lv.lo, TypeBits(t))
      lo == IF t \in SignedTypes THEN SignExtended(w, TypeBits(t)) ELSE w
  IN CASE t \in {0, 7, 8} -> lv
       [] t \in SignedTypes -> Vlong(lo, Shr(lo, W - 1))
       [] OTHER -> Vlong(lo, 0)

Stored(t, u) == IF t \in {0, 7, 8} THEN u ELSE Vlong(LowBits(u.lo, TypeBits(t)), 0)

-----------------------------------------------------------------------------
(* the calls *)

Vlongs == {Vlong(lo, hi) : lo \in Words, hi \in Words}
UnsignedDivision == {"divvu", "modvu"}
SignedDivision == {"divv", "modv"}
Division == UnsignedDivision \cup SignedDivision
Arithmetic == {"addv", "subv", "mulv", "andv", "orv", "xorv"} \cup Division
Shifts == {"rshav", "rshlv", "lshv"}
Steps == {"vpp", "vmm", "ppv", "mmv"}
Compares == {"eqv", "nev", "ltv", "lev", "gtv", "gev", "lov", "lsv", "hiv", "hsv"}
FromWord == {"p2v", "sl2v", "ul2v", "sh2v", "uh2v", "sc2v", "uc2v"}
ToWord == {"v2sc", "v2uc", "v2sh", "v2uh", "v2sl", "testv", "v2d", "v2f"}

Doubles ==   \* those whose integer part a vlong holds
  {x \in [lo : Words, hi : 0..(Mod - 1)] : Exponent(x) <= Bias + 2 * W - 2}

Call(op, type, a, b, k) == [op |-> op, type |-> type, a |-> a, b |-> b, k |-> k]

IsCall(c) ==
  \/ \E op \in Arithmetic, a, b \in Vlongs :
        \/ c = Call(op, 0, a, b, 0)
        \/ \E t \in 1..10 :
             /\ a.hi = 0 \/ (t \in {7, 8} /\ a.hi = SIGN)
             /\ b.lo < 4 /\ c = Call(op, t, a, b, 0)
  \/ \E op \in Shifts, a \in Vlongs, k \in (-1)..(2 * W + 1) : c = Call(op, 0, a, Zero, k)
  \/ \E op \in Steps \cup ToWord, a \in Vlongs : c = Call(op, 0, a, Zero, 0)
  \/ \E op \in Compares, a, b \in Vlongs : c = Call(op, 0, a, b, 0)
  \/ \E op \in FromWord, k \in 0..(Mod - 1) : c = Call(op, 0, Zero, Zero, k)
  \/ \E x \in Doubles : c = Call("d2v", 0, x, Zero, 0)

\* v is *r, *l or *lv; r the operand that ++ and -- change, or *ret of _vasop;
\* w a word, a truth or a float
NoReturn == [done |-> FALSE, v |-> Zero, r |-> Zero, w |-> 0]
Returns(v, r, w) == [done |-> TRUE, v |-> v, r |-> r, w |-> w]
Idle == [at |-> "idle", num |-> Zero, den |-> Zero, quo |-> Zero, i |-> 0]

NoCall == Call("none", 0, Zero, Zero, 0)
VlrtIdle == call = NoCall /\ div = Idle /\ ret = NoReturn
VlrtInit == IsCall(call) /\ div = Idle /\ ret = NoReturn

Operand == Loaded(call.type, call.a)

FastPath(op, n, d) ==
  IF op \in UnsignedDivision
  THEN n.hi = 0 /\ d.hi = 0
  ELSE n.hi = Sar(n.lo, W - 1) /\ d.hi = Sar(d.lo, W - 1)

FastResult(op, n, d) ==
  CASE op = "divvu" -> Vlong(Quo(n.lo, d.lo), 0)
    [] op = "modvu" -> Vlong(Rem(n.lo, d.lo), 0)
    [] op = "divv" -> ToVlong(Quo(Long(n.lo), Long(d.lo)))
    [] op = "modv" -> ToVlong(Rem(Long(n.lo), Long(d.lo)))

Binary(op, a, b) ==
  CASE op = "addv" -> Addv(a, b)
    [] op = "subv" -> Subv(a, b)
    [] op = "mulv" -> Mulv(a, b)
    [] op = "andv" -> Vlong(a.lo & b.lo, a.hi & b.hi)
    [] op = "orv"  -> Vlong(a.lo | b.lo, a.hi | b.hi)
    [] op = "xorv" -> Vlong(a.lo ^^ b.lo, a.hi ^^ b.hi)
    [] op \in Division -> FastResult(op, a, b)

Shifted(op, a, k) ==
  CASE op = "rshav" -> Rshav(a, k) [] op = "rshlv" -> Rshlv(a, k) [] op = "lshv" -> Lshv(a, k)

Stepped(op, r) ==
  CASE op = "vpp" -> Returns(r, Incr(r), 0)
    [] op = "vmm" -> Returns(r, Decr(r), 0)
    [] op = "ppv" -> Returns(Incr(r), Incr(r), 0)
    [] op = "mmv" -> Returns(Decr(r), Decr(r), 0)

Compared(op, a, b) ==
  CASE op = "eqv" -> a = b
    [] op = "nev" -> a.lo # b.lo \/ a.hi # b.hi
    [] op = "ltv" -> LessSigned(a, b)
    [] op = "lev" -> LessSigned(a, b) \/ (a.hi = b.hi /\ a.lo = b.lo)
    [] op = "gtv" -> LessSigned(b, a)
    [] op = "gev" -> LessSigned(b, a) \/ (a.hi = b.hi /\ a.lo = b.lo)
    [] op = "lov" -> Less(a, b)
    [] op = "lsv" -> Less(a, b) \/ (a.hi = b.hi /\ a.lo = b.lo)
    [] op = "hiv" -> Less(b, a)
    [] op = "hsv" -> Less(b, a) \/ (a.hi = b.hi /\ a.lo = b.lo)

Widened(op, k) ==
  CASE op = "sl2v" -> ToVlong(k)
    [] op = "sh2v" -> ToVlong(SignExtended(k, W \div 2))
    [] op = "sc2v" -> ToVlong(SignExtended(k, W \div 4))
    [] op \in {"p2v", "ul2v"} -> Vlong(k, 0)
    [] op = "uh2v" -> Vlong(LowBits(k, W \div 2), 0)
    [] op = "uc2v" -> Vlong(LowBits(k, W \div 4), 0)

Narrowed(op, v) ==
  CASE op = "v2sc" -> SignExtended(LowBits(v.lo, W \div 4), W \div 4)
    [] op = "v2uc" -> LowBits(v.lo, W \div 4)
    [] op = "v2sh" -> SignExtended(LowBits(v.lo, W \div 2), W \div 2)
    [] op = "v2uh" -> LowBits(v.lo, W \div 2)
    [] op = "v2sl" -> v.lo
    [] op = "testv" -> Truth(v.lo # 0 \/ v.hi # 0)
    [] op = "v2d" -> V2d(v)
    [] op = "v2f" -> V2f(v)

-----------------------------------------------------------------------------
(* the steps *)

Negative(v) == v.hi >= SIGN
Magnitude(op, v) == IF op \in SignedDivision /\ Negative(v) THEN Vneg(v) ELSE v

\* dodiv up to its first loop: the divide that is to trap yields all ones
DivStart(num, den) ==
  LET n == IF den = Zero THEN [num EXCEPT !.lo = Quo(num.lo, den.lo)] ELSE num
  IN [at |-> "scale", num |-> n, den |-> den, i |-> 0,
      quo |-> IF n.hi >= SIGN THEN Vlong(0, SIGN) ELSE n]

Divides == call.op \in Division /\ ~FastPath(call.op, Operand, call.b)

\* what an operation leaves: through _vasop the lvalue takes u as its type allows, *ret all of it
Assigned(u) == Returns(Stored(call.type, u), IF call.type = 0 THEN Zero ELSE u, 0)

Begin ==
  /\ ~ret.done /\ div.at = "idle" /\ call # NoCall /\ ~Divides
  /\ ret' = LET op == call.op IN
       CASE op \in Arithmetic -> Assigned(Binary(op, Operand, call.b))
         [] op \in Shifts -> Returns(Shifted(op, call.a, call.k), Zero, 0)
         [] op \in Steps -> Stepped(op, call.a)
         [] op \in Compares -> Returns(Zero, Zero, Truth(Compared(op, call.a, call.b)))
         [] op \in FromWord -> Returns(Widened(op, call.k), Zero, 0)
         [] op \in ToWord -> Returns(Zero, Zero, Narrowed(op, call.a))
         [] op = "d2v" -> Returns(D2v(call.a), Zero, 0)
  /\ UNCHANGED <<call, div>>

BeginDivision ==
  /\ ~ret.done /\ div.at = "idle" /\ Divides
  /\ div' = DivStart(Magnitude(call.op, Operand), Magnitude(call.op, call.b))
  /\ UNCHANGED <<call, ret>>

SmallerSigned == LessSigned(div.den, div.quo)     \* a mutant of Smaller
Smaller == Less(div.den, div.quo)

\* A divisor of zero stays zero and below the dividend, so that i, which goes on
\* counting, is not looked at any more and stands still here.
ShiftDivisor ==
  /\ div.at = "scale"
  /\ Smaller
  /\ div' = [div EXCEPT !.den = Vlong(Shl(@.lo, 1), Shl(@.hi, 1) | Shr(@.lo, W - 1)),
                        !.i = IF div.den = Zero THEN @ ELSE @ + 1]
  /\ UNCHANGED <<call, ret>>

Scaled ==
  /\ div.at = "scale"
  /\ ~Smaller
  /\ div' = [div EXCEPT !.at = "subtract", !.quo = Zero]
  /\ UNCHANGED <<call, ret>>

Subtract ==
  /\ div.at = "subtract" /\ div.i >= 0
  /\ LET fits == ~Less(div.num, div.den)
         q == Vlong(Shl(div.quo.lo, 1), Shl(div.quo.hi, 1) | Shr(div.quo.lo, W - 1))
     IN div' = [div EXCEPT !.quo = IF fits THEN [q EXCEPT !.lo = @ | 1] ELSE q,
                           !.num = IF fits THEN Subv(@, div.den) ELSE @,
                           !.den = Vlong(Shr(@.lo, 1) | Shl(@.hi, W - 1), Shr(@.hi, 1)),
                           !.i = @ - 1]
  /\ UNCHANGED <<call, ret>>

Finish ==
  /\ div.at = "subtract" /\ div.i < 0
  /\ LET opposite == call.op = "divv" /\ Negative(Operand) # Negative(call.b)
         sign == opposite \/ (call.op = "modv" /\ Negative(Operand))
         v == IF call.op \in {"divv", "divvu"} THEN div.quo ELSE div.num
     IN ret' = Assigned(IF sign THEN Vneg(v) ELSE v)
  /\ div' = Idle
  /\ UNCHANGED call

VlrtNext == Begin \/ BeginDivision \/ ShiftDivisor \/ Scaled \/ Subtract \/ Finish

-----------------------------------------------------------------------------
(* what the routines promise: the arithmetic of C on 2W-bit integers *)

Unsigned(v) == v.hi * Mod + v.lo
Signed(v) == Long(v.hi) * Mod + v.lo
Of(n) == Vlong(n % Mod, (n \div Mod) % Mod)

\* the lvalue of an assignment has the sign and width of its type
LvalueOf(c) ==
  LET w == LowBits(c.a.lo, TypeBits(c.type)) IN
  CASE c.type \in {0, 7, 8} -> c.a
    [] c.type \in SignedTypes -> Of(w - Truth(w >= 2^(TypeBits(c.type) - 1)) * 2^TypeBits(c.type))
    [] OTHER -> Of(w)

Meaning(op, a, b) ==
  CASE op = "addv" -> Of(Unsigned(a) + Unsigned(b))
    [] op = "subv" -> Of(Unsigned(a) - Unsigned(b))
    [] op = "mulv" -> Of(Signed(a) * Signed(b))
    [] op = "divvu" -> Of(Unsigned(a) \div Unsigned(b))
    [] op = "modvu" -> Of(Unsigned(a) % Unsigned(b))
    [] op = "divv" -> Of(Truncated(Signed(a), Signed(b)))
    [] op = "modv" -> Of(Signed(a) - Signed(b) * Truncated(Signed(a), Signed(b)))
    [] op = "andv" -> Of(Unsigned(a) & Unsigned(b))
    [] op = "orv" -> Of(Unsigned(a) | Unsigned(b))
    [] op = "xorv" -> Of(Unsigned(a) ^^ Unsigned(b))

ShiftMeaning(op, a, k) ==
  LET n == IF k < 0 THEN 0 ELSE k IN
  CASE op = "rshav" -> Of(Signed(a) \div 2^n)
    [] op = "rshlv" -> Of(Unsigned(a) \div 2^n)
    [] op = "lshv" -> IF n >= 2 * W THEN Zero ELSE Of((Unsigned(a) % 2^(2 * W - n)) * 2^n)

CompareMeaning(op, a, b) ==
  CASE op = "eqv" -> Unsigned(a) = Unsigned(b) [] op = "nev" -> Unsigned(a) # Unsigned(b)
    [] op = "ltv" -> Signed(a) < Signed(b)     [] op = "lev" -> Signed(a) <= Signed(b)
    [] op = "gtv" -> Signed(a) > Signed(b)     [] op = "gev" -> Signed(a) >= Signed(b)
    [] op = "lov" -> Unsigned(a) < Unsigned(b) [] op = "lsv" -> Unsigned(a) <= Unsigned(b)
    [] op = "hiv" -> Unsigned(a) > Unsigned(b) [] op = "hsv" -> Unsigned(a) >= Unsigned(b)

Wrapped(n, bits) == ((n + 2^(bits - 1)) % 2^bits) - 2^(bits - 1)
FromMeaning(op, k) ==
  CASE op = "sl2v" -> Long(k)
    [] op = "sh2v" -> Wrapped(k, W \div 2)
    [] op = "sc2v" -> Wrapped(k, W \div 4)
    [] op \in {"p2v", "ul2v"} -> k
    [] op = "uh2v" -> k % 2^(W \div 2)
    [] op = "uc2v" -> k % 2^(W \div 4)

ToMeaning(op, w, n) ==
  CASE op = "v2sc" -> Long(w) = Wrapped(n, W \div 4)
    [] op = "v2sh" -> Long(w) = Wrapped(n, W \div 2)
    [] op = "v2uc" -> w = n % 2^(W \div 4)
    [] op = "v2uh" -> w = n % 2^(W \div 2)
    [] op = "v2sl" -> w = n % Mod

\* the value of a double times 2^M, so that it is a whole number of 2^-M
TruncatedDouble(x) ==
  LET m == 2^M + (x.hi % 2^HM) * Mod + x.lo
      e == Exponent(x) - Bias - M
      n == IF e >= 0 THEN m * 2^e ELSE m \div 2^(-e)
  IN IF x.hi >= SIGN THEN -n ELSE n

AbsDiff(x, y) == IF x < y THEN y - x ELSE x - y
Nearest(d, n, bits) ==
  LET m == IF n < 0 THEN -n ELSE n
      s == CHOOSE k \in 0..(2 * W) : m < 2^(bits + 1 + k) /\ (k = 0 \/ m >= 2^(bits + k))
  IN d % 2^s = 0 /\ 2 * AbsDiff(d, n) <= 2^s

DividesByZero == call.op \in Division /\ call.b = Zero
HangsByZero == DividesByZero /\ Divides
IsLong(v) == Signed(v) \in (-SIGN)..(SIGN - 1)
HighWordWrong(c) == c.type \in SignedTypes /\ Negative(LvalueOf(c))

(***************************************************************************)
(* Where the routines do not keep that promise: the fast path of _divv     *)
(* divides the least long by -1 in W bits, _vasop fills the high word of a *)
(* negative char, short, int or long with 1 instead of all ones, which     *)
(* division sees and *ret shows, and _v2d returns an int, through which    *)
(* _v2f passes too.                                                        *)
(***************************************************************************)
Deviates(c) ==
  \/ c.op = "divv" /\ Signed(LvalueOf(c)) = -SIGN /\ Signed(c.b) = -1
  \/ c.op \in Division /\ HighWordWrong(c)
  \/ c.op \in {"v2d", "v2f"} /\ ~IsLong(c.a)

\* vlrt.c, vlop.s: every routine, whatever path its operands take (the carry
\* between the words, dodiv or the machine's divide, a shift across the words
\* or out of range, an assignment through _vasop), returns what C asks for. Of a
\* vlong that a long holds, the int that _v2d returns and _v2f's float are the number.
\* A division by zero that gets to dodiv gives no answer.
VlongExact ==
  /\ ret.done => ~HangsByZero
  /\ ret.done /\ ~Deviates(call) /\ ~DividesByZero =>
       LET op == call.op IN
       CASE op \in Arithmetic ->
              LET u == Meaning(op, LvalueOf(call), call.b)
              IN ret.v = Stored(call.type, u) /\ (call.type # 0 /\ ~HighWordWrong(call) => ret.r = u)
         [] op \in Shifts -> ret.v = ShiftMeaning(op, call.a, call.k)
         [] op \in Steps ->
              LET n == Unsigned(call.a) + (IF op \in {"vpp", "ppv"} THEN 1 ELSE -1)
              IN ret.r = Of(n) /\ ret.v = IF op \in {"vpp", "vmm"} THEN call.a ELSE Of(n)
         [] op \in Compares -> ret.w = Truth(CompareMeaning(op, call.a, call.b))
         [] op \in FromWord -> Signed(ret.v) = FromMeaning(op, call.k)
         [] op = "testv" -> ret.w = Truth(Unsigned(call.a) # 0)
         [] op = "v2d" -> Long(ret.w) = Signed(call.a)
         [] op = "v2f" -> Nearest(ret.w, Signed(call.a), FM)
         [] op = "d2v" -> Signed(ret.v) = TruncatedDouble(call.a)
         [] op \in ToWord \ {"testv", "v2d", "v2f"} -> ToMeaning(op, ret.w, Unsigned(call.a))

\* vlrt.c:161 and 169: every call returns, but for a division by zero that gets to
\* dodiv. The first loop of dodiv shifts the divisor up without looking at what it
\* shifts out, and must stop at a dividend with its top bit set. A divisor of zero is
\* to "get a divide by zero" from the divide of line 147, but on RISC-V that goes on
\* with all ones, and the loop shifts the zero for ever.
VlongReturns == (call # NoCall /\ ~HangsByZero) ~> ret.done
=============================================================================
