------------------------------- MODULE MulCode -------------------------------
(***************************************************************************)
(* cmd/ic/mul.c: the shifts, sums and differences that multiply by a       *)
(* constant, searched for or looked up, and the cache of those found.      *)
(*                                                                         *)
(* An operation of a hint or of the code is a shift count, or PLUS, or     *)
(* MINUS; the code adds to each the number that names its registers.  A    *)
(* long has 32 bits here.                                                  *)
(***************************************************************************)
EXTENDS Integers, Sequences

PLUS == 0
MINUS == -1
NMULTAB == 20
Two(k) == 2^k

\* long arithmetic, which wraps
Wrapped(hi, lo) == LET h == (hi + (lo \div Two(16))) % Two(16)
                   IN (IF h >= Two(15) THEN h - Two(16) ELSE h) * Two(16) + (lo % Two(16))
LongAdd(x, y) == Wrapped((x \div Two(16)) + (y \div Two(16)), (x % Two(16)) + (y % Two(16)))
LongSub(x, y) == Wrapped((x \div Two(16)) - (y \div Two(16)), (x % Two(16)) - (y % Two(16)))
RECURSIVE LongShl(_, _)
LongShl(x, c) == IF c = 0 THEN x ELSE LongShl(LongAdd(x, x), c - 1)
Least == -2147483647 - 1
\* what a char holds of the letter of a shift, and mulcon takes from it
Letter(count) == IF 97 + count > 127 THEN count - 256 ELSE count

-----------------------------------------------------------------------------
(* the search: gen1, gen2 and gen3 return {} or the hint, in a set         *)

\* a try: the registers' values (r0 < r1), which were shifted or are unused, and the
\* operation that comes before
Try(r0, r1, flag, op) == [r0 |-> r0, r1 |-> r1, flag |-> flag, op |-> op]
\* the shifts of x up to c.valmax
Shifted(c, x) == {i \in 1..c.shmax : x <= c.valmax \div Two(i)}
Upto(c, x) == 1..(IF Shifted(c, x) = {} THEN 0 ELSE CHOOSE i \in Shifted(c, x) : i + 1 \notin Shifted(c, x))

Steps(c, t) ==
  LET r0 == t.r0
      r1 == t.r1
      f1 == {"UR0", "SR0"} \cup (t.flag \cap {"SR1", "UR1"})
      f2 == {"UR1", "SR1"} \cup (IF "UR1" \in t.flag THEN {"UR0"} ELSE {}) \cup (IF "SR1" \in t.flag THEN {"SR0"} ELSE {})
      Copied(i) == Try(r0, r0 * Two(i), {"UR1", "SR1"}, i)
      Replaced(i) == Try(r1, r1 * Two(i), {"UR1", "SR1"}, i)
      Second(i) == Try(r0, r1 * Two(i), {"UR1", "SR1"} \cup (t.flag \cap {"UR0"}), i)
      First(i) == LET x == r0 * Two(i) IN IF x > r1 THEN Try(r1, x, f2, i) ELSE Try(x, r1, f1, i)
      Unless(f, tries) == IF f \in t.flag THEN <<>> ELSE tries
      d == r1 - r0
  IN Unless("UR1", [i \in Upto(c, r0) |-> Copied(i)]) \o Unless("UR0", [i \in Upto(c, r1) |-> Replaced(i)])
       \o Unless("SR1", [i \in Upto(c, r1) |-> Second(i)]) \o Unless("SR0", [i \in Upto(c, r0) |-> First(i)])
       \o <<Try(r0, r1 + r0, {"UR1"}, PLUS), Try(r1, r1 + r0, {"UR1"}, PLUS), Try(d, r1, {"UR0"}, MINUS),
            IF d > r0 THEN Try(r0, d, {"UR1"}, MINUS) ELSE Try(d, r0, {"UR0"}, MINUS)>>
\* calcr0: the last operation
Final(c, t) ==
  LET shifts == {i \in Shifted([c EXCEPT !.valmax = c.mulval], t.r1) : t.r1 * Two(i) = c.mulval}
  IN IF t.flag \cap {"UR0", "UR1"} = {"UR1"} /\ shifts # {} THEN {<<CHOOSE i \in shifts : TRUE>>}
     ELSE IF c.mulval = t.r1 + t.r0 THEN {<<PLUS>>}
     ELSE IF c.mulval = t.r1 - t.r0 THEN {<<MINUS>>}
     ELSE {}

RECURSIVE gen3(_, _, _), FirstOf(_, _, _, _)
FirstOf(c, len, tries, i) ==
  IF i > Len(tries) THEN {}
  ELSE LET hint == gen3(c, len, tries[i])
       IN IF hint # {} THEN {<<tries[i].op>> \o h : h \in hint} ELSE FirstOf(c, len, tries, i + 1)
gen3(c, len, t) ==
  IF t.r0 <= 0 \/ t.r0 >= t.r1 \/ t.r1 > c.valmax THEN {}
  ELSE IF len = 1 THEN Final(c, t)
  ELSE FirstOf(c, len - 1, Steps(c, t), 1)
gen2(c, len, r1) ==
  IF len <= 0 THEN IF r1 = c.mulval THEN {<<>>} ELSE {}
  ELSE IF len = 1 THEN IF c.mulval = r1 + 1 THEN {<<PLUS>>} ELSE IF c.mulval = r1 - 1 THEN {<<MINUS>>} ELSE {}
  ELSE FirstOf(c, len - 1, <<Try(r1, r1 + 1, {"UR1"}, PLUS), Try(r1 - 1, r1, {"UR0"}, MINUS),
                             Try(1, r1 + 1, {"UR1"}, PLUS), Try(1, r1 - 1, {"UR1"}, MINUS)>>, 1)
gen1(mulval, len) ==
  LET bits == {k \in 1..29 : Two(k) >= mulval}
      shmax == IF bits = {} THEN 30 ELSE CHOOSE k \in bits : \A j \in bits : k <= j
      c == [mulval |-> mulval, shmax |-> shmax, valmax |-> Two(IF bits = {} THEN 29 ELSE shmax)]
      RECURSIVE From(_)
      From(i) == IF i > shmax THEN {}
                 ELSE LET hint == gen2(c, len - 1, Two(i)) IN IF hint # {} THEN {<<i>> \o h : h \in hint} ELSE From(i + 1)
  IN IF mulval = 1 THEN {<<>>} ELSE From(1)

-----------------------------------------------------------------------------
(* docode: the registers of each operation, by trial                       *)

\* the operands of the numbers tried: what r0 and r1 become
Outcomes(c, r0, r1) ==
  IF c = PLUS THEN <<<<1, LongAdd(r0, r1), r1>>, <<5, r0, LongAdd(r0, r1)>>>>
  ELSE IF c = MINUS
  THEN <<<<1, LongSub(r0, r1), r1>>, <<2, LongSub(r1, r0), r1>>, <<5, r0, LongSub(r0, r1)>>, <<6, r0, LongSub(r1, r0)>>>>
  ELSE IF c \in 1..29
  THEN <<<<0, LongShl(r0, c), r1>>, <<1, LongShl(r1, c), r1>>, <<2, r0, LongShl(r0, c)>>, <<3, r0, LongShl(r1, c)>>>>
  ELSE <<>>
\* A mutant of docode: any way of naming the registers will do.
AnyCode(hint, val, r0, r1) == {[i \in DOMAIN hint |-> <<hint[i], 1>>]}
RECURSIVE docode(_, _, _, _)
docode(hint, val, r0, r1) ==
  IF hint = <<>> THEN IF r0 = val THEN {<<>>} ELSE {}
  ELSE LET ways == Outcomes(Head(hint), r0, r1)
           RECURSIVE From(_)
           From(i) == IF i > Len(ways) THEN {}
                      ELSE LET rest == docode(Tail(hint), val, ways[i][2], ways[i][3])
                           IN IF rest # {} THEN {<<<<Head(hint), ways[i][1]>>>> \o h : h \in rest} ELSE From(i + 1)
       IN From(1)

-----------------------------------------------------------------------------
(* the exceptions, in increasing order                                     *)
hintab == <<
    <<683,<<1,0,0,3,0,4,0>>>>,<<687,<<1,0,4,0,0,4,-1>>>>,<<691,<<1,0,0,3,0,4,0>>>>,<<731,<<1,0,0,3,0,4,0>>>>,
    <<811,<<1,0,0,3,0,8,0>>>>,<<821,<<1,0,0,4,0,4,0>>>>,<<843,<<1,0,3,0,0,4,0>>>>,<<851,<<1,0,5,-1,0,4,-1>>>>,
    <<853,<<1,0,0,4,0,4,0>>>>,<<877,<<2,0,0,0,0,6,-1>>>>,<<933,<<1,0,2,0,0,6,-1>>>>,<<981,<<2,-1,0,4,-1,3,0>>>>,
    <<1375,<<1,0,2,0,1,0,7,-1>>>>,<<1675,<<3,0,1,0,0,7,0>>>>,<<2425,<<2,0,0,5,-1,4,0>>>>,<<2675,<<2,0,3,0,0,5,-1>>>>,
    <<2750,<<1,0,3,-1,1,0,7,-1>>>>,<<2775,<<2,-1,0,6,-1,4,-1>>>>,<<3125,<<1,0,0,4,0,6,0>>>>,<<3275,<<1,0,2,0,6,0,4,0>>>>,
    <<3350,<<2,0,0,0,0,8,0>>>>,<<3475,<<2,-1,0,4,-1,5,-1>>>>,<<3525,<<2,-1,0,3,0,6,-1>>>>,<<3625,<<2,-1,0,4,-1,9,0>>>>,
    <<3675,<<1,0,3,0,3,0,4,0>>>>,<<3725,<<1,0,3,-1,0,7,0>>>>,<<3925,<<1,0,3,0,5,-1,3,-1>>>>,<<4275,<<1,0,6,0,0,4,0>>>>,
    <<4325,<<1,0,7,-1,0,3,0>>>>,<<4425,<<1,0,1,0,6,-1,9,-1>>>>,<<4525,<<1,0,3,-1,3,0,5,0>>>>,<<4675,<<2,0,0,3,-1,6,0>>>>,
    <<4775,<<1,0,3,0,1,0,6,-1>>>>,<<4825,<<2,0,2,-1,0,8,-1>>>>,<<4850,<<2,0,0,0,0,8,-1>>>>,<<4925,<<1,0,0,4,-1,6,-1>>>>,
    <<4975,<<2,0,5,0,0,4,-1>>>>,<<5500,<<1,0,6,-1,2,0,3,0>>>>,<<6700,<<3,0,1,0,0,8,0>>>>,<<9700,<<3,0,0,0,0,9,-1>>>>,
    <<11000,<<1,0,5,-1,2,-1,7,-1>>>>,<<11750,<<1,0,3,0,6,0,9,-1>>>>,<<12500,<<1,0,2,0,4,-1,10,0>>>>,
    <<13250,<<1,0,3,0,4,-1,5,0>>>>,<<13750,<<1,0,7,-1,2,-1,3,0>>>>,<<14250,<<1,0,6,-1,2,0,4,-1>>>>,
    <<14500,<<2,0,5,0,9,-1,3,-1>>>>,<<14750,<<3,-1,6,-1,-1,5,0>>>>,<<16750,<<1,0,4,-1,3,-1,13,0>>>>,
    <<17750,<<2,0,7,-1,1,0,4,0>>>>,<<18250,<<3,0,1,0,7,-1,3,0>>>>,<<18750,<<1,0,6,-1,0,0,5,0>>>>,
    <<19250,<<1,0,4,0,1,0,7,0>>>>,<<19750,<<1,0,0,7,-1,-1,5,-1>>>>,<<20250,<<1,0,4,-1,11,-1,2,0>>>>,
    <<20750,<<2,0,0,1,8,0,4,-1>>>>,<<21250,<<1,0,8,0,11,0,2,0>>>>,<<22000,<<1,0,4,0,3,-1,6,-1>>>>,
    <<22250,<<1,0,3,-1,7,0,10,-1>>>>,<<22750,<<1,0,3,-1,4,-1,6,0>>>>,<<23250,<<1,0,2,0,7,0,4,-1>>>>,
    <<23500,<<1,0,6,-1,2,-1,6,-1>>>>,<<23750,<<1,0,6,-1,1,0,7,-1>>>>,<<24250,<<2,0,0,6,0,12,-1>>>>,
    <<24750,<<1,0,4,0,4,0,9,-1>>>>,<<25000,<<1,0,0,3,7,0,6,0>>>>,<<25250,<<1,0,4,0,3,-1,6,-1>>>>,
    <<25750,<<1,0,4,0,1,0,9,0>>>>,<<26250,<<1,0,7,0,2,0,4,0>>>>,<<26500,<<1,0,7,0,2,0,6,0>>>>,
    <<26750,<<1,0,3,0,4,0,6,-1>>>>,<<27250,<<1,0,4,0,4,0,5,0>>>>,<<27500,<<2,-1,8,-1,2,-1,3,0>>>>,
    <<27750,<<1,0,1,3,0,0,9,0>>>>,<<28250,<<3,-1,3,-1,0,0,8,-1>>>>,<<28500,<<2,0,2,-1,7,-1,4,-1>>>>,
    <<29000,<<1,0,6,-1,3,-1,5,0>>>>,<<29500,<<2,0,7,0,0,0,4,-1>>>>,<<29750,<<1,0,6,0,5,-1,2,0>>>>,
    <<30250,<<1,0,5,-1,6,-1,2,0>>>>,<<33500,<<2,-1,5,-1,3,-1,13,0>>>>,<<33750,<<1,0,3,-1,1,0,9,-1>>>>,
    <<34250,<<2,0,4,0,0,0,8,0>>>>,<<35250,<<4,0,1,0,3,0,10,0>>>>,<<35500,<<2,0,4,0,3,-1,6,-1>>>>,
    <<35750,<<2,0,8,-1,0,0,4,0>>>>,<<36250,<<1,0,1,7,-1,3,0,4,0>>>>,<<36500,<<2,0,2,-1,7,-1,4,-1>>>>,
    <<36750,<<3,0,4,-1,-1,8,0>>>>,<<37250,<<1,0,6,0,6,0,1,0>>>>,<<37500,<<1,0,7,-1,1,0,5,0>>>>,
    <<37750,<<2,0,1,4,0,0,9,-1>>>>,<<38500,<<1,0,4,0,1,0,8,0>>>>,<<38750,<<3,0,8,-1,1,0,3,0>>>>,
    <<39250,<<1,0,6,-1,11,-1,0,3,0>>>>,<<39500,<<1,0,6,-1,2,0,6,-1>>>>,<<39750,<<1,0,1,7,-1,2,0,5,-1>>>>,
    <<40250,<<1,0,1,5,0,3,0,6,-1>>>>,<<40500,<<1,0,6,-1,2,0,6,0>>>>,<<40750,<<2,0,1,0,8,-1,4,0>>>>,
    <<41250,<<3,0,0,1,5,0,7,0>>>>,<<41500,<<1,0,9,0,2,0,3,-1>>>>,<<41750,<<2,0,5,0,1,0,7,-1>>>>,
    <<42500,<<2,0,7,0,0,6,0>>>>,<<42750,<<1,0,6,0,3,-1,5,-1>>>>,<<43250,<<1,0,11,-1,4,0,3,-1>>>>,
    <<43750,<<2,0,1,3,0,7,0,5,-1>>>>,<<44000,<<1,0,5,0,6,-1,3,-1>>>>,<<44250,<<1,0,3,-1,6,-1,-1,5,0>>>>,
    <<44500,<<2,0,4,0,2,0,7,0>>>>,<<44750,<<1,0,4,0,3,-1,7,-1>>>>,<<45250,<<1,0,0,6,0,9,-1,6,0>>>>,
    <<45500,<<2,0,3,0,4,-1,6,0>>>>,<<45750,<<1,0,3,-1,7,-1,4,-1>>>>,<<46250,<<2,0,1,3,0,0,9,0>>>>,
    <<46500,<<1,0,3,-1,2,-1,9,-1>>>>,<<46750,<<4,-1,4,-1,1,0,6,-1>>>>,<<47000,<<1,0,2,0,3,-1,9,-1>>>>,
    <<47250,<<1,0,4,0,4,-1,6,-1>>>>,<<47500,<<1,0,6,-1,2,-1,7,-1>>>>,<<47750,<<1,0,5,-1,2,0,7,-1>>>>,
    <<48250,<<3,-1,-1,7,0,13,-1>>>>,<<48500,<<1,0,2,-1,6,0,12,-1>>>>,<<48750,<<1,0,4,0,4,-1,6,0>>>>,
    <<49500,<<2,-1,5,0,4,0,9,-1>>>>,<<49750,<<2,0,2,0,6,0,0,5,-1>>>>,<<50000,<<1,0,4,0,4,0,10,0>>>>,
    <<50250,<<1,0,0,8,0,0,6,0>>>>,<<50500,<<2,0,6,0,5,-1,8,0>>>>,<<50750,<<1,0,4,0,3,0,10,-1>>>>,
    <<51500,<<1,0,8,0,2,-1,5,0>>>>,<<51750,<<1,0,1,3,0,6,-1,4,-1>>>>,<<52250,<<1,0,3,0,6,-1,9,0>>>>,
    <<52500,<<2,0,2,0,5,0,6,0>>>>,<<52750,<<1,0,2,0,4,0,8,0>>>>,<<53000,<<1,0,8,0,2,0,6,0>>>>,
    <<53500,<<2,0,6,0,6,-1,13,0>>>>,<<53750,<<1,0,9,0,3,-1,2,0>>>>,<<54250,<<1,0,3,-1,6,-1,9,-1>>>>,
    <<54500,<<2,-1,5,0,4,0,5,0>>>>,<<54750,<<1,0,5,-1,0,2,0,6,0>>>>,<<55000,<<1,0,6,-1,3,-1,6,-1>>>>,
    <<55250,<<1,0,4,0,4,0,6,0>>>>,<<55500,<<1,0,2,3,0,0,9,0>>>>,<<55750,<<1,0,1,7,-1,3,-1,5,-1>>>>,
    <<56250,<<2,0,3,-1,1,0,9,-1>>>>,<<56500,<<2,0,3,0,2,0,8,0>>>>,<<56750,<<1,0,4,0,3,0,0,7,-1>>>>,
    <<57000,<<1,0,3,0,6,-1,5,0>>>>,<<57250,<<1,0,5,-1,12,0,3,-1>>>>,<<57750,<<1,0,8,0,2,0,4,-1>>>>,
    <<58000,<<1,0,4,0,3,0,7,0>>>>,<<58250,<<2,0,1,0,6,0,6,0>>>>,<<58750,<<3,-1,4,-1,9,-1,-1,4,0>>>>,
    <<59000,<<3,-1,8,-1,0,4,0>>>>,<<59250,<<4,-1,-1,7,-1,12,0>>>>,<<59500,<<2,0,2,-1,7,0,5,-1>>>>,
    <<59750,<<1,0,1,7,-1,4,0,8,-1>>>>,<<60250,<<1,0,1,7,-1,4,-1,4,-1>>>>,<<60500,<<2,0,2,-1,6,-1,6,-1>>>>,
    <<60750,<<1,0,4,-1,11,-1,4,-1>>>>,<<61250,<<1,0,6,-1,6,-1,2,0>>>>,<<61750,<<1,0,6,-1,2,0,6,0>>>>,
    <<62250,<<5,-1,-1,0,2,-1,8,-1>>>>,<<62750,<<4,0,5,-1,-1,0,6,0>>>>,<<64750,<<1,0,5,0,3,0,15,-1>>>>>>

\* the binary search
RECURSIVE Lookup(_, _, _)
Lookup(v, a1, a2) ==
  IF a1 >= a2 THEN {}
  ELSE LET g == (a2 + a1) \div 2
       IN IF v < hintab[g + 1][1] THEN Lookup(v, a1, g)
          ELSE IF v > hintab[g + 1][1] THEN Lookup(v, g + 1, a2) ELSE {hintab[g + 1][2]}

-----------------------------------------------------------------------------
(* mulcon0: the cache is multab with multabp, the entry last written; the  *)
(* answer is no code ({}) or a code, and whether a hint proved wrong       *)

NoMul == [tab |-> [i \in 0..(NMULTAB - 1) |-> [val |-> 0, code |-> <<>>]], at |-> 0]
Put(mul, at, v, code) == [mul EXCEPT !.at = at, !.tab[at] = [val |-> v, code |-> code]]
Got(mul, m, failed) == [mul |-> mul, m |-> m, failed |-> failed]

\* the shortest sequence of operations
RECURSIVE search(_, _)
search(v, g) ==
  IF g > 6 \/ (g = 6 /\ v >= 65535) THEN {}
  ELSE LET hint == gen1(v, g) IN IF hint # {} THEN hint ELSE search(v, g + 1)

Cached(val, v) == val = v
\* the entry that takes the shifted code of the odd part: the one selected before the
\* recursion, not the one that it selected
LastSelected(at, again) == again.mul.at    \* a mutant of Selected
Selected(at, again) == at
RECURSIVE mulcon0(_, _), halved(_)
halved(v) == IF v % 2 # 0 THEN <<0, v>> ELSE LET h == halved(v \div 2) IN <<h[1] + 1, h[2]>>
mulcon0(mul, w) ==
  LET v == IF w < 0 /\ w # Least THEN -w ELSE w
      hits == {i \in 0..(NMULTAB - 1) : Cached(mul.tab[i].val, v)}
      code == mul.tab[CHOOSE i \in hits : \A j \in hits : i <= j].code
      at == (mul.at + 1) % NMULTAB
      known == Lookup(v, 0, Len(hintab))
      hint == IF known # {} THEN known ELSE search(v, 1)
      codes == UNION {docode(h, v, 1, 0) : h \in hint}
      h == halved(v)
      again == mulcon0(Put(mul, at, v, <<>>), h[2])
      shifted == {Append(c, <<Letter(h[1]), 0>>) : c \in again.m}
  IN IF hits # {} THEN Got(mul, IF code = <<>> THEN {} ELSE {code}, FALSE)
     ELSE IF codes # {} THEN Got(Put(mul, at, v, CHOOSE c \in codes : TRUE), codes, FALSE)
     ELSE IF known # {} \/ h[1] = 0 THEN Got(Put(mul, at, v, <<>>), {}, hint # {})
     ELSE Got([again.mul EXCEPT !.tab[Selected(at, again)] = [val |-> v, code |-> IF shifted = {} THEN <<>> ELSE CHOOSE c \in shifted : TRUE]], shifted, hint # {} \/ again.failed)
==============================================================================
