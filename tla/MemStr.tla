------------------------------- MODULE MemStr -------------------------------
(***************************************************************************)
(* The memory and string routines in assembler: mem*.s and str*.s of       *)
(* libc/riscv, mem*.s of libc/riscv64.                                     *)
(*                                                                         *)
(* One behaviour is one call; a step is one turn of one of the routine's   *)
(* loops, from a label to the next, and moves the words it loads and       *)
(* stores at once where the code loads all of them before the first store. *)
(* A byte has LANE bits.  A routine's name ends in the word's size: 4 for  *)
(* libc/riscv, 8 for libc/riscv64.                                         *)
(***************************************************************************)
EXTENDS Integers

CONSTANTS LANE,                  \* bits of a byte
          Lowest, Highest,       \* the addresses of memory
          Lengths, MoveLengths,  \* the n's of calls; those of memmove, memset
          MoveGaps,              \* memmove's distances between to and from
          HasByte(_, _)          \* memchr8's test of a word for a byte

\* nothing lies so low that an end less 31 wraps around
ASSUME LaneAssumption == LANE \in Nat /\ LANE >= 2 /\ Lowest \in Nat /\ Lowest >= 32

VARIABLES op,       \* the call: [fn, p, q, n, c], and where the data differs
          mem,      \* memory
          r,        \* the label reached and the walking registers
          io        \* the addresses that the last step read and wrote

memVars == <<op, mem, r, io>>

Bytes == 0..(2^LANE - 1)
Half == (Highest - Lowest + 1) \div 2
Middle == Lowest + Half

\* a word of eight bytes; the test for c is exact, "no false positives"
Lanes(b) ==
  LET lane(i) == b[i] * 2^(LANE * i)
  IN lane(0) + lane(1) + lane(2) + lane(3) + lane(4) + lane(5) + lane(6) + lane(7)

ASSUME ByteAssumption ==
  \A b \in [0..7 -> Bytes], c \in Bytes : HasByte(Lanes(b), c) <=> \E i \in 0..7 : b[i] = c

\* every call's operands fit
ASSUME RoomAssumption ==
  /\ Highest \in Nat /\ Half > 20
  /\ Lengths \subseteq Nat /\ \A n \in Lengths : n + 3 < Half
  /\ MoveLengths \subseteq Nat /\ MoveGaps \subseteq Int
  /\ \A n \in MoveLengths : Lowest + 7 + n <= Highest
  /\ \A n \in MoveLengths \cup {0}, g \in MoveGaps :
       Lowest + 3 + n + (IF g < 0 THEN -g ELSE g) <= Highest

Span(a, k) == a..(a + k - 1)

\* k bytes from s to d, loaded before they are stored
Copied(m, d, s, k) == [a \in DOMAIN m |-> IF a \in Span(d, k) THEN m[s + a - d] ELSE m[a]]
Filled(m, d, c, k) == [a \in DOMAIN m |-> IF a \in Span(d, k) THEN c ELSE m[a]]
Same(m, s, t, k) == \A i \in 0..(k - 1) : m[s + i] = m[t + i]

Fn(names) == op.fn \in names
At(label) == r.at = label
Goto(label) == r' = [r EXCEPT !.at = label]
Return(v) == r' = [r EXCEPT !.at = "ret", !.v = v]
Touch(reads, writes) == io' = [reads |-> reads, writes |-> writes]
Reads(a, k) == Touch(Span(a, k), {}) /\ UNCHANGED mem
Quiet == Touch({}, {}) /\ UNCHANGED mem

Move(d, s, k) == mem' = Copied(mem, d, s, k) /\ Touch(Span(s, k), Span(d, k))

-----------------------------------------------------------------------------
(* memmove: p is to, q is from; r.back tells the half of the routine       *)

ForwardOver == op.p < op.q                    \* a mutant of Backward
Backward == op.q < op.p

MoveStart ==
  /\ Fn({"memmove4", "memmove8"}) /\ At("entry") /\ Quiet
  /\ LET n == IF op.n < 0 THEN 0 ELSE op.n      \* memmove8 takes n as unsigned
         far == IF Backward THEN n ELSE 0
         walk == [r EXCEPT !.back = Backward, !.n = n, !.p = op.p + far, !.q = op.q + far]
     IN IF op.n = 0 \/ (op.fn = "memmove8" /\ op.p = op.q)
        THEN Return(op.p)
        ELSE r' = [walk EXCEPT !.at = IF op.fn = "memmove4" THEN "align" ELSE "block"]

\* k bytes on, upwards or downwards
Advance(k, n, label) ==
  LET d == IF r.back THEN -k ELSE k IN
  /\ IF r.back THEN Move(r.p - k, r.q - k, k) ELSE Move(r.p, r.q, k)
  /\ r' = [r EXCEPT !.p = @ + d, !.q = @ + d, !.n = n, !.at = label]

\* f1, b1: bytes until the source is aligned
MoveAlign ==
  /\ Fn({"memmove4"}) /\ At("align")
  /\ IF r.q % 4 = 0 THEN Goto("aligned") /\ Quiet
     ELSE IF r.n - 1 < 0 THEN Return(op.p) /\ Quiet
     ELSE Advance(1, r.n - 1, "align")

\* f2, b2: if the destination is not aligned then, bytes to the end
MoveAligned ==
  /\ Fn({"memmove4"}) /\ At("aligned") /\ Quiet
  /\ IF r.p % 4 = 0 THEN Goto("quad")
     ELSE IF r.n - 1 < 0 THEN Return(op.p)
     ELSE r' = [r EXCEPT !.n = @ - 1, !.at = "byte"]

\* f3, b3 and f4, b4: four words at a time
MoveQuad ==
  /\ Fn({"memmove4"}) /\ At("quad")
  /\ IF r.n - 16 >= 0 THEN Advance(16, r.n - 16, "quad")
     ELSE IF r.n - 16 + 15 < 0 THEN Return(op.p) /\ Quiet
     ELSE r' = [r EXCEPT !.n = @ - 1, !.at = "byte"] /\ Quiet

\* f5, b5: n is one less than the bytes left
MoveByte ==
  /\ Fn({"memmove4"}) /\ At("byte")
  /\ Advance(1, r.n - 1, IF r.n - 1 >= 0 THEN "byte" ELSE "done")

MoveDone == Fn({"memmove4"}) /\ At("done") /\ Return(op.p) /\ Quiet

\* f32, b32: two times two words; f8, b8; f1, b1: the limit is the far end
MoveBlock ==
  /\ Fn({"memmove8"})
  /\ LET left(k) == IF r.back THEN r.p > op.p + (k - 1) ELSE r.p < op.p + op.n - (k - 1)
     IN \/ At("block") /\ left(32) /\ Advance(16, r.n, "half")
        \/ At("half") /\ Advance(16, r.n, "block")
        \/ At("block") /\ ~left(32) /\ Goto("word") /\ Quiet
        \/ At("word") /\ left(8) /\ Advance(8, r.n, "word")
        \/ At("word") /\ ~left(8) /\ Goto("tail") /\ Quiet
        \/ At("tail") /\ left(1) /\ Advance(1, r.n, "tail")
        \/ At("tail") /\ ~left(1) /\ Return(op.p) /\ Quiet

-----------------------------------------------------------------------------
(* memset: the same routine for words of 4 and of 8 bytes *)

SetFns == {"memset4", "memset8"}
SetWord == IF op.fn = "memset4" THEN 4 ELSE 8
Fill(k, label) ==
  /\ mem' = Filled(mem, r.p, op.c, k) /\ Touch({}, Span(r.p, k))
  /\ r' = [r EXCEPT !.p = @ + k, !.at = label]

SetStart ==
  /\ Fn(SetFns) /\ At("entry") /\ Quiet
  /\ r' = [r EXCEPT !.p = op.p, !.at = IF op.n < SetWord THEN "out" ELSE "align"]

SetLoop ==
  /\ Fn(SetFns)
  /\ LET end == op.p + op.n
         quad == r.p < end - (4 * SetWord - 1)
         word == r.p < end - (SetWord - 1)
     IN \/ At("align") /\ r.p % SetWord # 0 /\ Fill(1, "align")
        \/ At("align") /\ r.p % SetWord = 0 /\ Goto("quad") /\ Quiet
        \/ At("quad") /\ quad /\ Fill(4 * SetWord, "quad")
        \/ At("quad") /\ ~quad /\ Goto("word") /\ Quiet
        \/ At("word") /\ word /\ Fill(SetWord, "word")
        \/ At("word") /\ ~word /\ Goto("out") /\ Quiet
        \/ At("out") /\ r.p < end /\ Fill(1, "out")
        \/ At("out") /\ ~(r.p < end) /\ Return(op.p) /\ Quiet

-----------------------------------------------------------------------------
(* memcmp *)

Order(x, y) == IF y < x THEN 1 ELSE -1
Both(k) == Touch(Span(r.p, k) \cup Span(r.q, k), {}) /\ UNCHANGED mem
Pass(k, label) == r' = [r EXCEPT !.p = @ + k, !.q = @ + k, !.n = @ - k, !.at = label]

CmpStart ==
  /\ Fn({"memcmp4", "memcmp8"}) /\ At("entry") /\ Quiet
  /\ LET far == op.n < 4 \/ op.p % 4 # op.q % 4
         label == CASE op.fn = "memcmp8" -> "word" [] far -> "out" [] OTHER -> "align"
     IN r' = [r EXCEPT !.p = op.p, !.q = op.q, !.n = op.n, !.at = label]

\* the byte loops of both, and memcmp4's to the first aligned word
CmpBytes ==
  /\ Fn({"memcmp4", "memcmp8"})
  /\ \/ At("align") /\ r.p % 4 = 0 /\ Goto("quad") /\ Quiet
     \/ At("out") /\ r.n = 0 /\ Return(0) /\ Quiet
     \/ /\ At("out") \/ (At("align") /\ r.p % 4 # 0)
        /\ At("out") => r.n > 0
        /\ Both(1)
        /\ IF mem[r.p] # mem[r.q] THEN Return(Order(mem[r.p], mem[r.q])) ELSE Pass(1, r.at)

\* ne1: the words differ, and their bytes are compared from the lowest
FirstDifference(k) ==
  LET i == CHOOSE i \in 0..(k - 1) : mem[r.p + i] # mem[r.q + i] /\ Same(mem, r.p, r.q, i)
  IN Order(mem[r.p + i], mem[r.q + i])

\* l3 compares four words one after the other, l5 one
CmpWords4 ==
  /\ Fn({"memcmp4"})
  /\ \E s \in {[at |-> "quad", k |-> 16, next |-> "four"], [at |-> "four", k |-> 4, next |-> "out"]} :
       /\ At(s.at)
       /\ IF r.p < op.p + op.n - (s.k - 1)
          THEN Both(s.k) /\ IF Same(mem, r.p, r.q, s.k) THEN Pass(s.k, s.at)
                            ELSE Return(FirstDifference(s.k))
          ELSE Goto(s.next) /\ Quiet

\* words that differ are left to the byte loop
CmpWords8 ==
  /\ Fn({"memcmp8"}) /\ At("word")
  /\ IF r.n < 8 THEN Goto("out") /\ Quiet
     ELSE Both(8) /\ IF Same(mem, r.p, r.q, 8) THEN Pass(8, "word") ELSE Goto("out")

-----------------------------------------------------------------------------
(* memchr and memccpy: p is searched or copied from, q is copied to *)

NeverHit == FALSE                             \* a mutant of Hit
Hit == HasByte(Lanes([i \in 0..7 |-> mem[r.p + i]]), op.c)

ChrFns == {"memchr4", "memchr8", "memccpy4", "memccpy8"}
Copies == Fn({"memccpy4", "memccpy8"})

ChrStart ==
  /\ Fn(ChrFns) /\ At("entry") /\ Quiet
  /\ LET label == CASE op.fn = "memchr4" -> "pair"
                    [] op.fn = "memccpy4" -> "byte"
                    [] OTHER -> IF op.n < 16 THEN "byte" ELSE "word"
     IN IF op.n = 0 THEN Return(0)
        ELSE r' = [r EXCEPT !.p = op.p, !.q = op.q, !.n = op.n, !.at = label]

\* memchr4 takes two bytes a turn, and the last of an odd number alone
ChrPair ==
  /\ Fn({"memchr4"}) /\ At("pair")
  /\ IF r.n < 2 THEN Goto("byte") /\ Quiet
     ELSE /\ Reads(r.p, 2)
          /\ IF mem[r.p] = op.c THEN Return(r.p)
             ELSE IF mem[r.p + 1] = op.c THEN Return(r.p + 1)
             ELSE r' = [r EXCEPT !.p = @ + 2, !.n = @ - 2]

\* the word is tested before it is stored
ChrWord ==
  /\ Fn({"memchr8", "memccpy8"}) /\ At("word")
  /\ IF r.n < 8 THEN Goto("byte") /\ Quiet
     ELSE IF Hit THEN Reads(r.p, 8) /\ Goto("byte")
     ELSE /\ IF Copies THEN Move(r.q, r.p, 8) ELSE Reads(r.p, 8)
          /\ Pass(8, "word")

ChrByte ==
  /\ Fn(ChrFns) /\ At("byte")
  /\ IF r.n = 0 THEN Return(0) /\ Quiet
     ELSE /\ IF Copies THEN Move(r.q, r.p, 1) ELSE Reads(r.p, 1)
          /\ IF mem[r.p] = op.c THEN Return(IF Copies THEN r.q + 1 ELSE r.p) ELSE Pass(1, "byte")

-----------------------------------------------------------------------------
(* strchr, strcmp, strcpy of libc/riscv *)

StrChr ==
  /\ Fn({"strchr4"})
  /\ \/ At("entry") /\ r' = [r EXCEPT !.p = op.p, !.at = IF op.c = 0 THEN "null" ELSE "byte"] /\ Quiet
     \/ /\ At("byte") /\ Reads(r.p, 1)
        /\ IF mem[r.p] = 0 THEN Return(0)
           ELSE IF mem[r.p] = op.c THEN Return(r.p)
           ELSE r' = [r EXCEPT !.p = @ + 1]
     \/ At("null") /\ r.p % 4 = 0 /\ Goto("word") /\ Quiet
     \/ /\ At("null") /\ r.p % 4 # 0 /\ Reads(r.p, 1)
        /\ IF mem[r.p] = 0 THEN Return(r.p) ELSE r' = [r EXCEPT !.p = @ + 1]
     \/ /\ At("word") /\ Reads(r.p, 4)
        /\ IF \E i \in 0..3 : mem[r.p + i] = 0
           THEN Return(r.p + CHOOSE i \in 0..3 : mem[r.p + i] = 0 /\ \A j \in 0..(i - 1) : mem[r.p + j] # 0)
           ELSE r' = [r EXCEPT !.p = @ + 4]

StrCmp ==
  /\ Fn({"strcmp4"})
  /\ \/ At("entry") /\ r' = [r EXCEPT !.p = op.p, !.q = op.q, !.at = "byte"] /\ Quiet
     \/ /\ At("byte") /\ Both(1)
        /\ CASE mem[r.q] = 0 -> Return(IF 0 < mem[r.p] THEN 1 ELSE 0)
             [] mem[r.q] # 0 /\ mem[r.p] = mem[r.q] -> Pass(1, "byte")
             [] OTHER -> Return(Order(mem[r.p], mem[r.q]))

\* q is from, p is to; word reads may go past the end, stores may not
StrCpy ==
  /\ Fn({"strcpy4"})
  /\ LET i == CHOOSE i \in 0..4 : (i < 4 => mem[r.q + i] = 0) /\ \A j \in 0..(i - 1) : mem[r.q + j] # 0
         words == r.p % 4 = 0
     IN \/ At("entry") /\ r' = [r EXCEPT !.p = op.p, !.q = op.q, !.at = "align"] /\ Quiet
        \/ At("align") /\ r.q % 4 = 0 /\ Goto(IF words THEN "word" ELSE "bytes") /\ Quiet
        \/ /\ At("align") /\ r.q % 4 # 0 /\ Move(r.p, r.q, 1)
           /\ IF mem[r.q] = 0 THEN Return(op.p) ELSE Pass(1, "align")
        \/ /\ At("word") \/ At("bytes")
           /\ mem' = Copied(mem, r.p, r.q, IF i < 4 THEN i + 1 ELSE 4)
           /\ Touch(Span(r.q, 4), Span(r.p, IF i < 4 THEN i + 1 ELSE 4))
           /\ IF i < 4 THEN Return(op.p) ELSE Pass(4, r.at)

-----------------------------------------------------------------------------
(* the calls *)

Fresh == [a \in Lowest..Highest |-> a]             \* every byte told apart

\* d bytes in, the two operands or the operand and c meet
MemCall(fn, p, q, n, c, d) == [fn |-> fn, p |-> p, q |-> q, n |-> n, c |-> c, d |-> d]

MoveCalls ==
  \E fn \in {"memmove4", "memmove8"}, a \in 0..3, g \in MoveGaps, n \in MoveLengths \cup {-1} :
    /\ n < 0 => fn = "memmove4"
    /\ LET q == Lowest + a - (IF g < 0 THEN g ELSE 0)
       IN op = MemCall(fn, q + g, q, n, 0, 0) /\ mem = Fresh

SetCalls ==
  \E fn \in SetFns, a \in 0..7, n \in MoveLengths :
    op = MemCall(fn, Lowest + a, 0, n, 1, 0) /\ mem = Fresh

\* equal up to d, from there on the other way round
CmpCalls ==
  \E fn \in {"memcmp4", "memcmp8"}, a, b \in 0..3, n \in Lengths :
    \E d \in 0..n, s \in {1, 2} :
      /\ op = MemCall(fn, Lowest + a, Middle + b, n, 0, d)
      /\ mem = [x \in Lowest..Highest |->
                  CASE x = Lowest + a + d -> s [] x = Middle + b + d -> 3 - s
                    [] x > Lowest + a + d /\ x < Middle -> 3 - s [] x > Middle + b + d -> s
                    [] OTHER -> 0]

\* f before c, c at d, g after it
ChrCalls ==
  \E fn \in ChrFns, n \in Lengths, c \in Bytes :
    \E d \in 0..n, f \in Bytes \ {c}, g \in {0, c} :
      /\ op = MemCall(fn, Lowest, Middle, n, c, d)
      /\ mem = [x \in Lowest..Highest |->
                  CASE x < Lowest + d -> f [] x = Lowest + d -> c
                    [] x > Lowest + d /\ x < Middle -> g [] OTHER -> 0]

\* 3 is not in the string, which ends at d; 2 is there and the end later
StrCalls ==
  \/ \E a, b \in 0..3, d \in 0..9, c \in {0, 2, 3}, fn \in {"strchr4", "strcpy4"} :
       /\ op = MemCall(fn, Lowest + a, Middle + b, 0, c, d)
       /\ LET s == IF fn = "strcpy4" THEN Middle + b ELSE Lowest + a IN
          mem = [x \in Lowest..Highest |->
                   IF x = s + d THEN c % 3 ELSE IF x < s \/ x = s + d + 2 THEN 0 ELSE 1]
  \/ \E d \in 0..5, x, y \in Bytes :
       /\ x = y => x = 0
       /\ op = MemCall("strcmp4", Lowest, Middle, 0, 0, d)
       /\ mem = [a \in Lowest..Highest |->
                   CASE a = Lowest + d -> x [] a = Middle + d -> y
                     [] a > Lowest + d /\ a < Middle -> 2 [] OTHER -> 1]

MemQuiet ==
  /\ r = [at |-> "entry", p |-> 0, q |-> 0, n |-> 0, back |-> FALSE, v |-> 0]
  /\ io = [reads |-> {}, writes |-> {}]
MemIdle == op = MemCall("none", 0, 0, 0, 0, 0) /\ mem = <<>> /\ MemQuiet
MemInit == (MoveCalls \/ SetCalls \/ CmpCalls \/ ChrCalls \/ StrCalls) /\ MemQuiet

MemNext ==
  /\ \/ MoveStart \/ MoveAlign \/ MoveAligned \/ MoveQuad \/ MoveByte \/ MoveDone \/ MoveBlock
     \/ SetStart \/ SetLoop
     \/ CmpStart \/ CmpBytes \/ CmpWords4 \/ CmpWords8
     \/ ChrStart \/ ChrPair \/ ChrWord \/ ChrByte
     \/ StrChr \/ StrCmp \/ StrCpy
  /\ UNCHANGED op

MemSpec == MemInit /\ [][MemNext]_memVars

-----------------------------------------------------------------------------
(* what the routines promise *)

\* the string at a, with its end
StrLength(m, a) == CHOOSE k \in 0..(Highest - a) : m[a + k] = 0 /\ \A i \in 0..(k - 1) : m[a + i] # 0
Found == op.d < op.n                        \* c is among the n bytes

Result(m) ==
  CASE Fn({"memmove4", "memmove8"}) \/ Fn(SetFns) \/ Fn({"strcpy4"}) -> op.p
    [] Fn({"memcmp4", "memcmp8"}) ->
         IF Found THEN Order(m[op.p + op.d], m[op.q + op.d]) ELSE 0
    [] Fn({"memchr4", "memchr8"}) -> IF Found THEN op.p + op.d ELSE 0
    [] Fn({"memccpy4", "memccpy8"}) -> IF Found THEN op.q + op.d + 1 ELSE 0
    [] Fn({"strchr4"}) -> IF m[op.p + op.d] = op.c THEN op.p + op.d ELSE 0
    [] Fn({"strcmp4"}) ->
         LET x == m[op.p + op.d] y == m[op.q + op.d] IN IF x = y THEN 0 ELSE Order(x, y)

Least(x, y) == IF x < y THEN x ELSE y
Written ==
  CASE Fn({"memmove4", "memmove8"}) \/ Fn(SetFns) -> Span(op.p, op.n)
    [] Fn({"memccpy4", "memccpy8"}) -> Span(op.q, Least(op.n, op.d + 1))
    [] Fn({"strcpy4"}) -> Span(op.p, StrLength(mem, op.q) + 1)
    [] OTHER -> {}

\* str routines read words, and so the whole of those that hold the string
Aligned(a, k) == UNION {Span(4 * ((a + i) \div 4), 4) : i \in 0..(k - 1)}
Readable ==
  CASE Fn({"memmove4", "memmove8"}) -> Span(op.q, op.n)
    [] Fn({"memcmp4", "memcmp8"}) -> Span(op.p, op.n) \cup Span(op.q, op.n)
    [] Fn(ChrFns) -> Span(op.p, op.n)
    [] Fn({"strchr4"}) -> Aligned(op.p, op.d + 1)
    [] Fn({"strcpy4"}) -> Aligned(op.q, StrLength(mem, op.q) + 1)
    [] Fn({"strcmp4"}) -> Span(op.p, op.d + 1) \cup Span(op.q, op.d + 1)
    [] OTHER -> {}

\* mem*.s, str*.s: whatever the alignment, the overlap and the lengths, the
\* routine returns what the C library's definition says and memory holds it:
\* memmove's bytes as if all were read first, the first difference of memcmp
\* though words are compared, memccpy's copy up to c and no byte further.
MemExact ==
  At("ret") =>
    /\ r.v = Result(mem)
    /\ CASE Fn({"memmove4", "memmove8"}) -> mem = Copied(Fresh, op.p, op.q, op.n)
         [] Fn(SetFns) -> mem = Filled(Fresh, op.p, op.c, op.n)
         [] Fn({"memccpy4", "memccpy8"}) -> Same(mem, op.p, op.q, Least(op.n, op.d + 1))
         [] Fn({"strcpy4"}) -> Same(mem, op.p, op.q, StrLength(mem, op.q) + 1)
         [] OTHER -> TRUE

\* riscv64/mem*.s: "a word is only touched while 8 bytes remain", "never reads
\* past"; a word at a time, no step reads or writes outside the operands (the
\* str routines: outside the aligned words the string lies in).
OwnBytes == io.writes \subseteq Written /\ io.reads \subseteq Readable
=============================================================================
