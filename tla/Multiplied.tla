----------------------------- MODULE Multiplied -----------------------------
(***************************************************************************)
(* Multiplications by one constant after the other, in one compilation:    *)
(* what mulcon0 answers, and the cache it keeps.                           *)
(***************************************************************************)
EXTENDS MulCode

VARIABLES
  multab,     \* the cache
  row, asked, \* the row of constants, 0 for none, and how many of it have been asked for
  answer      \* mulcon0's last answer: a code or none, and whether a hint was refused

mulVars == <<multab, row, asked, answer>>

(***************************************************************************)
(* Each row begins with an empty cache.  Found has a code by search or     *)
(* from the table; Recurring by that of the odd part, after the search     *)
(* failed; Codeless has none or the empty one, 140002 after its odd part   *)
(* 70001 failed too.  2^30 is the one whose hint docode refuses, so that   *)
(* the recursion ends in 1.                                                *)
(***************************************************************************)
Found == [i \in 1..63 |-> i + 1] \o [i \in 1..8 |-> hintab[20 * i][1]]
Recurring == <<87424, -174720, 116736>>
Codeless == <<140002, 70001, 1>>
Farthest == Two(30)
\* Behind each constant of Found, negated, one that came before it, some still in the
\* cache and some not; or, every 22 constants, -2^30, so that the recursion takes its
\* two entries at many places of the cache, also at the last and the first.
Back == <<0, 3, 8, 9, 13, 5, 30, 10>>
Earlier(k) == LET b == Back[1 + (k % 8)] IN Found[IF k > b THEN k - b ELSE k]
Revisited == [i \in 1..(2 * Len(Found)) |->
                IF i % 2 = 1 THEN Found[(i + 1) \div 2]
                ELSE IF i % 44 = 42 THEN -Farthest ELSE -Earlier(i \div 2)]
Rows ==
  <<Recurring \o <<683, 1365, 87424>> \o Codeless \o Codeless \o SubSeq(Revisited, 1, 60)
      \o Recurring \o <<-87424, 683, 1365, Least>>,
    <<65>> \o Revisited \o Revisited \o Revisited>>
  \o [i \in DOMAIN hintab |-> <<hintab[i][1]>>]

-----------------------------------------------------------------------------

NoAnswer == [m |-> {}, failed |-> FALSE]
MulIdle == row = 0 /\ asked = 0 /\ answer = NoAnswer
MulInit == multab = NoMul /\ row \in DOMAIN Rows /\ asked = 0 /\ answer = NoAnswer

Remain == row # 0 /\ asked < Len(Rows[row])
\* the constant of a statement, looked up or searched for
Constant == Rows[row][asked + 1]
Multiply ==
  /\ Remain
  /\ \E got \in {mulcon0(multab, Constant)} :
       multab' = got.mul /\ answer' = [m |-> got.m, failed |-> got.failed]
  /\ asked' = asked + 1 /\ UNCHANGED row

-----------------------------------------------------------------------------

\* what the code of a multiplication does to the two registers' multiples
RECURSIVE Multiples(_, _, _)
Multiples(code, i, r) ==
  IF i > Len(code) THEN r
  ELSE LET o == code[i][1]
           k == code[i][2]
           l == r[1 + (k % 2)]
           m == r[1 + ((k \div 2) % 2)]
       IN Multiples(code, i + 1,
            IF o = PLUS THEN [r EXCEPT ![1 + (k \div 4)] = LongAdd(m, l)]
            ELSE IF o = MINUS THEN [r EXCEPT ![1 + (k \div 4)] = LongSub(m, l)]
            ELSE [r EXCEPT ![1 + ((k \div 2) % 2)] = LongShl(l, o)])
Exact(code, v) == Multiples(code, 1, <<1, 0>>)[1] = v /\ 2 * Len(code) < 20
NoCode == {Codeless[i] : i \in DOMAIN Codeless} \cup {Farthest}

\* Over a long history of multiplications, the code that mulcon0 gives for a constant,
\* by search, from the table, by that of the odd part and a last shift, or out of the
\* cache, computes exactly that multiple and fits in the 20 characters of multab; none
\* is missing where there is one, whatever failures the cache keeps; no hint is refused
\* but that of 2^30; and in the cache, in which the recursion takes two entries and
\* which rolls over many times, every code is that of the constant it is kept under.
MulExact ==
  [][Remain /\ Constant # Least =>
       LET v == IF Constant < 0 THEN -Constant ELSE Constant
       IN /\ \A code \in answer'.m : Exact(code, v)
          /\ v \notin NoCode => answer'.m # {}
          /\ answer'.failed => v = Farthest
          /\ \A i \in DOMAIN multab'.tab :
               LET e == multab'.tab[i] IN e.code # <<>> => Exact(e.code, e.val)]_mulVars
=============================================================================
