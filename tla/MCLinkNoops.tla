---------------------------- MODULE MCLinkNoops ----------------------------
(* Functions for LinkNoops: every kind of frame, with calls, automatics,    *)
(* arguments, branches and NOPs in any order.                               *)
EXTENDS LinkNoops

Do(as, cond, off) == [as |-> as, cond |-> cond, off |-> off]
Text(size) == Do("TEXT", 0, size)
Nop == Do("NOP", 0, 0)    Ret == Do("RET", 0, 0)
Set(o) == Do("SET", 0, o) Arg(o) == Do("ARG", 0, o) Param(o) == Do("PARAM", 0, o)
Call(f) == Do("JAL", f, 0)  To(t) == Do("BEQ", t, 0)

\* The first function calls f, the one at 8, with an argument, or anything.
\* After the call it uses its frame again.
Caller(size, f) == <<Text(size), Set(-4), Arg(0), Nop, Call(f), Set(-8), Ret>>

\* f: what fits in its frame, and branches to its return, to its start and to
\* the NOP and what is behind it.
Bodies(size) ==
  LET steps == {Param(0), To(9), To(10), To(12)}
               \cup (IF size >= 0 THEN {Call(0), Call(8)} ELSE {})
               \cup (IF size >= 8 THEN {Set(-4), Set(-8)} ELSE {})
               \cup (IF size >= 20 THEN {Arg(4)} ELSE {})
  IN {<<b, Nop, c, d>> : b, c, d \in steps}
Callee(size, body) == <<Text(size)>> \o body \o <<Ret>>
\* A function without a frame that goes on in the next one, as adec in ainc.
Shared == <<Text(12), Arg(0), Call(5), Ret, Text(-4), Do("JMP", 8, 0), Text(-4), Param(0), Ret>>
MCPrograms ==
  {[ptrsize |-> w, code |-> Shared] : w \in {4, 8}} \cup
  UNION {{[ptrsize |-> w, code |-> Caller(s, 8 * (s \div 24)) \o Callee(size, body)] : body \in Bodies(size)} :
           w \in {4, 8}, s \in {12, 24}, size \in {-4, 0, 8, 20}}
=============================================================================
