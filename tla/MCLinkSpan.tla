----------------------------- MODULE MCLinkSpan -----------------------------
(* LinkSpan for TLC: short programs, and reaches scaled down so that a few *)
(* 12-byte instructions put a target out of reach of each form.            *)
EXTENDS LinkSpan

I(op)     == [as |-> op, cond |-> None]
B(op, to) == [as |-> op, cond |-> to]

Text == I("TEXT")
Fill == {I("CWORD"), I("WORD12")}

BranchesTo(ops, targets) == {B(op, to) : op \in ops, to \in targets}

(* Bodies of n instructions of which those in set "at" are branches of set *)
(* "br" and the others fill.                                               *)
Bodies(n, at, br, fill) ==
  { [i \in 1..n |-> IF i \in at THEN f[i] ELSE g[i]] :
      f \in [at -> br], g \in [(1..n) \ at -> fill] }

(* A short last function, so that the length of the first is seen with -c, *)
(* and something to compress without.                                      *)
LastFunction == <<Text, I("CWORD")>>

(* One function of five instructions, any two of them branches anywhere.   *)
OneFunction ==
  { <<Text>> \o b \o LastFunction :
      b \in UNION { Bodies(5, at, BranchesTo({"BEQZ", "BLT", "JMP"}, 2..6), Fill) :
                      at \in {s \in SUBSET (1..5) : Cardinality(s) = 2} } }

(* Two functions that call each other, each with a branch of its own.      *)
TwoFunctions ==
  { <<Text>> \o f \o <<Text>> \o g \o LastFunction :
      f \in UNION { Bodies(3, {i, j}, BranchesTo({"BEQZ", "JMP"}, 2..4)
                                        \cup {B("JAL", 5)}, Fill) :
                      i \in 1..2, j \in {3} },
      g \in Bodies(3, {1}, BranchesTo({"BLT"}, {6, 8}) \cup {B("JAL", 1)}, Fill) }

(* Jumps over more than JReach, with no other branch across them.          *)
FarJumps ==
  { <<Text, I("CWORD"), B(op, 2)>> \o LastFunction : op \in Jumps }
  \cup
  { <<Text>> \o before \o <<B(op, to)>> \o [i \in 1..5 |-> I("WORD12")] \o after \o LastFunction :
      before \in [1..2 -> Fill], after \in [1..2 -> Fill],
      op \in Jumps, to \in {8, 9, 10} }
  \cup
  { <<Text>> \o [i \in 1..5 |-> I("WORD12")] \o before \o <<B(op, to), I("CWORD")>> \o LastFunction :
      before \in [1..2 -> Fill], op \in Jumps, to \in {1, 2} }

(* A function of five instructions that calls the next one.                *)
Calls ==
  { <<Text>> \o b \o LastFunction :
      b \in UNION { Bodies(5, {i, j}, BranchesTo({"BEQZ"}, 2..6) \cup {B("JAL", 7)}, Fill) :
                      i \in 1..2, j \in 3..5 } }

(* One function with nothing after it.                                     *)
LastLong ==
  { <<Text>> \o b :
      b \in Bodies(5, {1, 5}, BranchesTo({"BEQZ", "BLT", "JMP"}, 2..6), Fill) }

MCPrograms == OneFunction \cup Calls \cup TwoFunctions \cup FarJumps
=============================================================================
