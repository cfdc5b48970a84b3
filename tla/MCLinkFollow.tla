---------------------------- MODULE MCLinkFollow ----------------------------
(* LinkFollow for TLC: short functions with branches and jumps everywhere. *)
EXTENDS LinkFollow

I(op)      == [as |-> op, cond |-> None, frame |-> 0]
B(op, to)  == [as |-> op, cond |-> to, frame |-> 0]
Text(next, size) == [as |-> "TEXT", cond |-> next, frame |-> size]

BranchesTo(ops, targets) == {B(op, to) : op \in ops, to \in targets}

(* What is at i once jumps are followed is not a jump through a register:  *)
(* brloop takes the target away from a branch to one.                      *)
ToRegisterJump(prog) ==
  \E i \in DOMAIN prog :
    /\ prog[i].as \in Conditional \cup {"JMP"}
    /\ LET end == Through(prog, prog[i].cond)
       IN end # Spin /\ prog[end].as = "IJMP"

(* One function of six instructions, then shorter ones with NOPs and that  *)
(* end otherwise.                                                          *)
OneFunction ==
  { <<Text(None, 0)>> \o b \o <<I("RET")>> :
      b \in [1..4 -> {I("OP"), I("RET")} \cup BranchesTo({"BEQ", "JMP"}, 2..6)] }
  \cup
  { <<Text(None, 0)>> \o b \o <<e>> :
      b \in [1..3 -> {I("OP"), I("NOP"), I("IJMP")} \cup BranchesTo({"BEQ", "JMP"}, 2..5)],
      e \in {I("IJMP"), B("JMP", 2)} }

(* Two functions with their own frames that call each other.               *)
TwoFunctions ==
  { <<Text(6, 0)>> \o f \o <<I("RET"), Text(None, 8)>> \o g \o <<I("RET")>> :
      f \in [1..3 -> {I("RET"), B("JAL", 6)} \cup BranchesTo({"BEQ"}, 3..5)
                        \cup BranchesTo({"JMP"}, {2, 5})],
      g \in [1..2 -> {I("OP"), B("JAL", 1)} \cup BranchesTo({"BNE"}, {7, 9})] }

(* A function that goes on in the next, as adec does in ainc, before one   *)
(* with another frame.                                                     *)
Shared ==
  { <<Text(4, 0), I("OP"), B("JMP", to), Text(8, 0)>> \o g \o <<Text(None, 8), I("RET")>> :
      to \in 5..7,
      g \in { h \in [1..3 -> {I("OP"), I("RET")} \cup BranchesTo({"BNE"}, 5..7)] :
                h[3].as = "RET" } }

MCPrograms ==
  { prog \in OneFunction \cup TwoFunctions \cup Shared : ~ToRegisterJump(prog) }
=============================================================================
