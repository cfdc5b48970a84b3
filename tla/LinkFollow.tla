----------------------------- MODULE LinkFollow -----------------------------
(***************************************************************************)
(* The linker's reordering of the program (cmd/il/pass.c): the second loop *)
(* of patch and brloop, which lead branches past chains of jumps, then     *)
(* follow and xfol, which lay the program out again along its control      *)
(* flow.  xfol drops a jump whose target is not laid out yet and continues *)
(* there; at an instruction that is laid out already it repeats a few      *)
(* instructions up to a jump or a return, or up to a conditional branch    *)
(* whose target is not laid out, which it inverts, and else jumps back.    *)
(*                                                                         *)
(* One action is one round of xfol's loop.  Instructions are numbered as   *)
(* they are allocated; code holds the links and targets as pointers do, so *)
(* that an instruction laid out twice is two records.                      *)
(***************************************************************************)
EXTENDS Integers, Sequences, FiniteSets

CONSTANTS
  Programs,   \* the programs patch may find, see IsProgram
  CopyMax     \* 4, how far xfol looks for the end of a repeatable piece

None == 0     \* the null Prog pointer P
Spin == -1    \* no instruction: control stays in a jump for ever

(* JMP is AJMP to a label, IJMP is AJMP through a register.                *)
Conditional == {"BEQ", "BNE"}
Leaves  == {"JMP", "IJMP", "RET"}       \* a == AJMP || a == ARET
Opcodes == {"TEXT", "OP", "NOP", "JAL", "GOK"} \cup Conditional \cup Leaves

(* A TEXT's target is the next TEXT, of which textp is the first; frame is *)
(* the size of its stack frame.                                            *)
IsProgram(prog) ==
  /\ prog \in Seq([as : Opcodes \ {"GOK"}, cond : Nat, frame : Nat])
  /\ prog # <<>> /\ prog[1].as = "TEXT" /\ prog[Len(prog)].as \in Leaves
  /\ \A i \in DOMAIN prog :
       CASE prog[i].as \in Conditional \cup {"JMP", "JAL"} -> prog[i].cond \in DOMAIN prog
         [] prog[i].as = "TEXT" ->
              LET later == {j \in i + 1 .. Len(prog) : prog[j].as = "TEXT"}
              IN prog[i].cond = IF later = {} THEN None
                                ELSE CHOOSE j \in later : \A k \in later : j <= k
         [] OTHER -> prog[i].cond = None

ASSUME LinkFollowAssumption ==
  /\ \A prog \in Programs : IsProgram(prog)
  /\ CopyMax \in Nat

VARIABLES
  text,     \* the program as patch finds it (never changes)
  code,     \* code[i]: opcode, target and link of instruction i, and its
            \* original: the instruction of text it is or repeats, if any
  foll,     \* the instructions marked FOLL
  firstp,   \* the start of the program
  lastp,    \* the last instruction laid out
  p,        \* the loops' Prog pointer
  stack,    \* the calls of xfol to return to, innermost first
  phase,    \* "patch", "follow" or "done"
  cant      \* the "cant happen" messages, and null pointers followed

vars == <<text, code, foll, firstp, lastp, p, stack, phase, cant>>

-----------------------------------------------------------------------------
relinv(as) == IF as = "BEQ" THEN "BNE" ELSE "BEQ"

(* next applied over and over to i, for as long as it can be new.          *)
Iterated(next, i) ==
  LET at[n \in 0 .. Cardinality(DOMAIN next)] ==
        IF n = 0 THEN i ELSE next[at[n - 1]]
  IN at

(* Where control gets through jumps to labels alone.  A cycle of them, or  *)
(* one whose target patch took away, goes nowhere.                         *)
Through(prog, i) ==
  LET end == Iterated([j \in DOMAIN prog \cup {None} |->
                         IF j # None /\ prog[j].as = "JMP" /\ prog[j].cond # None
                           THEN prog[j].cond ELSE j], i)[Len(prog)]
  IN IF end # None /\ prog[end].as = "JMP" THEN Spin ELSE end

(* brloop(p): null at a cycle, and at a jump through a register.           *)
brloop(i) ==
  LET end == Through(code, i)
  IN IF end = Spin \/ end = None THEN None
     ELSE IF code[end].as = "IJMP" THEN None
     ELSE end

(* a == AJMP with a target.                                                *)
DirectJump(i) == code[i].as = "JMP" /\ code[i].cond # None

(* The n-th instruction from t along the links, as far as lastp.           *)
Piece(t) ==
  Iterated([q \in DOMAIN code \cup {None} |->
              IF q \in {None, lastp} THEN q ELSE code[q].link], t)

-----------------------------------------------------------------------------
Init ==
  /\ text \in Programs
  /\ code = [i \in DOMAIN text |->
               [as |-> text[i].as, cond |-> text[i].cond,
                link |-> IF i = Len(text) THEN None ELSE i + 1, original |-> i]]
  /\ foll = {} /\ firstp = 1 /\ lastp = None /\ stack = <<>>
  /\ phase = "patch" /\ p = 1 /\ cant = {}

(* patch's second loop.                                                    *)
Patch ==
  /\ phase = "patch" /\ p # None
  /\ code' = IF code[p].cond = None THEN code
             ELSE [code EXCEPT ![p].cond = brloop(@)]
  /\ p' = code[p].link
  /\ UNCHANGED <<text, foll, firstp, lastp, stack, phase, cant>>

(* follow: firstp = prg(); xfol(textp).                                    *)
Follow ==
  /\ phase = "patch" /\ p = None
  /\ code' = Append(code, [as |-> "GOK", cond |-> None, link |-> None, original |-> None])
  /\ firstp' = Len(code) + 1 /\ lastp' = Len(code) + 1
  /\ p' = 1
  /\ phase' = "follow"
  /\ UNCHANGED <<text, foll, stack, cant>>

Following == phase = "follow" /\ p # None

(* The instruction this round is about: past the jump it begins with.      *)
Target == IF DirectJump(p) THEN code[p].cond ELSE p

(* The jump itself counts as laid out.                                     *)
Marked == IF DirectJump(p) THEN foll \cup {p} ELSE foll

(* A jump to something not laid out yet disappears.                        *)
Elide ==
  /\ Following /\ DirectJump(p)
  /\ Target \notin Marked
  /\ foll' = Marked
  /\ p' = Target
  /\ UNCHANGED <<text, code, firstp, lastp, stack, phase, cant>>

(* Slip: the search does not stop at lastp.                                *)
SearchedPastLast(at, n) ==
  Cardinality({j \in 0 .. n - 1 : code[at[j]].as # "NOP"}) < CopyMax

(* The for loop comes to the n-th instruction of the piece: NOPs are not   *)
(* counted, and lastp ends the search.                                     *)
Searched(at, n) ==
  /\ \A j \in 0..n : at[j] # lastp
  /\ Cardinality({j \in 0 .. n - 1 : code[at[j]].as # "NOP"}) < CopyMax

(* ... and finds the end of the piece there.                               *)
Invertible(i) ==
  code[i].as \in Conditional /\ code[i].cond # None /\ code[i].cond \notin Marked
Ends(i) == code[i].as \in Leaves \/ Invertible(i)

FirstEnd(at, n) ==
  /\ Searched(at, n)
  /\ Ends(at[n])
  /\ \A j \in 0 .. n - 1 : ~Ends(at[j])

(* It runs into a null link instead.                                       *)
RunsOff(at) ==
  \E n \in DOMAIN at : at[n] = None /\ Searched(at, n)
                        /\ \A j \in 0 .. n - 1 : ~Ends(at[j])

(* code with a copy of at[0], ..., at[n] behind lastp.                     *)
WithCopy(at, n) ==
  [code EXCEPT ![lastp].link = Len(code) + 1]
    \o [k \in 1 .. n + 1 |->
          [code[at[k - 1]] EXCEPT !.link = IF k <= n THEN Len(code) + k + 1 ELSE @]]

Impossible(unless, message) == IF unless THEN cant ELSE cant \cup {message}

CantHappen1(at, n) ==
  Impossible(\A j \in 0..n : at[j] \in Marked, "cant happen 1")

AtMarked == Following /\ Target \in Marked

(* copy: up to a jump or a return.                                         *)
CopyToEnd ==
  /\ AtMarked
  /\ LET at == Piece(Target)
     IN \E n \in DOMAIN at :
          /\ FirstEnd(at, n) /\ code[at[n]].as \in Leaves
          /\ code' = WithCopy(at, n)
          /\ lastp' = Len(code) + n + 1
          /\ foll' = Marked \cup (Len(code) + 1 .. Len(code) + n + 1)
          /\ cant' = CantHappen1(at, n)
  /\ p' = None
  /\ UNCHANGED <<text, firstp, stack, phase>>

(* Slip: the opposite branch keeps its target and its link.                *)
Unswapped(r, q) == [r EXCEPT !.as = relinv(q.as)]

(* r->as = b; r->cond = p->link; r->link = p->cond                         *)
Inverted(r, q) == [r EXCEPT !.as = relinv(q.as), !.cond = q.link, !.link = q.cond]

(* copy: up to a conditional branch, inverted, so that its target can be   *)
(* laid out next.                                                          *)
CopyInverted ==
  /\ AtMarked
  /\ LET at == Piece(Target)
     IN \E n \in DOMAIN at :
          LET r      == Len(code) + n + 1
              copied == [WithCopy(at, n) EXCEPT ![r] = Inverted(@, code[at[n]])]
          IN /\ FirstEnd(at, n) /\ Invertible(at[n])
             /\ code' = copied
             /\ lastp' = r
             /\ foll' = Marked \cup (Len(code) + 1 .. r)
             /\ cant' = CantHappen1(at, n)
             /\ stack' = <<[after |-> "copy", at |-> r]>> \o stack
             /\ p' = IF copied[r].link \in Marked THEN None ELSE copied[r].link
  /\ UNCHANGED <<text, firstp, phase>>

MarkedJump == Marked \cup {Len(code) + 1}

(* Nothing short enough: a new jump back.                                  *)
JumpBack ==
  /\ AtMarked
  /\ LET at == Piece(Target)
     IN /\ ~\E n \in DOMAIN at : FirstEnd(at, n)
        /\ cant' = Impossible(~RunsOff(at), "null")
  /\ code' = Append([code EXCEPT ![lastp].link = Len(code) + 1],
                    [as |-> "JMP", cond |-> Target, link |-> None, original |-> None])
  /\ lastp' = Len(code) + 1
  /\ foll' = MarkedJump
  /\ p' = None
  /\ UNCHANGED <<text, firstp, stack, phase>>

(* p->mark |= FOLL; lastp->link = p; lastp = p                             *)
LayOut ==
  /\ Following /\ ~DirectJump(p) /\ p \notin foll
  /\ foll' = foll \cup {p}
  /\ code' = [code EXCEPT ![lastp].link = p]
  /\ lastp' = p
  /\ UNCHANGED <<text, firstp, phase, cant>>

(* Slip: the target of a call is followed like that of a branch.           *)
BranchesOrCalls(i) == code[i].cond # None /\ code[i].link # None

Branches(i) ==
  /\ code[i].cond # None
  /\ code[i].as # "JAL" /\ code[i].link # None

(* The end of this path.                                                   *)
LayLeaf ==
  /\ LayOut
  /\ code[p].as \in Leaves
  /\ p' = None
  /\ UNCHANGED stack

(* Two ways on: the next instruction first, with all that follows from it. *)
LayBranch ==
  /\ LayOut
  /\ code[p].as \notin Leaves /\ Branches(p)
  /\ stack' = <<[after |-> "branch", at |-> p]>> \o stack
  /\ p' = code'[p].link

LayNext ==
  /\ LayOut
  /\ code[p].as \notin Leaves /\ ~Branches(p)
  /\ p' = code'[p].link
  /\ UNCHANGED stack

(* Slip: the frame stays on the stack.                                     *)
Kept(frames) == frames

Popped(frames) == Tail(frames)

(* xfol(p->link) returned: on to the target, unless it is laid out.        *)
ReturnToBranch ==
  /\ phase = "follow" /\ p = None
  /\ stack # <<>> /\ Head(stack).after = "branch"
  /\ LET target == code[Head(stack).at].cond
     IN p' = IF target \in foll THEN None ELSE target
  /\ stack' = Popped(stack)
  /\ UNCHANGED <<text, code, foll, firstp, lastp, phase, cant>>

(* xfol(r->link) returned.                                                 *)
ReturnToCopy ==
  /\ phase = "follow" /\ p = None
  /\ stack # <<>> /\ Head(stack).after = "copy"
  /\ cant' = Impossible(code[Head(stack).at].cond \in foll, "cant happen 2")
  /\ stack' = Popped(stack)
  /\ UNCHANGED <<text, code, foll, firstp, lastp, p, phase>>

(* The rest of follow: firstp = firstp->link; lastp->link = P.             *)
EndFollow ==
  /\ phase = "follow" /\ p = None /\ stack = <<>>
  /\ firstp' = code[firstp].link
  /\ code' = [code EXCEPT ![lastp].link = None]
  /\ phase' = "done"
  /\ UNCHANGED <<text, foll, lastp, p, stack, cant>>

Done == phase = "done" /\ UNCHANGED vars

Next ==
  \/ Patch
  \/ Follow
  \/ Elide
  \/ CopyToEnd
  \/ CopyInverted
  \/ JumpBack
  \/ LayLeaf
  \/ LayBranch
  \/ LayNext
  \/ ReturnToBranch
  \/ ReturnToCopy
  \/ EndFollow
  \/ Done

Spec == Init /\ [][Next]_vars

(* The linker is one sequential program.                                   *)
FairSpec == Spec /\ WF_vars(Next)

-----------------------------------------------------------------------------
(* The situations xfol takes for impossible are: the diagnostics "cant     *)
(* happen 1" and "cant happen 2", and a null link in the search.           *)
CantHappen == cant = {}

(* The program in its new order.                                           *)
Layout ==
  Iterated([q \in DOMAIN code \cup {None} |->
              IF q = None THEN None ELSE code[q].link], firstp)
LaidOut ==
  LET order == Layout
  IN {order[n] : n \in DOMAIN order} \ {None}

(* Control passing to i, which is part of the new program, gets to where   *)
(* control passing to o got in the old one.                                *)
Continues(i, o) ==
  LET new == Through(code, i)
      old == Through(text, o)
  IN /\ i \in LaidOut
     /\ IF new = Spin \/ old = Spin THEN new = old
        ELSE new \in LaidOut /\ code[new].original = old

(* Taken, branch i gets to where control passing to o got in the old       *)
(* program; asmout makes a branch without a target one to itself.          *)
Takes(i, o) ==
  IF code[i].cond = None THEN Through(text, o) = Spin
  ELSE Continues(code[i].cond, o)

(* Instruction i of the new program does what its original did, and goes   *)
(* on to images of the instructions its original went on to.               *)
SameFlow(i) ==
  LET o  == code[i].original
      as == text[o].as
  IN CASE as \in {"RET", "IJMP"} -> code[i].as = as
       [] as = "JMP" -> Continues(i, o)
       [] as \in Conditional /\ code[i].as = as ->
            Takes(i, text[o].cond) /\ Continues(code[i].link, o + 1)
       [] as \in Conditional /\ code[i].as # as ->
            /\ code[i].as = relinv(as)
            /\ Takes(i, o + 1)
            /\ Continues(code[i].link, text[o].cond)
       [] OTHER ->
            /\ code[i].as = as
            /\ as = "JAL" => Takes(i, text[o].cond)
            /\ Continues(code[i].link, o + 1)

(* The reordered program computes what the program computed: every         *)
(* function is there, and at every instruction laid out, original or       *)
(* repeated, control goes on as it did (xfol's copies, inversions, dropped *)
(* and new jumps).                                                         *)
FlowPreserved ==
  phase = "done" =>
    /\ \A o \in DOMAIN text : text[o].as = "TEXT" =>
         \E i \in LaidOut : code[i].as = "TEXT" /\ code[i].original = o
    /\ \A i \in LaidOut : code[i].original # None => SameFlow(i)

(* The frame an instruction at place n of prog runs with, by the TEXT in   *)
(* front of it.                                                            *)
FrameIn(prog, n) ==
  LET texts == {m \in 1..n : prog[m].as = "TEXT"}
  IN prog[CHOOSE m \in texts : \A k \in texts : k <= m].frame

(* noops gives each RET and each stack reference the frame of the TEXT     *)
(* before it in the new order; that TEXT has the frame of the function the *)
(* instruction was written in.                                             *)
FrameKept ==
  phase = "done" =>
    LET chain == Layout
        order == [n \in 1..Cardinality(LaidOut) |-> chain[n - 1]]
        frames == [n \in DOMAIN order |->
                     LET o == code[order[n]].original
                     IN [as |-> code[order[n]].as,
                         frame |-> IF o = None THEN 0 ELSE text[o].frame]]
    IN \A n \in DOMAIN order :
         code[order[n]].original # None =>
           FrameIn(frames, n) = FrameIn(text, code[order[n]].original)

(* xfol returns.                                                           *)
Terminates == <>(phase = "done")
=============================================================================
