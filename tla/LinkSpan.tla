------------------------------ MODULE LinkSpan ------------------------------
(***************************************************************************)
(* The linker's layout of the text segment (cmd/il/span.c, span) and the   *)
(* pass that emits it (cmd/il/asm.c, asmb).                                *)
(*                                                                         *)
(* span first assumes that every branch with a 2-byte form gets it, then   *)
(* goes over the program until nothing changes: it drops 2-byte forms that *)
(* do not reach, turns a conditional branch that does not reach into the   *)
(* opposite branch around a jump, and gives a jump that does not reach an  *)
(* 8-byte form.  Addresses of instructions ahead are those of the last     *)
(* pass, addresses of instructions behind those of this pass.  asmb does   *)
(* its own choice of forms again and complains when an instruction is not  *)
(* where span put it.                                                      *)
(*                                                                         *)
(* Instructions are numbered as they are allocated: Program's first, then  *)
(* the jumps span inserts.  Only what the layout depends on is kept.       *)
(***************************************************************************)
EXTENDS Naturals, Integers, Sequences, FiniteSets

CONSTANTS
  Programs,      \* the programs that follow and noops may leave, see IsProgram
  Options,       \* what debug['c'], the -c option (nocompress), may be
  RV32,          \* thechar == 'i': JAL has a 2-byte form
  CBReach,       \* 0x100, the reach of C.BEQZ and C.BNEZ
  CJReach,       \* 0x800, the reach of C.J and C.JAL
  BReach,        \* 0x1000, the reach of a conditional branch
  JReach         \* 0x100000, the reach of JAL

None == 0        \* the null Prog pointer

Conditional == {"BEQZ", "BNEZ", "BLT", "BGE"}
Jumps       == {"JMP", "JAL"}
(* WORD4, WORD8 and WORD12 stand for the instructions without a 2-byte     *)
(* form, by their size; CWORD for those that have one and are not branches.*)
Straight    == {"CWORD", "WORD4", "WORD8", "WORD12"}
Opcodes     == {"TEXT"} \cup Straight \cup Conditional \cup Jumps

IsProgram(prog) ==
  /\ prog \in Seq([as : Opcodes, cond : Nat])
  /\ prog # <<>> /\ prog[1].as = "TEXT"
  /\ \A i \in DOMAIN prog :
       IF prog[i].as \in Conditional \cup Jumps
         THEN prog[i].cond \in DOMAIN prog
         ELSE prog[i].cond = None

ASSUME LinkSpanAssumption ==
  /\ \A prog \in Programs : IsProgram(prog)
  /\ Options \subseteq BOOLEAN /\ RV32 \in BOOLEAN
  /\ {CBReach, CJReach, BReach, JReach} \subseteq Nat \ {0}
  /\ CJReach + 2 <= BReach

VARIABLES
  program,  \* the program as span finds it (never changes)
  nocompress,  \* debug['c'] (never changes)
  code,     \* code[i]: opcode and branch target of instruction i
  link,     \* link[i]: the instruction after i
  pc,       \* pc[i]: its address
  compr,    \* the instructions marked COMPR
  seen,     \* the instructions whose SPASS mark is set
  far,      \* the jumps moved to address class C_LBRA
  spass,    \* the SPASS mark of the instructions this pass has been over
  phase,    \* "first" and "expand" in span, then "asm" and "done" in asmb
  p,        \* the loops' Prog pointer
  c,        \* the address reached
  otxt,     \* the address of the last TEXT, in the first pass
  bflag,    \* another pass is needed
  diags     \* the complaints of asmb

vars == <<program, nocompress, code, link, pc, compr, seen, far, spass, phase,
          p, c, otxt, bflag, diags>>

-----------------------------------------------------------------------------
relinv(as) ==
  CASE as = "BEQZ" -> "BNEZ"
    [] as = "BNEZ" -> "BEQZ"
    [] as = "BLT"  -> "BGE"
    [] as = "BGE"  -> "BLT"

(* c = (c + 3) & ~3                                                        *)
Align4(a) == ((a + 3) \div 4) * 4

(* oplook(p)->size                                                         *)
Size(i) ==
  CASE code[i].as = "TEXT" -> 0
    [] code[i].as \in {"CWORD", "WORD4"} \cup Conditional -> 4
    [] code[i].as = "WORD8" -> 8
    [] code[i].as = "WORD12" -> 12
    [] code[i].as \in Jumps -> IF i \in far THEN 8 ELSE 4

(* oplook(p)->type is 3 (a conditional branch) or 4 (a short jump).        *)
Type3(i) == code[i].as \in Conditional
Type4(i) == code[i].as \in Jumps /\ i \notin far

Displacement(i, at) == at[code[i].cond] - at[i]

(* asmcompressed(p, o, r, first) # 0, with the addresses at: the 2-byte    *)
(* form applies.  first accepts a branch whatever its displacement.        *)
asmcompressed(i, at, first) ==
  /\ ~nocompress
  /\ \/ code[i].as = "CWORD"
     \/ /\ code[i].as \in {"BEQZ", "BNEZ"}
        /\ first \/ Displacement(i, at) \in -CBReach .. CBReach - 1
     \/ /\ Type4(i)
        /\ code[i].as = "JMP" \/ RV32
        /\ first \/ Displacement(i, at) \in -CJReach .. CJReach - 1

Magnitude(v) == IF v < 0 THEN -v ELSE v

(* Where the instruction goes when the layout has reached address c.       *)
Placed(i) == IF code[i].as = "TEXT" THEN Align4(c) ELSE c

-----------------------------------------------------------------------------
Init ==
  /\ program \in Programs /\ nocompress \in Options
  /\ code = program
  /\ link = [i \in DOMAIN program |-> IF i = Len(program) THEN None ELSE i + 1]
  /\ pc = [i \in DOMAIN program |-> 0]
  /\ compr = {} /\ seen = {} /\ far = {} /\ spass = FALSE
  /\ phase = "first" /\ p = 1 /\ c = 0 /\ otxt = 0 /\ bflag = FALSE
  /\ diags = {}

(* One instruction of the first pass.  Branches are only looked at again   *)
(* if something was compressed, or a function was long; the length of a    *)
(* function is seen at the TEXT of the next one.                           *)
FirstPass ==
  /\ phase = "first" /\ p # None
  /\ LET short == asmcompressed(p, pc, TRUE)
         text  == code[p].as = "TEXT"
     IN /\ compr' = IF short THEN compr \cup {p} ELSE compr
        /\ bflag' = (bflag \/ short \/ (text /\ Placed(p) - otxt >= BReach))
        /\ otxt' = IF text THEN Placed(p) ELSE otxt
        /\ c' = Placed(p) + (IF short THEN 2 ELSE Size(p))
  /\ pc' = [pc EXCEPT ![p] = Placed(p)]
  /\ p' = link[p]
  /\ UNCHANGED <<program, nocompress, code, link, seen, far, spass, phase, diags>>

(* while(bflag): the next pass.                                            *)
NextPass ==
  /\ phase \in {"first", "expand"} /\ p = None
  /\ bflag
  /\ phase' = "expand" /\ bflag' = FALSE /\ spass' = ~spass
  /\ c' = 0 /\ p' = 1
  /\ UNCHANGED <<program, nocompress, code, link, pc, compr, seen, far, otxt, diags>>

(* The addresses a branch is measured by: a target this pass has been over *)
(* is at its new address, and so is the branch.                            *)
Measured ==
  IF (code[p].cond \in seen) = spass THEN [pc EXCEPT ![p] = c] ELSE pc

(* p loses its COMPR mark when its 2-byte form does not reach any more.    *)
Overrun == p \in compr /\ ~asmcompressed(p, Measured, FALSE)

(* What ends each iteration: p is placed with m bytes, its mark flips.     *)
Place(m) ==
  /\ c' = Placed(p) + m
  /\ seen' = (seen \ {p}) \cup (IF p \in seen THEN {} ELSE {p})

Expanding == phase = "expand" /\ p # None

(* Not a branch, or a jump in its 8-byte form already.                     *)
PassOver ==
  /\ Expanding
  /\ ~Type3(p) /\ ~Type4(p)
  /\ Place(IF p \in compr THEN 2 ELSE Size(p))
  /\ pc' = [pc EXCEPT ![p] = Placed(p)]
  /\ p' = link[p]
  /\ UNCHANGED <<program, nocompress, code, link, compr, far, spass, phase, otxt, bflag, diags>>

(* Slips: the COMPR mark stays; no other pass is asked for.                *)
KeepMark == compr
NoOtherPass == bflag

(* p->mark &= ~COMPR; bflag = 1                                            *)
MarksLeft == IF Overrun THEN compr \ {p} ELSE compr
AnotherPass == bflag \/ Overrun

(* A branch that reaches; it may have to give up its 2-byte form.          *)
Reaching ==
  /\ Expanding
  /\ \/ Type3(p) /\ Magnitude(Displacement(p, Measured)) < BReach
     \/ Type4(p) /\ Magnitude(Displacement(p, Measured)) < JReach
  /\ Place(IF p \in compr /\ ~Overrun THEN 2 ELSE 4)
  /\ compr' = MarksLeft
  /\ bflag' = AnotherPass
  /\ pc' = [pc EXCEPT ![p] = Placed(p)]
  /\ p' = link[p]
  /\ UNCHANGED <<program, nocompress, code, link, far, spass, phase, otxt, diags>>

(* Slip: p->cond = p->link after p->link = q.                              *)
NewJump == Len(code) + 1

(* bflag = 1: everything behind q has moved.                               *)
AnotherPassAround == TRUE

(* p->cond = q->link, the instruction p used to fall through to.           *)
FallThrough == link[p]

(* A conditional branch that does not: p becomes the opposite branch over  *)
(* the new jump q, which the pass comes to next.                           *)
BranchAround ==
  /\ Expanding
  /\ Type3(p) /\ Magnitude(Displacement(p, Measured)) >= BReach
  /\ LET q     == Len(code) + 1
         short == ~nocompress /\ code[p].as \in {"BEQZ", "BNEZ"}
         m     == IF short THEN 2 ELSE 4
     IN /\ code' = Append([code EXCEPT ![p] = [as |-> relinv(code[p].as), cond |-> FallThrough]],
                          [as |-> "JMP", cond |-> code[p].cond])
        /\ link' = Append([link EXCEPT ![p] = q], link[p])
        /\ pc' = Append([pc EXCEPT ![p] = c], Measured[p] + m)
        /\ compr' = IF short THEN compr \cup {p} ELSE compr \ {p}
        /\ c' = c + m
        /\ seen' = ((seen \ {p}) \cup (IF p \in seen THEN {} ELSE {p}))
                     \cup (IF spass THEN {} ELSE {q})
        /\ p' = q
  /\ bflag' = AnotherPassAround
  /\ UNCHANGED <<program, nocompress, far, spass, phase, otxt, diags>>

(* Slip: the far jump keeps its COMPR mark.                                *)
FarKeepsMark == compr

FarMarksLeft == compr \ {p}

(* A jump that does not reach gets the 8-byte form.  Of the two reasons    *)
(* for another pass only the lost 2-byte form is noted.                    *)
JumpFar ==
  /\ Expanding
  /\ Type4(p) /\ Magnitude(Displacement(p, Measured)) >= JReach
  /\ far' = far \cup {p}
  /\ compr' = FarMarksLeft
  /\ bflag' = (bflag \/ Overrun)
  /\ Place(8)
  /\ pc' = [pc EXCEPT ![p] = c]
  /\ p' = link[p]
  /\ UNCHANGED <<program, nocompress, code, link, spass, phase, otxt, diags>>

(* span returns, asmb starts at the beginning.                             *)
StartAsm ==
  /\ phase \in {"first", "expand"} /\ p = None
  /\ ~bflag
  /\ phase' = "asm" /\ p' = 1 /\ c' = 0
  /\ UNCHANGED <<program, nocompress, code, link, pc, compr, seen, far, spass, otxt, bflag, diags>>

(* asmb pads with a 2-byte nop in front of a TEXT.                         *)
Reached ==
  IF code[p].as = "TEXT" /\ ~nocompress /\ c % 4 \in {2, 3} THEN c + 2 ELSE c

(* One instruction of asmb.  COMPR plays no part: the 2-byte form is used  *)
(* where it applies to the final addresses.                                *)
Emit ==
  /\ phase = "asm" /\ p # None
  /\ LET short == asmcompressed(p, pc, FALSE)
         v     == Displacement(p, pc)
         \* asmout runs after pc = p->pc
         complaints ==
           (IF Reached # pc[p] THEN {"phase error"} ELSE {})
           \cup (IF ~short /\ Type3(p) /\ v \notin -BReach .. BReach - 1
                   THEN {"branch out of range"} ELSE {})
           \cup (IF ~short /\ Type4(p) /\ v \notin -JReach .. JReach - 1
                   THEN {"jump out of range"} ELSE {})
     IN /\ diags' = diags \cup complaints
        /\ c' = pc[p] + (IF short THEN 2 ELSE Size(p))
  /\ p' = link[p]
  /\ UNCHANGED <<program, nocompress, code, link, pc, compr, seen, far, spass, phase, otxt, bflag>>

EndAsm ==
  /\ phase = "asm" /\ p = None
  /\ phase' = "done"
  /\ UNCHANGED <<program, nocompress, code, link, pc, compr, seen, far, spass, p, c, otxt, bflag, diags>>

Done == phase = "done" /\ UNCHANGED vars

Next ==
  \/ FirstPass
  \/ NextPass
  \/ PassOver
  \/ Reaching
  \/ BranchAround
  \/ JumpFar
  \/ StartAsm
  \/ Emit
  \/ EndAsm
  \/ Done

Spec == Init /\ [][Next]_vars

(* The linker is one sequential program.                                   *)
FairSpec == Spec /\ WF_vars(Next)

-----------------------------------------------------------------------------
(* asmb finds every instruction where span put it, although it chooses     *)
(* between the 2-byte and 4-byte forms without looking at span's marks     *)
(* (diag "phase error", asm.c).                                            *)
NoPhaseError == "phase error" \notin diags

(* Every branch span leaves in place reaches its target (diags "branch out *)
(* of range" and "jump out of range", asmout cases 3 and 4).               *)
BranchesReach == diags \cap {"branch out of range", "jump out of range"} = {}

(* Where control arrives that comes to instruction i of the program prog   *)
(* as rewritten to now: the jumps span inserted only carry it on.          *)
Carried(now, prog) ==
  LET to[i \in 0..Len(now)] == IF i <= Len(prog) THEN i ELSE to[now[i].cond]
  IN  to

Arrives(i) == Carried(code, program)[i]

(* However often span has rewritten a conditional branch, taking the       *)
(* condition still leads to the target it had, and not taking it to the    *)
(* instruction after it, if there is one (relinv, and the links and        *)
(* targets of the inserted jump).                                          *)
FlowKept ==
  \A i \in DOMAIN program :
    program[i].as \in Conditional =>
      LET same == code[i].as = program[i].as
          yes  == IF same THEN code[i].cond ELSE link[i]
          no   == IF same THEN link[i] ELSE code[i].cond
      IN /\ same \/ code[i].as = relinv(program[i].as)
         /\ Arrives(yes) = program[i].cond
         /\ Arrives(no) = IF i = Len(program) THEN None ELSE i + 1

(* From one expansion pass to the next no instruction moves down: lost     *)
(* short forms and inserted jumps only add bytes, and padding of TEXTs     *)
(* never takes back more than was added.                                   *)
LayoutGrows ==
  [][phase = "expand" => \A i \in DOMAIN pc : pc'[i] >= pc[i]]_vars

(* The passes come to an end: while(bflag).                                *)
Terminates == <>(phase = "done")
=============================================================================
