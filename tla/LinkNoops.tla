----------------------------- MODULE LinkNoops -----------------------------
(***************************************************************************)
(* noops of cmd/il/noop.c: which functions are leaves, NOPs stripped, a    *)
(* frame made at each TEXT and RET expanded; and then the program it       *)
(* leaves, run: calls, returns, and what is stored in frames, with the     *)
(* addresses aclass gives automatics and parameters.                       *)
(*                                                                         *)
(* Compiler and assembler emit no RET with an operand (BECOME): the middle *)
(* loop of noops, which makes room for them, changes nothing.              *)
(***************************************************************************)
EXTENDS Integers, Sequences, FiniteSets

CONSTANTS
  Programs,  \* what follow leaves: [ptrsize, code], code a sequence of [as, cond, off]
  MaxDepth,  \* bound: calls inside calls
  MaxSteps   \* bound: instructions run

Branches == {"JAL", "JMP", "BEQ", "BNE", "BLT", "BGE"}
Opcodes  == Branches \cup {"TEXT", "RET", "NOP", "WORK", "PARAM", "SET", "ARG"}

\* Instruction i of program c is in the function that begins at t.
Within(c, t, i) == /\ t \in DOMAIN c /\ i \in t..Len(c) /\ c[t].as = "TEXT"
                   /\ \A u \in t+1..i : c[u].as # "TEXT"
\* Control goes from a function into another only as adec does into ainc: both
\* ask for no frame.
Joined(c, t, u) == t = u \/ (c[t].off < 0 /\ c[u].off < 0)

\* Compiler and assembler: a function ends in RET or JMP; one that calls has room
\* for the link; automatics and arguments lie apart in the size of the TEXT.
IsProgram(f) ==
  LET c == f.code IN
  /\ f.ptrsize \in {4, 8}
  /\ c \in Seq([as : Opcodes, cond : Nat, off : Int]) /\ c # <<>> /\ c[1].as = "TEXT"
  /\ \A i \in DOMAIN c : i = Len(c) \/ c[i+1].as = "TEXT" => c[i].as \in {"RET", "JMP"}
  /\ \A i \in DOMAIN c : \A t \in 1..i : Within(c, t, i) =>
       /\ c[i].as \in Branches \ {"JAL"} =>
            \E u \in DOMAIN c : Within(c, u, c[i].cond) /\ c[i].cond # u /\ Joined(c, t, u)
       /\ c[i].as = "JAL" =>
            c[t].off >= 0 /\ c[i].cond \in {0} \cup {u \in DOMAIN c : c[u].as = "TEXT"}
       /\ c[i].as = "SET" => c[i].off % 4 = 0 /\ c[i].off < 0 /\ 0 - c[i].off <= c[t].off
       /\ c[i].as = "ARG" =>
            /\ c[i].off % 4 = 0 /\ c[i].off >= 0 /\ c[i].off + 4 <= c[t].off
            /\ \A s \in DOMAIN c : Within(c, t, s) /\ c[s].as = "SET" =>
                 c[i].off + 4 - c[s].off <= c[t].off

ASSUME LinkNoopsAssumption ==
  MaxDepth \in Nat /\ MaxSteps \in Nat /\ \A f \in Programs : IsProgram(f)

VARIABLES
  ptrsize,   \* 4: riscv, 8: riscv64
  code,   \* the Progs: as, link, cond, off, leaf
  p, q,   \* the Prog at hand and the last one that is no NOP
  curtext, autosize,
  phase,  \* which loop of noops, or "run"
  cpu,    \* pc, SP, link register, instructions run
  mem,    \* the stack in words of 4 bytes
  calls   \* history: the calls that have not returned, innermost last

INSTANCE LinkFrame
vars  == <<ptrsize, code, p, q, curtext, autosize, phase, cpu, mem, calls>>
noops == <<ptrsize, code, p, q, curtext, autosize>>

Words(a, n) == {a + 4 * i : i \in 0 .. (n \div 4) - 1}

\* TEXT has its size as ldobj rounded it; the link of the last Prog is 0.
Init ==
  /\ \E f \in Programs :
       /\ ptrsize = f.ptrsize
       /\ code = [i \in 1..Len(f.code) |->
                   [as |-> f.code[i].as, cond |-> f.code[i].cond, leaf |-> FALSE,
                    off |-> IF f.code[i].as = "TEXT" THEN FrameSize(f.code[i].off) ELSE f.code[i].off,
                    link |-> IF i = Len(f.code) THEN 0 ELSE i + 1]]
  /\ p = 1 /\ q = 0 /\ curtext = 0 /\ autosize = 0 /\ phase = "leaves"
  /\ cpu = [pc |-> 0, sp |-> 0, link |-> 0, steps |-> 0]
  /\ mem = [a \in {} |-> 0] /\ calls = <<>>

At(loop, ops) == phase = loop /\ p # 0 /\ code[p].as \in ops
Unrun == UNCHANGED <<ptrsize, cpu, mem, calls>>

-----------------------------------------------------------------------------
(* First loop: leaves, NOPs                                                *)

LeafText ==
  /\ At("leaves", {"TEXT"})
  /\ code' = [code EXCEPT ![p].leaf = TRUE]
  /\ curtext' = p /\ q' = p /\ p' = code[p].link
  /\ UNCHANGED <<autosize, phase>> /\ Unrun

StripNop ==
  /\ At("leaves", {"NOP"})
  /\ code' = [code EXCEPT ![q].link = code[p].link]
  /\ p' = code[p].link
  /\ UNCHANGED <<q, curtext, autosize, phase>> /\ Unrun

PastNops(t) ==
  IF t = 0 THEN 0
  ELSE CHOOSE u \in t..Len(code) : code[u].as # "NOP" /\ \A v \in t..u-1 : code[v].as = "NOP"

\* Slip: only calls of functions with a name make a frame.
CallsByName == code[p].as = "JAL" /\ code[p].cond # 0
CallsOut    == code[p].as = "JAL" /\ curtext # 0

MarkBranch ==
  /\ At("leaves", Branches)
  /\ code' = [i \in 1..Len(code) |->
                IF i = p THEN [code[p] EXCEPT !.cond = PastNops(@)]
                ELSE IF i = curtext /\ CallsOut THEN [code[i] EXCEPT !.leaf = FALSE]
                ELSE code[i]]
  /\ q' = p /\ p' = code[p].link
  /\ UNCHANGED <<curtext, autosize, phase>> /\ Unrun

LeaveAlone ==
  /\ phase = "leaves" /\ p # 0 /\ code[p].as \notin Branches \cup {"TEXT", "NOP"}
  /\ q' = p /\ p' = code[p].link
  /\ UNCHANGED <<code, curtext, autosize, phase>> /\ Unrun

\* The loop that makes room for BECOME comes in between.
EndLeaves ==
  /\ phase = "leaves" /\ p = 0
  /\ phase' = "frames" /\ p' = 1 /\ curtext' = 0
  /\ UNCHANGED <<code, q, autosize>> /\ Unrun

-----------------------------------------------------------------------------
(* Last loop: frames and returns                                           *)

New(as, off) == [as |-> as, cond |-> 0, off |-> off, leaf |-> FALSE, link |-> 0]
\* The Prog at place i becomes first, with the Progs of more behind it.
Expand(c, i, first, more) ==
  LET n == Len(c)
      behind(k) == IF k = Len(more) THEN c[i].link ELSE n + k + 1
  IN [c EXCEPT ![i] = [first EXCEPT !.link = behind(0)]]
     \o [k \in 1..Len(more) |-> [more[k] EXCEPT !.link = behind(k)]]

\* Slip: the link is forgotten.
NoRoom(size) == IF size < 0 THEN 0 ELSE size
Room(size)   == size + ptrsize
\* The size a TEXT is left with.
Size(size, leaf) ==
  IF size + ptrsize > ptrsize THEN size
  ELSE IF leaf \/ size + ptrsize <= 0 THEN -ptrsize
  ELSE IF ptrsize = 4 THEN 4 ELSE size

FrameText ==
  /\ At("frames", {"TEXT"})
  /\ LET t    == code[p]
         size == Size(t.off, t.leaf)
         room == Room(size)
         leaf == t.leaf \/ room = 0
     IN /\ autosize' = room /\ curtext' = p
        /\ code' = Expand(code, p, [t EXCEPT !.off = size, !.leaf = leaf],
                      (IF room # 0 THEN <<New("ADDSP", -room)>> ELSE <<>>)
                      \o (IF leaf THEN <<>> ELSE <<New("SAVELINK", 0)>>))
        /\ p' = code'[p].link
  /\ UNCHANGED <<q, phase>> /\ Unrun

Frameless == code[curtext].leaf /\ autosize = 0

ExpandReturn ==
  /\ At("frames", {"RET"})
  /\ LET jump == New("JMPLINK", 0)
         free == New("ADDSP", autosize)
     IN code' = IF Frameless THEN Expand(code, p, jump, <<>>)
                ELSE IF code[curtext].leaf THEN Expand(code, p, free, <<jump>>)
                ELSE Expand(code, p, New("GETLINK", 0),
                            (IF autosize # 0 THEN <<free>> ELSE <<>>) \o <<jump>>)
  /\ p' = code[p].link
  /\ UNCHANGED <<q, curtext, autosize, phase>> /\ Unrun

Keep ==
  /\ phase = "frames" /\ p # 0 /\ code[p].as \notin {"TEXT", "RET"}
  /\ p' = code[p].link
  /\ UNCHANGED <<code, q, curtext, autosize, phase>> /\ Unrun

\* The program starts with a call of its first function.
EndFrames ==
  /\ phase = "frames" /\ p = 0 /\ phase' = "run"
  /\ cpu' = [cpu EXCEPT !.pc = 1]
  /\ calls' = <<[text |-> 1, ret |-> 0, sp |-> 0, sets |-> {}, args |-> {}]>>
  /\ UNCHANGED <<noops, mem>>

-----------------------------------------------------------------------------
(* The program                                                             *)

Running(ops) == /\ phase = "run" /\ cpu.pc # 0 /\ code[cpu.pc].as \in ops
                /\ cpu.steps < MaxSteps
I  == code[cpu.pc]
Me == calls[Len(calls)]
Step(c) == cpu' = [c EXCEPT !.steps = @ + 1]
Word(a) == IF a \in DOMAIN mem THEN mem[a] ELSE 0
Put(a, n, v) == mem' = [w \in DOMAIN mem \cup Words(a, n) |-> IF w \in Words(a, n) THEN v ELSE mem[w]]

\* autosize as span and asmb have it: of the TEXT in front.
Autosize == LET t == CHOOSE t \in 1..cpu.pc : code[t].as = "TEXT"
                       /\ \A u \in t+1..cpu.pc : code[u].as # "TEXT"
            IN code[t].off + ptrsize

Straight ==
  /\ Running({"TEXT", "WORK", "PARAM"}) /\ Step([cpu EXCEPT !.pc = I.link])
  /\ UNCHANGED <<noops, phase, mem, calls>>

MoveStack ==
  /\ Running({"ADDSP"}) /\ Step([cpu EXCEPT !.pc = I.link, !.sp = @ + I.off])
  /\ UNCHANGED <<noops, phase, mem, calls>>

SaveLink ==
  /\ Running({"SAVELINK"}) /\ Put(cpu.sp, ptrsize, cpu.link) /\ Step([cpu EXCEPT !.pc = I.link])
  /\ UNCHANGED <<noops, phase, calls>>

GetLink ==
  /\ Running({"GETLINK"}) /\ Step([cpu EXCEPT !.pc = I.link, !.link = Word(cpu.sp)])
  /\ UNCHANGED <<noops, phase, mem, calls>>

\* An automatic of 4 bytes is set, or an argument for the next call; the values
\* tell whose they are and which of the two.
SetAuto ==
  /\ Running({"SET"})
  /\ Put(cpu.sp + AutoOffset(Autosize, I.off), 4, Len(calls))
  /\ calls' = [calls EXCEPT ![Len(calls)].sets = @ \cup {I.off}]
  /\ Step([cpu EXCEPT !.pc = I.link])
  /\ UNCHANGED <<noops, phase>>

SetArgument ==
  /\ Running({"ARG"})
  /\ Put(cpu.sp + ptrsize + I.off, 4, -Len(calls))
  /\ calls' = [calls EXCEPT ![Len(calls)].args = @ \cup {I.off}]
  /\ Step([cpu EXCEPT !.pc = I.link])
  /\ UNCHANGED <<noops, phase>>

\* A call, of a function that is named or of any.
CallFunction ==
  /\ Running({"JAL"}) /\ Len(calls) < MaxDepth
  /\ \E f \in {i \in 1..Len(code) : code[i].as = "TEXT" /\ I.cond \in {0, i}} :
       calls' = Append(calls, [text |-> f, ret |-> I.link, sp |-> cpu.sp, sets |-> {}, args |-> {}])
       /\ Step([cpu EXCEPT !.pc = f, !.link = I.link])
  /\ UNCHANGED <<noops, phase, mem>>

Branch ==
  /\ Running(Branches \ {"JAL"})
  /\ \E t \in {I.cond} \cup (IF I.as = "JMP" THEN {} ELSE {I.link}) : Step([cpu EXCEPT !.pc = t])
  /\ UNCHANGED <<noops, phase, mem, calls>>

Return ==
  /\ Running({"JMPLINK"})
  /\ calls' = SubSeq(calls, 1, Len(calls) - 1)
  /\ Step([cpu EXCEPT !.pc = cpu.link])
  /\ UNCHANGED <<noops, phase, mem>>

Loops == LeafText \/ StripNop \/ MarkBranch \/ LeaveAlone \/ EndLeaves
         \/ FrameText \/ ExpandReturn \/ Keep \/ EndFrames
Run   == Straight \/ MoveStack \/ SaveLink \/ GetLink \/ SetAuto \/ SetArgument
         \/ CallFunction \/ Branch \/ Return
Next  == Loops \/ Run
Spec  == Init /\ [][Next]_vars

-----------------------------------------------------------------------------
(* Properties                                                              *)

\* Whatever way a function is left, and whatever it called, it returns to the
\* instruction behind its call, with the stack of its caller.
ReturnsRight ==
  Running({"JMPLINK"}) => cpu.link = Me.ret /\ cpu.sp = Me.sp

\* What a function stored in its automatics stays there until it returns,
\* through the calls it makes, and so do the arguments it passes; the callee
\* finds them where it looks for its parameters.  Frames are multiples of 8
\* bytes, so that doubles and 64-bit integers of every function are aligned.
OwnFrame ==
  phase = "run" => \A n \in 1..Len(calls) :
    /\ calls[n].sp % 8 = 0
    /\ \A o \in calls[n].sets : Word(calls[n].sp + o) = n
    /\ n < Len(calls) => \A o \in calls[n].args : Word(calls[n+1].sp + ptrsize + o) = -n
    /\ Running({"PARAM"}) /\ n = Len(calls) - 1 /\ I.off \in calls[n].args =>
         Word(cpu.sp + ParamOffset(Autosize, I.off)) = -n
=============================================================================
