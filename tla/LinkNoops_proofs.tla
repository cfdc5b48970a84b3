-------------------------- MODULE LinkNoops_proofs --------------------------
(***************************************************************************)
(* Frames keep what they promise, for every program, both sizes of the     *)
(* link and any depth of calls: a function returns to the instruction      *)
(* behind its call with the stack of its caller, and no other call writes  *)
(* what it stored.                                                         *)
(***************************************************************************)
EXTENDS LinkNoops, SequenceTheorems, WellFoundedInduction, TLAPS

Generated == {"ADDSP", "SAVELINK", "GETLINK", "JMPLINK"}
Node == [as : Opcodes \cup Generated, cond : Nat, off : Int, leaf : BOOLEAN, link : Nat]
Cpu  == [pc : Nat, sp : Int, link : Nat, steps : Nat]
Call == [text : Nat, ret : Nat, sp : Int, sets : SUBSET Int, args : SUBSET Int]

-----------------------------------------------------------------------------
(* What the loops have made of program f.                                  *)

Begins(c, t)  == t \in DOMAIN c /\ c[t].as = "TEXT"
Body(c, t, i) == Within(c, t, i) /\ i # t

(* Only NOPs lie between i and what it is linked to.                       *)
Linked(c, i) ==
  LET m == code[i].link
  IN IF m = 0 THEN \A j \in i+1..Len(c) : c[j].as = "NOP"
     ELSE m \in i+1..Len(c) /\ \A j \in i+1..m-1 : c[j].as = "NOP"

(* Where i may branch to.                                                  *)
Targets(c, i, k) ==
  \A t \in DOMAIN c : Within(c, t, i) =>
    /\ c[i].as \in Branches \ {"JAL"} => \E u \in DOMAIN c : Body(c, u, k) /\ Joined(c, t, u)
    /\ c[i].as = "JAL" => k = 0 \/ Begins(c, k)

(* A leaf does not call, as far as the first loop has come.                *)
Silent(c, t) == \A j \in DOMAIN c : Within(c, t, j) => c[j].as # "JAL"

(* An instruction that the last loop has not been over, and one that it    *)
(* leaves alone.                                                           *)
Kept(c, i) ==
  /\ code[i].as = c[i].as
  /\ code[i].off = IF c[i].as = "TEXT" THEN FrameSize(c[i].off) ELSE c[i].off
  /\ Linked(c, i)
  /\ Targets(c, i, code[i].cond)

Leaves(f) ==
  LET c == f.code IN
  /\ Len(code) = Len(c)
  /\ \A i \in 1..Len(c) : Kept(c, i)
  /\ \A t \in 1..Len(c) : Begins(c, t) /\ code[t].leaf =>
       \A j \in DOMAIN c : Within(c, t, j) /\ c[j].as = "JAL" => p # 0 /\ p <= j
  /\ p \in 0..Len(c)
  /\ p # 0 /\ c[p].as # "TEXT" => Within(c, curtext, p)
  /\ p > 1 => q \in 1..p-1 /\ code[q].link = p

(* The frame of a function the last loop has been over.                    *)
RoomOf(t) == code[t].off + ptrsize
RoomRight(c, t) ==
  /\ RoomOf(t) % 8 = 0 /\ RoomOf(t) >= 0
  /\ c[t].off > 0 => RoomOf(t) >= c[t].off + ptrsize
  /\ c[t].off < 0 => RoomOf(t) = 0
  /\ code[t].leaf => Silent(c, t)
  /\ RoomOf(t) = 0 => code[t].leaf
  /\ RoomOf(t) # 0 => RoomOf(t) >= ptrsize

Inserted(c, k) == k \in Len(c)+1..Len(code)
Starts(c, t, b) == b \in DOMAIN c /\ Body(c, t, b)
Entered(c, t) ==
  LET a == code[t].link
      s == code[a].link
  IN /\ code[t].as = "TEXT" /\ RoomRight(c, t)
     /\ RoomOf(t) = 0 => Starts(c, t, a)
     /\ RoomOf(t) # 0 =>
          /\ Inserted(c, a) /\ code[a].as = "ADDSP" /\ code[a].off = -RoomOf(t)
          /\ code[t].leaf => Starts(c, t, s)
          /\ ~code[t].leaf =>
               Inserted(c, s) /\ code[s].as = "SAVELINK" /\ Starts(c, t, code[s].link)

(* A RET that has been expanded.                                           *)
Returned(c, t, i) ==
  LET a == code[i].link
      j == code[a].link
  IN IF code[t].leaf /\ RoomOf(t) = 0 THEN code[i].as = "JMPLINK"
     ELSE IF code[t].leaf
     THEN /\ code[i].as = "ADDSP" /\ code[i].off = RoomOf(t)
          /\ Inserted(c, a) /\ code[a].as = "JMPLINK"
     ELSE /\ code[i].as = "GETLINK"
          /\ Inserted(c, a) /\ code[a].as = "ADDSP" /\ code[a].off = RoomOf(t)
          /\ Inserted(c, j) /\ code[j].as = "JMPLINK"

Framed(f) ==
  LET c == f.code IN
  /\ \A i \in DOMAIN c :
       IF c[i].as = "TEXT" THEN IF i <= curtext THEN Entered(c, i)
                                ELSE Kept(c, i) /\ (code[i].leaf => Silent(c, i))
       ELSE \/ Kept(c, i)
            \/ c[i].as = "RET" /\ \E t \in 1..curtext : Within(c, t, i) /\ Returned(c, t, i)
  /\ \A k \in DOMAIN code : Inserted(c, k) => code[k].as \in Generated

Frames(f) ==
  LET c == f.code IN
  /\ Framed(f)
  /\ curtext = 0 => p = 1
  /\ curtext # 0 => Begins(c, curtext) /\ autosize = RoomOf(curtext)
  /\ p = 0 => \A t \in DOMAIN c : Begins(c, t) => t <= curtext
  /\ p \in 1..Len(c) =>
       IF c[p].as = "TEXT" THEN p > curtext /\ \A t \in 1..p-1 : Begins(c, t) => t <= curtext
       ELSE Within(c, curtext, p)
  /\ \A i \in DOMAIN c : c[i].as # "TEXT" /\ p # 0 /\ (IF p <= Len(c) THEN p <= i ELSE curtext < i) => Kept(c, i)
  /\ p > Len(c) => /\ curtext # 0 /\ RoomOf(curtext) # 0
                   /\ \/ p = code[curtext].link
                      \/ ~code[curtext].leaf /\ p = code[code[curtext].link].link

-----------------------------------------------------------------------------
(* The program as it runs.                                                 *)

RoomIn(n) == RoomOf(calls[n].text)
Low(n)    == calls[n].sp - RoomIn(n)

(* Offsets of the automatics and arguments a function stores to.           *)
Stores(c, t, as) == {c[i].off : i \in {i \in DOMAIN c : Within(c, t, i) /\ c[i].as = as}}

(* What call n finds in its frame.                                         *)
Keeps(c, n) ==
  /\ Begins(c, calls[n].text) /\ calls[n].sp % 8 = 0
  /\ calls[n].sets \subseteq Stores(c, calls[n].text, "SET")
  /\ calls[n].args \subseteq Stores(c, calls[n].text, "ARG")
  /\ \A o \in calls[n].sets : Word(calls[n].sp + o) = n
  /\ \A o \in calls[n].args : Word(Low(n) + ptrsize + o) = -n
Saved(n) == ~code[calls[n].text].leaf /\ Word(Low(n)) = calls[n].ret

(* Control is in the body of a function that may stand for t.              *)
InBody(c, t, i) == \E u \in DOMAIN c : Body(c, u, i) /\ Joined(c, t, u)

(* Before the frame, in the body, and after the frame.                     *)
Fresh == cpu.link = Me.ret /\ Me.sets = {} /\ Me.args = {}
AtText(t) == cpu.pc = t /\ cpu.sp = Me.sp /\ Fresh
AtMake(t) == RoomOf(t) # 0 /\ cpu.pc = code[t].link /\ cpu.sp = Me.sp /\ Fresh
AtSave(t) == /\ ~code[t].leaf /\ cpu.pc = code[code[t].link].link
             /\ cpu.sp = Low(Len(calls)) /\ Fresh
Inside(c, t) == /\ InBody(c, t, cpu.pc) /\ cpu.sp = Low(Len(calls))
                /\ IF code[t].leaf THEN cpu.link = Me.ret ELSE Saved(Len(calls))
AtFree(c, t) == /\ ~code[t].leaf /\ cpu.sp = Low(Len(calls)) /\ cpu.link = Me.ret
                /\ \E i \in DOMAIN c : /\ Body(c, t, i) /\ c[i].as = "RET"
                                       /\ code[i].as = "GETLINK" /\ cpu.pc = code[i].link
AtLeave(c) == /\ Inserted(c, cpu.pc) /\ code[cpu.pc].as = "JMPLINK"
              /\ cpu.sp = Me.sp /\ cpu.link = Me.ret
Place(c) == \/ AtText(Me.text) \/ AtMake(Me.text) \/ AtSave(Me.text)
            \/ Inside(c, Me.text) \/ AtFree(c, Me.text) \/ AtLeave(c)

RunInv(f) ==
  LET c == f.code IN
  /\ Framed(f) /\ \A t \in DOMAIN c : Begins(c, t) => t <= curtext
  /\ calls # <<>> => Place(c) /\ calls[1].ret = 0
  /\ calls = <<>> => cpu.pc = 0
  /\ \A n \in DOMAIN calls : Keeps(c, n)
  /\ \A n \in 1..Len(calls) - 1 :
       /\ calls[n+1].sp = Low(n) /\ Saved(n)
       /\ InBody(c, calls[n].text, calls[n+1].ret)
  /\ \A m, n \in DOMAIN calls : m < n => calls[n].sp <= Low(m)

TypeOK(f) ==
  /\ ptrsize = f.ptrsize
  /\ code \in Seq(Node) /\ Len(code) >= Len(f.code)
  /\ \A i \in DOMAIN code : code[i].link <= Len(code)
  /\ p \in 0..Len(code) /\ q \in 0..Len(code) /\ curtext \in 0..Len(f.code) /\ autosize \in Int
  /\ phase \in {"leaves", "frames", "run"}
  /\ cpu \in [pc : Nat, sp : Int, link : Nat, steps : Nat]
  /\ calls \in Seq(Call)
  /\ phase # "run" => calls = <<>> /\ cpu.sp = 0 /\ cpu.link = 0

FInv(f) ==
  /\ TypeOK(f)
  /\ phase = "leaves" => Leaves(f)
  /\ phase = "frames" => Frames(f)
  /\ phase = "run" => RunInv(f)

IInv == \E f \in Programs : FInv(f)-----------------------------------------------------------------------------
(* Numbers, sequences and programs.                                        *)

LEMMA Least ==
  ASSUME NEW S, S # {}, S \subseteq Nat
  PROVE  \E m \in S : \A k \in S : m <= k
<1> DEFINE Less == {ss \in Nat \X Nat : ss[1] < ss[2]}
<1>1. IsWellFoundedOn(Less, Nat)
  BY NatLessThanWellFounded DEF OpToRel
<1> HIDE DEF Less
<1>2. PICK m \in S : \A k \in S : ~(<<k, m>> \in Less)
  BY <1>1, WFMin
<1>3. \A k \in S : ~(k < m)
  <2> TAKE k \in S
  <2>1. ~(<<k, m>> \in Less)
    BY <1>2
  <2>2. <<k, m>> \in Nat \X Nat
    OBVIOUS
  <2> QED
    BY <2>1, <2>2 DEF Less
<1>4. \A k \in S : m <= k
  <2> TAKE k \in S
  <2>1. ~(k < m) /\ k \in Nat /\ m \in Nat
    BY <1>3
  <2> QED
    BY <2>1
<1> QED
  BY <1>4

(* What is known of every program.                                         *)
LEMMA ProgramShape ==
  ASSUME NEW f \in Programs
  PROVE  /\ f.ptrsize \in {4, 8}
         /\ f.code \in Seq([as : Opcodes, cond : Nat, off : Int])
         /\ Len(f.code) \in Nat /\ Len(f.code) > 0 /\ DOMAIN f.code = 1..Len(f.code)
         /\ \A i \in 1..Len(f.code) : /\ f.code[i].as \in Opcodes /\ f.code[i].cond \in Nat
                                      /\ f.code[i].off \in Int
         /\ f.code[1].as = "TEXT"
         /\ f.code[Len(f.code)].as \in {"RET", "JMP"}
<1>1. IsProgram(f)
  BY LinkNoopsAssumption
<1>2. f.code \in Seq([as : Opcodes, cond : Nat, off : Int]) /\ f.code # <<>>
  BY <1>1 DEF IsProgram
<1>3. Len(f.code) \in Nat /\ Len(f.code) > 0 /\ DOMAIN f.code = 1..Len(f.code)
  BY <1>2, EmptySeq, LenProperties
<1>4. \A i \in 1..Len(f.code) : f.code[i] \in [as : Opcodes, cond : Nat, off : Int]
  BY <1>2, <1>3, ElementOfSeq
<1>5. f.code[Len(f.code)].as \in {"RET", "JMP"}
  BY <1>1, <1>3 DEF IsProgram
<1> QED
  BY <1>1, <1>2, <1>3, <1>4, <1>5 DEF IsProgram

(* A function goes on to its end: what is behind only NOPs is in it, or is *)
(* next to what ends it.                                                   *)
LEMMA StaysWithin ==
  ASSUME NEW f \in Programs, NEW t, NEW i \in 1..Len(f.code), Within(f.code, t, i),
         NEW k \in i..Len(f.code), \A j \in i+1..k-1 : f.code[j].as = "NOP"
  PROVE  /\ f.code[k].as = "TEXT" /\ k # i => k = i + 1 /\ f.code[i].as \in {"RET", "JMP"}
         /\ f.code[k].as # "TEXT" \/ k = i => Within(f.code, t, k)
<1> DEFINE c == f.code
<1>1. /\ Len(c) \in Nat /\ DOMAIN c = 1..Len(c)
      /\ \A j \in 1..Len(c) : j = Len(c) \/ c[j+1].as = "TEXT" => c[j].as \in {"RET", "JMP"}
  BY ProgramShape, LinkNoopsAssumption DEF IsProgram
<1>2. CASE c[k].as = "TEXT" /\ k # i
  <2>1. k - 1 \in 1..Len(c) /\ k - 1 + 1 = k /\ k - 1 >= i
    BY <1>1, <1>2
  <2>2. c[k-1].as \in {"RET", "JMP"}
    BY <1>1, <1>2, <2>1
  <2>3. k - 1 = i
    BY <2>1, <2>2
  <2> QED
    BY <1>2, <2>2, <2>3
<1>3. CASE ~(c[k].as = "TEXT" /\ k # i)
  <2>1. t \in 1..Len(c) /\ t <= i /\ c[t].as = "TEXT" /\ \A u \in t+1..i : c[u].as # "TEXT"
    BY <1>1 DEF Within
  <2>2. \A u \in t+1..k : c[u].as # "TEXT"
    <3> TAKE u \in t+1..k
    <3>1. CASE u <= i
      BY <2>1, <3>1
    <3>2. CASE u > i /\ u < k
      BY <1>1, <2>1, <3>2
    <3>3. CASE u > i /\ u = k
      BY <1>3, <3>3
    <3> QED
      BY <2>1, <3>1, <3>2, <3>3, <1>1
  <2> QED
    BY <1>1, <1>3, <2>1, <2>2 DEF Within
<1> QED
  BY <1>2, <1>3

LEMMA OneFunction ==
  ASSUME NEW f \in Programs, NEW t, NEW u, NEW i, Within(f.code, t, i), Within(f.code, u, i)
  PROVE  t = u
<1>1. Len(f.code) \in Nat /\ DOMAIN f.code = 1..Len(f.code)
  BY ProgramShape
<1>2. \A v : Within(f.code, v, i) =>
        /\ v \in Nat /\ i \in Nat /\ v <= i
        /\ f.code[v].as = "TEXT" /\ \A k \in v+1..i : f.code[k].as # "TEXT"
  BY <1>1 DEF Within
<1>3. /\ t \in Nat /\ u \in Nat /\ i \in Nat /\ t <= i /\ u <= i
      /\ f.code[t].as = "TEXT" /\ f.code[u].as = "TEXT"
  BY <1>2
<1>4. ~(t < u)
  BY <1>2, <1>3
<1>5. ~(u < t)
  BY <1>2, <1>3
<1> QED
  BY <1>3, <1>4, <1>5

(* The rounding of frames.                                                 *)
LEMMA RoundedSize ==
  ASSUME NEW f \in Programs, ptrsize = f.ptrsize, NEW o \in Int
  PROVE  /\ FrameSize(o) \in Int
         /\ o < 0 => FrameSize(o) = -ptrsize
         /\ o = 0 => FrameSize(o) = 0
         /\ o > 0 => FrameSize(o) >= o /\ (FrameSize(o) + ptrsize) % 8 = 0
<1>1. ptrsize \in {4, 8}
  BY ProgramShape
<1> DEFINE a == ((o + 3) \div 4) * 4
<1>2. a \in Int /\ a >= o /\ a % 4 = 0
  OBVIOUS
<1>3. CASE ptrsize = 4
  BY <1>2, <1>3 DEF FrameSize
<1>4. CASE ptrsize = 8
  BY <1>2, <1>4 DEF FrameSize
<1> QED
  BY <1>1, <1>3, <1>4

LEMMA FinalSize ==
  ASSUME NEW f \in Programs, ptrsize = f.ptrsize, NEW o \in Int, NEW leaf \in BOOLEAN
  PROVE  LET size == Size(FrameSize(o), leaf)
             room == Room(size)
         IN /\ size \in Int /\ room \in Int /\ room % 8 = 0 /\ room >= 0 /\ room = size + ptrsize
            /\ o > 0 => room >= o + ptrsize
            /\ o < 0 => room = 0
            /\ o >= 0 /\ ~leaf => room # 0
            /\ room # 0 => room >= ptrsize
<1>1. ptrsize \in {4, 8}
  BY ProgramShape
<1>2. /\ FrameSize(o) \in Int
      /\ o < 0 => FrameSize(o) = -ptrsize
      /\ o = 0 => FrameSize(o) = 0
      /\ o > 0 => FrameSize(o) >= o /\ (FrameSize(o) + ptrsize) % 8 = 0
  BY RoundedSize
<1>3. CASE o > 0
  <2>1. Size(FrameSize(o), leaf) = FrameSize(o)
    BY <1>1, <1>2, <1>3 DEF Size
  <2> QED
    BY <1>1, <1>2, <1>3, <2>1 DEF Room
<1>4. CASE o = 0
  <2>1. FrameSize(o) = 0
    BY <1>2, <1>4
  <2>2. CASE ptrsize = 4
    BY <1>4, <2>1, <2>2 DEF Size, Room
  <2>3. CASE ptrsize = 8
    BY <1>4, <2>1, <2>3 DEF Size, Room
  <2> QED
    BY <1>1, <2>2, <2>3
<1>5. CASE o < 0
  BY <1>1, <1>2, <1>5 DEF Size, Room
<1> QED
  BY <1>3, <1>4, <1>5

LEMMA FunctionIsSeq ==
  ASSUME NEW S, NEW n \in Nat, NEW g \in [1..n -> S]
  PROVE  g \in Seq(S) /\ Len(g) = n
OBVIOUS

LEMMA NodeLink ==
  ASSUME NEW x \in Node, NEW l \in Nat
  PROVE  /\ [x EXCEPT !.link = l] \in Node /\ [x EXCEPT !.link = l].link = l
         /\ [x EXCEPT !.link = l].as = x.as /\ [x EXCEPT !.link = l].off = x.off
         /\ [x EXCEPT !.link = l].leaf = x.leaf /\ x.link \in Nat
BY DEF Node

(* What Expand makes of one Prog, and what it leaves.                      *)
LEMMA ExpandIs ==
  ASSUME NEW s \in Seq(Node), NEW i \in DOMAIN s, NEW first \in Node, NEW more \in Seq(Node),
         \A j \in DOMAIN s : s[j].link <= Len(s), NEW e, e = Expand(s, i, first, more)
  PROVE  /\ e \in Seq(Node) /\ Len(e) = Len(s) + Len(more) /\ Len(e) \in Nat
         /\ \A j \in DOMAIN e : e[j].link <= Len(e)
         /\ \A j \in DOMAIN s : j # i => e[j] = s[j]
         /\ e[i].as = first.as /\ e[i].off = first.off /\ e[i].leaf = first.leaf
         /\ e[i].link = IF Len(more) = 0 THEN s[i].link ELSE Len(s) + 1
         /\ \A k \in 1..Len(more) :
              /\ e[Len(s) + k].as = more[k].as /\ e[Len(s) + k].off = more[k].off
              /\ e[Len(s) + k].link = IF k = Len(more) THEN s[i].link ELSE Len(s) + k + 1
<1> DEFINE n == Len(s)
           m == Len(more)
           behind(k) == IF k = m THEN s[i].link ELSE n + k + 1
           a == [s EXCEPT ![i] = [first EXCEPT !.link = behind(0)]]
           b == [k \in 1..m |-> [more[k] EXCEPT !.link = behind(k)]]
<1>1. n \in Nat /\ m \in Nat /\ DOMAIN s = 1..n /\ DOMAIN more = 1..m
  BY LenProperties
<1>2. \A j \in 1..n : s[j] \in Node /\ s[j].link \in Nat /\ s[j].link <= n
  <2>1. \A j \in 1..n : s[j] \in Node
    BY <1>1, ElementOfSeq
  <2> QED
    BY <2>1, <1>1, NodeLink
<1>3. \A k \in 0..m : behind(k) \in Nat /\ behind(k) <= n + m
  <2> TAKE k \in 0..m
  <2>1. s[i].link \in Nat /\ s[i].link <= n
    BY <1>1, <1>2
  <2>2. CASE k = m
    BY <2>1, <2>2, <1>1
  <2>3. CASE k # m
    <3>1. k \in Nat /\ k + 1 <= m
      BY <2>3, <1>1
    <3>2. behind(k) = n + k + 1
      BY <2>3
    <3> HIDE DEF behind
    <3> QED
      BY <3>1, <3>2, <1>1
  <2> QED
    BY <2>2, <2>3
<1> HIDE DEF behind
<1>4. /\ [first EXCEPT !.link = behind(0)] \in Node
      /\ [first EXCEPT !.link = behind(0)].link = behind(0)
  <2>1. behind(0) \in Nat
    BY <1>1, <1>3
  <2> QED
    BY <2>1, NodeLink
<1>5. a \in Seq(Node) /\ Len(a) = n
  <2>1. a \in [1..n -> Node]
    BY <1>1, <1>2, <1>4
  <2> QED
    BY <2>1, <1>1, FunctionIsSeq
<1>6. b \in Seq(Node) /\ Len(b) = m
  <2>1. \A k \in 1..m : more[k] \in Node
    BY <1>1, ElementOfSeq
  <2>2. \A k \in 1..m : [more[k] EXCEPT !.link = behind(k)] \in Node
    <3> TAKE k \in 1..m
    <3>1. more[k] \in Node /\ behind(k) \in Nat
      BY <2>1, <1>3, <1>1
    <3> QED
      BY <3>1, NodeLink
  <2>3. b \in [1..m -> Node]
    BY <2>2
  <2> HIDE DEF b
  <2> QED
    BY <2>3, <1>1, FunctionIsSeq
<1>7. e = a \o b
  BY DEF Expand, behind
<1> HIDE DEF a, b
<1>8. /\ e \in Seq(Node) /\ Len(e) = n + m
      /\ \A j \in 1..n : e[j] = a[j]
      /\ \A k \in 1..m : e[n + k] = b[k]
  <2>1. e \in Seq(Node) /\ Len(e) = n + m /\ \A j \in 1..(n + m) : e[j] = IF j <= n THEN a[j] ELSE b[j - n]
    <3>1. a \o b \in Seq(Node) /\ Len(a \o b) = Len(a) + Len(b)
      BY <1>5, <1>6, SMTT(30)
    <3>2. \A j \in 1..(Len(a) + Len(b)) : (a \o b)[j] = IF j <= Len(a) THEN a[j] ELSE b[j - Len(a)]
      BY <1>5, <1>6
    <3> QED
      BY <3>1, <3>2, <1>5, <1>6, <1>7
  <2>2. \A j \in 1..n : e[j] = a[j]
    BY <2>1, <1>1
  <2>3. \A k \in 1..m : n + k \in 1..(n + m) /\ n + k > n /\ n + k - n = k
    BY <1>1
  <2> QED
    BY <2>1, <2>2, <2>3
<1>9. /\ \A j \in 1..n : j # i => a[j] = s[j]
      /\ a[i] = [first EXCEPT !.link = behind(0)]
      /\ \A k \in 1..m : b[k] = [more[k] EXCEPT !.link = behind(k)]
  BY <1>1 DEF a, b
<1>10. \A j \in DOMAIN e : e[j].link <= Len(e)
  <2> TAKE j \in DOMAIN e
  <2>1. j \in 1..(n + m)
    BY <1>8, <1>1, LenProperties
  <2>2. CASE j \in 1..n /\ j # i
    <3>1. e[j] = s[j]
      BY <2>2, <1>8, <1>9
    <3>2. s[j].link \in Nat /\ s[j].link <= n
      BY <2>2, <1>2
    <3> QED
      BY <3>1, <3>2, <1>1, <1>8
  <2>3. CASE j = i
    <3>1. e[i].link = behind(0)
      BY <1>8, <1>9, <1>1, <1>4
    <3>2. behind(0) <= n + m
      BY <1>3, <1>1
    <3> QED
      BY <3>1, <3>2, <2>3, <1>8
  <2>4. CASE j \in n+1..n+m
    <3>1. j - n \in 1..m /\ n + (j - n) = j
      BY <2>4, <1>1
    <3>2. more[j - n] \in Node
      BY <3>1, <1>1, ElementOfSeq
    <3>3. behind(j - n) \in Nat /\ behind(j - n) <= n + m
      BY <3>1, <1>3, <1>1
    <3>4. e[j] = [more[j - n] EXCEPT !.link = behind(j - n)]
      BY <3>1, <1>8, <1>9, ZenonT(30)
    <3>5. e[j].link = behind(j - n)
      BY <3>2, <3>3, <3>4, NodeLink
    <3> QED
      BY <3>3, <3>5, <1>8
  <2> QED
    BY <2>1, <2>2, <2>3, <2>4, <1>1
<1>11. /\ \A j \in DOMAIN s : j # i => e[j] = s[j]
       /\ e[i].as = first.as /\ e[i].off = first.off /\ e[i].leaf = first.leaf
       /\ e[i].link = IF Len(more) = 0 THEN s[i].link ELSE Len(s) + 1
       /\ \A k \in 1..Len(more) :
            /\ e[Len(s) + k].as = more[k].as /\ e[Len(s) + k].off = more[k].off
            /\ e[Len(s) + k].link = IF k = Len(more) THEN s[i].link ELSE Len(s) + k + 1
  <2>1. \A j \in DOMAIN s : j # i => e[j] = s[j]
    BY <1>1, <1>8, <1>9
  <2>2. e[i] = [first EXCEPT !.link = behind(0)]
    BY <1>1, <1>8, <1>9
  <2>3. behind(0) = IF Len(more) = 0 THEN s[i].link ELSE Len(s) + 1
    BY <1>1 DEF behind
  <2>4. behind(0) \in Nat
    BY <1>1, <1>3
  <2>5. e[i].as = first.as /\ e[i].off = first.off /\ e[i].leaf = first.leaf /\ e[i].link = behind(0)
    BY <2>2, <2>4, NodeLink
  <2>6. ASSUME NEW k \in 1..m
        PROVE  /\ e[n + k].as = more[k].as /\ e[n + k].off = more[k].off
               /\ e[n + k].link = IF k = m THEN s[i].link ELSE n + k + 1
    <3>1. e[n + k] = [more[k] EXCEPT !.link = behind(k)]
      BY <1>8, <1>9
    <3>2. more[k] \in Node
      BY <1>1, ElementOfSeq
    <3>3. behind(k) \in Nat
      BY <1>1, <1>3
    <3>4. e[n + k].as = more[k].as /\ e[n + k].off = more[k].off /\ e[n + k].link = behind(k)
      BY <3>1, <3>2, <3>3, NodeLink
    <3> QED
      BY <3>4 DEF behind
  <2> QED
    BY <2>1, <2>3, <2>5, <2>6
<1>12. Len(e) \in Nat
  BY <1>1, <1>8
<1> QED
  BY <1>8, <1>10, <1>11, <1>12

(* What a Prog is linked to.                                               *)
LEMMA Behind ==
  ASSUME NEW f \in Programs, NEW t, NEW i \in 1..Len(f.code), Within(f.code, t, i), Linked(f.code, i)
  PROVE  LET c == f.code
             m == code[i].link
         IN /\ m \in 0..Len(c)
            /\ m # 0 => m > i /\ (c[m].as # "TEXT" => Body(c, t, m))
            /\ \A j \in 1..Len(c) : j > i /\ c[j].as # "NOP" => m # 0 /\ m <= j
<1> DEFINE c == f.code
           m == code[i].link
<1>1. Len(c) \in Nat /\ Len(c) > 0 /\ DOMAIN c = 1..Len(c)
  BY ProgramShape
<1>2. CASE m = 0
  BY <1>1, <1>2 DEF Linked
<1>3. CASE m # 0
  <2>1. m \in i+1..Len(c) /\ \A j \in i+1..m-1 : c[j].as = "NOP"
    BY <1>3 DEF Linked
  <2>2. m \in i..Len(c) /\ m # i /\ m > i
    BY <1>1, <2>1
  <2>3. c[m].as # "TEXT" => Within(c, t, m)
    BY <2>1, <2>2, StaysWithin
  <2>4. t <= i /\ t \in Nat
    BY <1>1 DEF Within
  <2>5. c[m].as # "TEXT" => Body(c, t, m)
    BY <2>2, <2>3, <2>4, <1>1 DEF Body
  <2>6. \A j \in 1..Len(c) : j > i /\ c[j].as # "NOP" => m <= j
    BY <1>1, <2>1, <2>2
  <2> QED
    BY <1>1, <1>3, <2>1, <2>2, <2>5, <2>6
<1> QED
  BY <1>2, <1>3

(* Control that falls through stays in the function.                       *)
LEMMA Onward ==
  ASSUME NEW f \in Programs, NEW t, NEW i \in 1..Len(f.code), Within(f.code, t, i), Linked(f.code, i),
         f.code[i].as \notin {"RET", "JMP"}
  PROVE  Body(f.code, t, code[i].link)
<1> DEFINE c == f.code
           m == code[i].link
<1>1. /\ Len(c) \in Nat /\ Len(c) > 0 /\ DOMAIN c = 1..Len(c) /\ c[Len(c)].as \in {"RET", "JMP"}
  BY ProgramShape
<1>2. Len(c) > i /\ c[Len(c)].as # "NOP"
  BY <1>1
<1> HIDE DEF m
<1>3. m \in 0..Len(c) /\ m # 0 /\ m > i /\ (c[m].as # "TEXT" => Body(c, t, m))
  <2>1. /\ m \in 0..Len(c)
        /\ m # 0 => m > i /\ (c[m].as # "TEXT" => Body(c, t, m))
        /\ \A j \in 1..Len(c) : j > i /\ c[j].as # "NOP" => m # 0 /\ m <= j
    BY Behind DEF m
  <2>2. m # 0
    BY <1>1, <1>2, <2>1
  <2> QED
    BY <2>1, <2>2
<1>4. \A j \in i+1..m-1 : c[j].as = "NOP"
  BY <1>3 DEF Linked, m
<1>5. m \in i..Len(c) /\ m # i
  BY <1>1, <1>3
<1>6. c[m].as = "TEXT" /\ m # i => m = i + 1 /\ c[i].as \in {"RET", "JMP"}
  BY <1>4, <1>5, StaysWithin
<1> QED
  BY <1>3, <1>5, <1>6 DEF m

LEMMA PastNopsIs ==
  ASSUME NEW f \in Programs, Len(code) = Len(f.code),
         \A i \in 1..Len(f.code) : code[i].as = f.code[i].as,
         NEW k \in 1..Len(f.code)
  PROVE  LET v == PastNops(k)
         IN /\ v \in k..Len(f.code) /\ f.code[v].as # "NOP"
            /\ \A j \in k..v-1 : f.code[j].as = "NOP"
<1> DEFINE c == f.code
           Ends(u) == code[u].as # "NOP" /\ \A j \in k..u-1 : code[j].as = "NOP"
           S == {u \in k..Len(c) : c[u].as # "NOP"}
<1>1. /\ Len(c) \in Nat /\ Len(c) > 0 /\ c[Len(c)].as \in {"RET", "JMP"}
  BY ProgramShape
<1>2. S # {} /\ S \subseteq Nat
  <2>1. Len(c) \in S
    BY <1>1
  <2> QED
    BY <2>1, <1>1
<1>3. PICK u \in S : \A j \in S : u <= j
  <2> HIDE DEF S
  <2> QED
    BY <1>2, Least
<1>4. \A j \in k..u-1 : c[j].as = "NOP"
  BY <1>1, <1>3
<1>5. u \in k..Len(code) /\ Ends(u)
  BY <1>1, <1>3, <1>4
<1>6. PastNops(k) = CHOOSE w \in k..Len(code) : Ends(w)
  BY <1>1, SMTT(30) DEF PastNops
<1> HIDE DEF Ends
<1>7. PastNops(k) \in k..Len(code) /\ Ends(PastNops(k))
  BY <1>5, <1>6
<1>8. PICK v : v = PastNops(k)
  OBVIOUS
<1>9. v \in k..Len(c) /\ code[v].as # "NOP" /\ \A j \in k..v-1 : code[j].as = "NOP"
  BY <1>7, <1>8 DEF Ends
<1>10. \A j \in k..v : j \in 1..Len(c)
  BY <1>1, <1>9
<1>11. c[v].as # "NOP" /\ \A j \in k..v-1 : c[j].as = "NOP"
  BY <1>1, <1>9, <1>10
<1> QED
  BY <1>8, <1>9, <1>11

(* Where a branch goes once NOPs are skipped.                              *)
LEMMA SkipsNops ==
  ASSUME NEW f \in Programs, Len(code) = Len(f.code),
         \A i \in 1..Len(f.code) : code[i].as = f.code[i].as,
         NEW i \in 1..Len(f.code), NEW t, Within(f.code, t, i), NEW k, Targets(f.code, i, k),
         f.code[i].as \in Branches
  PROVE  Targets(f.code, i, PastNops(k)) /\ PastNops(k) \in Nat
<1> DEFINE c == f.code
<1>1. Len(c) \in Nat /\ DOMAIN c = 1..Len(c)
  BY ProgramShape
<1>2. t \in DOMAIN c
  BY DEF Within
<1>3. CASE c[i].as = "JAL"
  <2>1. k = 0 \/ Begins(c, k)
    BY <1>2, <1>3 DEF Targets
  <2>2. CASE k = 0
    BY <1>3, <2>2 DEF PastNops, Targets
  <2>3. CASE Begins(c, k)
    <3>1. k \in 1..Len(c) /\ c[k].as = "TEXT"
      BY <1>1, <2>3 DEF Begins
    <3>2. PastNops(k) \in k..Len(c) /\ \A j \in k..PastNops(k)-1 : c[j].as = "NOP"
      BY <3>1, PastNopsIs
    <3>3. PastNops(k) = k
      BY <3>1, <3>2, <1>1
    <3> QED
      BY <3>1, <3>3
  <2> QED
    BY <2>1, <2>2, <2>3
<1>4. CASE c[i].as # "JAL"
  <2>1. PICK u \in DOMAIN c : Body(c, u, k) /\ Joined(c, t, u)
    BY <1>2, <1>4 DEF Targets
  <2>2. k \in 1..Len(c) /\ Within(c, u, k) /\ u \in Nat /\ u <= k
    BY <1>1, <2>1 DEF Body, Within
  <2> DEFINE v == PastNops(k)
  <2>3. v \in k..Len(c) /\ c[v].as # "NOP" /\ \A j \in k..v-1 : c[j].as = "NOP"
    BY <2>2, PastNopsIs
  <2> HIDE DEF v
  <2>4. c[v].as # "TEXT" \/ v = k
    <3>1. SUFFICES ASSUME v # k PROVE c[v].as # "TEXT"
      OBVIOUS
    <3>2. c[k].as = "NOP"
      BY <3>1, <2>2, <2>3, <1>1
    <3>3. \A j \in k+1..v-1 : c[j].as = "NOP"
      BY <2>2, <2>3, <1>1
    <3>4. k \in 1..Len(c) /\ v \in k..Len(c)
      BY <2>2, <2>3
    <3>5. c[v].as = "TEXT" /\ v # k => v = k + 1 /\ c[k].as \in {"RET", "JMP"}
      BY <3>3, <3>4, <2>2, StaysWithin
    <3> QED
      BY <3>1, <3>2, <3>5
  <2>5. Within(c, u, v)
    <3>1. \A j \in k+1..v-1 : c[j].as = "NOP"
      BY <2>2, <2>3, <1>1
    <3> QED
      BY <3>1, <2>2, <2>3, <2>4, StaysWithin
  <2>6. v # u
    BY <2>1, <2>2, <2>3, <1>1 DEF Body
  <2>7. Body(c, u, v)
    BY <2>5, <2>6 DEF Body
  <2>8. \A w \in DOMAIN c : Within(c, w, i) => w = t
    BY OneFunction
  <2>9. Targets(c, i, v)
    BY <1>4, <2>1, <2>7, <2>8 DEF Targets
  <2> QED
    BY <2>3, <2>2, <2>9, <1>1 DEF v
<1> QED
  BY <1>3, <1>4

LEMMA NodeIs ==
  ASSUME NEW x \in Node
  PROVE  /\ x.as \in Opcodes \cup Generated /\ x.cond \in Nat /\ x.off \in Int
         /\ x.leaf \in BOOLEAN /\ x.link \in Nat
         /\ \A b \in BOOLEAN : [x EXCEPT !.leaf = b] \in Node
         /\ \A k \in Nat : [x EXCEPT !.cond = k] \in Node
         /\ \A k \in Nat : [x EXCEPT !.link = k] \in Node
BY DEF Node

(* What the parts of TypeOK say of single Progs.                           *)
LEMMA CodeIs ==
  ASSUME NEW f \in Programs, TypeOK(f)
  PROVE  /\ Len(code) \in Nat /\ DOMAIN code = 1..Len(code) /\ Len(f.code) <= Len(code)
         /\ ptrsize \in {4, 8} /\ ptrsize = f.ptrsize
         /\ \A i \in 1..Len(code) :
              /\ code[i] \in Node /\ code[i].as \in Opcodes \cup Generated
              /\ code[i].cond \in Nat /\ code[i].off \in Int /\ code[i].leaf \in BOOLEAN
              /\ code[i].link \in 0..Len(code)
<1>1. code \in Seq(Node) /\ Len(code) >= Len(f.code) /\ ptrsize = f.ptrsize
      /\ \A i \in DOMAIN code : code[i].link <= Len(code)
  BY DEF TypeOK
<1>2. Len(code) \in Nat /\ DOMAIN code = 1..Len(code)
  BY <1>1, LenProperties
<1>3. \A i \in 1..Len(code) : code[i] \in Node
  BY <1>1, <1>2, ElementOfSeq
<1>4. \A i \in 1..Len(code) :
              /\ code[i].as \in Opcodes \cup Generated
              /\ code[i].cond \in Nat /\ code[i].off \in Int /\ code[i].leaf \in BOOLEAN
              /\ code[i].link \in Nat
  BY <1>3, NodeIs
<1>5. ptrsize \in {4, 8} /\ Len(f.code) \in Nat
  BY <1>1, ProgramShape
<1> QED
  BY <1>1, <1>2, <1>3, <1>4, <1>5

LEMMA SameLength ==
  ASSUME NEW n \in Nat, NEW s \in [1..n -> Node], \A i \in 1..n : s[i].link <= n
  PROVE  /\ s \in Seq(Node) /\ Len(s) = n /\ DOMAIN s = 1..n
         /\ \A i \in DOMAIN s : s[i].link <= Len(s)
<1>1. s \in Seq(Node) /\ Len(s) = n
  BY FunctionIsSeq
<1> QED
  BY <1>1

-----------------------------------------------------------------------------
(* The first loop of noops.                                                *)

LEMMA KeptSame ==
  ASSUME NEW c, NEW i, Kept(c, i), ptrsize' = ptrsize,
         code'[i].as = code[i].as, code'[i].off = code[i].off,
         code'[i].link = code[i].link, code'[i].cond = code[i].cond
  PROVE  Kept(c, i)'
BY DEF Kept, Linked, Targets, FrameSize

LEMMA InitInv == Init => IInv
<1> SUFFICES ASSUME Init PROVE IInv
  OBVIOUS
<1>1. PICK f \in Programs :
        /\ ptrsize = f.ptrsize
        /\ code = [i \in 1..Len(f.code) |->
                   [as |-> f.code[i].as, cond |-> f.code[i].cond, leaf |-> FALSE,
                    off |-> IF f.code[i].as = "TEXT" THEN FrameSize(f.code[i].off) ELSE f.code[i].off,
                    link |-> IF i = Len(f.code) THEN 0 ELSE i + 1]]
  BY DEF Init
<1> DEFINE c == f.code
           n == Len(f.code)
<1>2. /\ n \in Nat /\ n > 0 /\ DOMAIN c = 1..n /\ c[1].as = "TEXT"
      /\ \A i \in 1..n : c[i].as \in Opcodes /\ c[i].cond \in Nat /\ c[i].off \in Int
  BY ProgramShape
<1>3. \A i \in 1..n :
        /\ code[i] \in Node
        /\ code[i].as = c[i].as /\ code[i].cond = c[i].cond /\ code[i].leaf = FALSE
        /\ code[i].off = IF c[i].as = "TEXT" THEN FrameSize(c[i].off) ELSE c[i].off
        /\ code[i].link = IF i = n THEN 0 ELSE i + 1
  <2> TAKE i \in 1..n
  <2>1. /\ code[i] = [as |-> f.code[i].as, cond |-> f.code[i].cond, leaf |-> FALSE,
                    off |-> IF f.code[i].as = "TEXT" THEN FrameSize(f.code[i].off) ELSE f.code[i].off,
                    link |-> IF i = Len(f.code) THEN 0 ELSE i + 1]
    BY <1>1
  <2>2. c[i].as \in Opcodes /\ c[i].cond \in Nat /\ c[i].off \in Int
    BY <1>2
  <2>3. FrameSize(c[i].off) \in Int
    BY <1>1, <2>2, RoundedSize
  <2>4. (IF i = n THEN 0 ELSE i + 1) \in Nat
    BY <1>2
  <2> QED
    BY <2>1, <2>2, <2>3, <2>4 DEF Node
<1>4. code \in [1..n -> Node] /\ \A i \in 1..n : code[i].link <= n
  <2>1. DOMAIN code = 1..n /\ code = [i \in DOMAIN code |-> code[i]]
    BY <1>1
  <2>2. code \in [1..n -> Node]
    BY <1>3, <2>1
  <2>3. \A i \in 1..n : code[i].link <= n
    BY <1>2, <1>3
  <2> QED
    BY <2>2, <2>3
<1>5. /\ code \in Seq(Node) /\ Len(code) = n /\ DOMAIN code = 1..n
      /\ \A i \in DOMAIN code : code[i].link <= Len(code)
  BY <1>2, <1>4, SameLength
<1>6. /\ p = 1 /\ q = 0 /\ curtext = 0 /\ autosize = 0 /\ phase = "leaves"
      /\ cpu = [pc |-> 0, sp |-> 0, link |-> 0, steps |-> 0] /\ calls = <<>>
  BY DEF Init
<1>7. TypeOK(f)
  BY <1>1, <1>2, <1>5, <1>6 DEF TypeOK
<1>8. \A i \in 1..n : Kept(c, i)
  <2> TAKE i \in 1..n
  <2>1. Linked(c, i)
    BY <1>2, <1>3 DEF Linked
  <2>2. Targets(c, i, code[i].cond)
    <3>1. \A t \in 1..i : Within(c, t, i) =>
            /\ c[i].as \in Branches \ {"JAL"} =>
                 \E u \in DOMAIN c : Within(c, u, c[i].cond) /\ c[i].cond # u /\ Joined(c, t, u)
            /\ c[i].as = "JAL" => c[i].cond \in {0} \cup {u \in DOMAIN c : c[u].as = "TEXT"}
      <4>1. IsProgram(f)
        BY LinkNoopsAssumption
      <4> QED
        BY <1>2, <4>1 DEF IsProgram
    <3>2. \A t \in DOMAIN c : Within(c, t, i) => t \in 1..i
      BY <1>2 DEF Within
    <3>3. code[i].cond = c[i].cond
      BY <1>3
    <3> QED
      BY <3>1, <3>2, <3>3 DEF Targets, Body, Begins
  <2> QED
    BY <1>3, <2>1, <2>2 DEF Kept
<1>9. Leaves(f)
  <2>1. \A t \in 1..n : ~code[t].leaf
    BY <1>3
  <2> QED
    BY <1>2, <1>5, <1>6, <1>8, <2>1 DEF Leaves
<1> QED
  BY <1>6, <1>7, <1>9 DEF FInv, IInv

(* What the actions of this loop find.                                     *)
LEMMA InLeaves ==
  ASSUME NEW f \in Programs, FInv(f), phase = "leaves"
  PROVE  LET c == f.code
             n == Len(c)
         IN /\ TypeOK(f) /\ n \in Nat /\ n > 0 /\ DOMAIN c = 1..n /\ c[1].as = "TEXT"
            /\ Len(code) = n /\ DOMAIN code = 1..n /\ p \in 0..n
            /\ code \in [1..n -> Node] /\ \A i \in 1..n : code[i].link <= n
            /\ \A i \in 1..n : Kept(c, i) /\ code[i].as = c[i].as /\ Linked(c, i)
                               /\ Targets(c, i, code[i].cond)
            /\ p # 0 => /\ c[p].as = "TEXT" => Within(c, p, p)
                        /\ c[p].as # "TEXT" => Within(c, curtext, p) /\ p # 1
            /\ calls = <<>> /\ cpu.sp = 0 /\ cpu.link = 0
<1> DEFINE c == f.code
           n == Len(c)
<1>1. TypeOK(f) /\ Leaves(f)
  BY DEF FInv
<1>2. n \in Nat /\ n > 0 /\ DOMAIN c = 1..n /\ c[1].as = "TEXT"
  BY ProgramShape
<1>3. Len(code) = n /\ DOMAIN code = 1..n /\ \A i \in 1..n : code[i] \in Node /\ code[i].link <= n
  BY <1>1, <1>2, CodeIs DEF Leaves
<1>4. code \in [1..n -> Node]
  <2>1. code \in Seq(Node) /\ Len(code) = n
    BY <1>1, <1>3 DEF TypeOK
  <2> QED
    BY <2>1, LenProperties
<1>5. \A i \in 1..n : Kept(c, i) /\ code[i].as = c[i].as /\ Linked(c, i) /\ Targets(c, i, code[i].cond)
  BY <1>1 DEF Leaves, Kept
<1>6. p # 0 => /\ c[p].as = "TEXT" => Within(c, p, p)
               /\ c[p].as # "TEXT" => Within(c, curtext, p) /\ p # 1
  BY <1>1, <1>2 DEF Leaves, Within
<1> QED
  BY <1>1, <1>2, <1>3, <1>4, <1>5, <1>6 DEF TypeOK, Leaves

LEMMA LeafTextInv ==
  ASSUME NEW f \in Programs, FInv(f), LeafText
  PROVE  FInv(f)'
<1> DEFINE c == f.code
           n == Len(c)
           m == code[p].link
<1>1. /\ phase = "leaves" /\ p # 0 /\ code[p].as = "TEXT" /\ phase' = "leaves"
      /\ code' = [code EXCEPT ![p].leaf = TRUE]
      /\ curtext' = p /\ q' = p /\ p' = m /\ autosize' = autosize
      /\ ptrsize' = ptrsize /\ cpu' = cpu /\ calls' = calls
  BY DEF LeafText, At, Unrun
<1>2. /\ TypeOK(f) /\ Leaves(f) /\ n \in Nat /\ DOMAIN c = 1..n /\ p \in 1..n
      /\ Len(code) = n /\ DOMAIN code = 1..n /\ code \in [1..n -> Node]
      /\ \A i \in 1..n : code[i].link <= n
      /\ \A i \in 1..n : Kept(c, i) /\ code[i].as = c[i].as /\ Linked(c, i)
      /\ Within(c, p, p)
  BY <1>1, InLeaves DEF FInv
<1>3. /\ m \in 0..n
      /\ m # 0 => m > p /\ (c[m].as # "TEXT" => Body(c, p, m))
      /\ \A j \in 1..n : j > p /\ c[j].as # "NOP" => m # 0 /\ m <= j
  BY <1>2, Behind
<1>4. /\ code' \in [1..n -> Node] /\ code'[p].leaf = TRUE
      /\ \A i \in 1..n : i # p => code'[i] = code[i]
      /\ \A i \in 1..n : /\ code'[i].as = code[i].as /\ code'[i].off = code[i].off
                         /\ code'[i].link = code[i].link /\ code'[i].cond = code[i].cond
  <2>1. code[p] \in Node /\ [code[p] EXCEPT !.leaf = TRUE] \in Node
    BY <1>2, NodeIs
  <2>2. /\ [code[p] EXCEPT !.leaf = TRUE].as = code[p].as /\ [code[p] EXCEPT !.leaf = TRUE].off = code[p].off
        /\ [code[p] EXCEPT !.leaf = TRUE].cond = code[p].cond
        /\ [code[p] EXCEPT !.leaf = TRUE].link = code[p].link /\ [code[p] EXCEPT !.leaf = TRUE].leaf = TRUE
    BY <2>1 DEF Node
  <2>3. code' = [i \in 1..n |-> IF i = p THEN [code[p] EXCEPT !.leaf = TRUE] ELSE code[i]]
    BY <1>1, <1>2
  <2> QED
    BY <1>2, <2>1, <2>2, <2>3
<1>5. /\ (code \in Seq(Node))' /\ Len(code') = n /\ DOMAIN code' = 1..n
      /\ (\A i \in DOMAIN code : code[i].link <= Len(code))'
  BY <1>2, <1>4, SameLength
<1>6. TypeOK(f)'
  BY <1>1, <1>2, <1>3, <1>5 DEF TypeOK
<1>7. \A i \in 1..n : Kept(c, i)'
  BY <1>1, <1>2, <1>4, KeptSame
<1>8. \A t \in 1..n : Begins(c, t) /\ code'[t].leaf =>
        \A j \in DOMAIN c : Within(c, t, j) /\ c[j].as = "JAL" => p' # 0 /\ p' <= j
  <2> SUFFICES ASSUME NEW t \in 1..n, Begins(c, t), code'[t].leaf,
                      NEW j \in 1..n, Within(c, t, j), c[j].as = "JAL"
               PROVE  p' # 0 /\ p' <= j
    BY <1>2
  <2>1. c[p].as = "TEXT"
    BY <1>1, <1>2
  <2>2. p <= j
    <3>1. CASE t = p
      BY <1>2, <3>1 DEF Within
    <3>2. CASE t # p
      BY <1>2, <1>4, <3>2 DEF Leaves
    <3> QED
      BY <3>1, <3>2
  <2>3. j > p
    BY <1>2, <2>1, <2>2
  <2> QED
    BY <1>1, <1>3, <2>3
<1>9. Leaves(f)'
  <2>1. p' # 0 /\ c[p'].as # "TEXT" => Within(c, curtext', p')
    BY <1>1, <1>3 DEF Body
  <2>2. p' > 1 => q' \in 1..p'-1 /\ code'[q'].link = p'
    BY <1>1, <1>2, <1>3, <1>4
  <2> QED
    BY <1>1, <1>2, <1>3, <1>5, <1>7, <1>8, <2>1, <2>2 DEF Leaves
<1> QED
  BY <1>1, <1>6, <1>9 DEF FInv

LEMMA StripNopInv ==
  ASSUME NEW f \in Programs, FInv(f), StripNop
  PROVE  FInv(f)'
<1> DEFINE c == f.code
           n == Len(c)
           m == code[p].link
<1>1. /\ phase = "leaves" /\ p # 0 /\ code[p].as = "NOP" /\ phase' = "leaves"
      /\ code' = [code EXCEPT ![q].link = m]
      /\ curtext' = curtext /\ q' = q /\ p' = m /\ autosize' = autosize
      /\ ptrsize' = ptrsize /\ cpu' = cpu /\ calls' = calls
  BY DEF StripNop, At, Unrun
<1>2. /\ TypeOK(f) /\ Leaves(f) /\ n \in Nat /\ DOMAIN c = 1..n /\ p \in 1..n
      /\ Len(code) = n /\ DOMAIN code = 1..n /\ code \in [1..n -> Node]
      /\ \A i \in 1..n : code[i].link <= n
      /\ \A i \in 1..n : Kept(c, i) /\ code[i].as = c[i].as /\ Linked(c, i)
      /\ Within(c, curtext, p) /\ p # 1
  BY <1>1, InLeaves DEF FInv
<1>3. /\ m \in 0..n
      /\ m # 0 => m > p /\ (c[m].as # "TEXT" => Body(c, curtext, m))
      /\ \A j \in 1..n : j > p /\ c[j].as # "NOP" => m # 0 /\ m <= j
  BY <1>2, Behind
<1>4. q \in 1..p-1 /\ code[q].link = p /\ q \in 1..n /\ p > 1
  BY <1>2 DEF Leaves
<1>5. /\ code' \in [1..n -> Node] /\ code'[q].link = m
      /\ \A i \in 1..n : i # q => code'[i] = code[i]
      /\ \A i \in 1..n : /\ code'[i].as = code[i].as /\ code'[i].off = code[i].off
                         /\ code'[i].leaf = code[i].leaf /\ code'[i].cond = code[i].cond
  <2>1. code[q] \in Node /\ [code[q] EXCEPT !.link = m] \in Node
    BY <1>2, <1>3, <1>4, NodeIs
  <2>2. /\ [code[q] EXCEPT !.link = m].as = code[q].as /\ [code[q] EXCEPT !.link = m].off = code[q].off
        /\ [code[q] EXCEPT !.link = m].cond = code[q].cond
        /\ [code[q] EXCEPT !.link = m].link = m /\ [code[q] EXCEPT !.link = m].leaf = code[q].leaf
    BY <2>1 DEF Node
  <2>3. code' = [i \in 1..n |-> IF i = q THEN [code[q] EXCEPT !.link = m] ELSE code[i]]
    BY <1>1, <1>2
  <2> QED
    BY <1>2, <1>4, <2>1, <2>2, <2>3
<1>6. \A i \in 1..n : code'[i].link <= n
  BY <1>2, <1>3, <1>5
<1>7. /\ (code \in Seq(Node))' /\ Len(code') = n /\ DOMAIN code' = 1..n
      /\ (\A i \in DOMAIN code : code[i].link <= Len(code))'
  BY <1>2, <1>5, <1>6, SameLength
<1>8. TypeOK(f)'
  BY <1>1, <1>2, <1>3, <1>7 DEF TypeOK
<1>9. ASSUME NEW i \in 1..n, i = q PROVE Kept(c, i)'
  <2>1. Kept(c, i)
    BY <1>2
  <2>2. Linked(c, i)'
    <3>1. \A j \in i+1..p-1 : c[j].as = "NOP"
      BY <1>2, <1>4, <1>9 DEF Linked
    <3>2. c[p].as = "NOP"
      BY <1>1, <1>2
    <3>3. CASE m = 0
      <4>1. \A j \in p+1..n : c[j].as = "NOP"
        BY <1>2, <3>3 DEF Linked
      <4>2. \A j \in i+1..n : c[j].as = "NOP"
        BY <1>2, <1>4, <1>9, <3>1, <3>2, <4>1
      <4> QED
        BY <1>5, <1>9, <3>3, <4>2 DEF Linked
    <3>4. CASE m # 0
      <4>1. m \in p+1..n /\ \A j \in p+1..m-1 : c[j].as = "NOP"
        BY <1>2, <3>4 DEF Linked
      <4>2. m \in i+1..n /\ \A j \in i+1..m-1 : c[j].as = "NOP"
        BY <1>2, <1>4, <1>9, <3>1, <3>2, <4>1
      <4> QED
        BY <1>5, <1>9, <3>4, <4>2 DEF Linked
    <3> QED
      BY <3>3, <3>4
  <2> QED
    BY <1>1, <1>4, <1>5, <1>9, <2>1, <2>2 DEF Kept, Targets, FrameSize
<1>10. \A i \in 1..n : Kept(c, i)'
  <2> TAKE i \in 1..n
  <2>1. CASE i = q
    BY <1>9, <2>1
  <2>2. CASE i # q
    BY <1>1, <1>2, <1>5, <2>2, KeptSame
  <2> QED
    BY <2>1, <2>2
<1>11. \A t \in 1..n : Begins(c, t) /\ code'[t].leaf =>
        \A j \in DOMAIN c : Within(c, t, j) /\ c[j].as = "JAL" => p' # 0 /\ p' <= j
  <2> SUFFICES ASSUME NEW t \in 1..n, Begins(c, t), code'[t].leaf,
                      NEW j \in 1..n, Within(c, t, j), c[j].as = "JAL"
               PROVE  p' # 0 /\ p' <= j
    BY <1>2
  <2>1. c[p].as = "NOP"
    BY <1>1, <1>2
  <2>2. p <= j
    BY <1>2, <1>5 DEF Leaves
  <2>3. j > p
    BY <1>2, <2>1, <2>2
  <2> QED
    BY <1>1, <1>3, <2>3
<1>12. Leaves(f)'
  <2>1. p' # 0 /\ c[p'].as # "TEXT" => Within(c, curtext', p')
    BY <1>1, <1>3 DEF Body
  <2>2. p' > 1 => q' \in 1..p'-1 /\ code'[q'].link = p'
    BY <1>1, <1>2, <1>3, <1>4, <1>5
  <2> QED
    BY <1>1, <1>2, <1>3, <1>7, <1>10, <1>11, <2>1, <2>2 DEF Leaves
<1> QED
  BY <1>1, <1>8, <1>12 DEF FInv

LEMMA MarkBranchInv ==
  ASSUME NEW f \in Programs, FInv(f), MarkBranch
  PROVE  FInv(f)'
<1> DEFINE c == f.code
           n == Len(c)
           m == code[p].link
           k == PastNops(code[p].cond)
<1>1. /\ phase = "leaves" /\ p # 0 /\ code[p].as \in Branches /\ phase' = "leaves"
      /\ code' = [i \in 1..Len(code) |->
                    IF i = p THEN [code[p] EXCEPT !.cond = k]
                    ELSE IF i = curtext /\ CallsOut THEN [code[i] EXCEPT !.leaf = FALSE]
                    ELSE code[i]]
      /\ curtext' = curtext /\ q' = p /\ p' = m /\ autosize' = autosize
      /\ ptrsize' = ptrsize /\ cpu' = cpu /\ calls' = calls
  BY DEF MarkBranch, At, Unrun
<1>2. /\ TypeOK(f) /\ Leaves(f) /\ n \in Nat /\ DOMAIN c = 1..n /\ p \in 1..n
      /\ Len(code) = n /\ DOMAIN code = 1..n /\ code \in [1..n -> Node]
      /\ \A i \in 1..n : code[i].link <= n
      /\ \A i \in 1..n : Kept(c, i) /\ code[i].as = c[i].as /\ Linked(c, i) /\ Targets(c, i, code[i].cond)
      /\ (c[p].as # "TEXT" => Within(c, curtext, p))
  BY <1>1, InLeaves DEF FInv
<1>3. c[p].as \in Branches /\ c[p].as # "TEXT" /\ Within(c, curtext, p)
  BY <1>1, <1>2 DEF Branches
<1>4. curtext \in 1..n /\ curtext # 0 /\ c[curtext].as = "TEXT" /\ curtext # p
  BY <1>2, <1>3 DEF Within
<1>5. /\ m \in 0..n
      /\ m # 0 => m > p /\ (c[m].as # "TEXT" => Body(c, curtext, m))
      /\ \A j \in 1..n : j > p /\ c[j].as # "NOP" => m # 0 /\ m <= j
  BY <1>2, <1>3, Behind
<1>6. Targets(c, p, k) /\ k \in Nat
  BY <1>2, <1>3, SkipsNops
<1> HIDE DEF k
<1>7. /\ code' \in [1..n -> Node] /\ code'[p].cond = k
      /\ \A i \in 1..n : i # p => code'[i].cond = code[i].cond
      /\ \A i \in 1..n : /\ code'[i].as = code[i].as /\ code'[i].off = code[i].off
                         /\ code'[i].link = code[i].link /\ (code'[i].leaf => code[i].leaf)
      /\ c[p].as = "JAL" => ~code'[curtext].leaf
  <2>1. \A i \in 1..n : /\ code[i] \in Node
                        /\ [code[i] EXCEPT !.cond = k] \in Node /\ [code[i] EXCEPT !.leaf = FALSE] \in Node
    BY <1>2, <1>6, NodeIs
  <2>2. \A i \in 1..n :
          /\ [code[i] EXCEPT !.cond = k].as = code[i].as /\ [code[i] EXCEPT !.cond = k].off = code[i].off
          /\ [code[i] EXCEPT !.cond = k].cond = k
          /\ [code[i] EXCEPT !.cond = k].link = code[i].link /\ [code[i] EXCEPT !.cond = k].leaf = code[i].leaf
    BY <2>1 DEF Node
  <2>3. \A i \in 1..n :
          /\ [code[i] EXCEPT !.leaf = FALSE].as = code[i].as /\ [code[i] EXCEPT !.leaf = FALSE].off = code[i].off
          /\ [code[i] EXCEPT !.leaf = FALSE].cond = code[i].cond
          /\ [code[i] EXCEPT !.leaf = FALSE].link = code[i].link /\ [code[i] EXCEPT !.leaf = FALSE].leaf = FALSE
    BY <2>1 DEF Node
  <2>4. CallsOut <=> c[p].as = "JAL"
    BY <1>2, <1>4 DEF CallsOut
  <2>5. \A i \in 1..n : code'[i] = IF i = p THEN [code[i] EXCEPT !.cond = k]
                    ELSE IF i = curtext /\ CallsOut THEN [code[i] EXCEPT !.leaf = FALSE]
                    ELSE code[i]
    BY <1>1, <1>2
  <2>6. DOMAIN code' = 1..n /\ code' = [i \in DOMAIN code' |-> code'[i]]
    BY <1>1, <1>2
  <2>7. \A i \in 1..n : code'[i] \in Node
    BY <2>1, <2>5
  <2>8. code' \in [1..n -> Node]
    BY <2>6, <2>7
  <2>9. code'[p].cond = k
    BY <1>2, <2>2, <2>5
  <2>10. \A i \in 1..n : i # p => code'[i].cond = code[i].cond
    BY <2>3, <2>5
  <2>11. \A i \in 1..n : /\ code'[i].as = code[i].as /\ code'[i].off = code[i].off
                         /\ code'[i].link = code[i].link /\ (code'[i].leaf => code[i].leaf)
    <3> TAKE i \in 1..n
    <3>1. CASE i = p
      BY <2>2, <2>5, <3>1
    <3>2. CASE i # p /\ i = curtext /\ CallsOut
      BY <2>3, <2>5, <3>2
    <3>3. CASE i # p /\ ~(i = curtext /\ CallsOut)
      BY <2>5, <3>3
    <3> QED
      BY <3>1, <3>2, <3>3
  <2>12. c[p].as = "JAL" => ~code'[curtext].leaf
    BY <1>4, <2>3, <2>4, <2>5
  <2> QED
    BY <2>8, <2>9, <2>10, <2>11, <2>12
<1>8. \A i \in 1..n : code'[i].link <= n
  BY <1>2, <1>7
<1>9. /\ (code \in Seq(Node))' /\ Len(code') = n /\ DOMAIN code' = 1..n
      /\ (\A i \in DOMAIN code : code[i].link <= Len(code))'
  BY <1>2, <1>7, <1>8, SameLength
<1>10. TypeOK(f)'
  BY <1>1, <1>2, <1>5, <1>9 DEF TypeOK
<1>11. \A i \in 1..n : Kept(c, i)'
  <2> TAKE i \in 1..n
  <2>1. CASE i = p
    <3>1. Linked(c, i)'
      BY <1>2, <1>7 DEF Linked
    <3>2. Targets(c, i, code'[i].cond)
      BY <1>6, <1>7, <2>1
    <3>3. Kept(c, i)
      BY <1>2
    <3>4. Targets(c, i, code[i].cond)'
      BY <3>2 DEF Targets
    <3>5. (code[i].as = c[i].as /\ code[i].off = IF c[i].as = "TEXT" THEN FrameSize(c[i].off) ELSE c[i].off)'
      BY <1>1, <1>2, <1>7, <3>3, SMTT(30) DEF Kept, FrameSize
    <3> QED
      BY <3>1, <3>4, <3>5 DEF Kept
  <2>2. CASE i # p
    BY <1>1, <1>2, <1>7, <2>2, KeptSame
  <2> QED
    BY <2>1, <2>2
<1>12. \A t \in 1..n : Begins(c, t) /\ code'[t].leaf =>
        \A j \in DOMAIN c : Within(c, t, j) /\ c[j].as = "JAL" => p' # 0 /\ p' <= j
  <2> SUFFICES ASSUME NEW t \in 1..n, Begins(c, t), code'[t].leaf,
                      NEW j \in 1..n, Within(c, t, j), c[j].as = "JAL"
               PROVE  p' # 0 /\ p' <= j
    BY <1>2
  <2>1. p <= j
    BY <1>2, <1>7 DEF Leaves
  <2>2. p # j
    <3>1. SUFFICES ASSUME p = j PROVE FALSE
      OBVIOUS
    <3>2. t = curtext
      BY <1>3, <3>1, OneFunction
    <3> QED
      BY <1>7, <3>1, <3>2
  <2>3. j > p
    BY <1>2, <2>1, <2>2
  <2> QED
    BY <1>1, <1>5, <2>3
<1>13. Leaves(f)'
  <2>1. p' # 0 /\ c[p'].as # "TEXT" => Within(c, curtext', p')
    BY <1>1, <1>5 DEF Body
  <2>2. p' > 1 => q' \in 1..p'-1 /\ code'[q'].link = p'
    BY <1>1, <1>2, <1>5, <1>7
  <2> QED
    BY <1>1, <1>2, <1>5, <1>9, <1>11, <1>12, <2>1, <2>2 DEF Leaves
<1> QED
  BY <1>1, <1>10, <1>13 DEF FInv

LEMMA LeaveAloneInv ==
  ASSUME NEW f \in Programs, FInv(f), LeaveAlone
  PROVE  FInv(f)'
<1> DEFINE c == f.code
           n == Len(c)
           m == code[p].link
<1>1. /\ phase = "leaves" /\ p # 0 /\ code[p].as \notin Branches \cup {"TEXT", "NOP"} /\ phase' = "leaves"
      /\ code' = code
      /\ curtext' = curtext /\ q' = p /\ p' = m /\ autosize' = autosize
      /\ ptrsize' = ptrsize /\ cpu' = cpu /\ calls' = calls
  BY DEF LeaveAlone, Unrun
<1>2. /\ TypeOK(f) /\ Leaves(f) /\ n \in Nat /\ DOMAIN c = 1..n /\ p \in 1..n
      /\ Len(code) = n
      /\ \A i \in 1..n : Kept(c, i) /\ code[i].as = c[i].as /\ Linked(c, i)
      /\ (c[p].as # "TEXT" => Within(c, curtext, p))
  BY <1>1, InLeaves DEF FInv
<1>3. c[p].as \notin Branches /\ c[p].as # "TEXT" /\ Within(c, curtext, p)
  BY <1>1, <1>2
<1>4. /\ m \in 0..n
      /\ m # 0 => m > p /\ (c[m].as # "TEXT" => Body(c, curtext, m))
      /\ \A j \in 1..n : j > p /\ c[j].as # "NOP" => m # 0 /\ m <= j
  BY <1>2, <1>3, Behind
<1>5. TypeOK(f)'
  BY <1>1, <1>2, <1>4 DEF TypeOK
<1>6. \A i \in 1..n : Kept(c, i)'
  BY <1>1, <1>2, KeptSame
<1>7. \A t \in 1..n : Begins(c, t) /\ code'[t].leaf =>
        \A j \in DOMAIN c : Within(c, t, j) /\ c[j].as = "JAL" => p' # 0 /\ p' <= j
  <2> SUFFICES ASSUME NEW t \in 1..n, Begins(c, t), code[t].leaf,
                      NEW j \in 1..n, Within(c, t, j), c[j].as = "JAL"
               PROVE  p' # 0 /\ p' <= j
    BY <1>1, <1>2
  <2>1. p <= j /\ p # j
    BY <1>2, <1>3 DEF Leaves, Branches
  <2>2. j > p
    BY <1>2, <2>1
  <2> QED
    BY <1>1, <1>4, <2>2
<1>8. Leaves(f)'
  <2>1. p' # 0 /\ c[p'].as # "TEXT" => Within(c, curtext', p')
    BY <1>1, <1>4 DEF Body
  <2>2. p' > 1 => q' \in 1..p'-1 /\ code'[q'].link = p'
    BY <1>1, <1>2, <1>4
  <2> QED
    BY <1>1, <1>2, <1>4, <1>6, <1>7, <2>1, <2>2 DEF Leaves
<1> QED
  BY <1>1, <1>5, <1>8 DEF FInv

LEMMA EndLeavesInv ==
  ASSUME NEW f \in Programs, FInv(f), EndLeaves
  PROVE  FInv(f)'
<1> DEFINE c == f.code
           n == Len(c)
<1>1. /\ phase = "leaves" /\ p = 0 /\ phase' = "frames"
      /\ code' = code /\ curtext' = 0 /\ q' = q /\ p' = 1 /\ autosize' = autosize
      /\ ptrsize' = ptrsize /\ cpu' = cpu /\ calls' = calls
  BY DEF EndLeaves, Unrun
<1>2. /\ TypeOK(f) /\ Leaves(f) /\ n \in Nat /\ n > 0 /\ DOMAIN c = 1..n /\ c[1].as = "TEXT"
      /\ Len(code) = n /\ DOMAIN code = 1..n
      /\ \A i \in 1..n : Kept(c, i)
  BY <1>1, InLeaves DEF FInv
<1>3. TypeOK(f)'
  BY <1>1, <1>2 DEF TypeOK
<1>4. \A i \in 1..n : Kept(c, i)'
  BY <1>1, <1>2, KeptSame
<1>5. \A t \in 1..n : c[t].as = "TEXT" /\ code'[t].leaf => Silent(c, t)
  BY <1>1, <1>2 DEF Leaves, Begins, Silent
<1>6. \A k \in DOMAIN code' : k \notin Len(c)+1..Len(code')
  BY <1>1, <1>2
<1>7. Framed(f)'
  BY <1>1, <1>2, <1>4, <1>5, <1>6 DEF Framed, Inserted
<1>8. Frames(f)'
  BY <1>1, <1>2, <1>4, <1>7 DEF Frames
<1> QED
  BY <1>1, <1>3, <1>8 DEF FInv

-----------------------------------------------------------------------------
(* The last loop of noops.                                                 *)

(* What the Progs were before the last loop.                               *)
LEMMA Original ==
  ASSUME NEW f \in Programs, TypeOK(f), Framed(f), NEW i \in DOMAIN code
  PROVE  LET c == f.code
         IN /\ code[i].as = "TEXT" <=> i \in 1..Len(c) /\ c[i].as = "TEXT"
            /\ code[i].as \in Opcodes \ {"TEXT"} =>
                 i \in 1..Len(c) /\ c[i].as = code[i].as /\ Kept(c, i)
<1> DEFINE c == f.code
           n == Len(c)
<1>1. n \in Nat /\ DOMAIN c = 1..n /\ Len(code) \in Nat /\ DOMAIN code = 1..Len(code)
  BY ProgramShape, CodeIs
<1>2. CASE i \in 1..n
  <2>1. CASE c[i].as = "TEXT"
    BY <1>1, <1>2, <2>1 DEF Framed, Entered, Kept
  <2>2. CASE c[i].as # "TEXT" /\ Kept(c, i)
    BY <1>2, <2>2 DEF Kept
  <2>3. CASE c[i].as # "TEXT" /\ ~Kept(c, i)
    <3>1. code[i].as \in {"JMPLINK", "ADDSP", "GETLINK"}
      BY <1>1, <1>2, <2>3 DEF Framed, Returned
    <3> QED
      BY <2>3, <3>1 DEF Opcodes, Branches
  <2> QED
    BY <2>1, <2>2, <2>3
<1>3. CASE i \notin 1..n
  <2>1. code[i].as \in Generated
    BY <1>1, <1>3 DEF Framed, Inserted
  <2> QED
    BY <1>3, <2>1 DEF Generated, Opcodes, Branches
<1> QED
  BY <1>2, <1>3

LEMMA SameEntered ==
  ASSUME NEW c, NEW t, Entered(c, t), code'[t] = code[t], ptrsize' = ptrsize,
         Len(c) \in Nat, Len(code) \in Nat, Len(code') \in Nat, Len(code') >= Len(code),
         \A k \in Len(c)+1..Len(code) : code'[k] = code[k]
  PROVE  Entered(c, t)'
<1>1. \A k : Inserted(c, k) => Inserted(c, k)'
  BY DEF Inserted
<1>2. RoomRight(c, t)' /\ RoomOf(t)' = RoomOf(t)
  BY DEF Entered, RoomRight, RoomOf
<1>3. CASE RoomOf(t) = 0
  BY <1>2, <1>3 DEF Entered
<1>4. CASE RoomOf(t) # 0
  <2> DEFINE a == code[t].link
  <2>1. Inserted(c, a) /\ code'[a] = code[a]
    BY <1>4 DEF Entered, Inserted
  <2>2. CASE code[t].leaf
    BY <1>1, <1>2, <1>4, <2>1, <2>2 DEF Entered
  <2>3. CASE ~code[t].leaf
    <3>1. Inserted(c, code[a].link) /\ code'[code[a].link] = code[code[a].link]
      BY <1>4, <2>3 DEF Entered, Inserted
    <3> QED
      BY <1>1, <1>2, <1>4, <2>1, <2>3, <3>1 DEF Entered
  <2> QED
    BY <2>2, <2>3
<1> QED
  BY <1>3, <1>4

LEMMA SameReturned ==
  ASSUME NEW c, NEW t, NEW i, Returned(c, t, i), code'[t] = code[t], code'[i] = code[i],
         ptrsize' = ptrsize,
         Len(c) \in Nat, Len(code) \in Nat, Len(code') \in Nat, Len(code') >= Len(code),
         \A k \in Len(c)+1..Len(code) : code'[k] = code[k]
  PROVE  Returned(c, t, i)'
<1>1. \A k : Inserted(c, k) => Inserted(c, k)' /\ code'[k] = code[k]
  BY DEF Inserted
<1>2. RoomOf(t)' = RoomOf(t)
  BY DEF RoomOf
<1>3. CASE code[t].leaf /\ RoomOf(t) = 0
  BY <1>2, <1>3 DEF Returned
<1>4. CASE code[t].leaf /\ RoomOf(t) # 0
  BY <1>1, <1>2, <1>4 DEF Returned
<1>5. CASE ~code[t].leaf
  BY <1>1, <1>2, <1>5 DEF Returned
<1> QED
  BY <1>3, <1>4, <1>5

(* Framed, once Prog i has been expanded, of what it was before.           *)
LEMMA FramedElse ==
  ASSUME NEW f \in Programs, TypeOK(f), Framed(f), NEW i \in 1..Len(f.code), NEW x, x \in {curtext, i},
         f.code[x].as = "TEXT" \/ x = 0, x >= curtext,
         f.code[i].as = "TEXT" => i > curtext /\ x = i
                                  /\ \A t \in 1..i-1 : f.code[t].as = "TEXT" => t <= curtext,
         f.code[i].as # "TEXT" => x = curtext,
         Len(code') \in Nat, Len(code') >= Len(code), ptrsize' = ptrsize, curtext' = x,
         \A j \in DOMAIN code : j # i => code'[j] = code[j]
  PROVE  LET c == f.code
         IN /\ \A j \in 1..Len(c) : j # i /\ Kept(c, j) => Kept(c, j)'
            /\ \A j \in 1..Len(c) : j # i =>
                 IF c[j].as = "TEXT" THEN IF j <= curtext' THEN Entered(c, j)'
                                          ELSE Kept(c, j)' /\ (code'[j].leaf => Silent(c, j))
                 ELSE \/ Kept(c, j)'
                      \/ c[j].as = "RET" /\ \E t \in 1..curtext' : Within(c, t, j) /\ Returned(c, t, j)'
<1> DEFINE c == f.code
           n == Len(c)
<1>1. /\ n \in Nat /\ DOMAIN c = 1..n /\ Len(code) \in Nat /\ DOMAIN code = 1..Len(code) /\ n <= Len(code)
      /\ curtext \in 0..n
  BY ProgramShape, CodeIs DEF TypeOK
<1>2. \A k \in n+1..Len(code) : code'[k] = code[k]
  BY <1>1
<1>3. \A j \in 1..n : j # i => code'[j] = code[j]
  BY <1>1
<1>4. \A j \in 1..n : j # i /\ Kept(c, j) => Kept(c, j)'
  BY <1>3, KeptSame
<1>5. ASSUME NEW j \in 1..n, j # i
      PROVE  IF c[j].as = "TEXT" THEN IF j <= curtext' THEN Entered(c, j)'
                                      ELSE Kept(c, j)' /\ (code'[j].leaf => Silent(c, j))
             ELSE \/ Kept(c, j)'
                  \/ c[j].as = "RET" /\ \E t \in 1..curtext' : Within(c, t, j) /\ Returned(c, t, j)'
  <2>1. CASE c[j].as = "TEXT" /\ j <= curtext'
    <3>1. j <= curtext
      BY <1>1, <1>5, <2>1
    <3>2. Entered(c, j)
      BY <1>1, <2>1, <3>1 DEF Framed
    <3> QED
      BY <1>1, <1>2, <1>3, <1>5, <2>1, <3>2, SameEntered
  <2>2. CASE c[j].as = "TEXT" /\ ~(j <= curtext')
    <3>1. ~(j <= curtext)
      BY <1>1, <2>2
    <3>2. Kept(c, j) /\ (code[j].leaf => Silent(c, j))
      BY <1>1, <2>2, <3>1 DEF Framed
    <3> QED
      BY <1>3, <1>4, <1>5, <2>2, <3>2
  <2>3. CASE c[j].as # "TEXT" /\ Kept(c, j)
    BY <1>4, <1>5, <2>3
  <2>4. CASE c[j].as # "TEXT" /\ ~Kept(c, j)
    <3>1. c[j].as = "RET" /\ \E t \in 1..curtext : Within(c, t, j) /\ Returned(c, t, j)
      BY <1>1, <2>4 DEF Framed
    <3>2. PICK t \in 1..curtext : Within(c, t, j) /\ Returned(c, t, j)
      BY <3>1
    <3>3. t # i /\ t \in 1..n
      BY <1>1, <3>2 DEF Within
    <3>4. Returned(c, t, j)'
      BY <1>1, <1>2, <1>3, <1>5, <3>2, <3>3, SameReturned
    <3>5. t \in 1..curtext'
      BY <1>1
    <3> QED
      BY <2>4, <3>1, <3>2, <3>4, <3>5
  <2> QED
    BY <2>1, <2>2, <2>3, <2>4
<1> QED
  BY <1>4, <1>5

LEMMA NewIs ==
  ASSUME NEW as \in Generated, NEW off \in Int
  PROVE  New(as, off) \in Node /\ New(as, off).as = as /\ New(as, off).off = off
BY DEF New, Node

LEMMA TwoProgs ==
  ASSUME NEW S, NEW x \in S, NEW y \in S
  PROVE  /\ <<x>> \o <<y>> \in Seq(S) /\ Len(<<x>> \o <<y>>) = 2
         /\ (<<x>> \o <<y>>)[1] = x /\ (<<x>> \o <<y>>)[2] = y
<1>1. <<x>> \o <<y>> \in Seq(S)
  OBVIOUS
<1>2. Len(<<x>> \o <<y>>) = 2
  OBVIOUS
<1>3. (<<x>> \o <<y>>)[1] = x
  OBVIOUS
<1>4. (<<x>> \o <<y>>)[2] = y
  OBVIOUS
<1> QED
  BY <1>1, <1>2, <1>3, <1>4

(* ExpandIs, of the code.                                                  *)
LEMMA ExpandedCode ==
  ASSUME code \in Seq(Node), \A j \in DOMAIN code : code[j].link <= Len(code),
         NEW i \in DOMAIN code, NEW first \in Node, NEW more \in Seq(Node),
         code' = Expand(code, i, first, more)
  PROVE  /\ code' \in Seq(Node) /\ Len(code') = Len(code) + Len(more) /\ Len(code') \in Nat
         /\ \A j \in DOMAIN code' : code'[j].link <= Len(code')
         /\ \A j \in DOMAIN code : j # i => code'[j] = code[j]
         /\ code'[i].as = first.as /\ code'[i].off = first.off /\ code'[i].leaf = first.leaf
         /\ code'[i].link = IF Len(more) = 0 THEN code[i].link ELSE Len(code) + 1
         /\ \A k \in 1..Len(more) :
              /\ code'[Len(code) + k].as = more[k].as /\ code'[Len(code) + k].off = more[k].off
              /\ code'[Len(code) + k].link = IF k = Len(more) THEN code[i].link ELSE Len(code) + k + 1
BY ExpandIs

(* What the actions of this loop find.                                     *)
LEMMA InFrames ==
  ASSUME NEW f \in Programs, FInv(f), phase = "frames"
  PROVE  LET c == f.code
             n == Len(c)
         IN /\ TypeOK(f) /\ Frames(f) /\ Framed(f)
            /\ n \in Nat /\ n > 0 /\ DOMAIN c = 1..n /\ c[1].as = "TEXT" /\ n <= Len(code)
            /\ Len(code) \in Nat /\ DOMAIN code = 1..Len(code) /\ code \in Seq(Node)
            /\ \A j \in DOMAIN code : code[j].link <= Len(code)
            /\ ptrsize \in {4, 8} /\ ptrsize = f.ptrsize
            /\ p \in 0..Len(code) /\ q \in 0..Len(code) /\ curtext \in 0..n /\ autosize \in Int
            /\ calls = <<>> /\ cpu.sp = 0 /\ cpu.link = 0
<1>1. TypeOK(f) /\ Frames(f)
  BY DEF FInv
<1>2. Framed(f)
  BY <1>1 DEF Frames
<1> QED
  BY <1>1, <1>2, ProgramShape, CodeIs DEF TypeOK

(* TypeOK once a Prog has been expanded.                                   *)
LEMMA ExpandedType ==
  ASSUME NEW f \in Programs, TypeOK(f), phase = "frames", phase' = "frames",
         code' \in Seq(Node), Len(code') >= Len(code), Len(code') \in Nat,
         \A j \in DOMAIN code' : code'[j].link <= Len(code'),
         ptrsize' = ptrsize, p' \in 0..Len(code'), q' = q, curtext' \in 0..Len(f.code),
         autosize' \in Int, cpu' = cpu, calls' = calls
  PROVE  TypeOK(f)'
<1>1. Len(code) \in Nat /\ Len(f.code) \in Nat /\ Len(code) >= Len(f.code)
  BY ProgramShape, CodeIs
<1>2. q' \in 0..Len(code')
  BY <1>1 DEF TypeOK
<1> QED
  BY <1>1, <1>2 DEF TypeOK

LEMMA FrameTextInv ==
  ASSUME NEW f \in Programs, FInv(f), FrameText, NEW i, i = p
  PROVE  FInv(f)'
<1> DEFINE c == f.code
           n == Len(c)
           t == code[i]
           size == Size(t.off, t.leaf)
           room == Room(size)
           leaf == t.leaf \/ room = 0
           first == [t EXCEPT !.off = size, !.leaf = leaf]
           more == (IF room # 0 THEN <<New("ADDSP", -room)>> ELSE <<>>)
                   \o (IF leaf THEN <<>> ELSE <<New("SAVELINK", 0)>>)
           len == Len(code)
           l == code[i].link
<1>1. /\ phase = "frames" /\ p # 0 /\ code[i].as = "TEXT" /\ phase' = "frames"
      /\ code' = Expand(code, i, first, more)
      /\ autosize' = room /\ curtext' = i /\ p' = code'[i].link /\ q' = q
      /\ ptrsize' = ptrsize /\ cpu' = cpu /\ calls' = calls
  BY DEF FrameText, At, Unrun
<1>2. /\ TypeOK(f) /\ Frames(f) /\ Framed(f)
      /\ n \in Nat /\ n > 0 /\ DOMAIN c = 1..n /\ n <= len
      /\ len \in Nat /\ DOMAIN code = 1..len /\ code \in Seq(Node)
      /\ \A j \in DOMAIN code : code[j].link <= len
      /\ ptrsize \in {4, 8} /\ ptrsize = f.ptrsize
      /\ i \in 1..len /\ curtext \in 0..n
  BY <1>1, InFrames
<1>3. i \in 1..n /\ c[i].as = "TEXT"
  BY <1>1, <1>2, Original
<1>4. i > curtext /\ \A u \in 1..i-1 : Begins(c, u) => u <= curtext
  BY <1>2, <1>3 DEF Frames
<1>5. Kept(c, i) /\ (code[i].leaf => Silent(c, i))
  BY <1>2, <1>3, <1>4 DEF Framed
<1>6. /\ c[i].off \in Int /\ code[i].off = FrameSize(c[i].off) /\ code[i].leaf \in BOOLEAN
      /\ code[i] \in Node /\ Linked(c, i) /\ l \in Nat
  <2>1. c[i].off \in Int
    BY <1>3, ProgramShape
  <2>2. code[i].off = FrameSize(c[i].off) /\ Linked(c, i)
    BY <1>3, <1>5 DEF Kept
  <2>3. code[i] \in Node /\ code[i].leaf \in BOOLEAN /\ code[i].link \in 0..Len(code)
    BY <1>2, CodeIs
  <2>4. l \in Nat
    BY <1>2, <2>3
  <2> QED
    BY <2>1, <2>2, <2>3, <2>4
<1>7. /\ size \in Int /\ room \in Int /\ room % 8 = 0 /\ room >= 0 /\ room = size + ptrsize
      /\ c[i].off > 0 => room >= c[i].off + ptrsize
      /\ c[i].off < 0 => room = 0
      /\ c[i].off >= 0 /\ ~t.leaf => room # 0
      /\ room # 0 => room >= ptrsize
  <2>1. size = Size(FrameSize(c[i].off), code[i].leaf)
    BY <1>6
  <2> HIDE DEF size
  <2>2. /\ size \in Int /\ Room(size) \in Int /\ Room(size) % 8 = 0 /\ Room(size) >= 0
        /\ Room(size) = size + ptrsize
        /\ c[i].off > 0 => Room(size) >= c[i].off + ptrsize
        /\ c[i].off < 0 => Room(size) = 0
        /\ c[i].off >= 0 /\ ~code[i].leaf => Room(size) # 0
        /\ Room(size) # 0 => Room(size) >= ptrsize
    BY <1>2, <1>6, <2>1, FinalSize
  <2> QED
    BY <2>2
<1>8. leaf \in BOOLEAN /\ (leaf <=> t.leaf \/ room = 0)
  BY <1>6
<1> HIDE DEF size, room, leaf
<1>9. /\ first \in Node /\ first.as = "TEXT" /\ first.off = size /\ first.leaf = leaf
  BY <1>1, <1>6, <1>7, <1>8 DEF Node
<1>10. /\ more \in Seq(Node)
       /\ room = 0 => Len(more) = 0
       /\ room # 0 /\ leaf => Len(more) = 1
       /\ room # 0 /\ ~leaf => Len(more) = 2
       /\ room # 0 => more[1] = New("ADDSP", -room)
       /\ room # 0 /\ ~leaf => more[2] = New("SAVELINK", 0)
  <2>1. New("ADDSP", -room) \in Node /\ New("SAVELINK", 0) \in Node
    BY <1>7, NewIs DEF Generated
  <2>2. room = 0 => leaf
    BY <1>8
  <2>3. CASE room = 0
    BY <2>2, <2>3
  <2>4. CASE room # 0 /\ leaf
    BY <2>1, <2>4
  <2>5. CASE room # 0 /\ ~leaf
    <3>1. more = <<New("ADDSP", -room)>> \o <<New("SAVELINK", 0)>>
      BY <2>5
    <3> HIDE DEF more
    <3> QED
      BY <2>1, <2>5, <3>1, TwoProgs
  <2> QED
    BY <2>3, <2>4, <2>5
<1> HIDE DEF first, more
<1>11. /\ code' \in Seq(Node) /\ Len(code') = len + Len(more) /\ Len(code') \in Nat
       /\ \A j \in DOMAIN code' : code'[j].link <= Len(code')
       /\ \A j \in DOMAIN code : j # i => code'[j] = code[j]
       /\ code'[i].as = first.as /\ code'[i].off = first.off /\ code'[i].leaf = first.leaf
       /\ code'[i].link = IF Len(more) = 0 THEN l ELSE len + 1
       /\ \A k \in 1..Len(more) :
            /\ code'[len + k].as = more[k].as /\ code'[len + k].off = more[k].off
            /\ code'[len + k].link = IF k = Len(more) THEN l ELSE len + k + 1
  <2>1. i \in DOMAIN code /\ code \in Seq(Node) /\ \A j \in DOMAIN code : code[j].link <= Len(code)
    BY <1>2
  <2>2. first \in Node /\ more \in Seq(Node) /\ code' = Expand(code, i, first, more)
    BY <1>1, <1>9, <1>10
  <2>3. /\ code' \in Seq(Node) /\ Len(code') = Len(code) + Len(more) /\ Len(code') \in Nat
        /\ \A j \in DOMAIN code' : code'[j].link <= Len(code')
        /\ \A j \in DOMAIN code : j # i => code'[j] = code[j]
        /\ code'[i].as = first.as /\ code'[i].off = first.off /\ code'[i].leaf = first.leaf
        /\ code'[i].link = IF Len(more) = 0 THEN code[i].link ELSE Len(code) + 1
        /\ \A k \in 1..Len(more) :
             /\ code'[Len(code) + k].as = more[k].as /\ code'[Len(code) + k].off = more[k].off
             /\ code'[Len(code) + k].link = IF k = Len(more) THEN code[i].link ELSE Len(code) + k + 1
    BY <2>1, <2>2, ExpandedCode, ZenonT(60)
  <2> QED
    BY <2>3
<1>12. Len(more) \in Nat /\ DOMAIN code' = 1..Len(code')
  BY <1>10, <1>11, LenProperties
<1>13. /\ code'[i].as = "TEXT" /\ code'[i].off = size /\ code'[i].leaf = leaf
       /\ code'[i].link = IF Len(more) = 0 THEN l ELSE len + 1
  BY <1>2, <1>6, <1>9, <1>11
<1>14. Body(c, i, l) /\ l \in 1..n /\ l > i
  <2>1. Within(c, i, i)
    BY <1>2, <1>3 DEF Within
  <2>2. Body(c, i, l)
    BY <1>3, <1>6, <2>1, Onward
  <2> QED
    BY <1>2, <2>2 DEF Body, Within
<1>15. RoomOf(i)' = room
  BY <1>1, <1>7, <1>13 DEF RoomOf
<1>16. RoomRight(c, i)'
  <2>1. leaf => Silent(c, i)
    <3>1. SUFFICES ASSUME room = 0, ~t.leaf PROVE Silent(c, i)
      BY <1>5, <1>8
    <3>2. c[i].off < 0
      BY <1>6, <1>7, <3>1
    <3>3. \A j \in 1..n : \A u \in 1..j : Within(c, u, j) => (c[j].as = "JAL" => c[u].off >= 0)
      <4>1. IsProgram(f)
        BY LinkNoopsAssumption
      <4> QED
        BY <1>2, <4>1 DEF IsProgram
    <3>4. \A j \in 1..n : Within(c, i, j) => i \in 1..j
      BY <1>2, <1>3 DEF Within
    <3> QED
      BY <1>2, <1>6, <3>2, <3>3, <3>4 DEF Silent
  <2>2. (code[i].leaf => Silent(c, i))'
    BY <1>13, <2>1 DEF Silent
  <2> QED
    BY <1>1, <1>7, <1>8, <1>13, <1>15, <2>2 DEF RoomRight
<1>17. ASSUME room = 0
       PROVE  /\ Entered(c, i)'
              /\ \A k \in DOMAIN code' : k \in n+1..Len(code') => code'[k].as \in Generated
  <2>1. leaf /\ Len(more) = 0
    BY <1>8, <1>10, <1>17
  <2>2. code'[i].link = l /\ Len(code') = len
    BY <1>2, <1>11, <1>13, <2>1
  <2>3. Entered(c, i)'
    BY <1>2, <1>13, <1>14, <1>15, <1>16, <1>17, <2>2 DEF Entered, Starts
  <2>4. \A k \in DOMAIN code' : k \in n+1..Len(code') => code'[k].as \in Generated
    <3> TAKE k \in DOMAIN code'
    <3>1. k \in 1..len
      BY <1>12, <2>2
    <3>2. k \in n+1..len => code[k].as \in Generated
      BY <1>2, <3>1 DEF Framed, Inserted
    <3>3. k \in n+1..len => code'[k] = code[k]
      BY <1>2, <1>3, <1>11, <3>1
    <3> QED
      BY <2>2, <3>2, <3>3
  <2> QED
    BY <2>3, <2>4
<1>18. ASSUME room # 0, leaf
       PROVE  /\ Entered(c, i)'
              /\ \A k \in DOMAIN code' : k \in n+1..Len(code') => code'[k].as \in Generated
  <2>1. Len(more) = 1 /\ more[1] = New("ADDSP", -room)
    BY <1>10, <1>18
  <2>2. code'[i].link = len + 1 /\ Len(code') = len + 1
    BY <1>2, <1>11, <1>13, <2>1
  <2>3. code'[len + 1].as = "ADDSP" /\ code'[len + 1].off = -room /\ code'[len + 1].link = l
    <3>1. New("ADDSP", -room).as = "ADDSP" /\ New("ADDSP", -room).off = -room
      BY <1>7, NewIs DEF Generated
    <3> QED
      BY <1>11, <2>1, <3>1
  <2>4. Entered(c, i)'
    <3>1. len + 1 \in n+1..Len(code')
      BY <1>2, <2>2
    <3>2. Starts(c, i, l)
      BY <1>2, <1>14 DEF Starts
    <3> QED
      BY <1>13, <1>15, <1>16, <1>18, <2>2, <2>3, <3>1, <3>2 DEF Entered, Inserted, Starts
  <2>5. \A k \in DOMAIN code' : k \in n+1..Len(code') => code'[k].as \in Generated
    <3> TAKE k \in DOMAIN code'
    <3>4. k \in 1..Len(code')
      BY <1>12
    <3>1. CASE k <= len
      BY <1>2, <1>3, <1>11, <1>12, <3>1 DEF Framed, Inserted
    <3>2. CASE k = len + 1
      BY <2>3, <3>2 DEF Generated
    <3> QED
      BY <1>2, <2>2, <3>1, <3>2, <3>4
  <2> QED
    BY <2>4, <2>5
<1>19. ASSUME room # 0, ~leaf
       PROVE  /\ Entered(c, i)'
              /\ \A k \in DOMAIN code' : k \in n+1..Len(code') => code'[k].as \in Generated
  <2>1. Len(more) = 2 /\ more[1] = New("ADDSP", -room) /\ more[2] = New("SAVELINK", 0)
    BY <1>10, <1>19
  <2>2. code'[i].link = len + 1 /\ Len(code') = len + 2
    BY <1>2, <1>11, <1>13, <2>1
  <2>3. code'[len + 1].as = "ADDSP" /\ code'[len + 1].off = -room /\ code'[len + 1].link = len + 2
    <3>1. New("ADDSP", -room).as = "ADDSP" /\ New("ADDSP", -room).off = -room
      BY <1>7, NewIs DEF Generated
    <3> QED
      BY <1>2, <1>11, <2>1, <3>1
  <2>4. code'[len + 2].as = "SAVELINK" /\ code'[len + 2].link = l
    <3>1. New("SAVELINK", 0).as = "SAVELINK"
      BY NewIs DEF Generated
    <3> QED
      BY <1>2, <1>11, <2>1, <3>1
  <2>5. Entered(c, i)'
    <3>1. len + 1 \in n+1..Len(code') /\ len + 2 \in n+1..Len(code')
      BY <1>2, <2>2
    <3>2. Starts(c, i, l)
      BY <1>2, <1>14 DEF Starts
    <3> QED
      BY <1>13, <1>15, <1>16, <1>19, <2>2, <2>3, <2>4, <3>1, <3>2 DEF Entered, Inserted, Starts
  <2>6. \A k \in DOMAIN code' : k \in n+1..Len(code') => code'[k].as \in Generated
    <3> TAKE k \in DOMAIN code'
    <3>4. k \in 1..Len(code')
      BY <1>12
    <3>1. CASE k <= len
      BY <1>2, <1>3, <1>11, <1>12, <3>1 DEF Framed, Inserted
    <3>2. CASE k = len + 1
      BY <2>3, <3>2 DEF Generated
    <3>3. CASE k = len + 2
      BY <2>4, <3>3 DEF Generated
    <3> QED
      BY <1>2, <2>2, <3>1, <3>2, <3>3, <3>4
  <2> QED
    BY <2>5, <2>6
<1>20. /\ Entered(c, i)'
       /\ \A k \in DOMAIN code' : k \in n+1..Len(code') => code'[k].as \in Generated
  BY <1>17, <1>18, <1>19
<1>21. Len(code') >= len /\ \A j \in DOMAIN code : j # i => code'[j] = code[j]
  BY <1>2, <1>11, <1>12
<1>22. /\ \A j \in 1..n : j # i /\ Kept(c, j) => Kept(c, j)'
       /\ \A j \in 1..n : j # i =>
                 IF c[j].as = "TEXT" THEN IF j <= curtext' THEN Entered(c, j)'
                                          ELSE Kept(c, j)' /\ (code'[j].leaf => Silent(c, j))
                 ELSE \/ Kept(c, j)'
                      \/ c[j].as = "RET" /\ \E u \in 1..curtext' : Within(c, u, j) /\ Returned(c, u, j)'
  <2>1. \A u \in 1..i-1 : c[u].as = "TEXT" => u <= curtext
    BY <1>2, <1>3, <1>4 DEF Begins
  <2> QED
    BY <1>1, <1>2, <1>3, <1>4, <1>11, <1>21, <2>1, FramedElse, SMTT(30)
<1>23. Framed(f)'
  <2>1. \A j \in 1..n :
                 IF c[j].as = "TEXT" THEN IF j <= curtext' THEN Entered(c, j)'
                                          ELSE Kept(c, j)' /\ (code'[j].leaf => Silent(c, j))
                 ELSE \/ Kept(c, j)'
                      \/ c[j].as = "RET" /\ \E u \in 1..curtext' : Within(c, u, j) /\ Returned(c, u, j)'
    <3> TAKE j \in 1..n
    <3>1. CASE j = i
      BY <1>1, <1>2, <1>3, <1>20, <3>1
    <3>2. CASE j # i
      BY <1>22, <3>2
    <3> QED
      BY <3>1, <3>2
  <2> QED
    BY <1>2, <1>20, <2>1 DEF Framed, Inserted, Silent
<1>24. Frames(f)'
  <2>1. curtext' # 0 /\ Begins(c, curtext') /\ autosize' = RoomOf(curtext)'
    BY <1>1, <1>2, <1>3, <1>15 DEF Begins, RoomOf
  <2>2. \A j \in 1..n : c[j].as # "TEXT" /\ j > i => Kept(c, j)'
    <3>1. \A j \in 1..n : c[j].as # "TEXT" /\ j > i => Kept(c, j)
      BY <1>1, <1>2, <1>3 DEF Frames
    <3> QED
      BY <1>22, <3>1
  <2>3. CASE room = 0
    <3>1. p' = l
      BY <1>1, <1>10, <1>13, <2>3
    <3>2. p' \in 1..n /\ c[p'].as # "TEXT" /\ Within(c, curtext', p') /\ p' > i
      BY <1>1, <1>2, <1>3, <1>14, <3>1, SMTT(30) DEF Body, Within
    <3>3. \A j \in DOMAIN c : c[j].as # "TEXT" /\ p' <= j => Kept(c, j)'
      BY <1>2, <1>3, <2>2, <3>2
    <3> QED
      BY <1>2, <1>23, <2>1, <3>2, <3>3 DEF Frames
  <2>4. CASE room # 0
    <3>1. Len(more) # 0
      BY <1>10, <2>4
    <3>2. p' = len + 1 /\ p' = code'[curtext'].link
      BY <1>1, <1>13, <3>1
    <3>3. p' > n /\ p' # 0
      BY <1>2, <3>2
    <3>4. RoomOf(curtext)' # 0
      BY <1>1, <1>15, <2>4 DEF RoomOf
    <3>5. \A j \in DOMAIN c : c[j].as # "TEXT" /\ curtext' < j => Kept(c, j)'
      BY <1>1, <1>2, <2>2
    <3> QED
      BY <1>2, <1>23, <2>1, <3>2, <3>3, <3>4, <3>5 DEF Frames
  <2> QED
    BY <2>3, <2>4
<1>25. TypeOK(f)'
  <2>1. p' \in 0..Len(code')
    <3>1. i \in DOMAIN code'
      BY <1>2, <1>3, <1>12, <1>21
    <3>2. code'[i].link <= Len(code') /\ code'[i].link \in Nat
      BY <1>2, <1>6, <1>11, <1>13, <3>1
    <3> QED
      BY <1>1, <1>11, <3>2
  <2> QED
    BY <1>1, <1>2, <1>3, <1>7, <1>11, <1>21, <2>1, ExpandedType, SMTT(30)
<1> QED
  BY <1>1, <1>24, <1>25 DEF FInv

(* Where the last loop goes from a Prog i of the function it is in.        *)
LEMMA Walk ==
  ASSUME NEW f \in Programs, NEW i \in 1..Len(f.code), Within(f.code, curtext, i), Linked(f.code, i)
  PROVE  LET c == f.code
             l == code[i].link
         IN /\ l \in 0..Len(c)
            /\ l = 0 => \A t \in DOMAIN c : Begins(c, t) => t <= curtext
            /\ l # 0 => /\ l > i /\ l > curtext
                        /\ c[l].as = "TEXT" => \A t \in 1..l-1 : Begins(c, t) => t <= curtext
                        /\ c[l].as # "TEXT" => Within(c, curtext, l)
<1> DEFINE c == f.code
           n == Len(c)
           l == code[i].link
<1>1. n \in Nat /\ DOMAIN c = 1..n
  BY ProgramShape
<1>2. /\ l \in 0..n
      /\ l # 0 => l > i /\ (c[l].as # "TEXT" => Body(c, curtext, l))
      /\ \A j \in 1..n : j > i /\ c[j].as # "NOP" => l # 0 /\ l <= j
  BY Behind
<1>3. curtext \in 1..n /\ curtext <= i /\ \A u \in curtext+1..i : c[u].as # "TEXT"
  BY <1>1 DEF Within
<1>4. ASSUME NEW t \in 1..n, Begins(c, t), ~(t <= curtext)
      PROVE  l # 0 /\ l <= t
  <2>1. c[t].as = "TEXT"
    BY <1>4 DEF Begins
  <2>2. t > i
    BY <1>1, <1>3, <1>4, <2>1
  <2> QED
    BY <1>2, <2>1, <2>2
<1> HIDE DEF l
<1>5. l = 0 => \A t \in DOMAIN c : Begins(c, t) => t <= curtext
  BY <1>1, <1>4
<1>6. l # 0 => \A t \in 1..l-1 : Begins(c, t) => t <= curtext
  <2> SUFFICES ASSUME l # 0, NEW t \in 1..l-1, Begins(c, t), ~(t <= curtext)
               PROVE  FALSE
    OBVIOUS
  <2>1. t \in 1..n /\ t < l /\ t \in Nat /\ l \in Nat
    BY <1>1, <1>2
  <2>2. l <= t
    BY <1>4, <2>1
  <2> QED
    BY <2>1, <2>2
<1> QED
  BY <1>1, <1>2, <1>3, <1>5, <1>6 DEF Body, l

(* Frames, at the Prog behind i.                                           *)
LEMMA NextFrames ==
  ASSUME NEW f \in Programs, TypeOK(f), Framed(f)', curtext' = curtext, autosize' = RoomOf(curtext)',
         NEW i \in 1..Len(f.code), Within(f.code, curtext, i), Linked(f.code, i), p' = code[i].link,
         \A j \in 1..Len(f.code) : f.code[j].as # "TEXT" /\ j > i => Kept(f.code, j)'
  PROVE  Frames(f)' /\ p' \in 0..Len(f.code)
<1> DEFINE c == f.code
           n == Len(c)
<1>1. n \in Nat /\ DOMAIN c = 1..n /\ c[1].as = "TEXT"
  BY ProgramShape
<1>2. curtext \in 1..n /\ Begins(c, curtext)
  BY <1>1 DEF Within, Begins
<1>3. /\ p' \in 0..n
      /\ p' = 0 => \A t \in DOMAIN c : Begins(c, t) => t <= curtext
      /\ p' # 0 => /\ p' > i /\ p' > curtext
                   /\ c[p'].as = "TEXT" => \A t \in 1..p'-1 : Begins(c, t) => t <= curtext
                   /\ c[p'].as # "TEXT" => Within(c, curtext, p')
  BY Walk
<1>4. \A j \in DOMAIN c : c[j].as # "TEXT" /\ p' # 0 /\ p' <= j => Kept(c, j)'
  BY <1>1, <1>3
<1>5. p' # 0 => p' <= n
  BY <1>1, <1>3
<1> QED
  BY <1>1, <1>2, <1>3, <1>4, <1>5 DEF Frames

LEMMA ExpandReturnInv ==
  ASSUME NEW f \in Programs, FInv(f), ExpandReturn, NEW i, i = p, NEW x, x = curtext
  PROVE  FInv(f)'
<1> DEFINE c == f.code
           n == Len(c)
           jump == New("JMPLINK", 0)
           free == New("ADDSP", autosize)
           get  == New("GETLINK", 0)
           len == Len(code)
           l == code[i].link
<1>1. /\ phase = "frames" /\ p # 0 /\ code[i].as = "RET" /\ phase' = "frames"
      /\ code' = IF Frameless THEN Expand(code, i, jump, <<>>)
                 ELSE IF code[curtext].leaf THEN Expand(code, i, free, <<jump>>)
                 ELSE Expand(code, i, get, (IF autosize # 0 THEN <<free>> ELSE <<>>) \o <<jump>>)
      /\ autosize' = autosize /\ curtext' = x /\ p' = l /\ q' = q
      /\ ptrsize' = ptrsize /\ cpu' = cpu /\ calls' = calls
  BY DEF ExpandReturn, At, Unrun
<1>2. /\ TypeOK(f) /\ Frames(f) /\ Framed(f)
      /\ n \in Nat /\ n > 0 /\ DOMAIN c = 1..n /\ c[1].as = "TEXT" /\ n <= len
      /\ len \in Nat /\ DOMAIN code = 1..len /\ code \in Seq(Node)
      /\ \A j \in DOMAIN code : code[j].link <= len
      /\ i \in DOMAIN code /\ curtext \in 0..n /\ autosize \in Int
  BY <1>1, InFrames
<1>3. i \in 1..n /\ c[i].as = "RET" /\ Kept(c, i)
  BY <1>1, <1>2, Original DEF Opcodes
<1>4. Within(c, x, i) /\ Linked(c, i)
  BY <1>2, <1>3 DEF Frames, Kept
<1>5. x \in 1..n /\ Begins(c, x) /\ c[x].as = "TEXT" /\ x # i /\ x <= i
  BY <1>2, <1>3, <1>4 DEF Within, Begins
<1>6. Entered(c, x) /\ autosize = RoomOf(x) /\ code[x].leaf \in BOOLEAN
  BY <1>2, <1>5, CodeIs DEF Framed, Frames
<1>7. RoomOf(x) = 0 => code[x].leaf
  BY <1>6 DEF Entered, RoomRight
<1>8. /\ jump \in Node /\ jump.as = "JMPLINK"
      /\ free \in Node /\ free.as = "ADDSP" /\ free.off = RoomOf(x)
      /\ get \in Node /\ get.as = "GETLINK"
  BY <1>2, <1>6, NewIs DEF Generated
<1> HIDE DEF jump, free, get
<1>9. /\ \A j \in DOMAIN code : j # i => code'[j] = code[j]
      /\ code' \in Seq(Node) /\ Len(code') \in Nat /\ Len(code') >= len
      /\ \A j \in DOMAIN code' : code'[j].link <= Len(code')
      /\ Returned(c, x, i)'
      /\ \A k \in len+1..Len(code') : code'[k].as \in Generated
  <2>1. CASE Frameless
    <3>1. code' = Expand(code, i, jump, <<>>) /\ <<>> \in Seq(Node) /\ Len(<<>>) = 0
      BY <1>1, <2>1
    <3>2. /\ \A j \in DOMAIN code : j # i => code'[j] = code[j]
          /\ code' \in Seq(Node) /\ Len(code') = len + 0 /\ Len(code') \in Nat
          /\ \A j \in DOMAIN code' : code'[j].link <= Len(code')
          /\ code'[i].as = "JMPLINK"
      <4> DEFINE more == <<>>
      <4>1. code' = Expand(code, i, jump, more) /\ more \in Seq(Node) /\ Len(more) = 0
        BY <3>1
      <4> HIDE DEF more
      <4>2. /\ code' \in Seq(Node) /\ Len(code') = Len(code) + Len(more) /\ Len(code') \in Nat
            /\ \A j \in DOMAIN code' : code'[j].link <= Len(code')
            /\ \A j \in DOMAIN code : j # i => code'[j] = code[j]
            /\ code'[i].as = jump.as /\ code'[i].off = jump.off /\ code'[i].leaf = jump.leaf
            /\ code'[i].link = IF Len(more) = 0 THEN code[i].link ELSE Len(code) + 1
            /\ \A k \in 1..Len(more) :
                 /\ code'[Len(code) + k].as = more[k].as /\ code'[Len(code) + k].off = more[k].off
                 /\ code'[Len(code) + k].link = IF k = Len(more) THEN code[i].link ELSE Len(code) + k + 1
        <5>1. code \in Seq(Node) /\ (\A j \in DOMAIN code : code[j].link <= Len(code)) /\ i \in DOMAIN code
          BY <1>2
        <5>2. jump \in Node
          BY <1>8
        <5> HIDE DEF len
        <5> QED
          BY <5>1, <5>2, <4>1, ExpandedCode, ZenonT(30)
      <4> QED
        BY <1>8, <4>1, <4>2
    <3>3. code'[x] = code[x]
      BY <1>2, <1>5, <3>2
    <3>4. code[x].leaf /\ RoomOf(x) = 0
      BY <1>6, <2>1 DEF Frameless
    <3>5. Returned(c, x, i)'
      BY <1>1, <3>2, <3>3, <3>4 DEF Returned, RoomOf
    <3> QED
      BY <1>2, <3>2, <3>5
  <2>2. CASE code[x].leaf /\ ~Frameless
    <3>1. code' = Expand(code, i, free, <<jump>>)
      BY <1>1, <2>2
    <3>2. /\ \A j \in DOMAIN code : j # i => code'[j] = code[j]
          /\ code' \in Seq(Node) /\ Len(code') = len + 1 /\ Len(code') \in Nat
          /\ \A j \in DOMAIN code' : code'[j].link <= Len(code')
          /\ code'[i].as = "ADDSP" /\ code'[i].off = RoomOf(x) /\ code'[i].link = len + 1
          /\ code'[len + 1].as = "JMPLINK"
      <4> DEFINE more == <<jump>>
      <4>1. code' = Expand(code, i, free, more) /\ more \in Seq(Node) /\ Len(more) = 1 /\ more[1] = jump
        BY <1>8, <3>1
      <4> HIDE DEF more
      <4>2. /\ code' \in Seq(Node) /\ Len(code') = Len(code) + Len(more) /\ Len(code') \in Nat
            /\ \A j \in DOMAIN code' : code'[j].link <= Len(code')
            /\ \A j \in DOMAIN code : j # i => code'[j] = code[j]
            /\ code'[i].as = free.as /\ code'[i].off = free.off /\ code'[i].leaf = free.leaf
            /\ code'[i].link = IF Len(more) = 0 THEN code[i].link ELSE Len(code) + 1
            /\ \A k \in 1..Len(more) :
                 /\ code'[Len(code) + k].as = more[k].as /\ code'[Len(code) + k].off = more[k].off
                 /\ code'[Len(code) + k].link = IF k = Len(more) THEN code[i].link ELSE Len(code) + k + 1
        <5>1. code \in Seq(Node) /\ (\A j \in DOMAIN code : code[j].link <= Len(code)) /\ i \in DOMAIN code
          BY <1>2
        <5>2. free \in Node
          BY <1>8
        <5> HIDE DEF len
        <5> QED
          BY <5>1, <5>2, <4>1, ExpandedCode, ZenonT(30)
      <4>3. 1 \in 1..Len(more)
        BY <4>1
      <4> QED
        BY <1>8, <4>1, <4>2, <4>3
    <3>3. code'[x] = code[x]
      BY <1>2, <1>5, <3>2
    <3>4. code[x].leaf /\ RoomOf(x) # 0
      BY <1>1, <1>6, <2>2 DEF Frameless
    <3>5. len + 1 \in n+1..Len(code')
      BY <1>2, <3>2
    <3>6. Returned(c, x, i)'
      BY <1>1, <3>2, <3>3, <3>4, <3>5 DEF Returned, RoomOf, Inserted
    <3>7. \A k \in len+1..Len(code') : k = len + 1
      BY <1>2, <3>2
    <3> QED
      BY <1>2, <3>2, <3>6, <3>7 DEF Generated
  <2>3. CASE ~code[x].leaf
    <3>1. RoomOf(x) # 0 /\ autosize # 0 /\ ~Frameless
      BY <1>1, <1>6, <1>7, <2>3 DEF Frameless
    <3>2. code' = Expand(code, i, get, <<free>> \o <<jump>>)
      BY <1>1, <2>3, <3>1
    <3>3. /\ \A j \in DOMAIN code : j # i => code'[j] = code[j]
          /\ code' \in Seq(Node) /\ Len(code') = len + 2 /\ Len(code') \in Nat
          /\ \A j \in DOMAIN code' : code'[j].link <= Len(code')
          /\ code'[i].as = "GETLINK" /\ code'[i].link = len + 1
          /\ code'[len + 1].as = "ADDSP" /\ code'[len + 1].off = RoomOf(x) /\ code'[len + 1].link = len + 2
          /\ code'[len + 2].as = "JMPLINK"
      <4> DEFINE more == <<free>> \o <<jump>>
      <4>1. code' = Expand(code, i, get, more)
        BY <3>2
      <4>2. more \in Seq(Node) /\ Len(more) = 2 /\ more[1] = free /\ more[2] = jump
        BY <1>8, TwoProgs
      <4> HIDE DEF more
      <4>3. /\ code' \in Seq(Node) /\ Len(code') = Len(code) + Len(more) /\ Len(code') \in Nat
            /\ \A j \in DOMAIN code' : code'[j].link <= Len(code')
            /\ \A j \in DOMAIN code : j # i => code'[j] = code[j]
            /\ code'[i].as = get.as /\ code'[i].off = get.off /\ code'[i].leaf = get.leaf
            /\ code'[i].link = IF Len(more) = 0 THEN code[i].link ELSE Len(code) + 1
            /\ \A k \in 1..Len(more) :
                 /\ code'[Len(code) + k].as = more[k].as /\ code'[Len(code) + k].off = more[k].off
                 /\ code'[Len(code) + k].link = IF k = Len(more) THEN code[i].link ELSE Len(code) + k + 1
        <5>1. code \in Seq(Node) /\ (\A j \in DOMAIN code : code[j].link <= Len(code)) /\ i \in DOMAIN code
          BY <1>2
        <5>2. get \in Node
          BY <1>8
        <5> HIDE DEF len
        <5> QED
          BY <5>1, <5>2, <4>1, <4>2, ExpandedCode, ZenonT(30)
      <4>4. 1 \in 1..Len(more) /\ 2 \in 1..Len(more) /\ len + 1 + 1 = len + 2
        BY <1>2, <4>2
      <4> QED
        BY <1>2, <1>8, <4>2, <4>3, <4>4
    <3>4. code'[x] = code[x]
      BY <1>2, <1>5, <3>3
    <3>5. len + 1 \in n+1..Len(code') /\ len + 2 \in n+1..Len(code')
      BY <1>2, <3>3
    <3>6. Returned(c, x, i)'
      <4>1. ~code'[x].leaf /\ RoomOf(x)' = RoomOf(x)
        BY <1>1, <2>3, <3>4 DEF RoomOf
      <4>2. \A k \in n+1..Len(code') : Inserted(c, k)'
        BY DEF Inserted
      <4> QED
        BY <3>3, <3>5, <4>1, <4>2 DEF Returned
    <3>7. \A k \in len+1..Len(code') : k = len + 1 \/ k = len + 2
      BY <1>2, <3>3
    <3> QED
      BY <1>2, <3>3, <3>6, <3>7 DEF Generated
  <2> QED
    BY <1>6, <2>1, <2>2, <2>3
<1>10. /\ \A j \in 1..n : j # i /\ Kept(c, j) => Kept(c, j)'
       /\ \A j \in 1..n : j # i =>
                 IF c[j].as = "TEXT" THEN IF j <= curtext' THEN Entered(c, j)'
                                          ELSE Kept(c, j)' /\ (code'[j].leaf => Silent(c, j))
                 ELSE \/ Kept(c, j)'
                      \/ c[j].as = "RET" /\ \E u \in 1..curtext' : Within(c, u, j) /\ Returned(c, u, j)'
  <2>1. x \in {curtext, i} /\ (c[x].as = "TEXT" \/ x = 0) /\ x >= curtext /\ c[i].as # "TEXT"
    BY <1>2, <1>3, <1>5
  <2>2. /\ Len(code') \in Nat /\ Len(code') >= Len(code) /\ ptrsize' = ptrsize /\ curtext' = x
        /\ \A j \in DOMAIN code : j # i => code'[j] = code[j]
    BY <1>1, <1>9
  <2> QED
    BY <1>2, <1>3, <2>1, <2>2, FramedElse
<1>11. Framed(f)'
  <2>1. \A j \in 1..n :
                 IF c[j].as = "TEXT" THEN IF j <= curtext' THEN Entered(c, j)'
                                          ELSE Kept(c, j)' /\ (code'[j].leaf => Silent(c, j))
                 ELSE \/ Kept(c, j)'
                      \/ c[j].as = "RET" /\ \E u \in 1..curtext' : Within(c, u, j) /\ Returned(c, u, j)'
    <3> TAKE j \in 1..n
    <3>1. CASE j = i
      BY <1>1, <1>3, <1>4, <1>5, <1>9, <3>1
    <3>2. CASE j # i
      BY <1>10, <3>2
    <3> QED
      BY <3>1, <3>2
  <2>2. \A k \in DOMAIN code' : k \in n+1..Len(code') => code'[k].as \in Generated
    <3> TAKE k \in DOMAIN code'
    <3>1. k \in 1..Len(code')
      BY <1>9, LenProperties
    <3>2. CASE k <= len
      <4>1. k \in n+1..len => code[k].as \in Generated
        BY <1>2, <3>1, <3>2 DEF Framed, Inserted
      <4>2. k \in n+1..len => code'[k] = code[k]
        BY <1>2, <1>3, <1>9, <3>1
      <4> QED
        BY <1>2, <1>9, <3>1, <3>2, <4>1, <4>2
    <3>3. CASE k > len
      BY <1>2, <1>9, <3>1, <3>3
    <3> QED
      BY <1>2, <3>1, <3>2, <3>3
  <2> QED
    BY <1>2, <2>1, <2>2 DEF Framed, Inserted, Silent
<1>12. \A j \in 1..n : c[j].as # "TEXT" /\ j > i => Kept(c, j)'
  <2>1. \A j \in 1..n : c[j].as # "TEXT" /\ j > i => Kept(c, j)
    BY <1>1, <1>2, <1>3 DEF Frames
  <2> QED
    BY <1>2, <1>3, <1>10, <2>1
<1>13. Frames(f)' /\ p' \in 0..n
  <2>1. autosize' = RoomOf(curtext)'
    BY <1>1, <1>2, <1>5, <1>6, <1>9, SMTT(30) DEF RoomOf
  <2> QED
    BY <1>1, <1>2, <1>3, <1>4, <1>11, <1>12, <2>1, NextFrames
<1>14. TypeOK(f)'
  <2>1. p' \in 0..Len(code')
    BY <1>2, <1>9, <1>13
  <2> QED
    BY <1>1, <1>2, <1>5, <1>9, <2>1, ExpandedType
<1> QED
  BY <1>1, <1>13, <1>14 DEF FInv

LEMMA FramedSame ==
  ASSUME NEW f \in Programs, TypeOK(f), Framed(f),
         code' = code, curtext' = curtext, ptrsize' = ptrsize
  PROVE  Framed(f)'
<1> DEFINE c == f.code
           n == Len(c)
<1>1. n \in Nat /\ DOMAIN c = 1..n /\ Len(code) \in Nat /\ curtext \in 0..n
  BY ProgramShape, CodeIs DEF TypeOK
<1>2. /\ \A j \in 1..n : Kept(c, j) => Kept(c, j)'
      /\ \A j \in 1..n : Entered(c, j) => Entered(c, j)'
      /\ \A j \in 1..n : \A t \in 1..n : Returned(c, t, j) => Returned(c, t, j)'
  BY <1>1, KeptSame, SameEntered, SameReturned
<1>3. \A j \in 1..n :
        IF c[j].as = "TEXT" THEN IF j <= curtext' THEN Entered(c, j)'
                                 ELSE Kept(c, j)' /\ (code'[j].leaf => Silent(c, j))
        ELSE \/ Kept(c, j)'
             \/ c[j].as = "RET" /\ \E u \in 1..curtext' : Within(c, u, j) /\ Returned(c, u, j)'
  <2> TAKE j \in 1..n
  <2>1. IF c[j].as = "TEXT" THEN IF j <= curtext THEN Entered(c, j)
                                 ELSE Kept(c, j) /\ (code[j].leaf => Silent(c, j))
        ELSE \/ Kept(c, j)
             \/ c[j].as = "RET" /\ \E u \in 1..curtext : Within(c, u, j) /\ Returned(c, u, j)
    BY <1>1 DEF Framed
  <2>2. 1..curtext \subseteq 1..n
    BY <1>1
  <2> QED
    BY <1>2, <2>1, <2>2
<1>4. \A k \in DOMAIN code' : k \in n+1..Len(code') => code'[k].as \in Generated
  BY <1>1 DEF Framed, Inserted
<1> QED
  BY <1>1, <1>3, <1>4 DEF Framed, Inserted, Silent

LEMMA KeepInv ==
  ASSUME NEW f \in Programs, FInv(f), Keep
  PROVE  FInv(f)'
<1> DEFINE c == f.code
           n == Len(c)
           len == Len(code)
           l == code[p].link
<1>1. /\ phase = "frames" /\ p # 0 /\ code[p].as \notin {"TEXT", "RET"} /\ phase' = "frames"
      /\ code' = code /\ autosize' = autosize /\ curtext' = curtext /\ p' = l /\ q' = q
      /\ ptrsize' = ptrsize /\ cpu' = cpu /\ calls' = calls
  BY DEF Keep, Unrun
<1>2. /\ TypeOK(f) /\ Frames(f) /\ Framed(f)
      /\ n \in Nat /\ n > 0 /\ DOMAIN c = 1..n /\ c[1].as = "TEXT" /\ n <= len
      /\ len \in Nat /\ DOMAIN code = 1..len /\ code \in Seq(Node)
      /\ \A j \in DOMAIN code : code[j].link <= len
      /\ p \in 1..len /\ curtext \in 0..n /\ autosize \in Int
  BY <1>1, InFrames
<1>3. TypeOK(f)'
  <2>1. l \in 0..len
    BY <1>2, CodeIs
  <2> QED
    BY <1>1, <1>2, <2>1, ExpandedType
<1>4. \A j \in 1..n : Kept(c, j) => Kept(c, j)'
  BY <1>1, KeptSame
<1>5. Framed(f)'
  BY <1>1, <1>2, FramedSame
<1>6. CASE p <= n
  <2>1. p \in 1..n /\ c[p].as # "TEXT" /\ Kept(c, p) /\ Within(c, curtext, p)
    <3>1. p \in 1..n /\ c[p].as # "TEXT"
      BY <1>1, <1>2, <1>6, Original
    <3> QED
      BY <1>1, <1>2, <3>1 DEF Frames
  <2>2. Linked(c, p) /\ curtext # 0
    BY <1>2, <2>1 DEF Kept, Within
  <2>3. autosize' = RoomOf(curtext)'
    BY <1>1, <1>2, <2>2 DEF Frames, RoomOf
  <2>4. \A j \in 1..n : c[j].as # "TEXT" /\ j > p => Kept(c, j)'
    BY <1>1, <1>2, <1>4, <2>1 DEF Frames
  <2>5. Frames(f)'
    BY <1>1, <1>2, <1>5, <2>1, <2>2, <2>3, <2>4, NextFrames
  <2> QED
    BY <1>1, <1>3, <2>5 DEF FInv
<1>7. CASE ~(p <= n)
  <2>1. /\ curtext # 0 /\ RoomOf(curtext) # 0
        /\ \/ p = code[curtext].link
           \/ ~code[curtext].leaf /\ p = code[code[curtext].link].link
        /\ Begins(c, curtext) /\ autosize = RoomOf(curtext)
        /\ \A j \in 1..n : c[j].as # "TEXT" /\ curtext < j => Kept(c, j)
    BY <1>1, <1>2, <1>7 DEF Frames
  <2>2. Entered(c, curtext)
    BY <1>2, <2>1 DEF Framed, Begins
  <2>3. \/ Starts(c, curtext, l)
        \/ ~code[curtext].leaf /\ l = code[code[curtext].link].link /\ Inserted(c, l)
    BY <2>1, <2>2 DEF Entered
  <2>4. CASE Starts(c, curtext, l)
    <3>1. l \in 1..n /\ Within(c, curtext, l) /\ l > curtext /\ c[l].as # "TEXT"
      BY <1>2, <2>4 DEF Starts, Body, Within
    <3>2. \A j \in DOMAIN c : c[j].as # "TEXT" /\ l <= j => Kept(c, j)'
      BY <1>2, <1>4, <2>1, <3>1
    <3>3. l <= n /\ l # 0
      BY <1>2, <3>1
    <3>4. Frames(f)'
      BY <1>1, <1>2, <1>5, <2>1, <3>1, <3>2, <3>3 DEF Frames, RoomOf
    <3> QED
      BY <1>1, <1>3, <3>4 DEF FInv
  <2>5. CASE ~code[curtext].leaf /\ l = code[code[curtext].link].link /\ Inserted(c, l)
    <3>1. l > n /\ l # 0
      BY <1>2, <2>5 DEF Inserted
    <3>2. \A j \in DOMAIN c : c[j].as # "TEXT" /\ curtext < j => Kept(c, j)'
      BY <1>2, <1>4, <2>1
    <3>3. /\ Framed(f)' /\ curtext' # 0 /\ Begins(c, curtext)' /\ autosize' = RoomOf(curtext)'
          /\ RoomOf(curtext)' # 0 /\ p' # 0
      BY <1>1, <1>5, <2>1, <3>1 DEF RoomOf, Begins
    <3>4. p' \notin 1..n /\ p' > n /\ ~(p' <= n)
      BY <1>1, <1>2, <3>1, CodeIs
    <3>6. ~code'[curtext'].leaf /\ p' = code'[code'[curtext'].link].link
      BY <1>1, <2>5
    <3>5. Frames(f)'
      BY <1>1, <3>2, <3>3, <3>4, <3>6 DEF Frames
    <3> QED
      BY <1>1, <1>3, <3>5 DEF FInv
  <2> QED
    BY <2>3, <2>4, <2>5
<1> QED
  BY <1>6, <1>7

LEMMA EndFramesInv ==
  ASSUME NEW f \in Programs, FInv(f), EndFrames
  PROVE  FInv(f)'
<1> DEFINE c == f.code
           n == Len(c)
           first == [text |-> 1, ret |-> 0, sp |-> 0, sets |-> {}, args |-> {}]
<1>1. /\ phase = "frames" /\ p = 0 /\ phase' = "run"
      /\ cpu' = [cpu EXCEPT !.pc = 1] /\ calls' = <<first>>
      /\ code' = code /\ autosize' = autosize /\ curtext' = curtext /\ p' = p /\ q' = q
      /\ ptrsize' = ptrsize /\ mem' = mem
  BY DEF EndFrames, noops
<1>2. /\ TypeOK(f) /\ Frames(f) /\ Framed(f)
      /\ n \in Nat /\ n > 0 /\ DOMAIN c = 1..n /\ c[1].as = "TEXT" /\ n <= Len(code)
      /\ cpu.sp = 0 /\ cpu.link = 0
  BY <1>1, InFrames
<1>3. cpu' \in [pc : Nat, sp : Int, link : Nat, steps : Nat] /\ cpu'.pc = 1 /\ cpu'.sp = 0 /\ cpu'.link = 0
  BY <1>1, <1>2 DEF TypeOK
<1>4. /\ first \in Call /\ first.text = 1 /\ first.ret = 0 /\ first.sp = 0
      /\ first.sets = {} /\ first.args = {}
  BY DEF Call
<1> HIDE DEF first
<1>5. calls' \in Seq(Call) /\ Len(calls') = 1 /\ calls'[1] = first /\ DOMAIN calls' = 1..1 /\ calls' # <<>>
  BY <1>1, <1>4
<1>6. TypeOK(f)'
  BY <1>1, <1>2, <1>3, <1>5 DEF TypeOK
<1>7. Framed(f)'
  BY <1>1, <1>2, FramedSame
<1>8. \A t \in DOMAIN c : Begins(c, t) => t <= curtext
  BY <1>1, <1>2 DEF Frames
<1>9. Place(c)'
  BY <1>3, <1>4, <1>5 DEF Place, AtText, Fresh, Me
<1>10. \A k \in DOMAIN calls' : Keeps(c, k)'
  <2>1. Begins(c, 1)
    BY <1>2 DEF Begins
  <2>2. Keeps(c, 1)'
    BY <1>4, <1>5, <2>1 DEF Keeps
  <2> QED
    BY <1>5, <2>2
<1>11. RunInv(f)'
  <2>1. 1..Len(calls') - 1 = {}
    BY <1>5
  <2>2. \A m, k \in DOMAIN calls' : ~(m < k)
    BY <1>5
  <2> QED
    BY <1>1, <1>4, <1>5, <1>7, <1>8, <1>9, <1>10, <2>1, <2>2 DEF RunInv
<1> QED
  BY <1>1, <1>6, <1>11 DEF FInv

-----------------------------------------------------------------------------
(* The program as it runs.                                                 *)

LEMMA InRun ==
  ASSUME NEW f \in Programs, FInv(f), phase = "run"
  PROVE  LET c == f.code
             n == Len(c)
         IN /\ TypeOK(f) /\ RunInv(f) /\ Framed(f) /\ n \in Nat /\ DOMAIN c = 1..n
            /\ Len(code) \in Nat /\ DOMAIN code = 1..Len(code) /\ n <= Len(code)
            /\ cpu \in [pc : Nat, sp : Int, link : Nat, steps : Nat]
            /\ cpu.pc \in Nat /\ cpu.sp \in Int /\ cpu.link \in Nat /\ cpu.steps \in Nat
            /\ calls \in Seq(Call) /\ Len(calls) \in Nat /\ DOMAIN calls = 1..Len(calls)
            /\ \A k \in 1..Len(calls) :
                 /\ calls[k].text \in Nat /\ calls[k].ret \in Nat /\ calls[k].sp \in Int
                 /\ calls[k].sets \subseteq Int /\ calls[k].args \subseteq Int /\ calls[k] \in Call
            /\ ptrsize \in {4, 8}
            /\ cpu.pc # 0 => Len(calls) > 0 /\ Len(calls) \in 1..Len(calls) /\ Place(c) /\ calls # <<>>
<1> DEFINE c == f.code
           n == Len(c)
<1>1. TypeOK(f) /\ RunInv(f)
  BY DEF FInv
<1>2. cpu \in [pc : Nat, sp : Int, link : Nat, steps : Nat] /\ calls \in Seq(Call)
  BY <1>1 DEF TypeOK
<1>3. Len(calls) \in Nat /\ DOMAIN calls = 1..Len(calls)
  BY <1>2, LenProperties
<1>4. \A k \in 1..Len(calls) : calls[k] \in Call
  BY <1>2, <1>3, ElementOfSeq
<1>5. \A k \in 1..Len(calls) :
        /\ calls[k].text \in Nat /\ calls[k].ret \in Nat /\ calls[k].sp \in Int
        /\ calls[k].sets \subseteq Int /\ calls[k].args \subseteq Int
  BY <1>4 DEF Call
<1>6. cpu.pc \in Nat /\ cpu.sp \in Int /\ cpu.link \in Nat /\ cpu.steps \in Nat
  BY <1>2
<1>7. cpu.pc # 0 => Len(calls) > 0 /\ Place(c) /\ calls # <<>>
  <2>1. cpu.pc # 0 => calls # <<>>
    BY <1>1 DEF RunInv
  <2>2. calls # <<>> => Len(calls) > 0
    BY <1>2, EmptySeq
  <2> QED
    BY <1>1, <2>1, <2>2 DEF RunInv
<1> QED
  BY <1>1, <1>2, <1>3, <1>4, <1>5, <1>6, <1>7, ProgramShape, CodeIs DEF RunInv

(* The frame of a function.                                                *)
LEMMA RoomIs ==
  ASSUME NEW f \in Programs, FInv(f), phase = "run", NEW t, Begins(f.code, t)
  PROVE  /\ t \in 1..Len(f.code) /\ code[t] \in Node /\ code[t].leaf \in BOOLEAN
         /\ Entered(f.code, t) /\ RoomRight(f.code, t)
         /\ RoomOf(t) \in Int /\ RoomOf(t) >= 0 /\ RoomOf(t) % 8 = 0
         /\ RoomOf(t) = 0 => code[t].leaf
         /\ RoomOf(t) # 0 => RoomOf(t) >= ptrsize
         /\ f.code[t].off \in Int
         /\ f.code[t].off > 0 => RoomOf(t) >= f.code[t].off + ptrsize
         /\ f.code[t].off < 0 => RoomOf(t) = 0
<1> DEFINE c == f.code
<1>1. t \in 1..Len(c) /\ t <= curtext /\ c[t].as = "TEXT" /\ c[t].off \in Int
  BY InRun, ProgramShape DEF Begins, RunInv
<1>2. Entered(c, t)
  BY <1>1, InRun DEF Framed
<1>3. code[t] \in Node /\ code[t].leaf \in BOOLEAN /\ code[t].off \in Int /\ ptrsize \in {4, 8}
  BY <1>1, InRun, CodeIs
<1>4. RoomOf(t) \in Int
  BY <1>3 DEF RoomOf
<1> QED
  BY <1>1, <1>2, <1>3, <1>4 DEF Entered, RoomRight

(* Functions that share a frame, or have none.                             *)
LEMMA SameRoom ==
  ASSUME NEW f \in Programs, FInv(f), phase = "run",
         NEW t, Begins(f.code, t), NEW u, Begins(f.code, u), Joined(f.code, t, u)
  PROVE  /\ RoomOf(u) = RoomOf(t) /\ code[u].leaf = code[t].leaf
         /\ t = u \/ (RoomOf(u) = 0 /\ code[u].leaf /\ f.code[u].off < 0)
<1>1. CASE t = u
  BY <1>1
<1>2. CASE t # u
  <2>1. f.code[t].off < 0 /\ f.code[u].off < 0
    BY <1>2 DEF Joined
  <2>2. RoomOf(t) = 0 /\ RoomOf(u) = 0 /\ code[t].leaf /\ code[u].leaf
        /\ code[t].leaf \in BOOLEAN /\ code[u].leaf \in BOOLEAN
    BY <2>1, RoomIs
  <2> QED
    BY <2>1, <2>2
<1> QED
  BY <1>1, <1>2

(* What a call has in its frame, and where.                                *)
LEMMA FrameSums ==
  ASSUME NEW sp \in Int, NEW room \in Int, room >= 0, room % 8 = 0, sp % 8 = 0
  PROVE  /\ sp - room \in Int /\ sp - room <= sp /\ (sp - room) % 8 = 0
OBVIOUS

LEMMA SlotSums ==
  ASSUME NEW sp \in Int, NEW room \in Int, NEW size \in Int, NEW w \in {4, 8}, NEW o \in Int,
         size > 0 => room >= size + w
  PROVE  /\ o < 0 /\ 0 - o <= size => (sp - room) + w <= sp + o /\ sp + o < sp
         /\ o >= 0 /\ o + 4 <= size => (sp - room) + w + o + 4 <= sp
OBVIOUS

LEMMA CallIs ==
  ASSUME NEW f \in Programs, FInv(f), phase = "run", NEW k \in 1..Len(calls)
  PROVE  /\ Begins(f.code, calls[k].text) /\ Keeps(f.code, k)
         /\ RoomIn(k) \in Int /\ RoomIn(k) >= 0 /\ RoomIn(k) % 8 = 0
         /\ RoomIn(k) # 0 => RoomIn(k) >= ptrsize
         /\ Low(k) \in Int /\ Low(k) <= calls[k].sp /\ Low(k) % 8 = 0
         /\ \A o \in calls[k].sets : /\ o \in Int /\ Low(k) + ptrsize <= calls[k].sp + o
                                     /\ calls[k].sp + o < calls[k].sp
         /\ \A o \in calls[k].args : /\ o \in Int /\ o >= 0 /\ Low(k) + ptrsize + o + 4 <= calls[k].sp
<1> DEFINE c == f.code
           t == calls[k].text
<1>1. /\ Keeps(c, k) /\ Begins(c, t) /\ ptrsize \in {4, 8} /\ calls[k].sp \in Int /\ calls[k].sp % 8 = 0
      /\ Len(c) \in Nat /\ DOMAIN c = 1..Len(c)
      /\ calls[k].sets \subseteq Stores(c, t, "SET") /\ calls[k].args \subseteq Stores(c, t, "ARG")
  BY InRun DEF RunInv, Keeps
<1> HIDE DEF t
<1>2. /\ RoomOf(t) \in Int /\ RoomOf(t) >= 0 /\ RoomOf(t) % 8 = 0
      /\ RoomOf(t) # 0 => RoomOf(t) >= ptrsize
      /\ c[t].off \in Int
      /\ c[t].off > 0 => RoomOf(t) >= c[t].off + ptrsize
  BY <1>1, RoomIs
<1>3. RoomIn(k) = RoomOf(t) /\ Low(k) = calls[k].sp - RoomOf(t)
  BY DEF RoomIn, Low, t
<1>4. \A i \in 1..Len(c) : Within(c, t, i) =>
        /\ c[i].off \in Int
        /\ c[i].as = "SET" => c[i].off < 0 /\ 0 - c[i].off <= c[t].off
        /\ c[i].as = "ARG" => c[i].off >= 0 /\ c[i].off + 4 <= c[t].off
  <2> TAKE i \in 1..Len(c)
  <2> HAVE Within(c, t, i)
  <2>1. t \in 1..i
    BY <1>1 DEF Within
  <2>2. IsProgram(f)
    BY LinkNoopsAssumption
  <2> QED
    BY <1>1, <2>1, <2>2, ProgramShape DEF IsProgram
<1>5. \A o \in calls[k].sets : o \in Int /\ o < 0 /\ 0 - o <= c[t].off
  BY <1>1, <1>4 DEF Stores
<1>6. \A o \in calls[k].args : o \in Int /\ o >= 0 /\ o + 4 <= c[t].off
  BY <1>1, <1>4 DEF Stores
<1>7. \A o \in calls[k].sets : Low(k) + ptrsize <= calls[k].sp + o /\ calls[k].sp + o < calls[k].sp
  BY <1>1, <1>2, <1>3, <1>5, SlotSums, ZenonT(30)
<1>8. \A o \in calls[k].args : Low(k) + ptrsize + o + 4 <= calls[k].sp
  <2> TAKE o \in calls[k].args
  <2>1. o \in Int /\ o >= 0 /\ o + 4 <= c[t].off
    BY <1>6
  <2>2. (calls[k].sp - RoomOf(t)) + ptrsize + o + 4 <= calls[k].sp
    <3>1. RoomOf(t) >= o + 4 + ptrsize
      <4>1. PICK size \in Int : size = c[t].off /\ o + 4 <= size /\ size > 0
        BY <1>2, <2>1
      <4>2. RoomOf(t) >= size + ptrsize /\ RoomOf(t) \in Int /\ ptrsize \in Int /\ o \in Int
        BY <1>1, <1>2, <2>1, <4>1
      <4> QED
        BY <4>1, <4>2
    <3>2. ptrsize \in Int /\ calls[k].sp \in Int /\ RoomOf(t) \in Int /\ o \in Int
      BY <1>1, <1>2, <2>1
    <3> QED
      BY <3>1, <3>2
  <2> QED
    BY <1>3, <2>2
<1>9. Low(k) \in Int /\ Low(k) <= calls[k].sp /\ Low(k) % 8 = 0
  BY <1>1, <1>2, <1>3, FrameSums
<1> QED
  BY <1>1, <1>2, <1>3, <1>5, <1>6, <1>7, <1>8, <1>9 DEF t

(* An instruction of the body: as it was, or a RET.                        *)
LEMMA BodyIs ==
  ASSUME NEW f \in Programs, FInv(f), phase = "run", NEW u, NEW i, Body(f.code, u, i)
  PROVE  LET c == f.code
         IN /\ i \in 1..Len(c) /\ c[i].as # "TEXT" /\ Begins(c, u)
            /\ \/ Kept(c, i) /\ code[i].as = c[i].as
               \/ c[i].as = "RET" /\ Returned(c, u, i) /\ code[i].as \in Generated
<1> DEFINE c == f.code
<1>1. /\ TypeOK(f) /\ Framed(f) /\ Len(c) \in Nat /\ DOMAIN c = 1..Len(c)
      /\ Len(code) \in Nat /\ DOMAIN code = 1..Len(code)
      /\ \A t \in DOMAIN c : Begins(c, t) => t <= curtext
  BY InRun DEF RunInv
<1>2. Within(c, u, i) /\ i # u /\ u \in 1..Len(c) /\ i \in 1..Len(c) /\ i > u /\ c[u].as = "TEXT"
  BY <1>1 DEF Body, Within
<1>3. c[i].as # "TEXT" /\ Begins(c, u)
  BY <1>1, <1>2 DEF Within, Begins
<1>4. CASE Kept(c, i)
  BY <1>2, <1>3, <1>4 DEF Kept
<1>5. CASE ~Kept(c, i)
  <2>1. c[i].as = "RET"
    BY <1>1, <1>2, <1>3, <1>5 DEF Framed
  <2>2. PICK t \in 1..curtext : Within(c, t, i) /\ Returned(c, t, i)
    BY <1>1, <1>2, <1>3, <1>5 DEF Framed
  <2>3. t = u
    BY <1>2, <2>2, OneFunction
  <2>4. code[i].as \in {"JMPLINK", "ADDSP", "GETLINK"}
    BY <2>2 DEF Returned
  <2> QED
    BY <1>2, <1>3, <2>1, <2>2, <2>3, <2>4 DEF Generated
<1> QED
  BY <1>4, <1>5

(* What is known where the program is, by the instruction that is there.   *)
LEMMA Here ==
  ASSUME NEW f \in Programs, FInv(f), phase = "run", cpu.pc # 0, NEW t, t = Me.text, NEW pc, pc = cpu.pc
  PROVE  LET c == f.code
         IN /\ Begins(c, t)
            /\ code[pc].as = "TEXT" => AtText(t)
            /\ code[pc].as = "SAVELINK" => AtSave(t)
            /\ code[pc].as = "GETLINK" => /\ Body(c, t, pc) /\ c[pc].as = "RET"
                                          /\ ~code[t].leaf /\ cpu.sp = Low(Len(calls)) /\ Saved(Len(calls))
            /\ code[pc].as = "JMPLINK" => cpu.sp = Me.sp /\ cpu.link = Me.ret
            /\ code[pc].as = "ADDSP" =>
                 \/ AtMake(t) /\ code[pc].off = -RoomOf(t)
                 \/ /\ cpu.sp = Low(Len(calls)) /\ cpu.link = Me.ret /\ code[pc].off = RoomOf(t)
                    /\ Inserted(c, code[pc].link) /\ code[code[pc].link].as = "JMPLINK"
            /\ code[pc].as \in Opcodes \ {"TEXT"} =>
                 /\ Inside(c, t) /\ pc \in 1..Len(c) /\ Kept(c, pc) /\ c[pc].as = code[pc].as
<1> DEFINE c == f.code
           L == Len(calls)
<1>1. /\ TypeOK(f) /\ Framed(f) /\ Len(c) \in Nat /\ DOMAIN c = 1..Len(c)
      /\ L > 0 /\ L \in 1..L /\ Place(c)
  BY InRun
<1>2. Me = calls[L]
  BY DEF Me
<1>3. Begins(c, t)
  BY <1>1, <1>2, CallIs
<1>4. /\ code[t].as = "TEXT" /\ Entered(c, t) /\ (RoomOf(t) = 0 => code[t].leaf)
      /\ code[t].leaf \in BOOLEAN
      /\ RoomOf(t) \in Int
  BY <1>3, RoomIs DEF Entered
<1>5. CASE AtText(t)
  BY <1>3, <1>4, <1>5 DEF AtText, Opcodes
<1>6. CASE AtMake(t)
  <2>1. code[pc].as = "ADDSP" /\ code[pc].off = -RoomOf(t)
    BY <1>4, <1>6 DEF AtMake, Entered
  <2> QED
    BY <1>3, <1>6, <2>1 DEF Opcodes, Branches
<1>7. CASE AtSave(t)
  <2>1. code[pc].as = "SAVELINK"
    BY <1>4, <1>7 DEF AtSave, Entered
  <2> QED
    BY <1>3, <1>7, <2>1 DEF Opcodes, Branches
<1>8. CASE Inside(c, t)
  <2>1. PICK u \in DOMAIN c : Body(c, u, pc) /\ Joined(c, t, u)
    BY <1>8 DEF Inside, InBody
  <2>2. /\ pc \in 1..Len(c) /\ c[pc].as # "TEXT" /\ Begins(c, u)
        /\ \/ Kept(c, pc) /\ code[pc].as = c[pc].as
           \/ c[pc].as = "RET" /\ Returned(c, u, pc) /\ code[pc].as \in Generated
    BY <2>1, BodyIs
  <2>3. CASE Kept(c, pc) /\ code[pc].as = c[pc].as
    <3>1. code[pc].as \in Opcodes \ {"TEXT"}
      BY <2>2, <2>3, ProgramShape
    <3>2. code[pc].as \notin {"TEXT", "SAVELINK", "GETLINK", "JMPLINK", "ADDSP"}
      BY <3>1 DEF Opcodes, Branches
    <3> QED
      BY <1>3, <1>8, <2>2, <2>3, <3>1, <3>2
  <2>4. CASE c[pc].as = "RET" /\ Returned(c, u, pc) /\ code[pc].as \in Generated
    <3>1. /\ RoomOf(u) = RoomOf(t) /\ code[u].leaf = code[t].leaf
          /\ t = u \/ (RoomOf(u) = 0 /\ code[u].leaf)
      BY <1>3, <2>1, <2>2, SameRoom
    <3>2. code[pc].as \notin Opcodes \ {"TEXT"} /\ code[pc].as # "TEXT"
      BY <2>4 DEF Opcodes, Branches, Generated
    <3>3. CASE code[t].leaf /\ RoomOf(t) = 0
      <4>1. code[pc].as = "JMPLINK"
        BY <2>4, <3>1, <3>3 DEF Returned
      <4>2. cpu.sp = Low(L) /\ cpu.link = Me.ret
        BY <1>8, <3>3 DEF Inside
      <4>3. Low(L) = Me.sp
        <5>1. Low(L) = Me.sp - RoomOf(t) /\ Me.sp \in Int
          BY <1>1, <1>2, InRun DEF Low, RoomIn
        <5> QED
          BY <3>3, <5>1
      <4> QED
        BY <1>3, <3>2, <4>1, <4>2, <4>3
    <3>4. CASE code[t].leaf /\ RoomOf(t) # 0
      <4>1. /\ code[pc].as = "ADDSP" /\ code[pc].off = RoomOf(t)
            /\ Inserted(c, code[pc].link) /\ code[code[pc].link].as = "JMPLINK"
        BY <2>4, <3>1, <3>4 DEF Returned
      <4>2. cpu.sp = Low(L) /\ cpu.link = Me.ret
        BY <1>8, <3>4 DEF Inside
      <4> QED
        BY <1>3, <3>2, <4>1, <4>2
    <3>5. CASE ~code[t].leaf
      <4>1. t = u /\ code[pc].as = "GETLINK"
        BY <2>4, <3>1, <3>5 DEF Returned
      <4>2. cpu.sp = Low(L) /\ Saved(L)
        BY <1>8, <3>5 DEF Inside
      <4> QED
        BY <1>3, <2>1, <2>4, <3>2, <3>5, <4>1, <4>2
    <3> QED
      BY <3>3, <3>4, <3>5
  <2> QED
    BY <2>2, <2>3, <2>4
<1>9. CASE AtFree(c, t)
  <2>1. PICK i \in DOMAIN c : /\ Body(c, t, i) /\ c[i].as = "RET"
                              /\ code[i].as = "GETLINK" /\ pc = code[i].link
    BY <1>9 DEF AtFree
  <2>2. Returned(c, t, i)
    BY <2>1, BodyIs
  <2>3. /\ code[pc].as = "ADDSP" /\ code[pc].off = RoomOf(t)
        /\ Inserted(c, code[pc].link) /\ code[code[pc].link].as = "JMPLINK"
    BY <1>9, <2>1, <2>2 DEF Returned, AtFree
  <2> QED
    BY <1>3, <1>9, <2>3 DEF AtFree, Opcodes, Branches
<1>10. CASE AtLeave(c)
  BY <1>3, <1>10 DEF AtLeave, Opcodes, Branches
<1> QED
  BY <1>1, <1>5, <1>6, <1>7, <1>8, <1>9, <1>10 DEF Place

(* A step that leaves the calls as they are but for what the innermost has *)
(* stored, and writes below the frames of the others.                      *)
LEMMA RunStep ==
  ASSUME NEW f \in Programs, FInv(f), phase = "run", phase' = "run", cpu.pc # 0,
         code' = code, ptrsize' = ptrsize, p' = p, q' = q, curtext' = curtext, autosize' = autosize,
         cpu' \in [pc : Nat, sp : Int, link : Nat, steps : Nat],
         calls' \in Seq(Call), Len(calls') = Len(calls),
         \A k \in 1..Len(calls) - 1 : calls'[k] = calls[k],
         calls'[Len(calls)].text = Me.text, calls'[Len(calls)].ret = Me.ret, calls'[Len(calls)].sp = Me.sp,
         NEW W, W \subseteq Int, \A a \in W : a < Me.sp,
         \A a \in Int : a \notin W => Word(a)' = Word(a),
         \A k : k = Len(calls) => Keeps(f.code, k)', Place(f.code)'
  PROVE  FInv(f)'
<1> DEFINE c == f.code
           L == Len(calls)
<1>1. /\ TypeOK(f) /\ RunInv(f) /\ Framed(f) /\ L \in Nat /\ L > 0 /\ Me = calls[L] /\ DOMAIN calls = 1..L
      /\ \A k \in 1..L : calls[k].sp \in Int /\ calls[k].ret \in Nat /\ calls[k].text \in Nat
      /\ ptrsize \in {4, 8}
  BY InRun DEF Me
<1>2. \A k \in 1..L : calls'[k].text = calls[k].text /\ calls'[k].ret = calls[k].ret /\ calls'[k].sp = calls[k].sp
  <2> TAKE k \in 1..L
  <2>1. CASE k = L
    BY <1>1, <2>1
  <2>2. CASE k # L
    <3>1. k \in 1..L - 1
      BY <1>1, <2>2
    <3> QED
      BY <3>1
  <2> QED
    BY <2>1, <2>2
<1>3. \A k \in 1..L : RoomIn(k)' = RoomIn(k) /\ Low(k)' = Low(k)
  BY <1>2 DEF RoomIn, RoomOf, Low
<1>4. DOMAIN calls' = 1..L /\ calls' # <<>>
  BY <1>1, LenProperties
<1>5. \A k \in 1..L - 1 : Me.sp <= Low(k)
  <2>1. \A m, k \in 1..L : m < k => calls[k].sp <= Low(m)
    BY <1>1 DEF RunInv
  <2> QED
    BY <1>1, <2>1
<1>6. ASSUME NEW k \in 1..L - 1 PROVE Keeps(c, k)' /\ Saved(k)'
  <2>1. k \in 1..L /\ k # L
    BY <1>1
  <2>2. /\ Keeps(c, k) /\ Low(k) \in Int
        /\ \A o \in calls[k].sets : o \in Int /\ Low(k) + ptrsize <= calls[k].sp + o
        /\ \A o \in calls[k].args : o \in Int /\ o >= 0
    BY <2>1, CallIs
  <2>3. Saved(k)
    BY <1>1, <1>6 DEF RunInv
  <2>4. Me.sp <= Low(k) /\ Me.sp \in Int
    BY <1>1, <1>5, <1>6
  <2>5. \A a \in Int : a >= Low(k) => Word(a)' = Word(a)
    <3> TAKE a \in Int
    <3> HAVE a >= Low(k)
    <3>1. a \notin W
      <4>1. SUFFICES ASSUME a \in W PROVE FALSE
        OBVIOUS
      <4>2. a < Me.sp
        BY <4>1
      <4> QED
        BY <2>2, <2>4, <4>2
    <3> QED
      BY <3>1
  <2>6. \A o \in calls[k].sets : Word(calls[k].sp + o)' = Word(calls[k].sp + o)
    <3> TAKE o \in calls[k].sets
    <3> DEFINE a == calls[k].sp + o
    <3>1. a \in Int /\ a >= Low(k)
      <4>1. calls[k].sp \in Int /\ ptrsize \in Int /\ ptrsize > 0
        BY <1>1, <2>1
      <4>2. o \in Int /\ Low(k) \in Int /\ Low(k) + ptrsize <= calls[k].sp + o
        BY <2>2
      <4> HIDE DEF a
      <4>3. a = calls[k].sp + o
        BY DEF a
      <4> QED
        BY <4>1, <4>2, <4>3, SMTT(30)
    <3>2. \A b : b = a => Word(b)' = Word(b)
      BY <2>5, <3>1
    <3>3. calls'[k].sp = calls[k].sp
      BY <1>2, <2>1
    <3> QED
      BY <3>2, <3>3 DEF Word
  <2>7. \A o \in calls[k].args : Word(Low(k) + ptrsize + o)' = Word(Low(k) + ptrsize + o)
    <3> TAKE o \in calls[k].args
    <3> DEFINE a == Low(k) + ptrsize + o
    <3>1. a \in Int /\ a >= Low(k)
      BY <1>1, <2>2, SMTT(30)
    <3>2. \A b : b = a => Word(b)' = Word(b)
      BY <2>5, <3>1
    <3>3. Low(k)' = Low(k)
      BY <1>3, <2>1
    <3> QED
      BY <3>2, <3>3 DEF Word
  <2>8. Word(Low(k))' = Word(Low(k))
    <3>1. \A b : b = Low(k) => Word(b)' = Word(b)
      BY <2>2, <2>5
    <3>2. Low(k)' = Low(k)
      BY <1>3, <2>1
    <3> QED
      BY <3>1, <3>2 DEF Word
  <2>9. calls'[k] = calls[k] /\ Low(k)' = Low(k)
    BY <1>3, <1>6, <2>1
  <2>10. Keeps(c, k)'
    BY <2>2, <2>6, <2>7, <2>9 DEF Keeps
  <2>11. Saved(k)'
    BY <2>3, <2>8, <2>9 DEF Saved
  <2> QED
    BY <2>10, <2>11
<1>7. TypeOK(f)'
  BY <1>1 DEF TypeOK
<1>8. Framed(f)'
  BY <1>1, FramedSame
<1>9. \A k \in 1..L : Keeps(c, k)'
  <2> TAKE k \in 1..L
  <2>1. CASE k = L
    BY <2>1
  <2>2. CASE k # L
    BY <1>1, <1>6, <2>2
  <2> QED
    BY <2>1, <2>2
<1>10. \A k \in 1..L - 1 :
         /\ calls'[k+1].sp = Low(k)' /\ Saved(k)'
         /\ InBody(c, calls'[k].text, calls'[k+1].ret)
  <2> TAKE k \in 1..L - 1
  <2>1. k \in 1..L /\ k + 1 \in 1..L
    BY <1>1
  <2>2. calls[k+1].sp = Low(k) /\ InBody(c, calls[k].text, calls[k+1].ret)
    BY <1>1 DEF RunInv
  <2> QED
    BY <1>2, <1>3, <1>6, <2>1, <2>2
<1>11. \A m, k \in 1..L : m < k => calls'[k].sp <= Low(m)'
  <2>1. \A m, k \in 1..L : m < k => calls[k].sp <= Low(m)
    BY <1>1 DEF RunInv
  <2> QED
    BY <1>2, <1>3, <2>1
<1>12. calls'[1].ret = 0
  <2>1. calls[1].ret = 0 /\ 1 \in 1..L
    BY <1>1, EmptySeq DEF RunInv
  <2> QED
    BY <1>2, <2>1
<1>13. (\A t \in DOMAIN c : Begins(c, t) => t <= curtext)'
  BY <1>1 DEF RunInv, Begins
<1>14. RunInv(f)'
  BY <1>4, <1>8, <1>9, <1>10, <1>11, <1>12, <1>13 DEF RunInv, InBody
<1> QED
  BY <1>7, <1>14 DEF FInv

(* A step that leaves the stack and what is known of the calls alone.      *)
LEMMA QuietStep ==
  ASSUME NEW f \in Programs, FInv(f), phase = "run", cpu.pc # 0, UNCHANGED <<noops, phase, mem, calls>>,
         cpu' \in [pc : Nat, sp : Int, link : Nat, steps : Nat], Place(f.code)'
  PROVE  FInv(f)'
<1>1. phase' = "run" /\ code' = code /\ ptrsize' = ptrsize /\ p' = p /\ q' = q /\ curtext' = curtext
      /\ autosize' = autosize /\ calls' = calls /\ mem' = mem
  BY DEF noops
<1>2. \A a \in Int : a \notin {} => Word(a)' = Word(a)
  BY <1>1 DEF Word
<1>3. \A k : k = Len(calls) => Keeps(f.code, k)'
  <2> TAKE k
  <2> HAVE k = Len(calls)
  <2>1. Keeps(f.code, k)
    BY CallIs, InRun
  <2> QED
    BY <1>1, <2>1 DEF Keeps, Low, RoomIn, RoomOf, Word
<1>4. /\ calls \in Seq(Call) /\ calls'[Len(calls)].text = Me.text /\ calls'[Len(calls)].ret = Me.ret
      /\ calls'[Len(calls)].sp = Me.sp /\ Len(calls') = Len(calls)
  BY <1>1, InRun DEF Me
<1>5. PICK W : W = {}
  OBVIOUS
<1>6. W \subseteq Int /\ (\A a \in W : a < Me.sp) /\ (\A a \in Int : a \notin W => Word(a)' = Word(a))
  BY <1>2, <1>5
<1> HIDE DEF Me
<1> QED
  BY <1>1, <1>3, <1>4, <1>6, RunStep

LEMMA PlaceAt ==
  ASSUME NEW c, NEW t, (Me.text = t)',
         AtText(t)' \/ AtMake(t)' \/ AtSave(t)' \/ Inside(c, t)' \/ AtFree(c, t)' \/ AtLeave(c)'
  PROVE  Place(c)'
BY DEF Place, AtText, AtMake, AtSave, Inside, AtFree, AtLeave, Fresh, RoomOf

LEMMA PlaceInside ==
  ASSUME NEW c, NEW t, t = Me.text, InBody(c, t, cpu'.pc), code' = code, ptrsize' = ptrsize,
         Len(calls') = Len(calls), calls'[Len(calls)].text = Me.text,
         calls'[Len(calls)].ret = Me.ret, calls'[Len(calls)].sp = Me.sp,
         NEW a, a = Low(Len(calls)), cpu'.sp = a,
         IF code[t].leaf THEN cpu'.link = Me.ret ELSE Word(a)' = Me.ret
  PROVE  Place(c)'
<1> DEFINE L == Len(calls)
<1>1. Me = calls[L] /\ Me' = calls'[L]
  BY DEF Me
<1>2. Me'.text = t /\ Me'.ret = Me.ret /\ Me'.sp = Me.sp
  BY <1>1
<1>3. Low(L) = Me.sp - RoomOf(t) /\ Low(Len(calls))' = Me'.sp - RoomOf(t)'
  BY <1>1, <1>2 DEF Low, RoomIn, RoomOf
<1>4. RoomOf(t)' = RoomOf(t)
  BY DEF RoomOf
<1>5. Low(Len(calls))' = a
  BY <1>2, <1>3, <1>4
<1>6. cpu'.sp = Low(Len(calls))'
  BY <1>5
<1>7. CASE code[t].leaf
  BY <1>2, <1>6, <1>7, PlaceAt DEF Inside, InBody
<1>8. CASE ~code[t].leaf
  <2>1. Word(Low(Len(calls)))' = Word(a)'
    BY <1>5 DEF Word
  <2>2. Saved(Len(calls))'
    BY <1>1, <1>2, <1>8, <2>1 DEF Saved
  <2> QED
    BY <1>2, <1>6, <1>8, <2>2, PlaceAt DEF Inside, InBody
<1> QED
  BY <1>7, <1>8

(* Control stays in the function.                                          *)
LEMMA StayInside ==
  ASSUME NEW c, NEW t, t = Me.text, Inside(c, t), InBody(c, t, cpu'.pc),
         cpu'.sp = cpu.sp, cpu'.link = cpu.link, code' = code, ptrsize' = ptrsize,
         Len(calls') = Len(calls), calls'[Len(calls)].text = Me.text,
         calls'[Len(calls)].ret = Me.ret, calls'[Len(calls)].sp = Me.sp,
         NEW a, a = Low(Len(calls)), Word(a)' = Word(a)
  PROVE  Place(c)'
<1>1. IF code[t].leaf THEN cpu'.link = Me.ret ELSE Word(a)' = Me.ret
  BY DEF Inside, Saved, Me
<1>2. cpu'.sp = a
  BY DEF Inside
<1> QED
  BY <1>1, <1>2, PlaceInside

(* The instruction behind one that goes on.                                *)
LEMMA GoesOn ==
  ASSUME NEW f \in Programs, FInv(f), phase = "run", NEW t, NEW i, InBody(f.code, t, i),
         Kept(f.code, i), f.code[i].as \notin {"RET", "JMP"}
  PROVE  InBody(f.code, t, code[i].link) /\ code[i].link \in Nat
<1>1. PICK u \in DOMAIN f.code : Body(f.code, u, i) /\ Joined(f.code, t, u)
  BY DEF InBody
<1>2. i \in 1..Len(f.code) /\ Within(f.code, u, i)
  BY <1>1, BodyIs DEF Body
<1>3. Body(f.code, u, code[i].link)
  BY <1>2, Onward DEF Kept
<1>4. code[i].link \in Nat
  BY <1>2, InRun, CodeIs
<1> QED
  BY <1>1, <1>3, <1>4 DEF InBody

LEMMA NextCpu ==
  ASSUME NEW x \in Cpu, Step(x)
  PROVE  cpu' \in Cpu /\ cpu'.pc = x.pc /\ cpu'.sp = x.sp /\ cpu'.link = x.link
BY DEF Step, Cpu

LEMMA GoTo ==
  ASSUME cpu \in Cpu, NEW a \in Nat, Step([cpu EXCEPT !.pc = a])
  PROVE  cpu' \in Cpu /\ cpu'.pc = a /\ cpu'.sp = cpu.sp /\ cpu'.link = cpu.link
<1> DEFINE x == [cpu EXCEPT !.pc = a]
<1>1. x \in Cpu /\ x.pc = a /\ x.sp = cpu.sp /\ x.link = cpu.link
  BY DEF Cpu
<1> HIDE DEF x
<1> QED
  BY <1>1, NextCpu DEF x

LEMMA GoMove ==
  ASSUME cpu \in Cpu, NEW a \in Nat, NEW s \in Int, Step([cpu EXCEPT !.pc = a, !.sp = s])
  PROVE  cpu' \in Cpu /\ cpu'.pc = a /\ cpu'.sp = s /\ cpu'.link = cpu.link
<1> DEFINE x == [cpu EXCEPT !.pc = a, !.sp = s]
<1>1. x \in Cpu /\ x.pc = a /\ x.sp = s /\ x.link = cpu.link
  BY DEF Cpu
<1> HIDE DEF x
<1> QED
  BY <1>1, NextCpu DEF x

LEMMA GoLink ==
  ASSUME cpu \in Cpu, NEW a \in Nat, NEW l \in Nat, Step([cpu EXCEPT !.pc = a, !.link = l])
  PROVE  cpu' \in Cpu /\ cpu'.pc = a /\ cpu'.sp = cpu.sp /\ cpu'.link = l
<1> DEFINE x == [cpu EXCEPT !.pc = a, !.link = l]
<1>1. x \in Cpu /\ x.pc = a /\ x.sp = cpu.sp /\ x.link = l
  BY DEF Cpu
<1> HIDE DEF x
<1> QED
  BY <1>1, NextCpu DEF x

(* Where control is.                                                       *)
LEMMA PcInCode ==
  ASSUME NEW f \in Programs, FInv(f), phase = "run", cpu.pc # 0
  PROVE  /\ cpu.pc \in 1..Len(code) /\ code[cpu.pc].link \in Nat /\ code[cpu.pc].off \in Int
         /\ cpu \in Cpu /\ TypeOK(f) /\ Len(calls) \in 1..Len(calls) /\ Len(calls) \in Nat
         /\ Len(f.code) \in Nat /\ DOMAIN f.code = 1..Len(f.code)
<1> DEFINE c == f.code
<1>1. /\ cpu \in Cpu /\ TypeOK(f) /\ Len(calls) \in 1..Len(calls) /\ Place(c) /\ Len(calls) \in Nat
      /\ Len(c) \in Nat /\ Len(code) \in Nat /\ Len(c) <= Len(code) /\ DOMAIN c = 1..Len(c)
      /\ \A k \in 1..Len(code) : code[k].link \in Nat /\ code[k].off \in Int
  BY InRun, CodeIs DEF Cpu
<1>2. PICK t : t = Me.text
  OBVIOUS
<1>3. Begins(c, t) /\ t \in 1..Len(c) /\ Entered(c, t) /\ (RoomOf(t) = 0 => code[t].leaf)
  BY <1>1, <1>2, CallIs, RoomIs DEF Me
<1>4. /\ AtMake(t) => Inserted(c, cpu.pc)
      /\ AtSave(t) => Inserted(c, cpu.pc)
  BY <1>3 DEF AtMake, AtSave, Entered
<1>5. AtFree(c, t) => Inserted(c, cpu.pc)
  <2> HAVE AtFree(c, t)
  <2>1. PICK i \in DOMAIN c : /\ Body(c, t, i) /\ c[i].as = "RET"
                              /\ code[i].as = "GETLINK" /\ cpu.pc = code[i].link
    BY DEF AtFree
  <2>2. Returned(c, t, i)
    <3>1. ~(Kept(c, i) /\ code[i].as = c[i].as)
      BY <2>1
    <3> QED
      BY <2>1, <3>1, BodyIs
  <2> QED
    BY <2>1, <2>2 DEF Returned, AtFree
<1>6. Inside(c, t) => cpu.pc \in 1..Len(c)
  BY BodyIs DEF Inside, InBody
<1>7. cpu.pc \in 1..Len(code)
  BY <1>1, <1>2, <1>3, <1>4, <1>5, <1>6 DEF Place, AtText, AtLeave, Inserted
<1> QED
  BY <1>1, <1>7

(* TEXT and what does nothing to the stack.                                *)
LEMMA StraightInv ==
  ASSUME NEW f \in Programs, FInv(f), Straight
  PROVE  FInv(f)'
<1> DEFINE c == f.code
           L == Len(calls)
<1>1. phase = "run" /\ cpu.pc # 0 /\ code[cpu.pc].as \in {"TEXT", "WORK", "PARAM"}
      /\ UNCHANGED <<noops, phase, mem, calls>>
  BY DEF Straight, Running
<1>2. PICK t : t = Me.text
  OBVIOUS
<1>3. PICK pc : pc = cpu.pc
  OBVIOUS
<1>4. /\ cpu \in Cpu /\ L \in 1..L /\ pc \in 1..Len(code) /\ code[pc].link \in Nat
      /\ code' = code /\ ptrsize' = ptrsize /\ calls' = calls /\ mem' = mem
      /\ \A k : Word(k)' = Word(k)
  BY <1>1, <1>3, PcInCode DEF noops, Word
<1>5. /\ cpu' \in Cpu
      /\ cpu'.pc = code[pc].link /\ cpu'.sp = cpu.sp /\ cpu'.link = cpu.link
  <2>1. Step([cpu EXCEPT !.pc = code[pc].link])
    BY <1>3 DEF Straight, I
  <2> QED
    BY <1>4, <2>1, GoTo
<1>6. Me' = Me /\ Me = calls[L] /\ Begins(c, t)
  BY <1>1, <1>2, <1>3, <1>4, Here DEF Me
<1>7. Place(c)'
  <2>1. CASE code[pc].as = "TEXT"
    <3>1. AtText(t)
      BY <1>1, <1>2, <1>3, <2>1, Here
    <3>2. pc = t /\ cpu.sp = Me.sp /\ cpu.link = Me.ret /\ Me.sets = {} /\ Me.args = {}
      BY <1>3, <3>1 DEF AtText, Fresh
    <3>3. CASE RoomOf(t) = 0
      <4>1. Starts(c, t, code[t].link) /\ code[t].leaf
        BY <1>1, <1>6, <3>3, RoomIs DEF Entered
      <4>2. InBody(c, t, cpu'.pc)
        BY <1>5, <1>6, <3>2, <4>1 DEF Starts, InBody, Joined, Begins
      <4>3. Low(L) = Me.sp
        <5>1. Low(L) = Me.sp - RoomOf(t) /\ Me.sp \in Int
          BY <1>1, <1>2, <1>4, <1>6, InRun DEF Low, RoomIn
        <5> QED
          BY <3>3, <5>1
      <4> QED
        BY <1>2, <1>4, <1>5, <1>6, <3>2, <4>1, <4>2, <4>3, PlaceInside
    <3>4. CASE RoomOf(t) # 0
      <4>1. AtMake(t)'
        BY <1>4, <1>5, <1>6, <3>2, <3>4 DEF AtMake, Fresh, RoomOf
      <4> QED
        BY <1>2, <1>6, <4>1, PlaceAt
    <3> QED
      BY <3>3, <3>4
  <2>2. CASE code[pc].as \in {"WORK", "PARAM"}
    <3>1. code[pc].as \in Opcodes \ {"TEXT"} /\ code[pc].as \notin {"RET", "JMP"}
      BY <2>2 DEF Opcodes
    <3>2. Inside(c, t) /\ Kept(c, pc) /\ c[pc].as = code[pc].as
      BY <1>1, <1>2, <1>3, <3>1, Here
    <3>3. InBody(c, t, cpu'.pc)
      BY <1>1, <1>3, <1>5, <3>1, <3>2, GoesOn DEF Inside
    <3> QED
      BY <1>2, <1>4, <1>5, <1>6, <3>2, <3>3, StayInside
  <2> QED
    BY <1>1, <1>3, <2>1, <2>2
<1> QED
  BY <1>1, <1>5, <1>7, QuietStep DEF Cpu

(* The frame made, or given back.                                          *)
LEMMA MoveStackInv ==
  ASSUME NEW f \in Programs, FInv(f), MoveStack
  PROVE  FInv(f)'
<1> DEFINE c == f.code
           L == Len(calls)
<1>1. phase = "run" /\ cpu.pc # 0 /\ code[cpu.pc].as = "ADDSP"
      /\ UNCHANGED <<noops, phase, mem, calls>>
  BY DEF MoveStack, Running
<1>2. PICK t : t = Me.text
  OBVIOUS
<1>3. PICK pc : pc = cpu.pc
  OBVIOUS
<1>4. /\ cpu \in Cpu /\ L \in 1..L /\ pc \in 1..Len(code) /\ code[pc].link \in Nat /\ code[pc].off \in Int
      /\ cpu.sp \in Int
      /\ code' = code /\ ptrsize' = ptrsize /\ calls' = calls /\ mem' = mem
  BY <1>1, <1>3, PcInCode, InRun DEF noops
<1>5. /\ cpu' \in Cpu
      /\ cpu'.pc = code[pc].link /\ cpu'.sp = cpu.sp + code[pc].off /\ cpu'.link = cpu.link
  <2>1. Step([cpu EXCEPT !.pc = code[pc].link, !.sp = cpu.sp + code[pc].off])
    BY <1>3 DEF MoveStack, I
  <2>2. cpu.sp + code[pc].off \in Int
    BY <1>4
  <2> QED
    BY <1>4, <2>1, <2>2, GoMove
<1>6. Me' = Me /\ Me = calls[L] /\ Begins(c, t)
  BY <1>1, <1>2, <1>3, <1>4, Here DEF Me
<1>7. /\ Low(L) = Me.sp - RoomOf(t) /\ Me.sp \in Int /\ RoomOf(t) \in Int /\ code[t].leaf \in BOOLEAN
      /\ RoomOf(t)' = RoomOf(t) /\ Low(Len(calls))' = Low(L) /\ Entered(c, t)
  BY <1>1, <1>2, <1>4, <1>6, InRun, RoomIs DEF Low, RoomIn, RoomOf
<1>8. Place(c)'
  <2>1. CASE AtMake(t) /\ code[pc].off = -RoomOf(t)
    <3>1. /\ RoomOf(t) # 0 /\ pc = code[t].link /\ cpu.sp = Me.sp /\ cpu.link = Me.ret
          /\ Me.sets = {} /\ Me.args = {}
      BY <1>3, <2>1 DEF AtMake, Fresh
    <3>2. cpu'.sp = Low(L)
      <4>1. cpu'.sp = Me.sp + (-RoomOf(t))
        BY <1>5, <2>1, <3>1
      <4> QED
        BY <1>7, <4>1
    <3>3. CASE code[t].leaf
      <4>1. Starts(c, t, code[pc].link)
        BY <1>7, <3>1, <3>3 DEF Entered
      <4>2. InBody(c, t, cpu'.pc)
        BY <1>5, <1>6, <4>1 DEF Starts, InBody, Joined, Begins
      <4> QED
        BY <1>2, <1>4, <1>5, <1>6, <3>1, <3>2, <3>3, <4>2, PlaceInside
    <3>4. CASE ~code[t].leaf
      <4>1. AtSave(t)'
        BY <1>4, <1>5, <1>6, <1>7, <3>1, <3>2, <3>4 DEF AtSave, Fresh
      <4> QED
        BY <1>2, <1>6, <4>1, PlaceAt
    <3> QED
      BY <3>3, <3>4
  <2>2. CASE /\ cpu.sp = Low(L) /\ cpu.link = Me.ret /\ code[pc].off = RoomOf(t)
             /\ Inserted(c, code[pc].link) /\ code[code[pc].link].as = "JMPLINK"
    <3>1. cpu'.sp = Me.sp
      <4>1. cpu'.sp = (Me.sp - RoomOf(t)) + RoomOf(t)
        BY <1>5, <1>7, <2>2
      <4> QED
        BY <1>7, <4>1
    <3>2. AtLeave(c)'
      BY <1>4, <1>5, <1>6, <2>2, <3>1 DEF AtLeave, Inserted
    <3> QED
      BY <1>2, <1>6, <3>2, PlaceAt
  <2> QED
    BY <1>1, <1>2, <1>3, <2>1, <2>2, Here
<1> QED
  BY <1>1, <1>5, <1>8, QuietStep DEF Cpu

(* The link comes back from the frame.                                     *)
LEMMA GetLinkInv ==
  ASSUME NEW f \in Programs, FInv(f), GetLink
  PROVE  FInv(f)'
<1> DEFINE c == f.code
           L == Len(calls)
<1>1. phase = "run" /\ cpu.pc # 0 /\ code[cpu.pc].as = "GETLINK"
      /\ UNCHANGED <<noops, phase, mem, calls>>
  BY DEF GetLink, Running
<1>2. PICK t : t = Me.text
  OBVIOUS
<1>3. PICK pc : pc = cpu.pc
  OBVIOUS
<1>4. /\ cpu \in Cpu /\ L \in 1..L /\ pc \in 1..Len(code) /\ code[pc].link \in Nat
      /\ code' = code /\ ptrsize' = ptrsize /\ calls' = calls /\ mem' = mem
  BY <1>1, <1>3, PcInCode DEF noops
<1>5. Me' = Me /\ Me = calls[L] /\ Begins(c, t) /\ Me.ret \in Nat
  BY <1>1, <1>2, <1>3, <1>4, Here, InRun DEF Me
<1>6. /\ Body(c, t, pc) /\ c[pc].as = "RET" /\ ~code[t].leaf
      /\ cpu.sp = Low(L) /\ Saved(L)
  BY <1>1, <1>2, <1>3, Here
<1>7. Word(cpu.sp) = Me.ret
  BY <1>5, <1>6 DEF Saved
<1>8. /\ cpu' \in Cpu
      /\ cpu'.pc = code[pc].link /\ cpu'.sp = cpu.sp /\ cpu'.link = Me.ret
  <2>1. Step([cpu EXCEPT !.pc = code[pc].link, !.link = Me.ret])
    BY <1>3, <1>7 DEF GetLink, I
  <2> QED
    BY <1>4, <1>5, <2>1, GoLink
<1>9. Low(Len(calls))' = Low(L)
  BY <1>4 DEF Low, RoomIn, RoomOf
<1>10. pc \in DOMAIN c
  BY <1>6 DEF Body, Within
<1>11. AtFree(c, t)'
  BY <1>1, <1>3, <1>4, <1>5, <1>6, <1>8, <1>9, <1>10 DEF AtFree
<1>12. Place(c)'
  BY <1>2, <1>5, <1>11, PlaceAt
<1> QED
  BY <1>1, <1>8, <1>12, QuietStep DEF Cpu

(* Branches stay in a body.                                                *)
LEMMA BranchInv ==
  ASSUME NEW f \in Programs, FInv(f), Branch
  PROVE  FInv(f)'
<1> DEFINE c == f.code
           L == Len(calls)
<1>1. phase = "run" /\ cpu.pc # 0 /\ code[cpu.pc].as \in Branches \ {"JAL"}
      /\ UNCHANGED <<noops, phase, mem, calls>>
  BY DEF Branch, Running
<1>2. PICK t : t = Me.text
  OBVIOUS
<1>3. PICK pc : pc = cpu.pc
  OBVIOUS
<1>4. /\ cpu \in Cpu /\ L \in 1..L /\ pc \in 1..Len(code) /\ code[pc].link \in Nat
      /\ code' = code /\ ptrsize' = ptrsize /\ calls' = calls /\ mem' = mem
      /\ \A k : Word(k)' = Word(k)
  BY <1>1, <1>3, PcInCode DEF noops, Word
<1>5. Me' = Me /\ Me = calls[L]
  BY <1>4 DEF Me
<1>6. code[pc].as \in Opcodes \ {"TEXT"} /\ code[pc].as # "RET"
  BY <1>1, <1>3 DEF Branches, Opcodes
<1>7. Inside(c, t) /\ Kept(c, pc) /\ c[pc].as = code[pc].as /\ pc \in 1..Len(c) /\ Begins(c, t)
  BY <1>1, <1>2, <1>3, <1>6, Here
<1>8. PICK k \in {code[pc].cond} \cup (IF code[pc].as = "JMP" THEN {} ELSE {code[pc].link}) :
        Step([cpu EXCEPT !.pc = k])
  BY <1>3 DEF Branch, I
<1>9. InBody(c, t, k) /\ k \in Nat
  <2>1. CASE k = code[pc].link /\ code[pc].as # "JMP"
    BY <1>1, <1>3, <1>6, <1>7, <2>1, GoesOn DEF Inside
  <2>2. CASE k = code[pc].cond
    <3>1. PICK u \in DOMAIN c : Body(c, u, pc) /\ Joined(c, t, u)
      BY <1>3, <1>7 DEF Inside, InBody
    <3>2. Within(c, u, pc)
      BY <3>1 DEF Body
    <3>3. PICK v \in DOMAIN c : Body(c, v, k) /\ Joined(c, u, v)
      BY <1>1, <1>3, <1>7, <2>2, <3>1, <3>2 DEF Kept, Targets
    <3>4. Joined(c, t, v)
      BY <3>1, <3>3 DEF Joined
    <3>5. k \in 1..Len(c) /\ Len(c) \in Nat
      BY <1>1, <3>3, BodyIs, PcInCode
    <3>6. k \in Nat
      BY <3>5
    <3> QED
      BY <3>3, <3>4, <3>6 DEF InBody
  <2> QED
    BY <1>8, <2>1, <2>2
<1>10. cpu' \in Cpu /\ cpu'.pc = k /\ cpu'.sp = cpu.sp /\ cpu'.link = cpu.link
  BY <1>4, <1>8, <1>9, GoTo
<1>11. Place(c)'
  BY <1>2, <1>4, <1>5, <1>7, <1>9, <1>10, StayInside
<1> QED
  BY <1>1, <1>10, <1>11, QuietStep DEF Cpu

(* What a store leaves in the stack.                                       *)
LEMMA PutWord ==
  ASSUME NEW a, NEW n, NEW v, Put(a, n, v)
  PROVE  \A w : Word(w)' = IF w \in Words(a, n) THEN v ELSE Word(w)
<1> DEFINE D == DOMAIN mem \cup Words(a, n)
<1>1. mem' = [w \in D |-> IF w \in Words(a, n) THEN v ELSE mem[w]]
  BY DEF Put
<1>2. DOMAIN mem' = D
  BY <1>1
<1> TAKE w
<1>3. CASE w \in Words(a, n)
  BY <1>1, <1>2, <1>3 DEF Word
<1>4. CASE w \notin Words(a, n)
  BY <1>1, <1>2, <1>4 DEF Word
<1> QED
  BY <1>3, <1>4

LEMMA WordsAre ==
  ASSUME NEW a \in Int, NEW n \in {4, 8}
  PROVE  /\ Words(a, 4) = {a}
         /\ a \in Words(a, n)
         /\ \A w \in Words(a, n) : w \in Int /\ a <= w /\ w < a + n
<1>1. 4 \div 4 = 1 /\ n \div 4 \in {1, 2} /\ n = 4 * (n \div 4)
  OBVIOUS
<1>2. 0..(4 \div 4) - 1 = {0} /\ 0 \in 0..(n \div 4) - 1
  BY <1>1
<1>3. \A i \in 0..(n \div 4) - 1 : i \in Int /\ a <= a + 4 * i /\ a + 4 * i < a + n /\ a + 4 * i \in Int
  BY <1>1
<1>4. a + 4 * 0 = a
  OBVIOUS
<1> QED
  BY <1>2, <1>3, <1>4 DEF Words

(* The link goes into the frame.                                           *)
LEMMA SaveLinkInv ==
  ASSUME NEW f \in Programs, FInv(f), SaveLink
  PROVE  FInv(f)'
<1> DEFINE c == f.code
           L == Len(calls)
<1>1. phase = "run" /\ cpu.pc # 0 /\ code[cpu.pc].as = "SAVELINK" /\ UNCHANGED <<noops, phase, calls>>
  BY DEF SaveLink, Running
<1>2. PICK t : t = Me.text
  OBVIOUS
<1>3. PICK pc : pc = cpu.pc
  OBVIOUS
<1>4. /\ cpu \in Cpu /\ L \in 1..L /\ pc \in 1..Len(code) /\ code[pc].link \in Nat /\ ptrsize \in {4, 8}
      /\ code' = code /\ ptrsize' = ptrsize /\ calls' = calls /\ calls \in Seq(Call)
      /\ p' = p /\ q' = q /\ curtext' = curtext /\ autosize' = autosize
  BY <1>1, <1>3, PcInCode, InRun DEF noops
<1>5. Me' = Me /\ Me = calls[L] /\ Begins(c, t) /\ AtSave(t)
  BY <1>1, <1>2, <1>3, <1>4, Here DEF Me
<1>6. /\ ~code[t].leaf /\ pc = code[code[t].link].link /\ cpu.sp = Low(L) /\ cpu.link = Me.ret
      /\ Me.sets = {} /\ Me.args = {}
  BY <1>3, <1>5 DEF AtSave, Fresh
<1>7. PICK a : a = Low(L)
  OBVIOUS
<1>8. /\ cpu' \in Cpu
      /\ cpu'.pc = code[pc].link /\ cpu'.sp = cpu.sp /\ cpu'.link = cpu.link
  <2>1. Step([cpu EXCEPT !.pc = code[pc].link])
    BY <1>3 DEF SaveLink, I
  <2> QED
    BY <1>4, <2>1, GoTo
<1>9. RoomOf(t) # 0 /\ RoomOf(t) >= ptrsize /\ RoomOf(t) \in Int /\ Entered(c, t)
  BY <1>1, <1>5, <1>6, RoomIs
<1>10. a \in Int /\ a = Me.sp - RoomOf(t) /\ Me.sp \in Int
  BY <1>1, <1>2, <1>4, <1>5, <1>7, InRun, CallIs DEF Low, RoomIn
<1> DEFINE W == Words(a, ptrsize)
<1>11. a \in W /\ \A w \in W : w \in Int /\ w < a + ptrsize
  BY <1>4, <1>10, WordsAre
<1>12. \A w \in W : w < Me.sp
  <2>1. a + ptrsize <= Me.sp
    BY <1>4, <1>9, <1>10
  <2> TAKE w \in W
  <2>2. w \in Int /\ w < a + ptrsize
    BY <1>11
  <2> HIDE DEF W
  <2>3. ptrsize \in Int
    BY <1>4
  <2> QED
    BY <1>10, <2>1, <2>2, <2>3
<1>13. Put(a, ptrsize, Me.ret)
  BY <1>6, <1>7 DEF SaveLink
<1>14. \A w : Word(w)' = IF w \in W THEN Me.ret ELSE Word(w)
  BY <1>13, PutWord
<1> HIDE DEF W
<1>15. Place(c)'
  <2>1. Starts(c, t, code[pc].link)
    BY <1>6, <1>9 DEF Entered
  <2>2. InBody(c, t, cpu'.pc)
    BY <1>5, <1>8, <2>1 DEF Starts, InBody, Joined, Begins
  <2>3. Word(a)' = Me.ret
    BY <1>11, <1>14
  <2> QED
    BY <1>2, <1>4, <1>5, <1>6, <1>7, <1>8, <2>2, <2>3, PlaceInside
<1>16. \A k : k = L => Keeps(c, k)'
  <2> TAKE k
  <2> HAVE k = L
  <2>1. Keeps(c, k) /\ calls[k].sets = {} /\ calls[k].args = {}
    BY <1>1, <1>4, <1>5, <1>6, CallIs
  <2> QED
    BY <1>4, <2>1 DEF Keeps
<1>17. \A w \in Int : w \notin W => Word(w)' = Word(w)
  BY <1>14
<1>18. phase' = "run" /\ calls'[L].text = Me.text /\ calls'[L].ret = Me.ret /\ calls'[L].sp = Me.sp
  BY <1>1, <1>4, <1>5
<1>19. W \subseteq Int
  BY <1>11
<1> HIDE DEF Me
<1> QED
  BY <1>1, <1>4, <1>8, <1>12, <1>15, <1>16, <1>17, <1>18, <1>19, RunStep DEF Cpu

(* autosize of the function that control is in.                            *)
LEMMA AutosizeIs ==
  ASSUME NEW f \in Programs, FInv(f), phase = "run", cpu.pc # 0, NEW u, Body(f.code, u, cpu.pc)
  PROVE  Autosize = RoomOf(u)
<1> DEFINE c == f.code
           Heads(t) == code[t].as = "TEXT" /\ \A w \in t+1..cpu.pc : code[w].as # "TEXT"
<1>1. /\ cpu.pc \in 1..Len(c) /\ Within(c, u, cpu.pc) /\ TypeOK(f) /\ Framed(f)
      /\ Len(c) \in Nat /\ DOMAIN c = 1..Len(c) /\ Len(code) \in Nat /\ DOMAIN code = 1..Len(code)
      /\ Len(c) <= Len(code)
  BY BodyIs, InRun DEF Body
<1>2. \A w \in 1..cpu.pc : code[w].as = "TEXT" <=> c[w].as = "TEXT"
  BY <1>1, Original
<1>3. \A t \in 1..cpu.pc : Heads(t) <=> Within(c, t, cpu.pc)
  <2> TAKE t \in 1..cpu.pc
  <2>1. \A w \in t+1..cpu.pc : w \in 1..cpu.pc
    BY <1>1
  <2>2. t \in DOMAIN c /\ cpu.pc \in t..Len(c)
    BY <1>1
  <2> QED
    BY <1>2, <2>1, <2>2 DEF Within
<1>4. u \in 1..cpu.pc
  BY <1>1 DEF Within
<1>5. \A t \in 1..cpu.pc : Heads(t) <=> t = u
  BY <1>1, <1>3, <1>4, OneFunction
<1>6. (CHOOSE t \in 1..cpu.pc : Heads(t)) = u
  BY <1>4, <1>5
<1> QED
  BY <1>6 DEF Autosize, RoomOf

(* A store of 4 bytes to an automatic or an argument of the own frame.     *)
LEMMA StoreStep ==
  ASSUME NEW f \in Programs, FInv(f), phase = "run", cpu.pc # 0, UNCHANGED <<noops, phase>>,
         NEW t, t = Me.text, NEW pc, pc = cpu.pc,
         Inside(f.code, t), Kept(f.code, pc), f.code[pc].as \in {"SET", "ARG"},
         NEW a \in Int, NEW v, Put(a, 4, v), Low(Len(calls)) < a, a < Me.sp,
         calls' \in Seq(Call), Len(calls') = Len(calls),
         \A k \in 1..Len(calls) - 1 : calls'[k] = calls[k],
         calls'[Len(calls)].text = Me.text, calls'[Len(calls)].ret = Me.ret, calls'[Len(calls)].sp = Me.sp,
         Step([cpu EXCEPT !.pc = code[pc].link]),
         \A k : k = Len(calls) => Keeps(f.code, k)'
  PROVE  FInv(f)'
<1> DEFINE c == f.code
           L == Len(calls)
<1>1. /\ cpu \in Cpu /\ L \in 1..L /\ code[pc].link \in Nat
      /\ code' = code /\ ptrsize' = ptrsize /\ phase' = "run"
      /\ p' = p /\ q' = q /\ curtext' = curtext /\ autosize' = autosize
  BY PcInCode DEF noops
<1>2. PICK b : b = Low(L)
  OBVIOUS
<1>3. b \in Int
  BY <1>1, <1>2, CallIs
<1>4. /\ cpu' \in Cpu
      /\ cpu'.pc = code[pc].link /\ cpu'.sp = cpu.sp /\ cpu'.link = cpu.link
  BY <1>1, GoTo
<1>5. \A w : Word(w)' = IF w = a THEN v ELSE Word(w)
  <2>1. Words(a, 4) = {a}
    BY WordsAre
  <2> QED
    BY <2>1, PutWord
<1>6. Place(c)'
  <2>1. InBody(c, t, pc) /\ c[pc].as \notin {"RET", "JMP"}
    BY DEF Inside
  <2>2. InBody(c, t, cpu'.pc)
    BY <1>4, <2>1, GoesOn
  <2>3. Word(b)' = Word(b)
    <3>1. b # a
      BY <1>2, <1>3
    <3> QED
      BY <1>5, <3>1
  <2> QED
    BY <1>1, <1>2, <1>4, <2>2, <2>3, StayInside
<1>7. PICK W : W = {a}
  OBVIOUS
<1>8. /\ W \subseteq Int /\ (\A w \in W : w < Me.sp) /\ (\A w \in Int : w \notin W => Word(w)' = Word(w))
  BY <1>5, <1>7
<1> HIDE DEF Me
<1> QED
  BY <1>1, <1>4, <1>6, <1>8, RunStep DEF Cpu

(* Where the automatics and arguments of the function lie.                 *)
LEMMA SlotIs ==
  ASSUME NEW f \in Programs, FInv(f), phase = "run", cpu.pc # 0,
         NEW t, t = Me.text, NEW pc, pc = cpu.pc,
         Inside(f.code, t), Kept(f.code, pc), f.code[pc].as \in {"SET", "ARG"}
  PROVE  LET c == f.code
             o == code[pc].off
             x == Len(calls)
         IN /\ o = c[pc].off /\ o \in Int /\ o \in Stores(c, t, c[pc].as)
            /\ Within(c, t, pc) /\ Autosize = RoomOf(t)
            /\ c[pc].as = "SET" => /\ o < 0 /\ Low(x) + ptrsize <= Me.sp + o /\ Me.sp + o < Me.sp
                                   /\ cpu.sp + AutoOffset(Autosize, o) = Me.sp + o
            /\ c[pc].as = "ARG" => /\ o >= 0 /\ Low(x) + ptrsize + o + 4 <= Me.sp
                                   /\ cpu.sp = Low(x)
<1> DEFINE c == f.code
           L == Len(calls)
           o == code[pc].off
<1>1. /\ cpu \in Cpu /\ L \in 1..L /\ o \in Int /\ IsProgram(f) /\ Begins(c, t) /\ ptrsize \in {4, 8}
      /\ Len(c) \in Nat /\ DOMAIN c = 1..Len(c) /\ Me = calls[L] /\ Me.sp \in Int
  BY PcInCode, LinkNoopsAssumption, Here, InRun DEF Me
<1>2. PICK u \in DOMAIN c : Body(c, u, pc) /\ Joined(c, t, u)
  BY DEF Inside, InBody
<1>3. pc \in 1..Len(c) /\ Begins(c, u) /\ Within(c, u, pc) /\ u \in 1..pc
  BY <1>1, <1>2, BodyIs DEF Body, Within
<1>4. o = c[pc].off
  BY DEF Kept
<1>5. /\ c[u].off \in Int /\ c[u].off > 0
      /\ c[pc].as = "SET" => o < 0 /\ 0 - o <= c[u].off
      /\ c[pc].as = "ARG" => o >= 0 /\ o + 4 <= c[u].off
  <2>1. /\ c[pc].as = "SET" => c[pc].off < 0 /\ 0 - c[pc].off <= c[u].off
        /\ c[pc].as = "ARG" => c[pc].off >= 0 /\ c[pc].off + 4 <= c[u].off
    BY <1>1, <1>3 DEF IsProgram
  <2>2. c[u].off \in Int
    BY <1>3, ProgramShape DEF Begins
  <2>3. o \in Int
    BY <1>1
  <2> HIDE DEF o
  <2>4. c[u].off > 0
    <3>1. CASE c[pc].as = "SET"
      BY <1>4, <2>1, <2>2, <2>3, <3>1
    <3>2. CASE c[pc].as = "ARG"
      BY <1>4, <2>1, <2>2, <2>3, <3>2
    <3> QED
      BY <3>1, <3>2
  <2> QED
    BY <1>4, <2>1, <2>2, <2>4
<1>6. t = u
  <2>1. t = u \/ c[u].off < 0
    BY <1>1, <1>2, <1>3, SameRoom
  <2> QED
    BY <1>5, <2>1
<1>7. /\ Low(L) = Me.sp - RoomOf(t) /\ RoomOf(t) \in Int /\ cpu.sp = Low(L) /\ Autosize = RoomOf(t)
      /\ RoomOf(t) >= c[t].off + ptrsize
  <2>1. Low(L) = Me.sp - RoomOf(t)
    BY <1>1 DEF Low, RoomIn
  <2>2. RoomOf(t) \in Int /\ RoomOf(t) >= c[t].off + ptrsize
    BY <1>1, <1>5, <1>6, RoomIs
  <2>3. Autosize = RoomOf(t)
    BY <1>2, <1>6, AutosizeIs
  <2> QED
    BY <2>1, <2>2, <2>3 DEF Inside
<1>8. o \in Stores(c, t, c[pc].as)
  BY <1>1, <1>3, <1>4, <1>6 DEF Stores
<1> HIDE DEF o
<1>9. PICK sp \in Int : sp = Me.sp
  BY <1>1
<1>10. PICK room \in Int : room = RoomOf(t)
  BY <1>7
<1>11. PICK size \in Int : size = c[t].off /\ size > 0
  BY <1>5, <1>6
<1>12. c[pc].as = "SET" => /\ o < 0 /\ (sp - room) + ptrsize <= sp + o /\ sp + o < sp
                           /\ (sp - room) + AutoOffset(room, o) = sp + o
  <2> HAVE c[pc].as = "SET"
  <2>1. o < 0 /\ 0 - o <= size /\ room >= size + ptrsize
    BY <1>5, <1>6, <1>7, <1>10, <1>11
  <2>2. (sp - room) + (room + o) = sp + o
    BY <1>1
  <2> QED
    BY <1>1, <2>1, <2>2, SlotSums DEF AutoOffset
<1>13. c[pc].as = "ARG" => o >= 0 /\ (sp - room) + ptrsize + o + 4 <= sp
  <2> HAVE c[pc].as = "ARG"
  <2>1. o >= 0 /\ o + 4 <= size /\ room >= size + ptrsize
    BY <1>5, <1>6, <1>7, <1>10, <1>11
  <2> QED
    BY <1>1, <2>1, SlotSums
<1> QED
  BY <1>1, <1>3, <1>4, <1>6, <1>7, <1>8, <1>9, <1>10, <1>12, <1>13 DEF o

(* What calls is when the innermost one has stored.                        *)
LEMMA NewMe ==
  ASSUME NEW m, m = Len(calls), calls \in Seq(Call), m \in 1..m, NEW x \in Call,
         x.text = Me.text, x.ret = Me.ret, x.sp = Me.sp, calls' = [calls EXCEPT ![m] = x]
  PROVE  /\ calls' \in Seq(Call) /\ Len(calls') = m /\ calls'[m] = x
         /\ \A k \in 1..m - 1 : calls'[k] = calls[k]
         /\ calls'[m].text = Me.text /\ calls'[m].ret = Me.ret /\ calls'[m].sp = Me.sp
<1> HIDE DEF Me
<1>1. m \in Nat
  BY LenProperties
<1>2. /\ [calls EXCEPT ![m] = x] \in Seq(Call)
      /\ Len([calls EXCEPT ![m] = x]) = m
      /\ \A j \in 1..m : [calls EXCEPT ![m] = x][j] = IF j = m THEN x ELSE calls[j]
  BY ExceptSeq
<1>3. calls' \in Seq(Call) /\ Len(calls') = m /\ \A j \in 1..m : calls'[j] = IF j = m THEN x ELSE calls[j]
  BY <1>2
<1>4. \A k \in 1..m - 1 : k \in 1..m /\ k # m
  BY <1>1
<1> QED
  BY <1>3, <1>4

LEMMA SetAutoInv ==
  ASSUME NEW f \in Programs, FInv(f), SetAuto
  PROVE  FInv(f)'
<1> DEFINE c == f.code
<1>1. phase = "run" /\ cpu.pc # 0 /\ code[cpu.pc].as = "SET" /\ UNCHANGED <<noops, phase>>
  BY DEF SetAuto, Running
<1>2. PICK t : t = Me.text
  OBVIOUS
<1>3. PICK pc : pc = cpu.pc
  OBVIOUS
<1>4. PICK L : L = Len(calls)
  OBVIOUS
<1>5. /\ Inside(c, t) /\ Kept(c, pc) /\ c[pc].as = "SET" /\ Begins(c, t)
  BY <1>1, <1>2, <1>3, Here DEF Opcodes
<1>6. /\ L \in 1..L /\ calls \in Seq(Call) /\ Me = calls[L] /\ Me \in Call /\ Me.sp \in Int
      /\ ptrsize \in {4, 8} /\ ptrsize' = ptrsize /\ code' = code /\ Keeps(c, L) /\ Low(L) \in Int
      /\ Me.sets \subseteq Int /\ IsProgram(f)
  <2>1. L \in 1..L /\ calls \in Seq(Call) /\ ptrsize \in {4, 8} /\ Me = calls[L] /\ Me \in Call /\ Me.sp \in Int
        /\ Me.sets \subseteq Int
    BY <1>1, <1>4, InRun DEF Me
  <2> QED
    BY <1>1, <1>4, <2>1, CallIs, LinkNoopsAssumption DEF noops
<1>7. PICK o : o = code[pc].off
  OBVIOUS
<1>8. PICK a : a = Me.sp + o
  OBVIOUS
<1>9. /\ o \in Int /\ o \in Stores(c, t, "SET") /\ Within(c, t, pc) /\ o < 0 /\ o = c[pc].off
      /\ Low(L) + ptrsize <= a /\ a < Me.sp /\ cpu.sp + AutoOffset(Autosize, o) = a
  BY <1>1, <1>2, <1>3, <1>4, <1>5, <1>7, <1>8, SlotIs
<1>10. a \in Int /\ Low(L) < a
  <2>1. a \in Int
    BY <1>6, <1>8, <1>9
  <2> QED
    BY <1>6, <1>9, <2>1
<1>11. Put(a, 4, L)
  BY <1>3, <1>4, <1>7, <1>9 DEF SetAuto, I
<1> DEFINE x == [Me EXCEPT !.sets = @ \cup {o}]
<1>12. /\ x \in Call /\ x.text = Me.text /\ x.ret = Me.ret /\ x.sp = Me.sp
       /\ x.sets = Me.sets \cup {o} /\ x.args = Me.args
  BY <1>6, <1>9 DEF Call
<1>13. calls' = [calls EXCEPT ![L] = x]
  BY <1>3, <1>4, <1>6, <1>7 DEF SetAuto, I
<1> HIDE DEF x
<1>14. /\ calls' \in Seq(Call) /\ Len(calls') = L /\ calls'[L] = x
       /\ \A k \in 1..L - 1 : calls'[k] = calls[k]
       /\ calls'[L].text = Me.text /\ calls'[L].ret = Me.ret /\ calls'[L].sp = Me.sp
  BY <1>4, <1>6, <1>12, <1>13, NewMe
<1>15. Step([cpu EXCEPT !.pc = code[pc].link])
  BY <1>3 DEF SetAuto, I
<1>16. \A w : Word(w)' = IF w = a THEN L ELSE Word(w)
  <2>1. Words(a, 4) = {a}
    BY <1>10, WordsAre
  <2> QED
    BY <1>11, <2>1, PutWord
<1>17. Low(L)' = Low(L)
  BY <1>6, <1>14 DEF Low, RoomIn, RoomOf
<1>18. PICK low \in Int : low = Low(L)
  BY <1>6
<1>19. ASSUME NEW r \in Me.args PROVE Word(low + ptrsize + r)' = -L
  <2>1. r \in Stores(c, t, "ARG")
    BY <1>2, <1>6, <1>19 DEF Keeps
  <2>2. PICK i \in DOMAIN c : Within(c, t, i) /\ c[i].as = "ARG" /\ r = c[i].off
    BY <2>1 DEF Stores
  <2>3. r \in Int /\ c[t].off \in Int /\ t \in 1..i /\ pc \in DOMAIN c /\ r >= 0 /\ r + 4 <= c[t].off
    <3>1. i \in 1..Len(c) /\ t \in 1..i /\ pc \in DOMAIN c
      BY <1>5, <1>9, <2>2, ProgramShape DEF Within, Begins
    <3> QED
      BY <1>5, <1>6, <2>2, <3>1, ProgramShape DEF IsProgram, Begins
  <2>4. r + 4 - o <= c[t].off
    BY <1>5, <1>6, <1>9, <2>2, <2>3 DEF IsProgram
  <2>5. low = Me.sp - RoomOf(t) /\ RoomOf(t) \in Int /\ RoomOf(t) >= c[t].off + ptrsize
    <3>1. low = Me.sp - RoomOf(t)
      BY <1>2, <1>6, <1>18 DEF Low, RoomIn
    <3>2. RoomOf(t) \in Int /\ (c[t].off > 0 => RoomOf(t) >= c[t].off + ptrsize)
      BY <1>1, <1>5, RoomIs
    <3>3. c[t].off > 0
      BY <2>3
    <3> QED
      BY <3>1, <3>2, <3>3
  <2>6. low + ptrsize + r # a
    <3>1. PICK room \in Int : room = RoomOf(t)
      BY <2>5
    <3>2. PICK size \in Int : size = c[t].off
      BY <2>3
    <3>3. PICK sp \in Int : sp = Me.sp
      BY <1>6
    <3>4. r + 4 - o <= size /\ low = sp - room /\ room >= size + ptrsize /\ a = sp + o
      BY <1>8, <2>4, <2>5, <3>1, <3>2, <3>3
    <3>5. r \in Int /\ o \in Int /\ ptrsize \in Int
      BY <1>6, <1>9, <2>3
    <3> QED
      BY <3>4, <3>5
  <2>7. Word(low + ptrsize + r) = -L
    BY <1>6, <1>18, <1>19 DEF Keeps
  <2>8. Word(low + ptrsize + r)' = Word(low + ptrsize + r)
    <3>1. \A w : w = low + ptrsize + r => Word(w)' = Word(w)
      BY <1>16, <2>6
    <3> QED
      BY <1>6, <3>1 DEF Word
  <2> QED
    BY <2>7, <2>8
<1>20. PICK sp \in Int : sp = Me.sp
  BY <1>6
<1>21. ASSUME NEW r \in Me.sets \cup {o} PROVE Word(sp + r)' = L
  <2>1. CASE r = o
    BY <1>8, <1>16, <1>20, <2>1
  <2>2. CASE r \in Me.sets
    <3>1. Word(sp + r) = L
      BY <1>6, <1>20, <2>2 DEF Keeps
    <3> QED
      BY <1>16, <3>1
  <2> QED
    BY <2>1, <2>2
<1>22. Keeps(c, L)'
  <2>1. Begins(c, calls'[L].text) /\ calls'[L].sp % 8 = 0
    BY <1>6, <1>14 DEF Keeps
  <2>2. calls'[L].sets \subseteq Stores(c, calls'[L].text, "SET") /\ calls'[L].args \subseteq Stores(c, calls'[L].text, "ARG")
    BY <1>2, <1>6, <1>9, <1>12, <1>14 DEF Keeps
  <2>3. (\A r \in calls[L].sets : Word(calls[L].sp + r) = L)'
    <3>1. calls'[L].sets = Me.sets \cup {o} /\ calls'[L].sp = sp
      BY <1>12, <1>14, <1>20
    <3> QED
      BY <1>21, <3>1 DEF Word
  <2>4. (\A r \in calls[L].args : Word(Low(L) + ptrsize + r) = -L)'
    <3>1. calls'[L].args = Me.args /\ Low(L)' = low
      BY <1>12, <1>14, <1>17, <1>18
    <3> QED
      BY <1>6, <1>19, <3>1 DEF Word
  <2> QED
    BY <2>1, <2>2, <2>3, <2>4 DEF Keeps
<1> HIDE DEF Me
<1> QED
  BY <1>1, <1>2, <1>3, <1>4, <1>5, <1>9, <1>10, <1>11, <1>14, <1>15, <1>22, StoreStep

LEMMA SetArgumentInv ==
  ASSUME NEW f \in Programs, FInv(f), SetArgument
  PROVE  FInv(f)'
<1> DEFINE c == f.code
<1>1. phase = "run" /\ cpu.pc # 0 /\ code[cpu.pc].as = "ARG" /\ UNCHANGED <<noops, phase>>
  BY DEF SetArgument, Running
<1>2. PICK t : t = Me.text
  OBVIOUS
<1>3. PICK pc : pc = cpu.pc
  OBVIOUS
<1>4. PICK L : L = Len(calls)
  OBVIOUS
<1>5. /\ Inside(c, t) /\ Kept(c, pc) /\ c[pc].as = "ARG" /\ Begins(c, t)
  BY <1>1, <1>2, <1>3, Here DEF Opcodes
<1>6. /\ L \in 1..L /\ calls \in Seq(Call) /\ Me = calls[L] /\ Me \in Call /\ Me.sp \in Int
      /\ ptrsize \in {4, 8} /\ ptrsize' = ptrsize /\ code' = code /\ Keeps(c, L) /\ Low(L) \in Int
      /\ Me.args \subseteq Int /\ IsProgram(f)
  <2>1. L \in 1..L /\ calls \in Seq(Call) /\ ptrsize \in {4, 8} /\ Me = calls[L] /\ Me \in Call /\ Me.sp \in Int
        /\ Me.args \subseteq Int
    BY <1>1, <1>4, InRun DEF Me
  <2> QED
    BY <1>1, <1>4, <2>1, CallIs, LinkNoopsAssumption DEF noops
<1>7. PICK o : o = code[pc].off
  OBVIOUS
<1>8. PICK low \in Int : low = Low(L)
  BY <1>6
<1>9. /\ o \in Int /\ o \in Stores(c, t, "ARG") /\ Within(c, t, pc) /\ o >= 0 /\ o = c[pc].off
      /\ low + ptrsize + o + 4 <= Me.sp /\ cpu.sp = low
  BY <1>1, <1>2, <1>3, <1>4, <1>5, <1>7, <1>8, SlotIs
<1>10. PICK a \in Int : a = low + ptrsize + o
  BY <1>6, <1>9
<1>11. low < a /\ a < Me.sp
  <2>1. PICK sp \in Int : sp = Me.sp
    BY <1>6
  <2>2. low + ptrsize + o + 4 <= sp /\ o >= 0 /\ o \in Int
    BY <1>9, <2>1
  <2> QED
    BY <1>6, <1>10, <2>1, <2>2
<1>12. Put(a, 4, -L)
  BY <1>3, <1>4, <1>7, <1>9, <1>10 DEF SetArgument, I
<1> DEFINE x == [Me EXCEPT !.args = @ \cup {o}]
<1>13. /\ x \in Call /\ x.text = Me.text /\ x.ret = Me.ret /\ x.sp = Me.sp
       /\ x.args = Me.args \cup {o} /\ x.sets = Me.sets
  BY <1>6, <1>9 DEF Call
<1>14. calls' = [calls EXCEPT ![L] = x]
  BY <1>3, <1>4, <1>6, <1>7 DEF SetArgument, I
<1> HIDE DEF x
<1>15. /\ calls' \in Seq(Call) /\ Len(calls') = L /\ calls'[L] = x
       /\ \A k \in 1..L - 1 : calls'[k] = calls[k]
       /\ calls'[L].text = Me.text /\ calls'[L].ret = Me.ret /\ calls'[L].sp = Me.sp
  BY <1>4, <1>6, <1>13, <1>14, NewMe
<1>16. Step([cpu EXCEPT !.pc = code[pc].link])
  BY <1>3 DEF SetArgument, I
<1>17. \A w : Word(w)' = IF w = a THEN -L ELSE Word(w)
  <2>1. Words(a, 4) = {a}
    BY <1>10, WordsAre
  <2> QED
    BY <1>12, <2>1, PutWord
<1>18. Low(L)' = low
  BY <1>6, <1>8, <1>15 DEF Low, RoomIn, RoomOf
<1>19. PICK sp \in Int : sp = Me.sp
  BY <1>6
<1>20. ASSUME NEW r \in Me.sets PROVE Word(sp + r)' = L
  <2>1. r \in Stores(c, t, "SET")
    BY <1>2, <1>6, <1>20 DEF Keeps
  <2>2. PICK i \in DOMAIN c : Within(c, t, i) /\ c[i].as = "SET" /\ r = c[i].off
    BY <2>1 DEF Stores
  <2>3. /\ r \in Int /\ c[t].off \in Int /\ t \in 1..pc /\ pc \in DOMAIN c /\ i \in DOMAIN c
        /\ o + 4 <= c[t].off
    <3>1. i \in 1..Len(c) /\ t \in 1..pc /\ pc \in DOMAIN c
      BY <1>5, <1>9, <2>2, ProgramShape DEF Within, Begins
    <3> QED
      BY <1>5, <1>6, <1>9, <2>2, <3>1, ProgramShape DEF IsProgram, Begins
  <2>4. o + 4 - r <= c[t].off
    BY <1>5, <1>6, <1>9, <2>2, <2>3 DEF IsProgram
  <2>5. low = Me.sp - RoomOf(t) /\ RoomOf(t) \in Int /\ RoomOf(t) >= c[t].off + ptrsize
    <3>1. low = Me.sp - RoomOf(t)
      BY <1>2, <1>6, <1>8 DEF Low, RoomIn
    <3>2. RoomOf(t) \in Int /\ (c[t].off > 0 => RoomOf(t) >= c[t].off + ptrsize)
      BY <1>1, <1>5, RoomIs
    <3>3. c[t].off > 0
      BY <1>9, <2>3
    <3> QED
      BY <3>1, <3>2, <3>3
  <2>6. sp + r # a
    <3>1. PICK room \in Int : room = RoomOf(t)
      BY <2>5
    <3>2. PICK size \in Int : size = c[t].off
      BY <2>3
    <3>3. o + 4 - r <= size /\ low = sp - room /\ room >= size + ptrsize
      BY <1>19, <2>4, <2>5, <3>1, <3>2
    <3>4. r \in Int /\ o \in Int /\ ptrsize \in Int
      BY <1>6, <1>9, <2>3
    <3> QED
      BY <1>10, <3>3, <3>4
  <2>7. Word(sp + r) = L
    BY <1>6, <1>19, <1>20 DEF Keeps
  <2> QED
    BY <1>17, <2>6, <2>7
<1>21. ASSUME NEW r \in Me.args \cup {o} PROVE Word(low + ptrsize + r)' = -L
  <2>1. \A w : w = low + ptrsize + r => Word(w)' = -L
    <3>1. CASE r = o
      BY <1>10, <1>17, <3>1
    <3>2. CASE r \in Me.args
      <4>1. Word(low + ptrsize + r) = -L
        BY <1>6, <1>8, <3>2 DEF Keeps
      <4> QED
        BY <1>17, <4>1
    <3> QED
      BY <3>1, <3>2
  <2> QED
    BY <1>6, <2>1 DEF Word
<1>22. Keeps(c, L)'
  <2>1. Begins(c, calls'[L].text) /\ calls'[L].sp % 8 = 0
    BY <1>6, <1>15 DEF Keeps
  <2>2. calls'[L].sets \subseteq Stores(c, calls'[L].text, "SET") /\ calls'[L].args \subseteq Stores(c, calls'[L].text, "ARG")
    BY <1>2, <1>6, <1>9, <1>13, <1>15 DEF Keeps
  <2>3. (\A r \in calls[L].sets : Word(calls[L].sp + r) = L)'
    <3>1. calls'[L].sets = Me.sets /\ calls'[L].sp = sp
      BY <1>13, <1>15, <1>19
    <3> QED
      BY <1>20, <3>1 DEF Word
  <2>4. (\A r \in calls[L].args : Word(Low(L) + ptrsize + r) = -L)'
    <3>1. calls'[L].args = Me.args \cup {o}
      BY <1>13, <1>15
    <3> QED
      BY <1>6, <1>18, <1>21, <3>1 DEF Word
  <2> QED
    BY <2>1, <2>2, <2>3, <2>4 DEF Keeps
<1> HIDE DEF Me
<1> QED
  BY <1>1, <1>2, <1>3, <1>4, <1>5, <1>8, <1>10, <1>11, <1>12, <1>15, <1>16, <1>22, StoreStep

(* A frame of one more call, or of one less: the others keep theirs.       *)
LEMMA SameKeeps ==
  ASSUME NEW c, NEW k, Keeps(c, k), calls'[k] = calls[k], code' = code, ptrsize' = ptrsize, mem' = mem
  PROVE  Keeps(c, k)' /\ Low(k)' = Low(k) /\ (Saved(k) => Saved(k)')
BY DEF Keeps, Saved, Low, RoomIn, RoomOf, Word

LEMMA CallFunctionInv ==
  ASSUME NEW f \in Programs, FInv(f), CallFunction
  PROVE  FInv(f)'
<1> DEFINE c == f.code
<1>1. phase = "run" /\ cpu.pc # 0 /\ code[cpu.pc].as = "JAL" /\ UNCHANGED <<noops, phase, mem>>
  BY DEF CallFunction, Running
<1>2. PICK t : t = Me.text
  OBVIOUS
<1>3. PICK pc : pc = cpu.pc
  OBVIOUS
<1>4. PICK L : L = Len(calls)
  OBVIOUS
<1>5. /\ Inside(c, t) /\ Kept(c, pc) /\ c[pc].as = "JAL" /\ Begins(c, t)
  BY <1>1, <1>2, <1>3, Here DEF Opcodes, Branches
<1>6. /\ L \in 1..L /\ L \in Nat /\ calls \in Seq(Call) /\ Me = calls[L] /\ TypeOK(f) /\ RunInv(f) /\ Framed(f)
      /\ ptrsize' = ptrsize /\ code' = code /\ mem' = mem /\ phase' = "run"
      /\ p' = p /\ q' = q /\ curtext' = curtext /\ autosize' = autosize
      /\ IsProgram(f) /\ cpu \in Cpu /\ cpu.sp \in Int /\ code[pc].link \in Nat
      /\ Len(c) \in Nat /\ DOMAIN c = 1..Len(c) /\ DOMAIN code = 1..Len(code)
      /\ pc \in 1..Len(c)
  <2>1. /\ L \in 1..L /\ L \in Nat /\ calls \in Seq(Call) /\ Me = calls[L] /\ TypeOK(f) /\ RunInv(f) /\ Framed(f)
        /\ cpu \in Cpu /\ cpu.sp \in Int /\ Len(c) \in Nat /\ DOMAIN c = 1..Len(c) /\ DOMAIN code = 1..Len(code)
    BY <1>1, <1>4, InRun DEF Me, Cpu
  <2>2. code[pc].link \in Nat
    BY <1>1, <1>3, PcInCode
  <2>3. pc \in 1..Len(c)
    BY <1>1, <1>2, <1>3, Here DEF Opcodes, Branches
  <2> QED
    BY <1>1, <2>1, <2>2, <2>3, LinkNoopsAssumption DEF noops
<1>7. PICK g \in {i \in 1..Len(code) : code[i].as = "TEXT" /\ I.cond \in {0, i}} :
        /\ calls' = Append(calls, [text |-> g, ret |-> I.link, sp |-> cpu.sp, sets |-> {}, args |-> {}])
        /\ Step([cpu EXCEPT !.pc = g, !.link = I.link])
  BY DEF CallFunction
<1> DEFINE x == [text |-> g, ret |-> code[pc].link, sp |-> cpu.sp, sets |-> {}, args |-> {}]
<1>8. g \in Nat /\ Begins(c, g) /\ calls' = Append(calls, x) /\ Step([cpu EXCEPT !.pc = g, !.link = code[pc].link])
  <2>1. g \in DOMAIN code /\ code[g].as = "TEXT" /\ g \in Nat
    BY <1>6, <1>7
  <2>2. g \in 1..Len(c) /\ c[g].as = "TEXT"
    BY <1>6, <2>1, Original
  <2> QED
    BY <1>3, <1>6, <1>7, <2>1, <2>2 DEF Begins, I
<1>9. /\ x \in Call /\ x.text = g /\ x.ret = code[pc].link /\ x.sp = cpu.sp /\ x.sets = {} /\ x.args = {}
  BY <1>6, <1>8 DEF Call
<1> HIDE DEF x
<1>10. /\ calls' \in Seq(Call) /\ Len(calls') = L + 1 /\ calls' # <<>> /\ DOMAIN calls' = 1..L + 1
       /\ \A k \in 1..L : calls'[k] = calls[k]
       /\ calls'[L+1] = x
  <2>1. /\ calls' \in Seq(Call) /\ Len(calls') = L + 1 /\ calls' # <<>>
        /\ \A k \in 1..L : calls'[k] = calls[k]
        /\ calls'[L+1] = x
    BY <1>4, <1>6, <1>8, <1>9, AppendProperties
  <2> QED
    BY <2>1, LenProperties
<1>11. cpu' \in Cpu /\ cpu'.pc = g /\ cpu'.sp = cpu.sp /\ cpu'.link = code[pc].link
  BY <1>6, <1>8, GoLink
<1>12. PICK u \in DOMAIN c : Body(c, u, pc) /\ Joined(c, t, u)
  BY <1>3, <1>5 DEF Inside, InBody
<1>13. Within(c, u, pc) /\ u \in 1..pc /\ Begins(c, u)
  BY <1>6, <1>12 DEF Body, Within, Begins
<1>14. t = u
  <2>1. c[u].off >= 0 /\ c[u].off \in Int
    BY <1>5, <1>6, <1>13, ProgramShape DEF IsProgram
  <2>2. t = u \/ c[u].off < 0
    BY <1>1, <1>5, <1>12, <1>13, SameRoom
  <2> QED
    BY <2>1, <2>2
<1>15. ~code[t].leaf
  <2>1. RoomRight(c, t)
    BY <1>1, <1>5, RoomIs
  <2> QED
    BY <1>5, <1>6, <1>13, <1>14, <2>1 DEF RoomRight, Silent
<1>16. cpu.sp = Low(L) /\ Saved(L)
  BY <1>4, <1>5, <1>15 DEF Inside
<1>17. InBody(c, t, code[pc].link)
  BY <1>1, <1>3, <1>5, GoesOn DEF Inside
<1>18. PICK low : low = Low(L)
  OBVIOUS
<1>19. \A k \in 1..L : Keeps(c, k)' /\ Low(k)' = Low(k) /\ (Saved(k) => Saved(k)')
  <2> TAKE k \in 1..L
  <2>1. Keeps(c, k)
    BY <1>1, <1>4, CallIs
  <2> QED
    BY <1>6, <1>10, <2>1, SameKeeps
<1>20. TypeOK(f)'
  BY <1>6, <1>10, <1>11 DEF TypeOK, Cpu
<1>21. Framed(f)'
  BY <1>6, FramedSame
<1>22. Place(c)'
  <2>1. Me' = x
    BY <1>10 DEF Me
  <2>2. AtText(g)' /\ (Me.text = g)'
    BY <1>9, <1>11, <2>1 DEF AtText, Fresh
  <2> QED
    BY <2>2, PlaceAt
<1>23. \A k \in 1..L + 1 : Keeps(c, k)'
  <2> TAKE k \in 1..L + 1
  <2>1. CASE k \in 1..L
    BY <1>19, <2>1
  <2>2. CASE k = L + 1
    <3>1. low % 8 = 0
      BY <1>1, <1>4, <1>6, <1>18, CallIs
    <3>2. calls'[k] = x /\ cpu.sp = low
      BY <1>10, <1>16, <1>18, <2>2
    <3> QED
      BY <1>8, <1>9, <3>1, <3>2 DEF Keeps
  <2> QED
    BY <1>6, <2>1, <2>2
<1>24. \A k \in 1..L :
         /\ calls'[k+1].sp = Low(k)' /\ Saved(k)'
         /\ InBody(c, calls'[k].text, calls'[k+1].ret)
  <2> TAKE k \in 1..L
  <2>1. CASE k = L
    <3>1. calls'[k+1] = x /\ calls'[k] = Me
      BY <1>6, <1>10, <2>1
    <3> QED
      BY <1>2, <1>9, <1>16, <1>17, <1>19, <2>1, <3>1
  <2>2. CASE k # L
    <3>1. k \in 1..L - 1 /\ k + 1 \in 1..L
      BY <1>6, <2>2
    <3>2. calls[k+1].sp = Low(k) /\ Saved(k) /\ InBody(c, calls[k].text, calls[k+1].ret)
      BY <1>4, <1>6, <3>1 DEF RunInv
    <3> QED
      BY <1>10, <1>19, <3>1, <3>2
  <2> QED
    BY <2>1, <2>2
<1>25. \A m, k \in 1..L + 1 : m < k => calls'[k].sp <= Low(m)'
  <2> TAKE m, k \in 1..L + 1
  <2> HAVE m < k
  <2>0. m \in 1..L
    BY <1>6
  <2>1. \A i, j \in 1..L : i < j => calls[j].sp <= Low(i)
    BY <1>4, <1>6, LenProperties DEF RunInv
  <2>2. CASE k \in 1..L
    BY <1>10, <1>19, <2>0, <2>1, <2>2
  <2>3. CASE k = L + 1
    <3>1. calls'[k].sp = low
      BY <1>9, <1>10, <1>16, <1>18, <2>3
    <3>2. low <= calls[L].sp /\ low \in Int /\ calls[L].sp \in Int /\ Low(m) \in Int
      BY <1>1, <1>4, <1>6, <1>18, <2>0, CallIs, InRun
    <3>3. CASE m = L
      BY <1>18, <1>19, <2>0, <3>1, <3>2, <3>3
    <3>4. CASE m # L
      <4>1. m < L
        BY <1>6, <2>0, <3>4
      <4>2. calls[L].sp <= Low(m)
        BY <1>6, <2>0, <2>1, <4>1
      <4>3. low <= Low(m)
        BY <3>2, <4>2
      <4> QED
        BY <1>19, <2>0, <3>1, <4>3
    <3> QED
      BY <3>3, <3>4
  <2> QED
    BY <1>6, <2>2, <2>3
<1>26. calls'[1].ret = 0
  <2>1. calls[1].ret = 0 /\ 1 \in 1..L
    BY <1>4, <1>6, EmptySeq DEF RunInv
  <2> QED
    BY <1>10, <2>1
<1>27. (\A v \in DOMAIN c : Begins(c, v) => v <= curtext)'
  BY <1>6 DEF RunInv, Begins
<1>28. Len(calls') - 1 = L
  BY <1>6, <1>10
<1>29. RunInv(f)'
  BY <1>10, <1>21, <1>22, <1>23, <1>24, <1>25, <1>26, <1>27, <1>28 DEF RunInv, InBody
<1> QED
  BY <1>6, <1>20, <1>29 DEF FInv

LEMMA ReturnInv ==
  ASSUME NEW f \in Programs, FInv(f), Return
  PROVE  FInv(f)'
<1> DEFINE c == f.code
<1>1. phase = "run" /\ cpu.pc # 0 /\ code[cpu.pc].as = "JMPLINK" /\ UNCHANGED <<noops, phase, mem>>
  BY DEF Return, Running
<1>2. PICK L : L = Len(calls)
  OBVIOUS
<1>3. /\ L \in 1..L /\ L \in Nat /\ calls \in Seq(Call) /\ Me = calls[L] /\ TypeOK(f) /\ RunInv(f) /\ Framed(f)
      /\ ptrsize' = ptrsize /\ code' = code /\ mem' = mem /\ phase' = "run"
      /\ p' = p /\ q' = q /\ curtext' = curtext /\ autosize' = autosize
      /\ cpu \in Cpu /\ DOMAIN calls = 1..L /\ calls # <<>>
      /\ \A k \in 1..L : calls[k] \in Call /\ calls[k].ret \in Nat
  BY <1>1, <1>2, InRun DEF Me, noops, Cpu
<1>4. cpu.sp = Me.sp /\ cpu.link = Me.ret
  BY <1>1, Here
<1>5. cpu' \in Cpu /\ cpu'.pc = Me.ret /\ cpu'.sp = Me.sp
  <2>1. Step([cpu EXCEPT !.pc = Me.ret]) /\ Me.ret \in Nat
    BY <1>3, <1>4 DEF Return
  <2> QED
    BY <1>3, <1>4, <2>1, GoTo
<1>6. /\ calls' \in Seq(Call) /\ Len(calls') = L - 1 /\ DOMAIN calls' = 1..L - 1
      /\ \A k \in 1..L - 1 : calls'[k] = calls[k]
  <2>1. calls' = SubSeq(calls, 1, L - 1)
    BY <1>2 DEF Return
  <2>2. /\ SubSeq(calls, 1, L - 1) \in Seq(Call)
        /\ Len(SubSeq(calls, 1, L - 1)) = IF 1 <= L - 1 THEN L - 1 - 1 + 1 ELSE 0
        /\ \A i \in 1..L - 1 - 1 + 1 : SubSeq(calls, 1, L - 1)[i] = calls[1+i-1]
    <3>1. \A i \in 1..L - 1 : calls[i] \in Call
      BY <1>3
    <3> QED
      BY <1>3, <3>1, SubSeqProperties
  <2>3. Len(calls') = L - 1
    BY <1>3, <2>1, <2>2
  <2>4. \A k \in 1..L - 1 : calls'[k] = calls[k]
    BY <1>3, <2>1, <2>2
  <2> QED
    BY <2>1, <2>2, <2>3, <2>4, LenProperties
<1>7. \A k \in 1..L - 1 : k \in 1..L
  BY <1>3
<1>8. \A k \in 1..L - 1 : Keeps(c, k)' /\ Low(k)' = Low(k) /\ (Saved(k) => Saved(k)')
  <2> TAKE k \in 1..L - 1
  <2>1. Keeps(c, k)
    BY <1>1, <1>2, <1>7, CallIs
  <2> QED
    BY <1>3, <1>6, <2>1, SameKeeps
<1>9. TypeOK(f)'
  BY <1>3, <1>5, <1>6 DEF TypeOK, Cpu
<1>10. Framed(f)'
  BY <1>3, FramedSame
<1>11. CASE L = 1
  <2>1. calls' = <<>> /\ 1..L - 1 = {} /\ 1..(L - 1) - 1 = {}
    BY <1>6, <1>11, EmptySeq
  <2>2. cpu'.pc = 0
    BY <1>3, <1>5, <1>11 DEF RunInv
  <2>3. DOMAIN calls' = {} /\ 1..Len(calls') - 1 = {}
    BY <1>6, <2>1
  <2>4. (\A v \in DOMAIN c : Begins(c, v) => v <= curtext)'
    BY <1>3 DEF RunInv, Begins
  <2>5. RunInv(f)'
    BY <1>10, <2>1, <2>2, <2>3, <2>4 DEF RunInv
  <2> QED
    BY <1>3, <1>9, <2>5 DEF FInv
<1>12. CASE L # 1
  <2>1. PICK K : K = L - 1
    OBVIOUS
  <2>2. K \in 1..L - 1 /\ K \in Nat /\ K + 1 = L /\ K > 0
    BY <1>3, <1>12, <2>1
  <2>3. Me.sp = Low(K) /\ Saved(K) /\ InBody(c, calls[K].text, Me.ret)
    BY <1>2, <1>3, <2>1, <2>2 DEF RunInv
  <2>4. Me' = calls'[K] /\ calls'[K] = calls[K] /\ Len(calls') = K
    BY <1>6, <2>1, <2>2 DEF Me
  <2>5. PICK t : t = calls[K].text
    OBVIOUS
  <2>6. ~code[t].leaf
    BY <2>3, <2>5 DEF Saved
  <2>7. /\ InBody(c, t, cpu'.pc) /\ cpu'.sp = Low(Len(calls))' /\ Saved(Len(calls))' /\ ~code'[t].leaf
    <3>1. Low(K)' = Low(K) /\ Saved(K)'
      BY <1>8, <2>2, <2>3
    <3>2. Low(Len(calls))' = Low(K)' /\ (Saved(Len(calls))' <=> Saved(K)')
      BY <2>4 DEF Low, Saved, RoomIn, RoomOf, Word
    <3> QED
      BY <1>3, <1>5, <2>3, <2>5, <2>6, <3>1, <3>2
  <2>8. Inside(c, t)'
    BY <2>7 DEF Inside, InBody
  <2>9. Place(c)'
    BY <2>4, <2>5, <2>8, PlaceAt
  <2>10. \A k \in 1..K - 1 :
           /\ calls'[k+1].sp = Low(k)' /\ Saved(k)'
           /\ InBody(c, calls'[k].text, calls'[k+1].ret)
    <3> TAKE k \in 1..K - 1
    <3>1. k \in 1..L - 1 /\ k + 1 \in 1..L - 1
      BY <1>3, <2>1, <2>2
    <3>2. calls[k+1].sp = Low(k) /\ Saved(k) /\ InBody(c, calls[k].text, calls[k+1].ret)
      BY <1>2, <1>3, <3>1 DEF RunInv
    <3> QED
      BY <1>6, <1>8, <3>1, <3>2
  <2>11. \A m, k \in 1..L - 1 : m < k => calls'[k].sp <= Low(m)'
    <3> TAKE m, k \in 1..L - 1
    <3> HAVE m < k
    <3>1. calls[k].sp <= Low(m)
      BY <1>3, <1>7 DEF RunInv
    <3> QED
      BY <1>6, <1>8, <3>1
  <2>12. calls'[1].ret = 0
    <3>1. calls[1].ret = 0 /\ 1 \in 1..L - 1
      BY <1>3, <2>1, <2>2 DEF RunInv
    <3> QED
      BY <1>6, <3>1
  <2>13. (\A v \in DOMAIN c : Begins(c, v) => v <= curtext)'
    BY <1>3 DEF RunInv, Begins
  <2>14. calls' # <<>>
    BY <2>2, <2>4, EmptySeq
  <2>15. RunInv(f)'
    BY <1>6, <1>8, <1>10, <2>1, <2>4, <2>9, <2>10, <2>11, <2>12, <2>13, <2>14 DEF RunInv, InBody
  <2> QED
    BY <1>3, <1>9, <2>15 DEF FInv
<1> QED
  BY <1>11, <1>12

-----------------------------------------------------------------------------
(* The invariant of the whole.                                             *)

LEMMA StutterInv ==
  ASSUME NEW f \in Programs, FInv(f), UNCHANGED vars
  PROVE  FInv(f)'
<1>1. /\ code' = code /\ ptrsize' = ptrsize /\ p' = p /\ q' = q /\ curtext' = curtext
      /\ autosize' = autosize /\ phase' = phase /\ cpu' = cpu /\ mem' = mem /\ calls' = calls
  BY DEF vars
<1>2. TypeOK(f)'
  BY <1>1 DEF FInv, TypeOK
<1>3. (phase = "leaves" => Leaves(f))'
  <2> SUFFICES ASSUME phase = "leaves" PROVE Leaves(f)'
    BY <1>1
  <2>1. Leaves(f)
    BY DEF FInv
  <2>2. \A i \in 1..Len(f.code) : Kept(f.code, i)'
    BY <1>1, <2>1, KeptSame DEF Leaves
  <2> QED
    BY <1>1, <2>1, <2>2 DEF Leaves, Begins
<1>4. (phase = "frames" => Frames(f))'
  <2>1. phase = "frames" => Framed(f)'
    BY <1>1, FramedSame DEF FInv, Frames
  <2> QED
    BY <1>1, <2>1, KeptSame DEF FInv, Frames, RoomOf
<1>5. (phase = "run" => RunInv(f))'
  <2> SUFFICES ASSUME phase = "run" PROVE RunInv(f)'
    BY <1>1
  <2>1. Framed(f)' /\ RunInv(f)
    BY <1>1, FramedSame DEF FInv, RunInv
  <2>2. \A k \in DOMAIN calls : Keeps(f.code, k)' /\ Low(k)' = Low(k) /\ (Saved(k) => Saved(k)')
    BY <1>1, <2>1, SameKeeps DEF RunInv
  <2>3. Place(f.code) => Place(f.code)'
    BY <1>1 DEF Place, AtText, AtMake, AtSave, Inside, AtFree, AtLeave, Fresh, Me, Low, RoomIn, RoomOf,
                InBody, Saved, Word, Inserted
  <2> QED
    BY <1>1, <2>1, <2>2, <2>3 DEF RunInv, InBody, Begins
<1> QED
  BY <1>2, <1>3, <1>4, <1>5 DEF FInv

LEMMA StepInv ==
  ASSUME NEW f \in Programs, FInv(f), [Next]_vars
  PROVE  FInv(f)'
<1>1. CASE Loops
  BY <1>1, LeafTextInv, StripNopInv, MarkBranchInv, LeaveAloneInv, EndLeavesInv,
     FrameTextInv, ExpandReturnInv, KeepInv, EndFramesInv DEF Loops
<1>2. CASE Run
  BY <1>2, StraightInv, MoveStackInv, SaveLinkInv, GetLinkInv, SetAutoInv, SetArgumentInv,
     CallFunctionInv, BranchInv, ReturnInv DEF Run
<1>3. CASE UNCHANGED vars
  BY <1>3, StutterInv
<1> QED
  BY <1>1, <1>2, <1>3 DEF Next

(* noops makes of every program one whose control, frames and links are as *)
(* IInv says, and the program keeps them so as it runs.                    *)
THEOREM Invariance == Spec => []IInv
<1>1. Init => IInv
  BY InitInv
<1>2. IInv /\ [Next]_vars => IInv'
  BY StepInv DEF IInv
<1> QED
  BY <1>1, <1>2, PTL DEF Spec

(* JR of a return, whatever way through the function led to it (MOV of the *)
(* link, ADD of autosize, as noops put them): control goes behind the JAL  *)
(* of the call, with the stack pointer of the caller.                      *)
THEOREM ReturnsAreRight == Spec => []ReturnsRight
<1>1. IInv => ReturnsRight
  <2> SUFFICES ASSUME IInv, Running({"JMPLINK"})
               PROVE  cpu.link = Me.ret /\ cpu.sp = Me.sp
    BY DEF ReturnsRight
  <2>1. PICK f \in Programs : FInv(f)
    BY DEF IInv
  <2>2. phase = "run" /\ cpu.pc # 0 /\ code[cpu.pc].as = "JMPLINK"
    BY DEF Running
  <2> QED
    BY <2>1, <2>2, Here
<1> QED
  BY <1>1, Invariance, PTL

(* What a function has stored in automatics and as arguments is there as   *)
(* long as it has not returned, at the addresses aclass gives them in its  *)
(* frame and, for arguments, in that of the function it calls.             *)
THEOREM FramesAreOwn == Spec => []OwnFrame
<1>1. IInv => OwnFrame
  <2> SUFFICES ASSUME IInv, phase = "run", NEW n \in 1..Len(calls)
               PROVE  /\ calls[n].sp % 8 = 0
                      /\ \A o \in calls[n].sets : Word(calls[n].sp + o) = n
                      /\ n < Len(calls) => \A o \in calls[n].args : Word(calls[n+1].sp + ptrsize + o) = -n
                      /\ Running({"PARAM"}) /\ n = Len(calls) - 1 /\ I.off \in calls[n].args =>
                           Word(cpu.sp + ParamOffset(Autosize, I.off)) = -n
    BY DEF OwnFrame
  <2>1. PICK f \in Programs : FInv(f)
    BY DEF IInv
  <2> DEFINE c == f.code
             L == Len(calls)
  <2>2. RunInv(f) /\ L \in Nat /\ ptrsize \in {4, 8}
    BY <2>1, InRun
  <2>3. Keeps(c, n)
    BY <2>1, CallIs
  <2>4. n < L => calls[n+1].sp = Low(n)
    <3> HAVE n < L
    <3>1. n \in 1..L - 1
      BY <2>2
    <3> QED
      BY <2>2, <3>1 DEF RunInv
  <2>5. n < L => \A o \in calls[n].args : Word(calls[n+1].sp + ptrsize + o) = -n
    BY <2>3, <2>4 DEF Keeps
  <2>6. ASSUME Running({"PARAM"}), n = L - 1, I.off \in calls[n].args
        PROVE  Word(cpu.sp + ParamOffset(Autosize, I.off)) = -n
    <3>1. cpu.pc # 0 /\ code[cpu.pc].as = "PARAM"
      BY <2>6 DEF Running
    <3>2. PICK t : t = Me.text
      OBVIOUS
    <3>3. Inside(c, t) /\ Begins(c, t)
      BY <2>1, <3>1, <3>2, Here DEF Opcodes
    <3>4. PICK u \in DOMAIN c : Body(c, u, cpu.pc) /\ Joined(c, t, u)
      BY <3>3 DEF Inside, InBody
    <3>5. Autosize = RoomOf(t) /\ RoomOf(t) \in Int
      <4>1. Begins(c, u)
        BY <2>1, <3>4, BodyIs
      <4>2. RoomOf(u) = RoomOf(t)
        BY <2>1, <3>3, <3>4, <4>1, SameRoom
      <4>3. Autosize = RoomOf(u)
        BY <2>1, <3>1, <3>4, AutosizeIs
      <4> QED
        BY <2>1, <3>3, <4>2, <4>3, RoomIs
    <3>6. cpu.sp = Me.sp - RoomOf(t) /\ Me.sp \in Int /\ Me = calls[n+1]
      <4>1. Me = calls[L] /\ n + 1 = L /\ L \in 1..L
        BY <2>2, <2>6 DEF Me
      <4>2. cpu.sp = Low(L)
        BY <3>3 DEF Inside
      <4> QED
        BY <2>1, <3>2, <4>1, <4>2, InRun DEF Low, RoomIn
    <3>7. PICK o \in calls[n].args : o = I.off
      BY <2>6
    <3>8. o \in Int
      BY <2>1, CallIs
    <3>9. cpu.sp + ParamOffset(Autosize, I.off) = calls[n+1].sp + ptrsize + o
      <4>1. PICK sp \in Int : sp = calls[n+1].sp
        BY <3>6
      <4>2. PICK room \in Int : room = RoomOf(t)
        BY <3>5
      <4>3. (sp - room) + (room + o + ptrsize) = sp + ptrsize + o
        BY <2>2, <3>8
      <4> QED
        BY <3>5, <3>6, <3>7, <4>1, <4>2, <4>3 DEF ParamOffset
    <3>10. n < L
      BY <2>2, <2>6
    <3> QED
      BY <2>5, <3>7, <3>9, <3>10
  <2> QED
    BY <2>3, <2>5, <2>6 DEF Keeps
<1> QED
  BY <1>1, Invariance, PTL
=============================================================================
