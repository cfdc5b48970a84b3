--------------------------- MODULE LinkSpan_proofs ---------------------------
(***************************************************************************)
(* What span does to a program, for every program, every reach of the      *)
(* branches and however many passes it takes: control goes where it went,  *)
(* from pass to pass no instruction moves down, the branches it leaves     *)
(* reach, and asmb finds everything where span put it.                     *)
(***************************************************************************)
EXTENDS LinkSpan, SequenceTheorems, WellFoundedInduction, TLAPS

Instr == [as : Opcodes, cond : Nat]

TypeOK ==
  /\ program \in Programs /\ nocompress \in Options
  /\ code \in Seq(Instr) /\ Len(program) <= Len(code)
  /\ link \in Seq(Nat) /\ Len(link) = Len(code)
  /\ pc \in Seq(Nat) /\ Len(pc) = Len(code)
  /\ compr \subseteq DOMAIN code /\ seen \subseteq DOMAIN code /\ far \subseteq DOMAIN code
  /\ spass \in BOOLEAN /\ bflag \in BOOLEAN
  /\ phase \in {"first", "expand", "asm", "done"}
  /\ p \in 0..Len(code) /\ c \in Nat /\ otxt \in Nat
  /\ diags \subseteq {"phase error", "branch out of range", "jump out of range"}

(* The instructions are one chain that starts at the first: no two have    *)
(* the same successor, and none leads back to the first.                   *)
Chained ==
  /\ \A i \in DOMAIN link : link[i] \in 0..Len(link) /\ link[i] # 1 /\ link[i] # i
  /\ \A i, k \in DOMAIN link : link[i] = link[k] /\ link[i] # None => i = k

(* What the passes may have done to an instruction; an inserted jump leads *)
(* to what was there before it.                                            *)
Rewritten ==
  /\ \A i \in DOMAIN program :
       IF program[i].as \in Conditional
         THEN /\ code[i].as \in {program[i].as, relinv(program[i].as)}
              /\ code[i].cond <= Len(code)
         ELSE code[i] = program[i]
  /\ \A i \in DOMAIN code \ DOMAIN program :
       code[i].as = "JMP" /\ code[i].cond < i

(* to says where control arrives.                                          *)
Solves(to, now, prog) ==
  to = [i \in 0..Len(now) |-> IF i <= Len(prog) THEN i ELSE to[now[i].cond]]

Shape == TypeOK /\ Chained /\ Rewritten

FlowInv == Shape /\ Solves(Carried(code, program), code, program) /\ FlowKept

(* What the layout counts for an instruction.                              *)
Bytes(i) == IF i \in compr THEN 2 ELSE Size(i)

(* The address of i when the one before it ends at a.                      *)
At(i, a) == IF code[i].as = "TEXT" THEN Align4(a) ELSE a

(* Of an instruction and its successor one is where it was put in this     *)
(* pass and the other there or lower: the layout never has to take back.   *)
Spread ==
  /\ \A i \in DOMAIN link :
       link[i] # None =>
         IF link[i] = p THEN c = pc[i] + Bytes(i)
                        ELSE pc[link[i]] <= At(link[i], pc[i] + Bytes(i))
  /\ p # None => pc[p] <= At(p, c)
  /\ p = 1 => c = 0
  /\ pc[1] = 0

(* The first pass finds no addresses, and no jump is inserted in it.       *)
Fresh ==
  /\ Len(code) = Len(program) /\ far = {}
  /\ \A i \in DOMAIN link : link[i] = IF i = Len(program) THEN None ELSE i + 1
  /\ p # None => \A i \in DOMAIN pc : i >= p => pc[i] = 0 /\ i \notin compr

LayoutInv ==
  /\ Shape
  /\ phase = "first" => Fresh
  /\ phase \in {"first", "expand"} => Spread

-----------------------------------------------------------------------------
LEMMA NatLess == IsWellFoundedOn({ss \in Nat \X Nat : ss[1] < ss[2]}, Nat)
  BY NatLessThanWellFounded DEF OpToRel

LEMMA Least ==
  ASSUME NEW S, S # {}, S \subseteq Nat
  PROVE  \E m \in S : \A k \in S : m <= k
<1> DEFINE Less == {ss \in Nat \X Nat : ss[1] < ss[2]}
<1>1. IsWellFoundedOn(Less, Nat)
  BY NatLess
<1> HIDE DEF Less
<1>2. PICK m \in S : \A k \in S : ~(<<k, m>> \in Less)
  BY <1>1, WFMin
<1>3. \A k \in S : ~(k < m)
  <2> TAKE k \in S
  <2>1. ~(<<k, m>> \in Less)
    BY <1>2
  <2>2. <<k, m>> \in Nat \X Nat
    OBVIOUS
  <2> QED
    BY <2>1, <2>2 DEF Less
<1>4. \A k \in S : m <= k
  <2> TAKE k \in S
  <2>1. ~(k < m) /\ k \in Nat /\ m \in Nat
    BY <1>3
  <2> QED
    BY <2>1
<1> QED
  BY <1>4

(* The reciprocal branch is another one, and its reciprocal is the first.  *)
LEMMA Reciprocal ==
  ASSUME NEW as \in Conditional
  PROVE  /\ relinv(as) \in Conditional
         /\ relinv(as) # as
         /\ relinv(relinv(as)) = as
  BY DEF Conditional, relinv

(* Conditional branches are none of the others.                            *)
LEMMA Kinds ==
  /\ Conditional \subseteq Opcodes /\ Jumps \subseteq Opcodes
  /\ "TEXT" \notin Conditional \cup Jumps /\ "TEXT" \in Opcodes
  /\ "JMP" \in Jumps /\ Conditional \cap Jumps = {}
  BY DEF Conditional, Jumps, Opcodes, Straight

(* What the assumption on the constants says of the program at hand.       *)
LEMMA ProgramShape ==
  ASSUME program \in Programs
  PROVE  /\ program \in Seq(Instr) /\ Len(program) \in Nat /\ 1 \in DOMAIN program
         /\ program[1].as = "TEXT"
         /\ \A i \in DOMAIN program :
              program[i].as \in Conditional => program[i].cond \in DOMAIN program
<1>1. IsProgram(program)
  BY LinkSpanAssumption
<1>2. program \in Seq(Instr) /\ program # <<>> /\ program[1].as = "TEXT"
  BY <1>1 DEF IsProgram, Instr
<1>3. 1 \in DOMAIN program
  BY <1>2
<1>4. \A i \in DOMAIN program : program[i].as \in Conditional => program[i].cond \in DOMAIN program
  BY <1>1 DEF IsProgram
<1> QED
  BY <1>2, <1>3, <1>4

LEMMA Sizes ==
  ASSUME NEW i \in DOMAIN code, code \in Seq(Instr)
  PROVE  /\ Size(i) \in Nat /\ Bytes(i) \in Nat
         /\ code[i].as \in Conditional => Size(i) = 4
         /\ code[i].as \in Jumps => Size(i) = IF i \in far THEN 8 ELSE 4
         /\ (code[i].as \in Conditional \cup Jumps /\ i \notin far) => Bytes(i) <= 4
<1>0. code[i] \in Instr
  OBVIOUS
<1>1. code[i].as \in Opcodes
  BY <1>0 DEF Instr
<1>2. Size(i) \in {0, 4, 8, 12}
  BY <1>1 DEF Size, Opcodes, Straight, Conditional, Jumps
<1>3. code[i].as \in Conditional => Size(i) = 4
  <2>1. ASSUME code[i].as \in Conditional  PROVE code[i].as \notin {"TEXT", "WORD8", "WORD12"} \cup Jumps
    BY <2>1 DEF Conditional, Jumps
  <2> QED
    BY <2>1 DEF Size
<1>4. code[i].as \in Jumps => Size(i) = IF i \in far THEN 8 ELSE 4
  BY DEF Size, Conditional, Jumps
<1> QED
  BY <1>2, <1>3, <1>4 DEF Bytes

LEMMA Aligned ==
  ASSUME NEW a \in Nat, NEW b \in Nat, a <= b
  PROVE  /\ Align4(a) \in Nat /\ a <= Align4(a) /\ Align4(a) <= Align4(b)
  BY DEF Align4

LEMMA Ats ==
  ASSUME NEW i, NEW a \in Nat, NEW b \in Nat, a <= b
  PROVE  At(i, a) \in Nat /\ At(i, a) <= At(i, b)
  BY Aligned DEF At

LEMMA PlacedAt ==
  /\ Placed(p) = At(p, c)
  /\ (c \in Nat => Placed(p) \in Nat)
  BY Aligned DEF Placed, At

LEMMA MeasuredType ==
  ASSUME pc \in Seq(Nat), c \in Nat, p \in DOMAIN pc
  PROVE  /\ Measured \in Seq(Nat) /\ DOMAIN Measured = DOMAIN pc
         /\ Measured[p] \in {pc[p], c}
  BY DEF Measured
-----------------------------------------------------------------------------
(* Two answers to where control arrives are one: a jump leads to what was  *)
(* there before it.                                                        *)
LEMMA OneAnswer ==
  ASSUME NEW now \in Seq(Instr), NEW prog \in Seq(Instr), Len(prog) <= Len(now),
         \A i \in DOMAIN now \ DOMAIN prog : now[i].cond < i,
         NEW f, Solves(f, now, prog), NEW g, Solves(g, now, prog)
  PROVE  f = g
<1> DEFINE D == 0..Len(now)
           Differ == {i \in D : f[i] # g[i]}
<1>1. /\ f = [i \in D |-> IF i <= Len(prog) THEN i ELSE f[now[i].cond]]
      /\ g = [i \in D |-> IF i <= Len(prog) THEN i ELSE g[now[i].cond]]
  BY DEF Solves
<1>2. \A i \in D : f[i] = IF i <= Len(prog) THEN i ELSE f[now[i].cond]
  BY <1>1
<1>3. \A i \in D : g[i] = IF i <= Len(prog) THEN i ELSE g[now[i].cond]
  BY <1>1
<1>4. Differ = {}
  <2>1. SUFFICES ASSUME Differ # {}  PROVE FALSE
    OBVIOUS
  <2>2. PICK m \in Differ : \A k \in Differ : m <= k
    <3>1. Differ \subseteq Nat
      OBVIOUS
    <3> HIDE DEF Differ
    <3> QED
      BY <2>1, <3>1, Least
  <2>3. m \in D /\ m > Len(prog)
    BY <1>2, <1>3
  <2>4. now[m].cond \in Nat /\ now[m].cond < m
    <3>1. m \in DOMAIN now \ DOMAIN prog /\ now[m] \in Instr
      BY <2>3
    <3> QED
      BY <3>1 DEF Instr
  <2>5. f[now[m].cond] = g[now[m].cond]
    BY <2>2, <2>3, <2>4
  <2> QED
    BY <1>2, <1>3, <2>2, <2>3, <2>5
<1>5. \A i \in D : f[i] = g[i]
  BY <1>4
<1> QED
  BY <1>1, <1>5

(* If there is an answer, Carried is it.                                   *)
LEMMA Answer ==
  ASSUME NEW now, NEW prog, NEW f, Solves(f, now, prog)
  PROVE  Solves(Carried(now, prog), now, prog)
  BY DEF Solves, Carried

(* One more jump: nothing that was there arrives elsewhere, and the jump   *)
(* arrives where its target does.                                          *)
LEMMA OneMoreJump ==
  ASSUME NEW was \in Seq(Instr), NEW prog \in Seq(Instr), Len(prog) <= Len(was),
         \A i \in DOMAIN was \ DOMAIN prog : was[i].cond < i,
         Solves(Carried(was, prog), was, prog),
         NEW now \in Seq(Instr), Len(now) = Len(was) + 1,
         now[Len(now)].cond <= Len(was),
         \A i \in DOMAIN was \ DOMAIN prog : now[i] = was[i]
  PROVE  /\ Solves(Carried(now, prog), now, prog)
         /\ \A i \in 0..Len(was) : Carried(now, prog)[i] = Carried(was, prog)[i]
         /\ Carried(now, prog)[Len(now)] = Carried(was, prog)[now[Len(now)].cond]
<1> DEFINE D  == 0..Len(was)
           E  == 0..Len(now)
           a  == Carried(was, prog)
           to == [i \in E |-> IF i \in D THEN a[i] ELSE a[now[i].cond]]
<1>1. a = [i \in D |-> IF i <= Len(prog) THEN i ELSE a[was[i].cond]]
  BY DEF Solves
<1>2. \A i \in D : a[i] = IF i <= Len(prog) THEN i ELSE a[was[i].cond]
  BY <1>1
<1> HIDE DEF a
<1>3. E = D \cup {Len(now)} /\ Len(now) \notin D /\ Len(now) > Len(prog)
  OBVIOUS
<1>4. \A i \in E : to[i] = IF i <= Len(prog) THEN i ELSE to[now[i].cond]
  <2>1. SUFFICES ASSUME NEW i \in E  PROVE to[i] = IF i <= Len(prog) THEN i ELSE to[now[i].cond]
    OBVIOUS
  <2>2. CASE i \in D /\ i <= Len(prog)
    BY <1>2, <2>2
  <2>3. CASE i \in D /\ i > Len(prog)
    <3>1. i \in DOMAIN was \ DOMAIN prog /\ was[i] \in Instr
      BY <2>3
    <3>2. now[i] = was[i] /\ was[i].cond \in D
      BY <3>1 DEF Instr
    <3> QED
      BY <1>2, <2>3, <3>2
  <2>4. CASE i = Len(now)
    <3>1. now[i] \in Instr
      BY <2>4
    <3>2. now[i].cond \in D
      BY <2>4, <3>1 DEF Instr
    <3> QED
      BY <1>3, <2>4, <3>2
  <2> QED
    BY <1>3, <2>2, <2>3, <2>4
<1>5. Solves(to, now, prog)
  BY <1>4, Zenon DEF Solves
<1>6. Solves(Carried(now, prog), now, prog)
  BY <1>5, Answer, Zenon
<1>7. ASSUME NEW i \in DOMAIN now \ DOMAIN prog  PROVE now[i].cond < i
  <2>1. CASE i = Len(now)
    <3>1. now[i] \in Instr
      OBVIOUS
    <3> QED
      BY <2>1, <3>1 DEF Instr
  <2>2. CASE i # Len(now)
    BY <2>2
  <2> QED
    BY <2>1, <2>2
<1>8. Carried(now, prog) = to
  BY <1>5, <1>6, <1>7, OneAnswer
<1> QED
  BY <1>3, <1>6, <1>8 DEF a
-----------------------------------------------------------------------------
LEMMA FunctionSeq ==
  ASSUME NEW S, NEW n \in Nat, NEW f \in [1..n -> S]
  PROVE  f \in Seq(S) /\ Len(f) = n /\ DOMAIN f = 1..n
<1>1. f \in Seq(S)
  BY SeqDef
<1>2. Len(f) \in Nat /\ 1..Len(f) = 1..n
  BY <1>1, LenProperties
<1> QED
  BY <1>1, <1>2

LEMMA OneToTheNext ==
  ASSUME NEW n \in Nat, NEW f, f = [i \in 1..n |-> IF i = n THEN None ELSE i + 1]
  PROVE  /\ f \in Seq(Nat) /\ Len(f) = n /\ DOMAIN f = 1..n
         /\ \A i \in 1..n : f[i] = IF i = n THEN None ELSE i + 1
         /\ \A i \in 1..n : f[i] \in 0..n /\ f[i] # 1 /\ f[i] # i
         /\ \A i, k \in 1..n : f[i] = f[k] /\ f[i] # None => i = k
<1>1. f \in [1..n -> Nat]
  BY DEF None
<1>2. \A i \in 1..n : f[i] = IF i = n THEN None ELSE i + 1
  OBVIOUS
<1> QED
  BY <1>1, <1>2, FunctionSeq DEF None

LEMMA InitShape == Init => Shape
<1> SUFFICES ASSUME Init  PROVE Shape
  OBVIOUS
<1> DEFINE n == Len(program)
<1>1. program \in Seq(Instr) /\ n \in Nat /\ 1 \in DOMAIN program
  BY ProgramShape DEF Init
<1>2. \A i \in DOMAIN program :
        program[i].as \in Conditional => program[i].cond \in DOMAIN program
  BY ProgramShape DEF Init
<1>3. code = program /\ DOMAIN program = 1..n
  BY <1>1 DEF Init
<1>4. /\ link \in Seq(Nat) /\ Len(link) = n /\ DOMAIN link = 1..n
      /\ \A i \in 1..n : link[i] \in 0..n /\ link[i] # 1 /\ link[i] # i
      /\ \A i, k \in 1..n : link[i] = link[k] /\ link[i] # None => i = k
  <2>1. link = [i \in 1..n |-> IF i = n THEN None ELSE i + 1]
    BY <1>3 DEF Init
  <2> HIDE DEF n
  <2> QED
    BY <1>1, <2>1, OneToTheNext
<1>5. pc \in Seq(Nat) /\ Len(pc) = n
  <2>1. pc \in [1..n -> Nat]
    BY <1>3 DEF Init
  <2> HIDE DEF n
  <2> QED
    BY <1>1, <2>1, FunctionSeq
<1>6. spass \in BOOLEAN /\ bflag \in BOOLEAN
  BY Zenon DEF Init
<1>7. /\ program \in Programs /\ nocompress \in Options
      /\ compr = {} /\ seen = {} /\ far = {} /\ diags = {}
      /\ phase = "first" /\ p = 1 /\ c = 0 /\ otxt = 0
  BY DEF Init
<1>8. TypeOK
  BY <1>1, <1>3, <1>4, <1>5, <1>6, <1>7 DEF TypeOK
<1>9. Chained
  BY <1>1, <1>4 DEF Chained
<1>10. Rewritten
  BY <1>1, <1>2, <1>3 DEF Rewritten
<1> QED
  BY <1>8, <1>9, <1>10 DEF Shape

LEMMA Lens ==
  ASSUME TypeOK
  PROVE  /\ code \in Seq(Instr) /\ link \in Seq(Nat) /\ pc \in Seq(Nat) /\ program \in Seq(Instr)
         /\ Len(link) = Len(code) /\ Len(pc) = Len(code) /\ Len(code) \in Nat /\ c \in Nat
         /\ DOMAIN code = 1..Len(code) /\ DOMAIN pc = 1..Len(code) /\ DOMAIN link = 1..Len(code)
         /\ DOMAIN program = 1..Len(program) /\ Len(program) <= Len(code) /\ Len(program) \in Nat
         /\ compr \subseteq 1..Len(code) /\ seen \subseteq 1..Len(code) /\ far \subseteq 1..Len(code)
         /\ p \in 0..Len(code) /\ 1 \in DOMAIN program
<1>1. /\ code \in Seq(Instr) /\ link \in Seq(Nat) /\ pc \in Seq(Nat)
      /\ Len(link) = Len(code) /\ Len(pc) = Len(code) /\ Len(program) <= Len(code)
      /\ p \in 0..Len(code) /\ c \in Nat
  BY DEF TypeOK
<1>2. compr \subseteq DOMAIN code /\ seen \subseteq DOMAIN code /\ far \subseteq DOMAIN code
  BY DEF TypeOK
<1>3. program \in Seq(Instr) /\ Len(program) \in Nat /\ 1 \in DOMAIN program
  BY ProgramShape DEF TypeOK
<1>4. /\ Len(code) \in Nat /\ DOMAIN code = 1..Len(code) /\ DOMAIN pc = 1..Len(code)
      /\ DOMAIN link = 1..Len(code) /\ DOMAIN program = 1..Len(program)
  BY <1>1, <1>3, LenProperties
<1> QED
  BY <1>1, <1>2, <1>3, <1>4

(* Where p stands there is an instruction.                                 *)
LEMMA AtP ==
  ASSUME TypeOK, p # None
  PROVE  /\ p \in DOMAIN code /\ p \in DOMAIN pc /\ p \in DOMAIN link
         /\ DOMAIN code = 1..Len(code) /\ DOMAIN pc = 1..Len(code) /\ DOMAIN link = 1..Len(code)
         /\ code[p] \in Instr /\ code[p].as \in Opcodes /\ code[p].cond \in Nat
         /\ pc[p] \in Nat /\ Placed(p) \in Nat /\ Size(p) \in Nat
<1>0. /\ code \in Seq(Instr) /\ link \in Seq(Nat) /\ pc \in Seq(Nat)
      /\ Len(link) = Len(code) /\ Len(pc) = Len(code) /\ p \in 0..Len(code) /\ c \in Nat
  BY DEF TypeOK
<1>1. p \in 1..Len(code)
  BY <1>0, LenProperties DEF None
<1>2. /\ p \in DOMAIN code /\ p \in DOMAIN pc /\ p \in DOMAIN link
      /\ DOMAIN code = 1..Len(code) /\ DOMAIN pc = 1..Len(code) /\ DOMAIN link = 1..Len(code)
      /\ pc[p] \in Nat
  BY <1>0, <1>1
<1>3. code[p] \in Instr
  BY <1>0, <1>1
<1>4. code[p].as \in Opcodes /\ code[p].cond \in Nat
  BY <1>3 DEF Instr
<1> QED
  BY <1>0, <1>1, <1>2, <1>3, <1>4, Sizes, PlacedAt

(* A step that leaves the instructions where they are.                     *)
LEMMA SameCode ==
  ASSUME Shape, UNCHANGED <<program, nocompress, code, link>>, TypeOK'
  PROVE  Shape'
<1>1. Chained'
  BY DEF Shape, Chained
<1>2. Rewritten'
  BY DEF Shape, Rewritten
<1> QED
  BY <1>1, <1>2 DEF Shape

(* What the iterations that insert nothing have in common.                 *)
LEMMA PlacedType ==
  ASSUME Shape, p # None, UNCHANGED <<program, nocompress, code, link>>,
         NEW m \in Nat, c' = Placed(p) + m, pc' = [pc EXCEPT ![p] = Placed(p)], p' = link[p],
         compr' \subseteq compr \cup {p}, seen' \subseteq seen \cup {p}, far' \subseteq far \cup {p},
         spass' \in BOOLEAN, bflag' \in BOOLEAN, phase' = phase, otxt' \in Nat, diags' = diags
  PROVE  Shape'
<1>1. TypeOK /\ Chained
  BY DEF Shape
<1>2. /\ p \in DOMAIN code /\ p \in DOMAIN pc /\ p \in DOMAIN link
      /\ DOMAIN link = 1..Len(code) /\ DOMAIN code = 1..Len(code) /\ Placed(p) \in Nat
  BY <1>1, AtP
<1>3. p' \in 0..Len(code) /\ c' \in Nat
  <2>1. c' \in Nat
    BY <1>2
  <2>2. link[p] \in 0..Len(link) /\ Len(link) = Len(code)
    BY <1>1, <1>2 DEF Chained, TypeOK
  <2> QED
    BY <2>1, <2>2
<1>4. pc' \in Seq(Nat) /\ Len(pc') = Len(pc)
  <2>1. pc \in Seq(Nat) /\ p \in 1..Len(pc)
    BY <1>1, <1>2 DEF TypeOK
  <2> QED
    BY <1>2, <2>1, ExceptSeq
<1>5. compr' \subseteq DOMAIN code /\ seen' \subseteq DOMAIN code /\ far' \subseteq DOMAIN code
  BY <1>1, <1>2 DEF TypeOK
<1>6. TypeOK'
  BY <1>1, <1>3, <1>4, <1>5 DEF TypeOK
<1> QED
  BY <1>6, SameCode

LEMMA FirstPassShape == Shape /\ FirstPass => Shape'
<1> SUFFICES ASSUME Shape, FirstPass  PROVE Shape'
  OBVIOUS
<1>1. TypeOK /\ p # None
  BY DEF Shape, FirstPass
<1>2. Placed(p) \in Nat /\ Size(p) \in Nat
  BY <1>1, AtP
<1> DEFINE m == IF asmcompressed(p, pc, TRUE) THEN 2 ELSE Size(p)
<1>3. m \in Nat /\ c' = Placed(p) + m
  BY <1>2 DEF FirstPass
<1>4. compr' \subseteq compr \cup {p} /\ otxt' \in Nat
  BY <1>1, <1>2 DEF FirstPass, TypeOK
<1>5. bflag' \in BOOLEAN
  BY <1>1, Zenon DEF FirstPass, TypeOK
<1>6. /\ UNCHANGED <<program, nocompress, code, link, seen, far, spass, phase, diags>>
      /\ pc' = [pc EXCEPT ![p] = Placed(p)] /\ p' = link[p]
  BY DEF FirstPass
<1> HIDE DEF m
<1> QED
  BY <1>1, <1>3, <1>4, <1>5, <1>6, PlacedType DEF TypeOK

LEMMA PassOverShape == Shape /\ PassOver => Shape'
<1> SUFFICES ASSUME Shape, PassOver  PROVE Shape'
  OBVIOUS
<1>1. TypeOK /\ p # None
  BY DEF Shape, PassOver, Expanding
<1>2. Size(p) \in Nat
  BY <1>1, AtP
<1> DEFINE m == IF p \in compr THEN 2 ELSE Size(p)
<1>3. m \in Nat /\ c' = Placed(p) + m /\ seen' \subseteq seen \cup {p}
  BY <1>2 DEF PassOver, Place
<1>4. /\ UNCHANGED <<program, nocompress, code, link, compr, far, spass, phase, otxt, bflag, diags>>
      /\ pc' = [pc EXCEPT ![p] = Placed(p)] /\ p' = link[p]
  BY DEF PassOver
<1> HIDE DEF m
<1> QED
  BY <1>1, <1>3, <1>4, PlacedType DEF TypeOK

LEMMA ReachingShape == Shape /\ Reaching => Shape'
<1> SUFFICES ASSUME Shape, Reaching  PROVE Shape'
  OBVIOUS
<1>1. TypeOK /\ p # None
  BY DEF Shape, Reaching, Expanding
<1> DEFINE m == IF p \in compr /\ ~Overrun THEN 2 ELSE 4
<1>2. m \in Nat /\ c' = Placed(p) + m /\ seen' \subseteq seen \cup {p}
  BY DEF Reaching, Place
<1>3. compr' \subseteq compr
  BY DEF Reaching, MarksLeft
<1>4. bflag' \in BOOLEAN
  BY <1>1, Zenon DEF Reaching, AnotherPass, TypeOK
<1>5. /\ UNCHANGED <<program, nocompress, code, link, far, spass, phase, otxt, diags>>
      /\ pc' = [pc EXCEPT ![p] = Placed(p)] /\ p' = link[p]
  BY DEF Reaching
<1> HIDE DEF m
<1> QED
  BY <1>1, <1>2, <1>3, <1>4, <1>5, PlacedType DEF TypeOK

(* A jump is not a TEXT, it is placed where the layout has got to.         *)
LEMMA BranchPlaced ==
  ASSUME Type3(p) \/ Type4(p)
  PROVE  Placed(p) = c /\ At(p, c) = c
  BY Kinds DEF Type3, Type4, Placed, At

LEMMA JumpFarShape == Shape /\ JumpFar => Shape'
<1> SUFFICES ASSUME Shape, JumpFar  PROVE Shape'
  OBVIOUS
<1>1. TypeOK /\ p # None /\ Placed(p) = c
  BY BranchPlaced DEF Shape, JumpFar, Expanding
<1>2. c' = Placed(p) + 8 /\ seen' \subseteq seen \cup {p}
  BY DEF JumpFar, Place
<1>3. compr' \subseteq compr /\ far' = far \cup {p}
  BY DEF JumpFar, FarMarksLeft
<1>4. bflag' \in BOOLEAN
  BY <1>1, Zenon DEF JumpFar, TypeOK
<1>5. /\ UNCHANGED <<program, nocompress, code, link, spass, phase, otxt, diags>>
      /\ pc' = [pc EXCEPT ![p] = Placed(p)] /\ p' = link[p]
  BY <1>1 DEF JumpFar
<1> QED
  BY <1>1, <1>2, <1>3, <1>4, <1>5, PlacedType DEF TypeOK
-----------------------------------------------------------------------------
LEMMA AppendIs ==
  ASSUME NEW S, NEW s \in Seq(S), NEW e \in S
  PROVE  /\ Append(s, e) \in Seq(S)
         /\ Len(Append(s, e)) = Len(s) + 1
         /\ \A i \in 1..Len(s) : Append(s, e)[i] = s[i]
         /\ Append(s, e)[Len(s) + 1] = e
  OBVIOUS

LEMMA ExceptAppend ==
  ASSUME NEW S, NEW s \in Seq(S), NEW i \in 1..Len(s), NEW d \in S, NEW e \in S,
         NEW t, t = Append([s EXCEPT ![i] = d], e)
  PROVE  /\ t \in Seq(S) /\ Len(t) = Len(s) + 1 /\ DOMAIN t = 1..(Len(s) + 1)
         /\ \A k \in 1..Len(s) : k # i => t[k] = s[k]
         /\ t[i] = d
         /\ t[Len(s) + 1] = e
<1> DEFINE u == [s EXCEPT ![i] = d]
<1>1. u \in Seq(S) /\ Len(u) = Len(s) /\ \A k \in 1..Len(s) : u[k] = IF k = i THEN d ELSE s[k]
  BY ExceptSeq
<1> HIDE DEF u
<1>2. t = Append(u, e)
  BY DEF u
<1> QED
  BY <1>1, <1>2, AppendIs

(* BranchAround, field by field: only p is changed, and q is new.          *)
LEMMA Around ==
  ASSUME Shape, BranchAround, NEW q, q = Len(code) + 1
  PROVE  /\ p \in DOMAIN program /\ program[p].as \in Conditional /\ p \in 1..Len(code)
         /\ code[p].as \in Conditional /\ Len(code) \in Nat /\ Len(program) <= Len(code)
         /\ link[p] \in 0..Len(code) /\ code[p].cond \in 0..Len(code)
         /\ code' \in Seq(Instr) /\ Len(code') = q /\ DOMAIN code' = 1..q
         /\ \A i \in 1..Len(code) : i # p => code'[i] = code[i]
         /\ code'[p].as = relinv(code[p].as) /\ code'[p].cond = link[p]
         /\ code'[q].as = "JMP" /\ code'[q].cond = code[p].cond
         /\ link' \in Seq(Nat) /\ Len(link') = q /\ DOMAIN link' = 1..q
         /\ \A i \in 1..Len(code) : i # p => link'[i] = link[i]
         /\ link'[p] = q /\ link'[q] = link[p]
         /\ pc' \in Seq(Nat) /\ Len(pc') = q /\ DOMAIN pc' = 1..q
         /\ \A i \in 1..Len(code) : i # p => pc'[i] = pc[i]
         /\ pc'[p] = c /\ \E m \in {pc[p], c} : pc'[q] = m + (c' - c)
         /\ c' \in {c + 2, c + 4} /\ p' = q
         /\ compr' = (IF c' = c + 2 THEN compr \cup {p} ELSE compr \ {p})
         /\ seen' \subseteq seen \cup {p, q}
<1>1. TypeOK /\ Chained /\ Rewritten /\ p # None
  BY DEF Shape, BranchAround, Expanding
<1>2. /\ p \in 1..Len(code) /\ p \in DOMAIN link /\ p \in DOMAIN code /\ p \in DOMAIN pc
      /\ code[p] \in Instr /\ code[p].cond \in Nat /\ pc[p] \in Nat
      /\ DOMAIN code = 1..Len(code)
  BY <1>1, AtP
<1>3. code[p].as \in Conditional
  BY DEF BranchAround, Type3
<1>4. /\ code \in Seq(Instr) /\ link \in Seq(Nat) /\ pc \in Seq(Nat)
      /\ Len(link) = Len(code) /\ Len(pc) = Len(code) /\ Len(code) \in Nat /\ c \in Nat
      /\ Len(program) <= Len(code)
  BY <1>1, Lens
<1>5. p \in DOMAIN program /\ program[p].as \in Conditional /\ code[p].cond \in 0..Len(code)
  <2>1. p \in DOMAIN program
    BY <1>1, <1>2, <1>3, Kinds DEF Rewritten
  <2>2. program[p].as \in Conditional
    BY <1>1, <1>3, <2>1 DEF Rewritten
  <2> QED
    BY <1>1, <1>2, <1>4, <2>1, <2>2 DEF Rewritten
<1>6. link[p] \in 0..Len(code) /\ link[p] \in Nat
  BY <1>1, <1>2, <1>4 DEF Chained
<1> DEFINE d == [as |-> relinv(code[p].as), cond |-> link[p]]
           e == [as |-> "JMP", cond |-> code[p].cond]
           short == ~nocompress /\ code[p].as \in {"BEQZ", "BNEZ"}
           m == IF short THEN 2 ELSE 4
<1>7. d \in Instr /\ e \in Instr /\ d.as = relinv(code[p].as) /\ d.cond = link[p]
      /\ e.as = "JMP" /\ e.cond = code[p].cond
  <2>1. relinv(code[p].as) \in Opcodes /\ "JMP" \in Opcodes
    BY <1>3, Kinds, Reciprocal
  <2> QED
    BY <1>2, <1>6, <2>1 DEF Instr
<1>8. code' = Append([code EXCEPT ![p] = d], e)
  BY DEF BranchAround, FallThrough
<1>9. link' = Append([link EXCEPT ![p] = q], link[p])
  BY DEF BranchAround
<1>10. pc' = Append([pc EXCEPT ![p] = c], Measured[p] + m)
  BY DEF BranchAround
<1>11. /\ c' = c + m /\ p' = q
       /\ compr' = (IF short THEN compr \cup {p} ELSE compr \ {p})
       /\ seen' \subseteq seen \cup {p, q}
  BY DEF BranchAround
<1>12. m \in {2, 4} /\ (short <=> m = 2)
  OBVIOUS
<1>13. Measured[p] \in {pc[p], c}
  BY <1>1, <1>2, MeasuredType DEF TypeOK
<1> HIDE DEF d, e, short, m
<1>14. /\ code' \in Seq(Instr) /\ Len(code') = q /\ DOMAIN code' = 1..q
       /\ \A i \in 1..Len(code) : i # p => code'[i] = code[i]
       /\ code'[p] = d /\ code'[q] = e
  BY <1>2, <1>4, <1>7, <1>8, ExceptAppend
<1>15. /\ link' \in Seq(Nat) /\ Len(link') = q /\ DOMAIN link' = 1..q
       /\ \A i \in 1..Len(code) : i # p => link'[i] = link[i]
       /\ link'[p] = q /\ link'[q] = link[p]
  BY <1>2, <1>4, <1>6, <1>9, ExceptAppend
<1>16. /\ pc' \in Seq(Nat) /\ Len(pc') = q /\ DOMAIN pc' = 1..q
       /\ \A i \in 1..Len(code) : i # p => pc'[i] = pc[i]
       /\ pc'[p] = c /\ pc'[q] = Measured[p] + m
  <2>1. Measured[p] + m \in Nat
    BY SMTT(30), <1>2, <1>4, <1>12, <1>13
  <2> QED
    BY <1>2, <1>4, <1>10, <2>1, ExceptAppend
<1>17. c' \in {c + 2, c + 4} /\ m = c' - c /\ (short <=> c' = c + 2)
  BY <1>4, <1>11, <1>12
<1>18. compr' = (IF c' = c + 2 THEN compr \cup {p} ELSE compr \ {p})
  BY <1>11, <1>17
<1> QED
  BY <1>2, <1>3, <1>4, <1>5, <1>6, <1>7, <1>11, <1>13, <1>14, <1>15, <1>16, <1>17, <1>18

LEMMA BranchAroundShape == Shape /\ BranchAround => Shape'
<1> SUFFICES ASSUME Shape, BranchAround  PROVE Shape'
  OBVIOUS
<1> DEFINE q == Len(code) + 1
<1>1. TypeOK /\ Chained /\ Rewritten
  BY DEF Shape
<1>2. UNCHANGED <<program, nocompress, far, spass, phase, otxt, diags>> /\ bflag' = TRUE
  BY DEF BranchAround, AnotherPassAround
<1>3. /\ p \in DOMAIN program /\ program[p].as \in Conditional /\ p \in 1..Len(code)
      /\ code[p].as \in Conditional /\ Len(code) \in Nat /\ Len(program) <= Len(code)
      /\ link[p] \in 0..Len(code) /\ code[p].cond \in 0..Len(code)
      /\ code' \in Seq(Instr) /\ Len(code') = q /\ DOMAIN code' = 1..q
      /\ \A i \in 1..Len(code) : i # p => code'[i] = code[i]
      /\ code'[p].as = relinv(code[p].as) /\ code'[p].cond = link[p]
      /\ code'[q].as = "JMP" /\ code'[q].cond = code[p].cond
      /\ link' \in Seq(Nat) /\ Len(link') = q /\ DOMAIN link' = 1..q
      /\ \A i \in 1..Len(code) : i # p => link'[i] = link[i]
      /\ link'[p] = q /\ link'[q] = link[p]
  BY Around
<1>4. /\ pc' \in Seq(Nat) /\ Len(pc') = q
      /\ c' \in {c + 2, c + 4} /\ p' = q
      /\ compr' \subseteq compr \cup {p}
      /\ seen' \subseteq seen \cup {p, q}
  BY Around
<1>5. TypeOK'
  <2>1. bflag' \in BOOLEAN /\ spass' \in BOOLEAN
    BY <1>1, <1>2, Zenon DEF TypeOK
  <2>2. DOMAIN code = 1..Len(code) /\ DOMAIN code' = 1..q /\ c \in Nat
    BY <1>1, <1>3, Lens
  <2>3. compr' \subseteq DOMAIN code' /\ seen' \subseteq DOMAIN code' /\ far' \subseteq DOMAIN code'
    <3>1. 1..Len(code) \subseteq 1..q /\ p \in 1..q /\ q \in 1..q
      BY <1>3
    <3>2. compr \subseteq 1..Len(code) /\ seen \subseteq 1..Len(code) /\ far \subseteq 1..Len(code)
      BY <1>1, Lens
    <3>3. far' = far /\ DOMAIN code' = 1..q
      BY <1>2, <2>2
    <3> HIDE DEF q
    <3> QED
      BY <1>4, <3>1, <3>2, <3>3
  <2>4. c' \in Nat /\ p' \in 0..Len(code') /\ Len(program) <= Len(code')
    BY SMTT(30), <1>3, <1>4, <2>2
  <2>5. /\ program' \in Programs /\ nocompress' \in Options /\ otxt' \in Nat
        /\ phase' \in {"first", "expand", "asm", "done"}
        /\ diags' \subseteq {"phase error", "branch out of range", "jump out of range"}
    BY <1>1, <1>2 DEF TypeOK
  <2> HIDE DEF q
  <2> QED
    BY <1>2, <1>3, <1>4, <2>1, <2>3, <2>4, <2>5 DEF TypeOK
<1>6. DOMAIN link = 1..Len(code) /\ Len(link) = Len(code)
  BY <1>1, Lens
<1>7. Chained'
  <2>1. \A i \in DOMAIN link' : link'[i] \in 0..Len(link') /\ link'[i] # 1 /\ link'[i] # i
    BY SMTT(30), <1>1, <1>3, <1>6 DEF Chained
  <2>2. ASSUME NEW i \in DOMAIN link', NEW k \in DOMAIN link', link'[i] = link'[k], link'[i] # None
        PROVE  i = k
    <3>0. \A j \in 0..Len(code) : j # q
      BY <1>3
    <3>1. \A j \in 1..Len(code) : link[j] \in 0..Len(code) /\ link[j] # q
      BY <1>1, <1>6, <3>0 DEF Chained
    <3>2. \A j, l \in 1..Len(code) : link[j] = link[l] /\ link[j] # None => j = l
      BY <1>1, <1>6 DEF Chained
    <3>3. i \in 1..Len(code) \cup {q} /\ k \in 1..Len(code) \cup {q}
      BY <1>3
    <3> HIDE DEF q
    <3>4. CASE i = p
      BY <1>3, <2>2, <3>1, <3>3, <3>4
    <3>5. CASE k = p
      BY <1>3, <2>2, <3>1, <3>3, <3>5
    <3>6. CASE i # p /\ k # p
      BY SMTT(30), <1>3, <2>2, <3>1, <3>2, <3>3, <3>6
    <3> QED
      BY <3>4, <3>5, <3>6
  <2> QED
    BY <2>1, <2>2 DEF Chained
<1>8. Rewritten'
  <2>1. DOMAIN code = 1..Len(code) /\ DOMAIN code' = 1..q /\ DOMAIN program = 1..Len(program)
        /\ Len(program) \in Nat
    BY <1>1, <1>3, Lens
  <2>2. ASSUME NEW i \in DOMAIN program
        PROVE  IF program[i].as \in Conditional
                 THEN /\ code'[i].as \in {program[i].as, relinv(program[i].as)}
                      /\ code'[i].cond <= Len(code')
                 ELSE code'[i] = program[i]
    <3>0. i \in 1..Len(code)
      BY <1>3, <2>1
    <3>1. CASE i = p
      <4>1. code'[p].as \in {program[p].as, relinv(program[p].as)}
        BY <1>1, <1>3, Reciprocal DEF Rewritten
      <4> QED
        BY <1>3, <3>1, <4>1
    <3>2. CASE i # p /\ program[i].as \in Conditional
      <4>1. code[i].cond <= Len(code) /\ code[i] \in Instr
        BY <1>1, <2>1, <3>0, <3>2, Lens DEF Rewritten
      <4>2. code[i].cond \in Nat
        BY <4>1 DEF Instr
      <4> QED
        BY SMTT(30), <1>1, <1>3, <3>0, <3>2, <4>1, <4>2 DEF Rewritten
    <3>3. CASE i # p /\ program[i].as \notin Conditional
      BY <1>1, <1>3, <3>0, <3>3 DEF Rewritten
    <3> QED
      BY <3>1, <3>2, <3>3
  <2>3. ASSUME NEW i \in DOMAIN code' \ DOMAIN program
        PROVE  code'[i].as = "JMP" /\ code'[i].cond < i
    <3>1. CASE i = q
      BY <1>3, <3>1
    <3>2. CASE i # q
      <4>1. i \in DOMAIN code \ DOMAIN program /\ i # p /\ i \in 1..Len(code)
        BY <1>3, <2>1, <3>2
      <4> QED
        BY <1>1, <1>3, <4>1 DEF Rewritten
    <3> QED
      BY <3>1, <3>2
  <2>4. program' = program
    BY <1>2
  <2> QED
    BY <2>2, <2>3, <2>4 DEF Rewritten
<1> QED
  BY <1>5, <1>7, <1>8 DEF Shape
-----------------------------------------------------------------------------
LEMMA PassesShape == Shape /\ (NextPass \/ StartAsm \/ Emit \/ EndAsm) => Shape'
<1> SUFFICES ASSUME Shape, NextPass \/ StartAsm \/ Emit \/ EndAsm  PROVE Shape'
  OBVIOUS
<1>1. TypeOK /\ Chained
  BY DEF Shape
<1>2. UNCHANGED <<program, nocompress, code, link, pc, compr, seen, far, otxt>>
  BY DEF NextPass, StartAsm, Emit, EndAsm
<1>3. 1 \in 0..Len(code)
  BY <1>1, Lens
<1>4. /\ c' \in Nat /\ p' \in 0..Len(code)
      /\ phase' \in {"first", "expand", "asm", "done"}
      /\ diags' \subseteq {"phase error", "branch out of range", "jump out of range"}
  <2>1. CASE NextPass
    BY <1>1, <1>3, <2>1 DEF NextPass, TypeOK
  <2>2. CASE StartAsm
    BY <1>1, <1>3, <2>2 DEF StartAsm, TypeOK
  <2>3. CASE Emit
    <3>1. /\ pc[p] \in Nat /\ Size(p) \in Nat /\ p \in DOMAIN link
          /\ Len(link) = Len(code)
      BY <1>1, <2>3, AtP, Lens DEF Emit
    <3>2. c' \in {pc[p] + 2, pc[p] + Size(p)}
      BY <2>3 DEF Emit
    <3>3. p' \in 0..Len(code)
      BY <1>1, <2>3, <3>1 DEF Emit, Chained
    <3>4. diags' \subseteq diags \cup {"phase error", "branch out of range", "jump out of range"}
      BY <2>3 DEF Emit
    <3>5. phase' = phase
      BY <2>3 DEF Emit
    <3>6. c' \in Nat
      BY <3>1, <3>2
    <3>7. phase' \in {"first", "expand", "asm", "done"}
      BY <1>1, <3>5 DEF TypeOK
    <3>8. diags \subseteq {"phase error", "branch out of range", "jump out of range"}
      BY <1>1 DEF TypeOK
    <3> QED
      BY <3>3, <3>4, <3>6, <3>7, <3>8
  <2>4. CASE EndAsm
    BY <1>1, <2>4 DEF EndAsm, TypeOK
  <2> QED
    BY <2>1, <2>2, <2>3, <2>4
<1>5. spass' \in BOOLEAN
  BY <1>1, Zenon DEF NextPass, StartAsm, Emit, EndAsm, TypeOK
<1>6. bflag' \in BOOLEAN
  BY <1>1, Zenon DEF NextPass, StartAsm, Emit, EndAsm, TypeOK
<1>7. TypeOK'
  BY <1>1, <1>2, <1>4, <1>5, <1>6 DEF TypeOK
<1> QED
  BY <1>2, <1>7, SameCode

LEMMA ShapeStep == Shape /\ [Next]_vars => Shape'
<1> SUFFICES ASSUME Shape, [Next]_vars  PROVE Shape'
  OBVIOUS
<1>1. CASE UNCHANGED vars
  BY <1>1, Zenon DEF vars, Shape, TypeOK, Chained, Rewritten
<1>2. CASE Done
  BY <1>2, <1>1, Zenon DEF Done
<1> QED
  BY <1>1, <1>2, FirstPassShape, PassOverShape, ReachingShape, BranchAroundShape,
     JumpFarShape, PassesShape DEF Next

(* The program is well formed all along.                                   *)
THEOREM ShapeKept == Spec => []Shape
<1>1. Init => Shape
  BY InitShape
<1>2. Shape /\ [Next]_vars => Shape'
  BY ShapeStep
<1> QED
  BY <1>1, <1>2, PTL DEF Spec

-----------------------------------------------------------------------------
LEMMA InitFlow == Init => FlowInv
<1> SUFFICES ASSUME Init  PROVE FlowInv
  OBVIOUS
<1> DEFINE n == Len(program)
           to == [i \in 0..n |-> i]
<1>1. Shape /\ TypeOK
  BY InitShape DEF Shape
<1>2. code = program /\ n \in Nat /\ DOMAIN program = 1..n /\ program \in Seq(Instr)
  BY <1>1, Lens DEF Init
<1>3. \A i \in DOMAIN program : program[i].as \in Conditional => program[i].cond \in 1..n
  BY <1>1, <1>2, ProgramShape DEF TypeOK
<1>4. Solves(to, code, program)
  <2> HIDE DEF n
  <2>1. to = [i \in 0..n |-> IF i <= n THEN i ELSE to[code[i].cond]]
    OBVIOUS
  <2> HIDE DEF to
  <2> QED
    BY <1>2, <2>1 DEF Solves, n
<1>5. Solves(Carried(code, program), code, program)
  BY <1>4, Answer
<1>6. \A i \in 0..n : Arrives(i) = i
  BY <1>2, <1>5 DEF Solves, Arrives
<1>7. \A i \in 1..n : link[i] = IF i = n THEN None ELSE i + 1
  BY <1>2 DEF Init
<1>8. FlowKept
  <2> SUFFICES ASSUME NEW i \in DOMAIN program, program[i].as \in Conditional
               PROVE  /\ Arrives(code[i].cond) = program[i].cond
                      /\ Arrives(link[i]) = IF i = n THEN None ELSE i + 1
    BY <1>2 DEF FlowKept
  <2>1. Arrives(code[i].cond) = program[i].cond
    BY <1>2, <1>3, <1>6
  <2>2. link[i] \in 0..n
    <3>1. i \in 1..n /\ n \in Nat
      BY <1>2
    <3> HIDE DEF n
    <3> QED
      BY <1>7, <3>1 DEF None
  <2> QED
    BY <1>2, <1>6, <1>7, <2>1, <2>2
<1> QED
  BY <1>1, <1>5, <1>8 DEF FlowInv

LEMMA AroundFlow == FlowInv /\ BranchAround => FlowInv'
<1> SUFFICES ASSUME FlowInv, BranchAround  PROVE FlowInv'
  OBVIOUS
<1> DEFINE q  == Len(code) + 1
           at == Carried(code, program)
           now == Carried(code', program)
<1>1. Shape /\ TypeOK /\ Chained /\ Rewritten /\ FlowKept /\ Solves(at, code, program)
  BY DEF FlowInv, Shape
<1>2. Shape'
  BY <1>1, BranchAroundShape
<1>3. /\ p \in DOMAIN program /\ program[p].as \in Conditional
      /\ code[p].as \in Conditional
      /\ link[p] \in 0..Len(code) /\ code[p].cond \in 0..Len(code)
      /\ code' \in Seq(Instr) /\ Len(code') = q
      /\ \A i \in 1..Len(code) : i # p => code'[i] = code[i]
      /\ code'[p].as = relinv(code[p].as) /\ code'[p].cond = link[p]
      /\ code'[q].as = "JMP" /\ code'[q].cond = code[p].cond
      /\ \A i \in 1..Len(code) : i # p => link'[i] = link[i]
      /\ link'[p] = q /\ link'[q] = link[p]
  BY <1>1, Around
<1>4. /\ code \in Seq(Instr) /\ program \in Seq(Instr) /\ Len(program) <= Len(code)
      /\ Len(code) \in Nat /\ Len(program) \in Nat
      /\ DOMAIN code = 1..Len(code) /\ DOMAIN program = 1..Len(program)
      /\ DOMAIN link = 1..Len(code) /\ Len(link) = Len(code)
  BY <1>1, Lens
<1>5. program' = program
  BY DEF BranchAround
<1>6. /\ Solves(now, code', program)
      /\ \A i \in 0..Len(code) : now[i] = at[i]
      /\ now[q] = at[code[p].cond]
  <2>1. \A i \in DOMAIN code \ DOMAIN program : code[i].cond < i
    BY <1>1 DEF Rewritten
  <2>2. \A i \in DOMAIN code \ DOMAIN program : code'[i] = code[i]
    BY <1>3, <1>4
  <2>3. code'[q].cond <= Len(code)
    BY <1>3, <1>4
  <2> HIDE DEF q
  <2>4. Len(code') = Len(code) + 1
    BY <1>3 DEF q
  <2>5. code'[Len(code')].cond <= Len(code)
    BY <1>3, <2>3
  <2>6. /\ Solves(now, code', program)
        /\ \A i \in 0..Len(code) : now[i] = at[i]
        /\ now[Len(code')] = at[code'[Len(code')].cond]
    BY ZenonT(60), <1>1, <1>3, <1>4, <2>1, <2>2, <2>4, <2>5, OneMoreJump
  <2> QED
    BY <1>3, <2>6
<1>7. FlowKept'
  <2> SUFFICES ASSUME NEW i \in DOMAIN program, program[i].as \in Conditional
               PROVE  LET same == code'[i].as = program[i].as
                          yes  == IF same THEN code'[i].cond ELSE link'[i]
                          no   == IF same THEN link'[i] ELSE code'[i].cond
                      IN /\ same \/ code'[i].as = relinv(program[i].as)
                         /\ now[yes] = program[i].cond
                         /\ now[no] = IF i = Len(program) THEN None ELSE i + 1
    BY <1>5 DEF FlowKept, Arrives
  <2> HIDE DEF now, at, q
  <2>1. LET same == code[i].as = program[i].as
            yes  == IF same THEN code[i].cond ELSE link[i]
            no   == IF same THEN link[i] ELSE code[i].cond
        IN /\ same \/ code[i].as = relinv(program[i].as)
           /\ at[yes] = program[i].cond
           /\ at[no] = IF i = Len(program) THEN None ELSE i + 1
    BY <1>1 DEF FlowKept, Arrives, at
  <2>2. i \in 1..Len(code)
    BY <1>4
  <2>3. CASE i # p
    <3>1. code'[i] = code[i] /\ link'[i] = link[i]
      BY <1>3, <2>2, <2>3
    <3>2. link[i] \in 0..Len(code)
      BY <1>1, <1>4, <2>2 DEF Chained
    <3>3. code[i].cond \in 0..Len(code)
      <4>1. code[i] \in Instr
        BY <1>4, <2>2
      <4> QED
        BY <1>1, <1>4, <4>1 DEF Rewritten, Instr
    <3>4. now[link[i]] = at[link[i]] /\ now[code[i].cond] = at[code[i].cond]
      BY <1>3, <1>6, <2>3, <3>1, <3>2, <3>3
    <3> QED
      BY <1>3, <2>1, <2>3, <3>1, <3>2, <3>3, <3>4
  <2>4. CASE i = p
    <3>1. now[link'[p]] = at[code[p].cond] /\ now[code'[p].cond] = at[link[p]]
      BY <1>3, <1>6
    <3>2. CASE code[p].as = program[p].as
      <4>1. code'[p].as = relinv(program[p].as) /\ code'[p].as # program[p].as
        BY <1>3, <3>2, Reciprocal
      <4> QED
        BY <2>1, <2>4, <3>1, <3>2, <4>1
    <3>3. CASE code[p].as # program[p].as
      <4>1. code'[p].as = program[p].as
        BY <1>3, <2>1, <2>4, <3>3, Reciprocal
      <4> QED
        BY <2>1, <2>4, <3>1, <3>3, <4>1
    <3> QED
      BY <3>2, <3>3
  <2> QED
    BY <2>3, <2>4
<1>8. Solves(Carried(code, program), code, program)'
  BY <1>5, <1>6
<1> QED
  BY <1>2, <1>7, <1>8 DEF FlowInv

LEMMA FlowStep == FlowInv /\ [Next]_vars => FlowInv'
<1> SUFFICES ASSUME FlowInv, [Next]_vars  PROVE FlowInv'
  OBVIOUS
<1>1. CASE BranchAround
  BY <1>1, AroundFlow
<1>2. CASE UNCHANGED <<program, code, link>>
  <2>1. Shape'
    BY ShapeStep DEF FlowInv
  <2>2. Solves(Carried(code, program), code, program)'
    BY <1>2 DEF FlowInv
  <2>3. FlowKept'
    BY <1>2 DEF FlowInv, FlowKept, Arrives
  <2> QED
    BY <2>1, <2>2, <2>3 DEF FlowInv
<1>3. BranchAround \/ UNCHANGED <<program, code, link>>
  BY DEF Next, FirstPass, NextPass, PassOver, Reaching, JumpFar, StartAsm, Emit, EndAsm, Done, vars
<1> QED
  BY <1>1, <1>2, <1>3

(* However far apart branch and target are and however often span comes by,*)
(* a condition that holds leads where it led and one that does not to the  *)
(* next instruction.                                                       *)
THEOREM FlowIsKept == Spec => []FlowKept
<1>1. Init => FlowInv
  BY InitFlow
<1>2. FlowInv /\ [Next]_vars => FlowInv'
  BY FlowStep
<1>3. FlowInv => FlowKept
  BY DEF FlowInv
<1> QED
  BY <1>1, <1>2, <1>3, PTL DEF Spec
-----------------------------------------------------------------------------
(* An iteration that inserts nothing and makes p no shorter, or has a      *)
(* successor without an address yet.                                       *)
LEMMA Placing ==
  ASSUME TypeOK, Chained, Spread, p # None, UNCHANGED <<code, link>>,
         pc' = [pc EXCEPT ![p] = Placed(p)], p' = link[p], NEW a, a = p,
         \A i \in DOMAIN code : i # a => Bytes(i)' = Bytes(i),
         Bytes(a)' \in Nat, c' = Placed(p) + Bytes(a)',
         link[p] = None \/ pc[link[p]] = 0 \/ Bytes(p) <= Bytes(a)'
  PROVE  Spread' /\ \A i \in DOMAIN pc : pc'[i] >= pc[i]
<1>1. /\ p \in 1..Len(code) /\ pc[p] \in Nat /\ Placed(p) \in Nat
  BY AtP
<1>2. /\ code \in Seq(Instr) /\ pc \in Seq(Nat) /\ c \in Nat /\ Len(code) \in Nat
      /\ DOMAIN code = 1..Len(code) /\ DOMAIN pc = 1..Len(code) /\ DOMAIN link = 1..Len(code)
      /\ Len(link) = Len(code)
  BY Lens
<1>3. Placed(p) = At(p, c)
  BY PlacedAt
<1>4. pc[p] <= Placed(p)
  BY <1>3 DEF Spread
<1>5. pc'[p] = Placed(p) /\ DOMAIN pc' = DOMAIN pc
      /\ \A i \in 1..Len(code) : i # p => pc'[i] = pc[i]
  BY <1>1, <1>2
<1>6. \A i \in DOMAIN pc : pc'[i] >= pc[i]
  BY <1>1, <1>2, <1>4, <1>5
<1>7. /\ \A i \in 1..Len(code) : link[i] \in 0..Len(code) /\ link[i] # 1 /\ link[i] # i
      /\ \A i, k \in 1..Len(code) : link[i] = link[k] /\ link[i] # None => i = k
  BY <1>2 DEF Chained
<1>8. \A i \in 1..Len(code) : Bytes(i) \in Nat
  BY <1>2, Sizes
<1>9. ASSUME NEW i \in 1..Len(code), link[i] # None
       PROVE  IF link[i] = p' THEN c' = pc'[i] + Bytes(i)'
                              ELSE pc'[link[i]] <= At(link[i], pc'[i] + Bytes(i)')
  <2>1. CASE link[i] = p'
    <3>1. i = p
      BY <1>1, <1>7, <1>9, <2>1
    <3> QED
      BY <1>5, <2>1, <3>1
  <2>2. CASE link[i] # p' /\ link[i] = p
    <3>1. i # p /\ pc'[i] = pc[i] /\ Bytes(i)' = Bytes(i)
      BY <1>2, <1>5, <2>2
    <3>2. c = pc[i] + Bytes(i)
      BY <1>2, <1>9, <2>2 DEF Spread
    <3>3. pc'[link[i]] = At(link[i], pc'[i] + Bytes(i)')
      BY <1>3, <1>5, <2>2, <3>1, <3>2
    <3>4. pc'[link[i]] \in Nat
      BY <1>1, <1>5, <2>2
    <3>5. pc'[link[i]] <= At(link[i], pc'[i] + Bytes(i)')
      BY <3>3, <3>4
    <3> QED
      BY <2>2, <3>5, Zenon
  <2>3. CASE link[i] # p' /\ link[i] # p
    <3>1. i # p /\ pc'[i] = pc[i] /\ Bytes(i)' = Bytes(i)
      BY <1>2, <1>5, <2>3
    <3>2. pc'[link[i]] = pc[link[i]]
      BY <1>5, <1>7, <1>9, <2>3 DEF None
    <3>3. pc[link[i]] <= At(link[i], pc[i] + Bytes(i))
      BY <1>2, <1>9, <2>3 DEF Spread
    <3> QED
      BY <2>3, <3>1, <3>2, <3>3
  <2> QED
    BY <2>1, <2>2, <2>3
<1>10. ASSUME p' # None  PROVE pc'[p'] <= At(p', c')
  <2>1. p' \in 1..Len(code) /\ p' # p /\ pc'[p'] = pc[p'] /\ pc[p'] \in Nat
    BY <1>1, <1>2, <1>5, <1>7, <1>10 DEF None
  <2>2. c' \in Nat /\ At(p', c') \in Nat
    <3>1. c' \in Nat
      BY <1>1
    <3> QED
      BY <3>1, Ats
  <2>3. CASE pc[p'] = 0
    BY <2>1, <2>2, <2>3
  <2>4. CASE Bytes(p) <= Bytes(a)'
    <3>1. pc[p'] <= At(p', pc[p] + Bytes(p))
      BY <1>1, <1>2, <1>10, <2>1 DEF Spread
    <3>2. pc[p] + Bytes(p) \in Nat /\ pc[p] + Bytes(p) <= c'
      BY <1>1, <1>4, <1>8, <2>4
    <3>3. At(p', pc[p] + Bytes(p)) \in Nat /\ At(p', pc[p] + Bytes(p)) <= At(p', c')
      BY <2>2, <3>2, Ats
    <3> QED
      BY <2>1, <2>2, <3>1, <3>3
  <2> QED
    BY <1>10, <2>3, <2>4
<1>11. p' # 1
  BY <1>1, <1>7
<1>12. pc'[1] = 0
  <2>1. CASE p = 1
    <3>1. c = 0
      BY <2>1 DEF Spread
    <3> QED
      BY <1>5, <2>1, <3>1 DEF Placed, Align4
  <2>2. CASE p # 1
    BY <1>1, <1>5, <2>2 DEF Spread
  <2> QED
    BY <2>1, <2>2
<1>13. Spread'
  <2>1. \A i \in DOMAIN link' : link'[i] # None =>
          IF link'[i] = p' THEN c' = pc'[i] + Bytes(i)'
                           ELSE pc'[link'[i]] <= At(link'[i], pc'[i] + Bytes(i)')
    BY <1>2, <1>9
  <2>2. \A i, x : (IF code'[i].as = "TEXT" THEN Align4(x) ELSE x) = At(i, x)
    BY DEF At
  <2> QED
    BY <1>10, <1>11, <1>12, <2>1, <2>2 DEF Spread, At
<1> QED
  BY <1>6, <1>13

LEMMA InitLayout == Init => LayoutInv
<1> SUFFICES ASSUME Init  PROVE LayoutInv
  OBVIOUS
<1> DEFINE n == Len(program)
<1>1. Shape /\ TypeOK /\ Chained
  BY InitShape DEF Shape
<1>2. code = program /\ n \in Nat /\ DOMAIN program = 1..n /\ DOMAIN link = 1..n
      /\ Len(link) = n /\ 1 \in DOMAIN program /\ program \in Seq(Instr)
  BY <1>1, Lens DEF Init
<1>3. /\ \A i \in 1..n : link[i] = IF i = n THEN None ELSE i + 1
      /\ \A i \in 1..n : pc[i] = 0
      /\ DOMAIN pc = 1..n
      /\ far = {} /\ compr = {} /\ p = 1 /\ c = 0 /\ phase = "first"
  BY <1>2 DEF Init
<1>4. Fresh
  BY <1>2, <1>3 DEF Fresh
<1>5. Spread
  <2>1. ASSUME NEW i \in DOMAIN link, link[i] # None
        PROVE  link[i] # p /\ pc[link[i]] <= At(link[i], pc[i] + Bytes(i))
    <3>0. i \in 1..n /\ link[i] \in 0..n /\ link[i] # 1
      BY <1>1, <1>2, <2>1 DEF Chained
    <3>1. link[i] \in 1..n /\ link[i] # 1 /\ pc[link[i]] = 0 /\ pc[i] = 0
      <4>1. link[i] \in 1..n
        BY <1>2, <2>1, <3>0 DEF None
      <4> QED
        BY <1>3, <3>0, <4>1
    <3>2. Bytes(i) \in Nat
      BY <1>2, Sizes
    <3>3. At(link[i], pc[i] + Bytes(i)) \in Nat
      BY <3>1, <3>2, Ats
    <3> QED
      BY <1>3, <3>1, <3>3
  <2>2. pc[1] = 0
    BY <1>2, <1>3
  <2>3. At(1, 0) \in Nat
    BY Ats
  <2> QED
    BY <1>3, <2>1, <2>2, <2>3 DEF Spread
<1> QED
  BY <1>1, <1>3, <1>4, <1>5 DEF LayoutInv

LEMMA FirstPassLayout == LayoutInv /\ FirstPass => LayoutInv'
<1> SUFFICES ASSUME LayoutInv, FirstPass  PROVE LayoutInv'
  OBVIOUS
<1>1. /\ Shape /\ TypeOK /\ Chained /\ phase = "first" /\ p # None
      /\ UNCHANGED <<program, code, link, far, phase>>
      /\ pc' = [pc EXCEPT ![p] = Placed(p)] /\ p' = link[p]
  BY DEF LayoutInv, Shape, FirstPass
<1>2. Fresh /\ Spread
  BY <1>1 DEF LayoutInv
<1>3. /\ p \in 1..Len(code) /\ Size(p) \in Nat /\ Len(code) \in Nat
      /\ DOMAIN code = 1..Len(code) /\ DOMAIN pc = 1..Len(code) /\ DOMAIN link = 1..Len(code)
      /\ Len(program) = Len(code)
  BY <1>1, <1>2, AtP, Lens DEF Fresh
<1>4. link[p] = IF p = Len(code) THEN None ELSE p + 1
  BY <1>2, <1>3 DEF Fresh
<1>5. p \notin compr /\ \A i \in 1..Len(code) : i >= p => pc[i] = 0 /\ i \notin compr
  BY <1>1, <1>2, <1>3 DEF Fresh
<1>6. \A i : Size(i)' = Size(i)
  BY <1>1 DEF Size
<1>7. /\ compr' \in {compr, compr \cup {p}}
      /\ c' = Placed(p) + IF p \in compr' THEN 2 ELSE Size(p)
  BY <1>5 DEF FirstPass
<1>0. PICK a : a = p
  OBVIOUS
<1>8. /\ Bytes(a)' \in Nat /\ c' = Placed(p) + Bytes(a)'
      /\ \A i \in DOMAIN code : i # a => Bytes(i)' = Bytes(i)
  BY <1>0, <1>3, <1>6, <1>7 DEF Bytes
<1>9. link[p] = None \/ pc[link[p]] = 0
  <2>1. CASE p # Len(code)
    <3>0. p \in 1..Len(code) /\ Len(code) \in Nat
      BY <1>3
    <3>1. p + 1 \in 1..Len(code) /\ p + 1 >= p
      BY <2>1, <3>0
    <3>2. link[p] = p + 1
      BY <1>4, <2>1
    <3> QED
      BY <1>5, <3>1, <3>2
  <2> QED
    BY <1>4, <2>1
<1>10. Spread'
  BY <1>0, <1>1, <1>2, <1>8, <1>9, Placing
<1>11. Fresh'
  <2>1. Len(code') = Len(program') /\ far' = {}
    BY <1>1, <1>2 DEF Fresh
  <2>2. \A i \in DOMAIN link' : link'[i] = IF i = Len(program') THEN None ELSE i + 1
    BY <1>1, <1>2 DEF Fresh
  <2>3. ASSUME p' # None, NEW i \in DOMAIN pc', i >= p'  PROVE pc'[i] = 0 /\ i \notin compr'
    <3>0. p' = p + 1
      BY <1>1, <1>4, <2>3
    <3>1. i \in 1..Len(code) /\ i > p
      <4>1. DOMAIN pc' = 1..Len(code) /\ p \in 1..Len(code) /\ Len(code) \in Nat
        BY <1>1, <1>3
      <4> QED
        BY <2>3, <3>0, <4>1
    <3> QED
      BY <1>1, <1>3, <1>5, <1>7, <3>1
  <2> QED
    BY <2>1, <2>2, <2>3 DEF Fresh
<1>12. Shape'
  BY <1>1, FirstPassShape
<1> QED
  BY <1>10, <1>11, <1>12 DEF LayoutInv

(* The iterations of an expanding pass that insert nothing.                *)
LEMMA OnePlaced ==
  ASSUME Shape, PassOver \/ Reaching \/ JumpFar, NEW a, a = p
  PROVE  /\ UNCHANGED <<program, nocompress, code, link, phase, spass>> /\ p' = link[p]
         /\ phase = "expand" /\ p # None
         /\ pc' = [pc EXCEPT ![p] = Placed(p)]
         /\ \A i \in DOMAIN code : i # a => Bytes(i)' = Bytes(i)
         /\ Bytes(a)' \in Nat /\ c' = Placed(p) + Bytes(a)' /\ Bytes(p) <= Bytes(a)'
<1>a. phase = "expand" /\ p # None
  BY DEF PassOver, Reaching, JumpFar, Expanding
<1>0. /\ p \in 1..Len(code) /\ Size(p) \in Nat /\ code \in Seq(Instr) /\ p \in DOMAIN code
  BY <1>a, AtP, Lens DEF Shape
<1>b. UNCHANGED <<program, nocompress, code, link, phase, spass>> /\ p' = link[p]
  BY DEF PassOver, Reaching, JumpFar
<1>c. pc' = [pc EXCEPT ![p] = Placed(p)]
  BY BranchPlaced DEF PassOver, Reaching, JumpFar
<1> SUFFICES /\ \A i \in DOMAIN code : i # a => Bytes(i)' = Bytes(i)
             /\ Bytes(a)' \in Nat /\ c' = Placed(p) + Bytes(a)' /\ Bytes(p) <= Bytes(a)'
  BY <1>a, <1>b, <1>c
<1>1. CASE PassOver
  <2>1. \A i : Bytes(i)' = Bytes(i)
    BY <1>1 DEF PassOver, Bytes, Size
  <2>2. c' = Placed(p) + Bytes(p)
    BY <1>1 DEF PassOver, Place, Bytes
  <2> QED
    BY <1>0, <2>1, <2>2, Sizes
<1>2. CASE Reaching
  <2>1. far' = far /\ code' = code
    BY <1>2 DEF Reaching
  <2>2. \A i : Size(i)' = Size(i)
    BY <2>1 DEF Size
  <2>3. compr' = IF Overrun THEN compr \ {p} ELSE compr
    BY <1>2 DEF Reaching, MarksLeft
  <2>4. c' = Placed(p) + (IF p \in compr /\ ~Overrun THEN 2 ELSE 4)
    BY <1>2 DEF Reaching, Place
  <2>5. Size(p) = 4
    <3>1. code[p].as \in Conditional \/ (code[p].as \in Jumps /\ p \notin far)
      BY <1>2 DEF Reaching, Type3, Type4
    <3> QED
      BY <1>0, <3>1, Sizes
  <2> QED
    BY <2>2, <2>3, <2>4, <2>5 DEF Bytes
<1>3. CASE JumpFar
  <2>1. far' = far \cup {p} /\ compr' = compr \ {p} /\ code' = code
    BY <1>3 DEF JumpFar, FarMarksLeft
  <2>2. code[p].as \in Jumps /\ p \notin far
    BY <1>3 DEF JumpFar, Type4
  <2>3. Bytes(p) <= 4 /\ Bytes(p) \in Nat
    BY <1>0, <2>2, Sizes
  <2>4. Bytes(a)' = 8
    <3>1. Size(a)' = 8
      <4>1. code'[a].as \notin {"TEXT", "WORD8", "WORD12", "CWORD", "WORD4"} \cup Conditional
        BY <2>1, <2>2 DEF Jumps, Conditional
      <4> QED
        BY <2>1, <2>2, <4>1 DEF Size
    <3> QED
      BY <2>1, <3>1 DEF Bytes
  <2>5. ASSUME NEW i \in DOMAIN code, i # a  PROVE Bytes(i)' = Bytes(i)
    <3>1. (i \in far' <=> i \in far) /\ (i \in compr' <=> i \in compr) /\ code' = code
      BY <2>1, <2>5
    <3>2. Size(i)' = Size(i)
      BY <3>1 DEF Size
    <3> QED
      BY <3>1, <3>2 DEF Bytes
  <2>6. c' = Placed(p) + 8
    BY <1>3 DEF JumpFar, Place
  <2> QED
    BY <2>3, <2>4, <2>5, <2>6
<1> QED
  BY <1>1, <1>2, <1>3

LEMMA ExpandingLayout ==
  ASSUME LayoutInv, PassOver \/ Reaching \/ JumpFar
  PROVE  LayoutInv' /\ \A i \in DOMAIN pc : pc'[i] >= pc[i]
<1>1. /\ Shape /\ TypeOK /\ Chained /\ phase = "expand" /\ p # None
  BY DEF LayoutInv, Shape, PassOver, Reaching, JumpFar, Expanding
<1>2. Spread
  BY <1>1 DEF LayoutInv
<1>0. PICK a : a = p
  OBVIOUS
<1>3. /\ UNCHANGED <<program, code, link, phase>> /\ p' = link[p]
      /\ pc' = [pc EXCEPT ![p] = Placed(p)]
  BY <1>0, <1>1, OnePlaced
<1>6. /\ \A i \in DOMAIN code : i # a => Bytes(i)' = Bytes(i)
      /\ Bytes(a)' \in Nat /\ c' = Placed(p) + Bytes(a)' /\ Bytes(p) <= Bytes(a)'
  BY <1>0, <1>1, OnePlaced
<1>7. Spread' /\ \A i \in DOMAIN pc : pc'[i] >= pc[i]
  BY <1>0, <1>1, <1>2, <1>3, <1>6, Placing
<1>8. Shape'
  BY <1>1, PassOverShape, ReachingShape, JumpFarShape
<1>9. phase' # "first"
  BY <1>1, <1>3
<1> QED
  BY <1>7, <1>8, <1>9 DEF LayoutInv
-----------------------------------------------------------------------------
(* The opposite branch and the jump together are no shorter than the       *)
(* branch was, and the jump is put no higher than the pass comes to it.    *)
LEMMA AroundLayout ==
  ASSUME LayoutInv, BranchAround
  PROVE  LayoutInv' /\ \A i \in DOMAIN pc : pc'[i] >= pc[i]
<1>0. PICK q : q = Len(code) + 1
  OBVIOUS
<1>a. PICK a : a = p
  OBVIOUS
<1>1. /\ Shape /\ TypeOK /\ Chained /\ Rewritten /\ phase = "expand" /\ p # None
      /\ phase' = phase /\ far' = far
  BY DEF LayoutInv, Shape, BranchAround, Expanding
<1>2. Spread
  BY <1>1 DEF LayoutInv
<1>3. /\ Len(code) \in Nat /\ c \in Nat /\ pc[a] \in Nat /\ a \in 1..Len(code)
      /\ DOMAIN code = 1..Len(code) /\ DOMAIN pc = 1..Len(code) /\ DOMAIN link = 1..Len(code)
      /\ Len(link) = Len(code) /\ code \in Seq(Instr) /\ pc \in Seq(Nat)
      /\ compr \subseteq 1..Len(code) /\ far \subseteq 1..Len(code)
  BY <1>a, <1>1, AtP, Lens
<1>4. /\ code[a].as \in Conditional /\ DOMAIN link' = 1..q
      /\ link[a] \in 0..Len(code)
      /\ \A i \in 1..Len(code) : i # a => code'[i] = code[i]
      /\ code'[a].as = relinv(code[a].as) /\ code'[q].as = "JMP"
      /\ \A i \in 1..Len(code) : i # a => link'[i] = link[i]
      /\ link'[a] = q /\ link'[q] = link[a]
      /\ code' \in Seq(Instr) /\ DOMAIN code' = 1..q
  BY <1>0, <1>a, <1>1, Around
<1>5. /\ \A i \in 1..Len(code) : i # a => pc'[i] = pc[i]
      /\ pc'[a] = c /\ (\E m \in {pc[a], c} : pc'[q] = m + (c' - c))
      /\ c' \in {c + 2, c + 4} /\ p' = q
      /\ compr' = (IF c' = c + 2 THEN compr \cup {a} ELSE compr \ {a})
  BY <1>0, <1>a, <1>1, Around
<1>6. PICK m \in {pc[a], c} : pc'[q] = m + (c' - c)
  BY <1>5
<1>7. q \notin 1..Len(code) /\ q # a /\ q > 1 /\ 1..q = (1..Len(code)) \cup {q} /\ q \in Nat
  BY <1>0, <1>3
<1>8. pc[a] <= c /\ (a = 1 => c = 0) /\ pc[1] = 0
  <2>1. At(p, c) = c
    BY BranchPlaced DEF BranchAround
  <2> QED
    BY <1>a, <1>1, <1>2, <2>1 DEF Spread
<1>9. a # 1
  <2>1. 1 \in DOMAIN program /\ program[1].as = "TEXT" /\ program[1].as \notin Conditional
    BY <1>1, Kinds, ProgramShape DEF TypeOK
  <2>2. code[1].as = "TEXT"
    BY <1>1, <2>1 DEF Rewritten
  <2> QED
    BY <1>4, <2>2, Kinds
<1>10. \A i \in DOMAIN pc : pc'[i] >= pc[i]
  BY <1>3, <1>5, <1>8
<1>11. \A i \in 1..Len(code) : i # a => Bytes(i)' = Bytes(i)
  <2>1. SUFFICES ASSUME NEW i \in 1..Len(code), i # a  PROVE Bytes(i)' = Bytes(i)
    OBVIOUS
  <2>2. code'[i] = code[i] /\ (i \in far' <=> i \in far) /\ (i \in compr' <=> i \in compr)
    BY <1>1, <1>4, <1>5, <2>1
  <2>3. Size(i)' = Size(i)
    BY <2>2 DEF Size
  <2> QED
    BY <2>2, <2>3 DEF Bytes
<1>12. Bytes(a)' = c' - c
  <2>1. code'[a].as \in Conditional
    BY <1>4, Reciprocal
  <2>2. code'[a].as \notin {"TEXT", "WORD8", "WORD12"} \cup Jumps
    BY <2>1 DEF Conditional, Jumps
  <2>3. Size(a)' = 4
    BY <2>1, <2>2 DEF Size
  <2>4. CASE c' = c + 2
    BY <1>3, <1>5, <2>4 DEF Bytes
  <2>5. CASE c' = c + 4
    BY <1>3, <1>5, <2>3, <2>5 DEF Bytes
  <2> QED
    BY <1>5, <2>4, <2>5
<1>13. Bytes(q)' = 4
  <2>1. q \notin compr' /\ q \notin far'
    BY <1>1, <1>3, <1>5, <1>7
  <2>2. code'[q].as \in Jumps /\ code'[q].as \notin {"TEXT", "WORD8", "WORD12", "CWORD", "WORD4"} \cup Conditional
    BY <1>4 DEF Jumps, Conditional
  <2>3. Size(q)' = 4
    BY <2>1, <2>2 DEF Size
  <2> QED
    BY <2>1, <2>3 DEF Bytes
<1>14. Bytes(a) \in Nat /\ Bytes(a) <= 4
  <2>1. Size(a) = 4
    BY <1>3, <1>4, Sizes
  <2> QED
    BY <2>1 DEF Bytes
<1>15. /\ \A i \in 1..Len(code) : link[i] \in 0..Len(code) /\ link[i] # 1 /\ link[i] # i
       /\ \A i, k \in 1..Len(code) : link[i] = link[k] /\ link[i] # None => i = k
  BY <1>1, <1>3 DEF Chained
<1> DEFINE AtN(i, x) == IF code'[i].as = "TEXT" THEN Align4(x) ELSE x
<1>16. \A i \in 1..Len(code) : \A x : i # a => AtN(i, x) = At(i, x)
  BY <1>4 DEF At
<1>17. \A x : AtN(a, x) = x /\ AtN(q, x) = x
  <2>1. code'[a].as # "TEXT" /\ code'[q].as # "TEXT"
    BY <1>4, Reciprocal, Kinds
  <2> QED
    BY <2>1
<1> HIDE DEF AtN
<1>18. ASSUME NEW i \in 1..q, link'[i] # None
       PROVE  IF link'[i] = q THEN c' = pc'[i] + Bytes(i)'
                              ELSE pc'[link'[i]] <= AtN(link'[i], pc'[i] + Bytes(i)')
  <2>1. CASE i = a
    BY <1>3, <1>4, <1>5, <1>12, <2>1
  <2>2. CASE i = q
    <3>1. link'[i] = link[a] /\ link[a] # q /\ link[a] \in 1..Len(code) /\ link[a] # a
      BY <1>3, <1>4, <1>7, <1>15, <1>18, <2>2 DEF None
    <3>2. pc'[link[a]] = pc[link[a]] /\ pc[link[a]] \in Nat
      BY <1>3, <1>5, <3>1
    <3>3. pc[link[a]] <= At(link[a], pc[a] + Bytes(a))
      BY <1>a, <1>2, <1>3, <3>1 DEF Spread, None
    <3>4. pc[a] + Bytes(a) <= pc'[q] + 4 /\ pc'[q] + 4 \in Nat /\ pc[a] + Bytes(a) \in Nat
      <4>1. m \in Nat /\ pc[a] <= m
        <5>1. c \in Nat /\ pc[a] \in Nat /\ pc[a] <= c /\ m \in {pc[a], c}
          BY <1>3, <1>6, <1>8
        <5> QED
          BY <5>1
      <4>2. pc'[q] = m + 2 \/ pc'[q] = m + 4
        <5>1. CASE c' = c + 2
          <6>1. c' - c = 2
            BY <1>3, <5>1
          <6> QED
            BY <1>6, <6>1
        <5>2. CASE c' = c + 4
          <6>1. c' - c = 4
            BY <1>3, <5>2
          <6> QED
            BY <1>6, <6>1
        <5> QED
          BY <1>5, <5>1, <5>2
      <4>3. pc[a] \in Nat /\ Bytes(a) \in Nat /\ Bytes(a) <= 4
        BY <1>3, <1>14
      <4> QED
        BY <4>1, <4>2, <4>3
    <3>5. /\ At(link[a], pc[a] + Bytes(a)) <= At(link[a], pc'[q] + 4)
          /\ At(link[a], pc[a] + Bytes(a)) \in Nat /\ At(link[a], pc'[q] + 4) \in Nat
      BY <3>4, Ats
    <3>6. AtN(link[a], pc'[q] + 4) = At(link[a], pc'[q] + 4)
      BY <1>16, <3>1
    <3>7. pc'[link'[i]] <= AtN(link'[i], pc'[i] + Bytes(i)')
      BY <1>13, <2>2, <3>1, <3>2, <3>3, <3>5, <3>6
    <3> QED
      BY <3>1, <3>7, Zenon
  <2>3. CASE i # a /\ i # q
    <3>1. /\ i \in 1..Len(code) /\ link'[i] = link[i] /\ link[i] # q /\ link[i] \in 1..Len(code)
          /\ pc'[i] = pc[i] /\ Bytes(i)' = Bytes(i)
      BY <1>4, <1>5, <1>7, <1>11, <1>15, <1>18, <2>3 DEF None
    <3>2. CASE link[i] = a
      <4>1. c = pc[i] + Bytes(i)
        BY <1>a, <1>2, <1>3, <1>18, <3>1, <3>2 DEF Spread
      <4>2. pc'[link'[i]] <= AtN(link'[i], pc'[i] + Bytes(i)')
        BY <1>3, <1>5, <1>17, <3>1, <3>2, <4>1
      <4> QED
        BY <3>1, <4>2, Zenon
    <3>3. CASE link[i] # a
      <4>1. pc[link[i]] <= At(link[i], pc[i] + Bytes(i))
        BY <1>a, <1>2, <1>3, <1>18, <3>1, <3>3 DEF Spread
      <4>2. pc'[link[i]] = pc[link[i]]
        BY <1>5, <3>1, <3>3
      <4>3. AtN(link[i], pc[i] + Bytes(i)) = At(link[i], pc[i] + Bytes(i))
        BY <1>16, <3>1, <3>3
      <4>4. pc'[link'[i]] <= AtN(link'[i], pc'[i] + Bytes(i)')
        BY <3>1, <4>1, <4>2, <4>3
      <4> QED
        BY <3>1, <4>4, Zenon
    <3> QED
      BY <3>2, <3>3
  <2> QED
    BY <2>1, <2>2, <2>3
<1>19. pc'[q] <= AtN(q, c')
  BY <1>3, <1>5, <1>6, <1>8, <1>17
<1>20. pc'[1] = 0
  BY <1>3, <1>5, <1>8, <1>9
<1>21. Spread'
  BY <1>4, <1>5, <1>7, <1>18, <1>19, <1>20 DEF Spread, At, AtN
<1>22. Shape'
  BY <1>1, BranchAroundShape
<1>23. phase' # "first"
  BY <1>1
<1> QED
  BY <1>10, <1>21, <1>22, <1>23 DEF LayoutInv

LEMMA NextPassLayout == LayoutInv /\ NextPass => LayoutInv'
<1> SUFFICES ASSUME LayoutInv, NextPass  PROVE LayoutInv'
  OBVIOUS
<1>1. /\ Shape /\ TypeOK /\ Chained /\ phase \in {"first", "expand"} /\ p = None
      /\ phase' = "expand" /\ c' = 0 /\ p' = 1
      /\ UNCHANGED <<code, link, pc, compr, far>>
  BY DEF LayoutInv, Shape, NextPass
<1>2. Spread
  BY <1>1 DEF LayoutInv
<1>3. \A i : Bytes(i)' = Bytes(i)
  BY <1>1 DEF Bytes, Size
<1>4. ASSUME NEW i \in DOMAIN link, link[i] # None
      PROVE  link[i] # 1 /\ pc[link[i]] <= At(link[i], pc[i] + Bytes(i))
  BY <1>1, <1>2, <1>4 DEF Spread, Chained
<1>5. pc[1] = 0 /\ At(1, 0) \in Nat
  <2>1. At(1, 0) \in Nat
    BY Ats
  <2> QED
    BY <1>2, <2>1 DEF Spread
<1>6. pc'[1] <= At(1, 0)
  BY <1>1, <1>5
<1>7. Spread'
  BY <1>1, <1>3, <1>4, <1>5, <1>6 DEF Spread, At
<1>8. Shape'
  BY <1>1, PassesShape
<1> QED
  BY <1>1, <1>7, <1>8 DEF LayoutInv

LEMMA LayoutStep == LayoutInv /\ [Next]_vars => LayoutInv'
<1> SUFFICES ASSUME LayoutInv, [Next]_vars  PROVE LayoutInv'
  OBVIOUS
<1>1. Shape'
  BY ShapeStep DEF LayoutInv
<1>2. CASE UNCHANGED vars
  <2>1. Fresh => Fresh'
    BY <1>2 DEF vars, Fresh
  <2>2. Spread => Spread'
    BY <1>2 DEF vars, Spread, At, Bytes, Size
  <2> QED
    BY <1>1, <1>2, <2>1, <2>2 DEF LayoutInv, vars
<1>3. CASE StartAsm \/ Emit \/ EndAsm
  <2>1. phase' \notin {"first", "expand"}
    BY <1>3 DEF StartAsm, Emit, EndAsm
  <2> QED
    BY <1>1, <2>1 DEF LayoutInv
<1>4. CASE Done
  BY <1>2, <1>4 DEF Done
<1> QED
  BY <1>2, <1>3, <1>4, FirstPassLayout, NextPassLayout, ExpandingLayout, AroundLayout DEF Next

(* From pass to pass no instruction moves down, whatever forms are lost    *)
(* and however many jumps are inserted.                                    *)
THEOREM LayoutOnlyGrows == Spec => LayoutGrows
<1> DEFINE Grows == phase = "expand" => \A i \in DOMAIN pc : pc'[i] >= pc[i]
<1>1. Init => LayoutInv
  BY InitLayout
<1>2. LayoutInv /\ [Next]_vars => LayoutInv'
  BY LayoutStep
<1>3. LayoutInv /\ [Next]_vars => [Grows]_vars
  <2> SUFFICES ASSUME LayoutInv, Next, phase = "expand", NEW i \in DOMAIN pc
               PROVE  pc'[i] >= pc[i]
    OBVIOUS
  <2>1. PassOver \/ Reaching \/ JumpFar \/ BranchAround \/ UNCHANGED pc
    BY DEF Next, FirstPass, NextPass, StartAsm, Emit, EndAsm, Done, vars
  <2>2. CASE UNCHANGED pc
    <3>1. pc[i] \in Nat
      BY Lens DEF LayoutInv, Shape
    <3> QED
      BY <2>2, <3>1
  <2> QED
    BY <2>1, <2>2, ExpandingLayout, AroundLayout
<1>4. Spec => [][Grows]_vars
  BY <1>1, <1>2, <1>3, PTL DEF Spec
<1> QED
  BY <1>4 DEF LayoutGrows

-----------------------------------------------------------------------------
(* The branches span leaves in their 4-byte forms reach: the pass that is  *)
(* the last changed no size, so it changed no address either, and it has   *)
(* measured every branch at the addresses asmb emits it by.                *)

(* This pass has been over i.                                              *)
Passed(i) == i \in seen <=> spass

(* The list has a beginning that everything comes after.                   *)
Ordered ==
  /\ \E o \in [DOMAIN link -> Nat] :
       \A i \in DOMAIN link : link[i] # None => o[i] < o[link[i]]
  /\ \A j \in DOMAIN link : j = 1 \/ \E i \in DOMAIN link : link[i] = j

(* The pass has been over the instructions in front of p and no others.    *)
Swept ==
  /\ p # None => ~Passed(p)
  /\ p # 1 => Passed(1)
  /\ \A i \in DOMAIN link :
       link[i] # None => IF link[i] = p THEN Passed(i) ELSE Passed(i) <=> Passed(link[i])

(* i ends where its successor begins; a jump just inserted is not laid out.*)
Laid(i) == IF phase = "first" THEN p = None \/ i < p ELSE i # p \/ ~bflag
Exact ==
  \A i \in DOMAIN link :
    link[i] \notin {None, p} /\ Laid(i) => pc[link[i]] = At(link[i], pc[i] + Bytes(i))

(* No size has changed in this pass: nothing has moved.                    *)
Quiet == ~bflag /\ far = {}
Still == p # None => pc[p] = At(p, c)

(* The form an instruction has will do at the addresses there are.         *)
Near(i) ==
  /\ Type3(i) => Magnitude(Displacement(i, pc)) < BReach
  /\ Type4(i) => Magnitude(Displacement(i, pc)) < JReach

(* Without -c an instruction that can be short makes span look again.      *)
CanShrink(i) ==
  program[i].as \in {"CWORD", "BEQZ", "BNEZ", "JMP"} \cup (IF RV32 THEN {"JAL"} ELSE {})
LooksAgain == ~nocompress /\ \E i \in DOMAIN program : CanShrink(i)

(* The program does not run off its end behind a conditional branch: span  *)
(* would take the address of no instruction when that branch is far.       *)
EndsWell == program[Len(program)].as \notin Conditional

Targets ==
  \A i \in DOMAIN code :
    /\ link[i] = None => code[i].as \notin Conditional
    /\ code[i].as \in Conditional \cup Jumps => code[i].cond \in DOMAIN code

(* What is needed for every branch to have been measured where it ends up. *)
Measurable == LooksAgain /\ EndsWell /\ far = {}

ReachInv ==
  /\ LayoutInv
  /\ Ordered
  /\ EndsWell => Targets
  /\ phase = "first" => /\ seen = {} /\ ~spass
                        /\ ~nocompress /\ ~bflag =>
                             \A i \in DOMAIN program : CanShrink(i) => p # None /\ i >= p
  /\ phase \in {"first", "expand"} => Exact /\ BranchesReach
  /\ phase = "expand" => Swept
  /\ phase = "expand" /\ Quiet => Still /\ \A i \in DOMAIN code : Passed(i) => Near(i)
  /\ phase \in {"asm", "done"} /\ Measurable =>
       (\A i \in DOMAIN code : Near(i)) /\ BranchesReach

-----------------------------------------------------------------------------
LEMMA AllPassed ==
  ASSUME Shape, Ordered, Swept, p = None
  PROVE  \A i \in DOMAIN code : Passed(i)
<1>1. DOMAIN link = DOMAIN code /\ 1 # None
  BY Lens DEF Shape, None
<1>2. PICK o \in [DOMAIN link -> Nat] :
        \A i \in DOMAIN link : link[i] # None => o[i] < o[link[i]]
  BY DEF Ordered
<1> DEFINE Late == {i \in DOMAIN link : ~Passed(i)}
           When == {o[i] : i \in Late}
<1>3. SUFFICES ASSUME Late # {}  PROVE FALSE
  BY <1>1
<1>4. When # {} /\ When \subseteq Nat
  BY <1>3
<1>5. PICK m \in When : \A k \in When : m <= k
  <2> HIDE DEF When
  <2> QED
    BY <1>4, Least
<1>6. PICK i \in Late : m = o[i]
  OBVIOUS
<1>7. i \in DOMAIN link /\ ~Passed(i) /\ i # 1
  BY <1>1, <1>6 DEF Swept
<1>8. PICK k \in DOMAIN link : link[k] = i
  BY <1>7 DEF Ordered
<1>9. i # None
  BY <1>7, Lens DEF Shape, None
<1>10. ~Passed(k)
  BY <1>7, <1>8, <1>9 DEF Swept
<1>11. o[k] < o[i] /\ o[k] \in When /\ o[k] \in Nat /\ o[i] \in Nat
  BY <1>2, <1>7, <1>8, <1>9, <1>10
<1> QED
  BY <1>5, <1>6, <1>11

LEMMA InitReach == Init => ReachInv
<1> SUFFICES ASSUME Init  PROVE ReachInv
  OBVIOUS
<1> DEFINE n == Len(program)
<1>1. LayoutInv /\ Shape
  BY InitLayout DEF LayoutInv
<1>2. /\ DOMAIN link = 1..n /\ n \in Nat
      /\ \A i \in 1..n : link[i] = IF i = n THEN None ELSE i + 1
      /\ p = 1 /\ phase = "first" /\ seen = {} /\ spass = FALSE /\ bflag = FALSE
      /\ DOMAIN program = 1..n
  <2>1. Len(link) \in Nat /\ DOMAIN link = 1..Len(code) /\ Len(code) \in Nat /\ code = program
    BY <1>1, Lens DEF Shape, Init
  <2> QED
    BY <2>1 DEF Init
<1> HIDE DEF n
<1>3. Ordered
  <2>1. [i \in 1..n |-> i] \in [DOMAIN link -> Nat]
    BY <1>2
  <2>2. \A i \in DOMAIN link : link[i] # None => [k \in 1..n |-> k][i] < [k \in 1..n |-> k][link[i]]
    BY <1>2
  <2>3. ASSUME NEW j \in DOMAIN link, j # 1  PROVE \E i \in DOMAIN link : link[i] = j
    <3>1. j - 1 \in 1..n /\ link[j - 1] = j
      BY <1>2, <2>3
    <3> QED
      BY <1>2, <3>1
  <2> QED
    BY <2>1, <2>2, <2>3 DEF Ordered
<1>4. Exact
  BY <1>2 DEF Exact, Laid, None
<1>5. \A i \in DOMAIN program : p # None /\ i >= p
  BY <1>2 DEF None
<1>6. EndsWell => Targets
  <2>1. IsProgram(program) /\ code = program
    BY LinkSpanAssumption DEF Init
  <2>2. \A i \in DOMAIN program :
          program[i].as \in Conditional \cup Jumps => program[i].cond \in DOMAIN program
    BY <2>1 DEF IsProgram
  <2>3. \A i \in 1..n : link[i] = None => i = n
    BY <1>2 DEF None
  <2> QED
    BY <1>2, <2>1, <2>2, <2>3 DEF EndsWell, Targets, n
<1>7. BranchesReach
  BY DEF Init, BranchesReach
<1> QED
  BY <1>1, <1>2, <1>3, <1>4, <1>5, <1>6, <1>7 DEF ReachInv

(* The pass goes over p and on to the instruction after it.                *)
LEMMA SweepOn ==
  ASSUME Shape, Swept, p # None, UNCHANGED link, p' = link[p], NEW a, a = p,
         \A i \in DOMAIN link : i # a => (Passed(i)' <=> Passed(i)), Passed(a)'
  PROVE  Swept'
<1>1. /\ DOMAIN link = 1..Len(code) /\ Len(code) \in Nat /\ a \in DOMAIN link /\ 1 \in DOMAIN link
      /\ \A i \in DOMAIN link : link[i] \in 0..Len(code) /\ link[i] # 1 /\ link[i] # i
      /\ \A i, k \in DOMAIN link : link[i] = link[k] /\ link[i] # None => i = k
  <2>1. DOMAIN link = 1..Len(code) /\ Len(code) \in Nat /\ Len(link) = Len(code) /\ p \in 1..Len(code)
    BY Lens, AtP DEF Shape
  <2> QED
    BY <2>1 DEF Shape, Chained
<1>2. \A i \in DOMAIN link : link[i] # None => link[i] \in DOMAIN link
  BY <1>1 DEF None
<1>3. ~Passed(a)
  BY DEF Swept
<1>4. p' # None => ~(p' \in seen' <=> spass')
  <2> SUFFICES ASSUME link[a] # None  PROVE ~Passed(link[a])'
    BY DEF Passed
  <2>1. ~Passed(link[a]) /\ link[a] # a /\ link[a] \in DOMAIN link
    BY <1>1, <1>2, <1>3 DEF Swept
  <2> QED
    BY <2>1
<1>5. Passed(1)'
  BY <1>1 DEF Swept
<1>6. ASSUME NEW i \in DOMAIN link, link[i] # None
      PROVE  IF link[i] = p' THEN Passed(i)' ELSE Passed(i)' <=> Passed(link[i])'
  <2>1. CASE link[i] = p'
    <3>1. i = a
      BY <1>1, <1>6, <2>1
    <3> QED
      BY <2>1, <3>1
  <2>2. CASE link[i] # p'
    <3>1. i # a /\ (Passed(i)' <=> Passed(i))
      BY <1>6, <2>2
    <3>2. CASE link[i] = a
      <4>1. Passed(i)
        BY <1>6, <3>2 DEF Swept
      <4> QED
        BY <2>2, <3>1, <3>2, <4>1
    <3>3. CASE link[i] # a
      <4>1. Passed(i) <=> Passed(link[i])
        BY <1>6, <3>3 DEF Swept
      <4>2. Passed(link[i])' <=> Passed(link[i])
        BY <1>2, <1>6, <3>3
      <4> QED
        BY <2>2, <3>1, <4>1, <4>2
    <3> QED
      BY <3>2, <3>3
  <2> QED
    BY <2>1, <2>2
<1> QED
  BY <1>4, <1>5, <1>6 DEF Swept, Passed

(* ... and leaves it where the one before it ends.                         *)
LEMMA ExactOn ==
  ASSUME TypeOK, Chained, Spread, Exact, p # None, UNCHANGED <<code, link>>,
         pc' = [pc EXCEPT ![p] = Placed(p)], p' = link[p], NEW a, a = p,
         \A i \in DOMAIN code : i # a => Bytes(i)' = Bytes(i),
         \A i \in DOMAIN code : i # a /\ Laid(i)' => Laid(i)
  PROVE  Exact'
<1>1. /\ p \in 1..Len(code) /\ pc[p] \in Nat /\ Placed(p) \in Nat
  BY AtP
<1>2. /\ code \in Seq(Instr) /\ pc \in Seq(Nat) /\ c \in Nat /\ Len(code) \in Nat
      /\ DOMAIN code = 1..Len(code) /\ DOMAIN pc = 1..Len(code) /\ DOMAIN link = 1..Len(code)
      /\ Len(link) = Len(code)
  BY Lens
<1>3. Placed(p) = At(p, c)
  BY PlacedAt
<1>4. pc'[p] = Placed(p) /\ \A i \in 1..Len(code) : i # p => pc'[i] = pc[i]
  BY <1>1, <1>2
<1>5. \A i \in 1..Len(code) : link[i] \in 0..Len(code) /\ link[i] # i
  BY <1>2 DEF Chained
<1>6. ASSUME NEW i \in 1..Len(code), link[i] # None, link[i] # p', Laid(i)'
      PROVE  pc'[link[i]] = At(link[i], pc'[i] + Bytes(i)')
  <2>a. i # a
    BY <1>6
  <2>b. link[i] \in 1..Len(code) /\ i \in DOMAIN code
    BY <1>2, <1>5, <1>6 DEF None
  <2>1. Laid(i) /\ pc'[i] = pc[i] /\ Bytes(i)' = Bytes(i)
    BY <1>4, <1>6, <2>a, <2>b
  <2>2. CASE link[i] = p
    <3>1. c = pc[i] + Bytes(i)
      BY <1>2, <1>6, <2>2 DEF Spread
    <3> QED
      BY <1>3, <1>4, <2>1, <2>b, <2>2, <3>1
  <2>3. CASE link[i] # p
    <3>1. pc[link[i]] = At(link[i], pc[i] + Bytes(i))
      BY <1>2, <1>6, <2>1, <2>3 DEF Exact
    <3> QED
      BY <1>4, <2>1, <2>b, <2>3, <3>1
  <2> QED
    BY <2>2, <2>3
<1>7. \A i \in DOMAIN link' : link'[i] \notin {None, p'} /\ Laid(i)' =>
        pc'[link'[i]] = At(link'[i], pc'[i] + Bytes(i)')
  BY <1>2, <1>6
<1>8. \A i, x : (IF code'[i].as = "TEXT" THEN Align4(x) ELSE x) = At(i, x)
  BY DEF At
<1> QED
  BY <1>7, <1>8 DEF Exact, At

LEMMA SameLinks ==
  ASSUME ReachInv, UNCHANGED <<program, code, link>>
  PROVE  Ordered' /\ (EndsWell => Targets)'
<1>1. Ordered'
  BY DEF ReachInv, Ordered
<1>2. (EndsWell => Targets)'
  BY DEF ReachInv, EndsWell, Targets
<1> QED
  BY <1>1, <1>2

LEMMA FirstPassReach == ReachInv /\ FirstPass => ReachInv'
<1> SUFFICES ASSUME ReachInv, FirstPass  PROVE ReachInv'
  OBVIOUS
<1>0. PICK a : a = p
  OBVIOUS
<1>1. /\ LayoutInv /\ TypeOK /\ Chained /\ Rewritten /\ Spread /\ Fresh /\ Exact
      /\ phase = "first" /\ p # None
  BY DEF FirstPass, ReachInv, LayoutInv, Shape
<1>2. /\ UNCHANGED <<program, nocompress, code, link, seen, far, spass, phase, diags>>
      /\ pc' = [pc EXCEPT ![p] = Placed(p)] /\ p' = link[p]
  BY DEF FirstPass
<1>3. /\ p \in 1..Len(code) /\ Len(code) \in Nat /\ Len(program) = Len(code)
      /\ DOMAIN code = 1..Len(code) /\ DOMAIN program = 1..Len(code)
      /\ DOMAIN link = 1..Len(code)
  BY <1>1, AtP, Lens DEF Fresh
<1>4. link[p] = IF p = Len(code) THEN None ELSE p + 1
  BY <1>1, <1>3 DEF Fresh
<1>5. compr' \in {compr, compr \cup {p}}
  BY DEF FirstPass
<1>6. \A i \in DOMAIN code : i # a => Bytes(i)' = Bytes(i)
  <2>1. \A i : Size(i)' = Size(i)
    BY <1>2 DEF Size
  <2> QED
    BY <1>0, <1>5, <2>1 DEF Bytes
<1>7. \A i \in DOMAIN code : i # a /\ Laid(i)' => Laid(i)
  <2>1. p \in 1..Len(code) /\ Len(code) \in Nat /\ p' = IF p = Len(code) THEN None ELSE p + 1
    BY <1>2, <1>3, <1>4
  <2>2. ASSUME NEW i \in 1..Len(code), i # p, p' = None \/ i < p'  PROVE i < p
    BY <2>1, <2>2 DEF None
  <2> QED
    BY <1>0, <1>1, <1>2, <1>3, <2>2 DEF Laid
<1>8. Exact'
  BY <1>0, <1>1, <1>2, <1>6, <1>7, ExactOn
<1>9. ASSUME ~nocompress, ~bflag', NEW i \in DOMAIN program, CanShrink(i)
      PROVE  p' # None /\ i >= p'
  <2>1. ~bflag /\ ~asmcompressed(p, pc, TRUE)
    BY <1>9 DEF FirstPass
  <2>2. i >= p
    BY <1>1, <1>9, <2>1 DEF ReachInv
  <2>3. i # p
    <3>1. \/ code[i].as = program[i].as
          \/ program[i].as \in Conditional /\ code[i].as = relinv(program[i].as)
      BY <1>1, <1>9 DEF Rewritten
    <3>2. \/ code[i].as \in {"CWORD", "BEQZ", "BNEZ", "JMP"}
          \/ RV32 /\ code[i].as = "JAL"
      BY <1>9, <3>1 DEF CanShrink, Conditional, relinv
    <3>3. p \notin far
      BY <1>1 DEF Fresh
    <3> QED
      BY <1>9, <2>1, <3>2, <3>3 DEF asmcompressed, Type4, Jumps
  <2>4. i \in 1..Len(code) /\ i > p
    <3>1. i \in 1..Len(code) /\ p \in 1..Len(code)
      BY <1>3, <1>9
    <3> QED
      BY <2>2, <2>3, <3>1
  <2>5. p \in 1..Len(code) /\ Len(code) \in Nat /\ p' = IF p = Len(code) THEN None ELSE p + 1
    BY <1>2, <1>3, <1>4
  <2> QED
    BY <2>4, <2>5 DEF None
<1>10. LayoutInv' /\ phase' = "first" /\ seen' = {} /\ ~spass' /\ BranchesReach'
  BY <1>1, <1>2, FirstPassLayout DEF ReachInv, BranchesReach
<1>11. ~nocompress' /\ ~bflag' =>
         \A i \in DOMAIN program' : CanShrink(i)' => p' # None /\ i >= p'
  BY <1>2, <1>9 DEF CanShrink
<1> QED
  BY <1>2, <1>8, <1>10, <1>11, SameLinks DEF ReachInv

(* The next pass has been over nothing yet.                                *)
LEMMA NextPassReach == ReachInv /\ NextPass => ReachInv'
<1> SUFFICES ASSUME ReachInv, NextPass  PROVE ReachInv'
  OBVIOUS
<1>1. /\ LayoutInv /\ Shape /\ TypeOK /\ Chained /\ Spread /\ Exact /\ Ordered /\ BranchesReach
      /\ phase \in {"first", "expand"} /\ p = None /\ bflag
  BY DEF NextPass, ReachInv, LayoutInv, Shape
<1>2. /\ UNCHANGED <<program, nocompress, code, link, pc, compr, seen, far, diags>>
      /\ phase' = "expand" /\ bflag' = FALSE /\ (spass' <=> ~spass) /\ c' = 0 /\ p' = 1
  BY DEF NextPass
<1>3. /\ DOMAIN code = 1..Len(code) /\ DOMAIN link = 1..Len(code) /\ 1 \in DOMAIN link
      /\ Len(link) = Len(code) /\ Len(code) \in Nat
  <2>1. 1 \in 1..Len(program) /\ Len(program) \in Nat /\ Len(program) <= Len(code)
    BY <1>1, Lens
  <2>2. Len(code) \in Nat /\ DOMAIN code = 1..Len(code) /\ DOMAIN link = 1..Len(code)
        /\ Len(link) = Len(code)
    BY <1>1, Lens
  <2> QED
    BY <2>1, <2>2
<1>4. \A i \in 1..Len(code) : ~Passed(i)'
  <2>1. CASE phase = "first"
    <3>1. seen = {} /\ ~spass
      BY <2>1 DEF ReachInv
    <3> QED
      BY <1>2, <3>1 DEF Passed
  <2>2. CASE phase = "expand"
    <3>1. \A i \in 1..Len(code) : Passed(i)
      BY <1>1, <1>3, <2>2, AllPassed DEF ReachInv
    <3> QED
      BY <1>2, <3>1 DEF Passed
  <2> QED
    BY <1>1, <2>1, <2>2
<1>5. \A i \in 1..Len(code) : link[i] # 1 /\ (link[i] # None => link[i] \in 1..Len(code))
  BY <1>1, <1>3 DEF Chained, None
<1>6. Swept'
  <2>1. ~Passed(1)'
    BY <1>3, <1>4
  <2>2. ASSUME NEW i \in DOMAIN link, link[i] # None
        PROVE  link[i] # 1 /\ ~Passed(i)' /\ ~Passed(link[i])'
    <3>1. i \in 1..Len(code) /\ link[i] \in 1..Len(code) /\ link'[i] = link[i]
      BY <1>2, <1>3, <1>5, <2>2
    <3> QED
      BY <1>4, <1>5, <3>1 DEF Passed
  <2> QED
    BY <1>2, <2>1, <2>2 DEF Swept, Passed
<1>7. Exact'
  <2>1. \A i : Bytes(i)' = Bytes(i)
    BY <1>2 DEF Bytes, Size
  <2>2. \A i \in DOMAIN link : Laid(i)
    BY <1>1, <1>3 DEF Laid, None
  <2>3. \A i \in DOMAIN link : link[i] # None => pc[link[i]] = At(link[i], pc[i] + Bytes(i))
    BY <1>1, <2>2 DEF Exact
  <2> QED
    BY <1>2, <2>1, <2>3 DEF Exact, At
<1>8. Still'
  <2>1. pc[1] = 0 /\ Align4(0) = 0
    BY <1>1 DEF Spread, Align4
  <2> QED
    BY <1>2, <2>1 DEF Still, At
<1>9. LayoutInv' /\ BranchesReach'
  BY <1>1, <1>2, NextPassLayout DEF BranchesReach
<1>10. \A i \in DOMAIN code' : ~Passed(i)'
  BY <1>2, <1>3, <1>4
<1> QED
  BY <1>2, <1>6, <1>7, <1>8, <1>9, <1>10, SameLinks DEF ReachInv

(* A pass in which no size changes leaves everything where it was, and     *)
(* what it has been over reaches from there.                               *)
LEMMA QuietOn ==
  ASSUME ReachInv, PassOver \/ Reaching \/ JumpFar, Quiet', NEW a, a = p,
         \A i \in DOMAIN code : i # a => (Passed(i)' <=> Passed(i))
  PROVE  Still' /\ \A i \in DOMAIN code' : Passed(i)' => Near(i)'
<1>1. /\ LayoutInv /\ Shape /\ TypeOK /\ Chained /\ Exact
      /\ phase = "expand" /\ p # None
  BY DEF ReachInv, LayoutInv, Shape, PassOver, Reaching, JumpFar, Expanding
<1>2. UNCHANGED <<code, link>> /\ p' = link[p] /\ pc' = [pc EXCEPT ![p] = Placed(p)]
  BY <1>1, OnePlaced
<1>3. c' = Placed(p) + Bytes(a)'
  BY <1>1, OnePlaced
<1>4. p \in DOMAIN code /\ p \in DOMAIN link /\ DOMAIN link = DOMAIN code /\ pc \in Seq(Nat)
      /\ p \in DOMAIN pc /\ link[p] # p
  <2>1. p \in DOMAIN code /\ p \in DOMAIN link /\ DOMAIN link = DOMAIN code /\ p \in DOMAIN pc
    BY <1>1, AtP
  <2> QED
    BY <1>1, <2>1, Lens DEF Chained
<1>5. ~bflag' /\ far' = {}
  BY DEF Quiet
<1>6. PassOver \/ Reaching
  BY <1>5 DEF JumpFar
<1>7. ~bflag /\ UNCHANGED <<compr, far>>
  <2>1. CASE PassOver
    BY <1>5, <2>1 DEF PassOver
  <2>2. CASE Reaching
    <3>1. ~bflag /\ ~Overrun
      BY <1>5, <2>2 DEF Reaching, AnotherPass
    <3> QED
      BY <2>2, <3>1 DEF Reaching, MarksLeft
  <2> QED
    BY <1>6, <2>1, <2>2
<1>8. Still /\ \A i \in DOMAIN code : Passed(i) => Near(i)
  BY <1>1, <1>5, <1>7 DEF ReachInv, Quiet
<1>9. Placed(p) = pc[p]
  BY <1>1, <1>8, PlacedAt DEF Still
<1>10. pc' = pc
  BY <1>2, <1>4, <1>9
<1>11. \A i : Bytes(i)' = Bytes(i)
  BY <1>2, <1>7 DEF Bytes, Size
<1>12. Near(p)
  <2>1. CASE PassOver
    BY <2>1 DEF PassOver, Near
  <2>2. CASE Reaching
    <3>1. Type3(p) \/ Type4(p)
      BY <2>2 DEF Reaching
    <3>2. Measured = pc
      <4>1. pc[p] = c
        BY <1>9, <3>1, BranchPlaced
      <4> QED
        BY <1>4, <4>1 DEF Measured
    <3>3. ~(Type3(p) /\ Type4(p))
      BY Kinds DEF Type3, Type4
    <3>4. \/ Type3(p) /\ Magnitude(Displacement(p, pc)) < BReach
          \/ Type4(p) /\ Magnitude(Displacement(p, pc)) < JReach
      BY <2>2, <3>2 DEF Reaching
    <3> QED
      BY <3>3, <3>4 DEF Near
  <2> QED
    BY <1>6, <2>1, <2>2
<1>13. \A i : Near(i)' <=> Near(i)
  BY <1>2, <1>7, <1>10 DEF Near, Type3, Type4, Displacement
<1>14. \A i \in DOMAIN code' : Passed(i)' => Near(i)'
  BY <1>2, <1>8, <1>12, <1>13
<1>15. Still'
  <2> SUFFICES ASSUME link[p] # None  PROVE pc[link[p]] = At(link[p], c')
    BY <1>2, <1>10 DEF Still, At
  <2>1. pc[link[p]] = At(link[p], pc[p] + Bytes(p))
    BY <1>1, <1>4, <1>7 DEF Exact, Laid
  <2>2. c' = pc[p] + Bytes(p)
    BY <1>3, <1>9, <1>11
  <2> QED
    BY <2>1, <2>2
<1> QED
  BY <1>14, <1>15

LEMMA ExpandingReach ==
  ASSUME ReachInv, PassOver \/ Reaching \/ JumpFar
  PROVE  ReachInv'
<1>0. PICK a : a = p
  OBVIOUS
<1>1. /\ LayoutInv /\ Shape /\ TypeOK /\ Chained /\ Spread /\ Exact /\ Swept
      /\ phase = "expand" /\ p # None /\ BranchesReach
  BY DEF ReachInv, LayoutInv, Shape, PassOver, Reaching, JumpFar, Expanding
<1>2. /\ UNCHANGED <<program, nocompress, code, link, phase, spass>> /\ p' = link[p]
      /\ pc' = [pc EXCEPT ![p] = Placed(p)]
  BY <1>0, <1>1, OnePlaced
<1>3. \A i \in DOMAIN code : i # a => Bytes(i)' = Bytes(i)
  BY <1>0, <1>1, OnePlaced
<1>4. DOMAIN link = DOMAIN code /\ p \in DOMAIN code
  BY <1>1, AtP
<1>5. seen' = (seen \ {p}) \cup (IF p \in seen THEN {} ELSE {p})
  BY DEF PassOver, Reaching, JumpFar, Place
<1>6. /\ \A i \in DOMAIN link : i # a => (Passed(i)' <=> Passed(i))
      /\ Passed(a)'
  <2>1. ~Passed(p)
    BY <1>1 DEF Swept
  <2> QED
    BY <1>0, <1>2, <1>5, <2>1 DEF Passed
<1>7. Swept'
  BY <1>0, <1>1, <1>2, <1>6, SweepOn
<1>8. Exact'
  <2>1. \A i \in DOMAIN code : i # a /\ Laid(i)' => Laid(i)
    BY <1>0, <1>1 DEF Laid
  <2> QED
    BY <1>0, <1>1, <1>2, <1>3, <2>1, ExactOn
<1>9. Quiet' => Still' /\ \A i \in DOMAIN code' : Passed(i)' => Near(i)'
  <2>1. \A i \in DOMAIN code : i # a => (Passed(i)' <=> Passed(i))
    BY <1>4, <1>6
  <2> QED
    BY <1>0, <2>1, QuietOn
<1>10. LayoutInv'
  BY <1>1, ExpandingLayout
<1>11. BranchesReach'
  BY <1>1 DEF BranchesReach, PassOver, Reaching, JumpFar
<1> QED
  BY <1>1, <1>2, <1>7, <1>8, <1>9, <1>10, <1>11, SameLinks DEF ReachInv

(* The inserted jump comes between the branch and what came after it.      *)
LEMMA AroundReach == ReachInv /\ BranchAround => ReachInv'
<1> SUFFICES ASSUME ReachInv, BranchAround  PROVE ReachInv'
  OBVIOUS
<1>0. PICK q : q = Len(code) + 1
  OBVIOUS
<1>a. PICK a : a = p
  OBVIOUS
<1>1. /\ LayoutInv /\ Shape /\ TypeOK /\ Chained /\ Spread /\ Exact /\ Swept /\ Ordered
      /\ phase = "expand" /\ p # None /\ BranchesReach
  BY DEF ReachInv, LayoutInv, Shape, BranchAround, Expanding
<1>2. UNCHANGED <<program, nocompress, far, spass, phase, diags>> /\ bflag' = TRUE
  BY DEF BranchAround, AnotherPassAround
<1>3. /\ Len(code) \in Nat /\ a \in 1..Len(code) /\ 1 \in 1..Len(code)
      /\ DOMAIN code = 1..Len(code) /\ DOMAIN link = 1..Len(code)
      /\ compr \subseteq 1..Len(code) /\ far \subseteq 1..Len(code) /\ seen \subseteq 1..Len(code)
  <2>1. 1 \in 1..Len(program) /\ Len(program) \in Nat /\ Len(program) <= Len(code)
    BY <1>1, Lens
  <2>2. /\ Len(code) \in Nat /\ a \in 1..Len(code)
        /\ DOMAIN code = 1..Len(code) /\ DOMAIN link = 1..Len(code)
        /\ compr \subseteq 1..Len(code) /\ far \subseteq 1..Len(code) /\ seen \subseteq 1..Len(code)
    BY <1>a, <1>1, AtP, Lens
  <2> QED
    BY <2>1, <2>2
<1>4. /\ code[a].as \in Conditional /\ DOMAIN code' = 1..q /\ DOMAIN link' = 1..q
      /\ \A i \in 1..Len(code) : i # a => code'[i] = code[i]
      /\ code'[a].as = relinv(code[a].as) /\ code'[a].cond = link[a]
      /\ code'[q].as = "JMP" /\ code'[q].cond = code[a].cond
      /\ \A i \in 1..Len(code) : i # a => link'[i] = link[i]
      /\ link'[a] = q /\ link'[q] = link[a]
  BY <1>0, <1>a, <1>1, Around
<1>5. /\ \A i \in 1..Len(code) : i # a => pc'[i] = pc[i]
      /\ pc'[a] = c /\ p' = q
      /\ compr' = (IF c' = c + 2 THEN compr \cup {a} ELSE compr \ {a})
  BY <1>0, <1>a, <1>1, Around
<1>6. q \notin 1..Len(code) /\ q # a /\ q # 1 /\ 1..q = (1..Len(code)) \cup {q} /\ q \in Nat /\ q # None
  BY <1>0, <1>3 DEF None
<1>7. /\ \A i \in 1..Len(code) : link[i] # None => link[i] \in 1..Len(code)
      /\ \A i \in 1..Len(code) : link[i] # q /\ link[i] # i /\ link[i] # 1
  BY <1>1, <1>3, <1>6 DEF Chained, None
<1>8. seen' = ((seen \ {a}) \cup (IF a \in seen THEN {} ELSE {a})) \cup (IF spass THEN {} ELSE {q})
  BY <1>0, <1>a DEF BranchAround
<1>9. ~Passed(q)' /\ Passed(a)' /\ \A i \in 1..Len(code) : i # a => (Passed(i)' <=> Passed(i))
  <2>1. ~Passed(a)
    BY <1>a, <1>1 DEF Swept
  <2>2. q \notin seen
    BY <1>3, <1>6
  <2> QED
    BY <1>2, <1>6, <1>8, <2>1, <2>2 DEF Passed
<1>10. Ordered'
  <2>1. PICK o \in [DOMAIN link -> Nat] :
          \A i \in DOMAIN link : link[i] # None => o[i] < o[link[i]]
    BY <1>1 DEF Ordered
  <2> DEFINE w == [i \in 1..q |-> IF i = q THEN 2 * o[a] + 1 ELSE 2 * o[i]]
  <2>2. /\ \A i \in 1..Len(code) : o[i] \in Nat /\ 2 * o[i] \in Nat
        /\ \A i \in 1..Len(code) : link[i] # None => o[i] < o[link[i]]
    BY <1>3, <2>1
  <2>3. /\ w \in [1..q -> Nat] /\ w[q] = 2 * o[a] + 1
        /\ \A i \in 1..Len(code) : w[i] = 2 * o[i]
    <3>1. q \in 1..q /\ o[a] \in Nat /\ 2 * o[a] + 1 \in Nat
      BY <1>3, <1>6, <2>2
    <3>2. \A i \in 1..q : i # q => i \in 1..Len(code)
      BY <1>6
    <3>3. \A i \in 1..q : (IF i = q THEN 2 * o[a] + 1 ELSE 2 * o[i]) \in Nat
      BY <2>2, <3>1, <3>2
    <3>4. \A i \in 1..Len(code) : i \in 1..q /\ i # q
      BY <1>6
    <3> QED
      BY <3>1, <3>3, <3>4
  <2> HIDE DEF w
  <2>4. ASSUME NEW i \in 1..q, link'[i] # None  PROVE w[i] < w[link'[i]]
    <3>1. CASE i = a
      BY <1>3, <1>4, <2>2, <2>3, <3>1
    <3>2. CASE i = q
      <4>1. link'[i] = link[a] /\ link[a] \in 1..Len(code) /\ o[a] < o[link[a]]
        BY <1>3, <1>4, <1>7, <2>2, <2>4, <3>2
      <4>2. w[link[a]] = 2 * o[link[a]] /\ o[a] \in Nat /\ o[link[a]] \in Nat
        BY <1>3, <2>2, <2>3, <4>1
      <4> QED
        BY <2>3, <3>2, <4>1, <4>2
    <3>3. CASE i # a /\ i # q
      <4>1. i \in 1..Len(code) /\ link'[i] = link[i] /\ link[i] \in 1..Len(code) /\ o[i] < o[link[i]]
        BY <1>4, <1>6, <1>7, <2>2, <2>4, <3>3
      <4>2. w[i] = 2 * o[i] /\ w[link[i]] = 2 * o[link[i]] /\ o[i] \in Nat /\ o[link[i]] \in Nat
        BY <2>2, <2>3, <4>1
      <4> QED
        BY <4>1, <4>2
    <3> QED
      BY <3>1, <3>2, <3>3
  <2>5. ASSUME NEW j \in 1..q, j # 1  PROVE \E i \in 1..q : link'[i] = j
    <3>1. CASE j = q
      BY <1>3, <1>4, <1>6, <3>1
    <3>2. CASE j # q
      <4>1. j \in DOMAIN link
        BY <1>3, <1>6, <3>2
      <4>2. PICK k \in 1..Len(code) : link[k] = j
        BY <1>1, <1>3, <2>5, <4>1 DEF Ordered
      <4> QED
        BY <1>4, <1>6, <4>2
    <3> QED
      BY <3>1, <3>2
  <2>6. w \in [DOMAIN link' -> Nat]
    BY <1>4, <2>3
  <2> QED
    BY <1>4, <2>4, <2>5, <2>6 DEF Ordered
<1>11. Swept'
  <2>1. p' # 1 => Passed(1)'
    <3>1. CASE a = 1
      BY <1>9, <3>1
    <3>2. CASE a # 1
      BY <1>a, <1>1, <1>3, <1>9, <3>2 DEF Swept
    <3> QED
      BY <3>1, <3>2
  <2>2. ASSUME NEW i \in 1..q, link'[i] # None, link'[i] # q
        PROVE  Passed(i)' <=> (link'[i] \in seen' <=> spass')
    <3>1. CASE i = q
      <4>1. link'[i] = link[a] /\ link[a] \in 1..Len(code) /\ link[a] # a /\ a \in DOMAIN link
        BY <1>3, <1>4, <1>7, <2>2, <3>1
      <4>2. ~Passed(link[a])
        BY <1>a, <1>1, <2>2, <4>1 DEF Swept
      <4>3. ~(link[a] \in seen' <=> spass')
        BY <1>9, <4>1, <4>2 DEF Passed
      <4> QED
        BY <1>9, <3>1, <4>1, <4>3
    <3>2. CASE i # q
      <4>1. /\ i \in 1..Len(code) /\ i # a /\ link'[i] = link[i] /\ link[i] \in 1..Len(code)
            /\ i \in DOMAIN link
        BY <1>3, <1>4, <1>6, <1>7, <2>2, <3>2
      <4>2. CASE link[i] = a
        <5>1. Passed(i)
          BY <1>a, <1>1, <2>2, <4>1, <4>2 DEF Swept
        <5> QED
          BY <1>9, <4>1, <4>2, <5>1 DEF Passed
      <4>3. CASE link[i] # a
        <5>1. Passed(i) <=> Passed(link[i])
          BY <1>a, <1>1, <2>2, <4>1, <4>3 DEF Swept
        <5> QED
          BY <1>9, <4>1, <4>3, <5>1 DEF Passed
      <4> QED
        BY <4>2, <4>3
    <3> QED
      BY <3>1, <3>2
  <2>3. ASSUME NEW i \in 1..q, link'[i] = q  PROVE Passed(i)'
    <3>1. i = a
      BY <1>4, <1>6, <1>7, <1>3, <2>3
    <3> QED
      BY <1>9, <3>1
  <2> QED
    BY <1>4, <1>5, <1>9, <2>1, <2>2, <2>3 DEF Swept, Passed
<1>12. Exact'
  <2> DEFINE AtN(i, x) == IF code'[i].as = "TEXT" THEN Align4(x) ELSE x
  <2>1. \A i \in 1..Len(code) : \A x : AtN(i, x) = At(i, x)
    <3>1. \A i \in 1..Len(code) : code'[i].as = "TEXT" <=> code[i].as = "TEXT"
      <4>1. code[a].as # "TEXT" /\ code'[a].as # "TEXT"
        BY <1>4, Reciprocal, Kinds
      <4> QED
        BY <1>4, <4>1
    <3> QED
      BY <3>1 DEF At
  <2>2. At(a, c) = c
    BY <1>4, Kinds DEF At
  <2> HIDE DEF AtN
  <2>3. ASSUME NEW i \in 1..q, link'[i] # None, link'[i] # q, i # q
        PROVE  pc'[link'[i]] = AtN(link'[i], pc'[i] + Bytes(i)')
    <3>1. /\ i \in 1..Len(code) /\ i # a /\ link'[i] = link[i] /\ link[i] \in 1..Len(code)
          /\ i \in DOMAIN link /\ pc'[i] = pc[i]
      BY <1>3, <1>4, <1>5, <1>6, <1>7, <2>3
    <3>2. Bytes(i)' = Bytes(i)
      <4>1. code'[i] = code[i] /\ (i \in far' <=> i \in far) /\ (i \in compr' <=> i \in compr)
        BY <1>2, <1>4, <1>5, <3>1
      <4>2. Size(i)' = Size(i)
        BY <4>1 DEF Size
      <4> QED
        BY <4>1, <4>2 DEF Bytes
    <3>3. CASE link[i] = a
      <4>1. c = pc[i] + Bytes(i)
        BY <1>a, <1>1, <2>3, <3>1, <3>3 DEF Spread
      <4> QED
        BY <1>3, <1>5, <2>1, <2>2, <3>1, <3>2, <3>3, <4>1
    <3>4. CASE link[i] # a
      <4>1. pc[link[i]] = At(link[i], pc[i] + Bytes(i))
        BY <1>a, <1>1, <2>3, <3>1, <3>4 DEF Exact, Laid
      <4> QED
        BY <1>5, <2>1, <3>1, <3>2, <3>4, <4>1
    <3> QED
      BY <3>3, <3>4
  <2>4. \A i \in 1..q : Laid(i)' => i # q
    BY <1>1, <1>2, <1>5 DEF Laid
  <2>5. \A i, x : (IF code'[i].as = "TEXT" THEN Align4(x) ELSE x) = AtN(i, x)
    BY DEF AtN
  <2> QED
    BY <1>4, <1>5, <2>3, <2>4, <2>5 DEF Exact, At
<1>13. (EndsWell => Targets)'
  <2>1. SUFFICES ASSUME EndsWell, Targets  PROVE Targets'
    BY <1>2 DEF ReachInv, EndsWell
  <2>2. link[a] # None /\ link[a] \in 1..q /\ code[a].cond \in 1..q
    BY <1>3, <1>4, <1>6, <1>7, <2>1 DEF Targets
  <2>3. "JMP" \notin Conditional
    BY DEF Conditional
  <2>4. ASSUME NEW i \in 1..q
        PROVE  /\ link'[i] = None => code'[i].as \notin Conditional
               /\ code'[i].as \in Conditional \cup Jumps => code'[i].cond \in 1..q
    <3>1. CASE i = a
      BY <1>4, <1>6, <2>2, <3>1
    <3>2. CASE i = q
      BY <1>4, <2>2, <2>3, <3>2
    <3>3. CASE i # a /\ i # q
      <4>1. i \in DOMAIN code /\ code'[i] = code[i] /\ link'[i] = link[i]
        BY <1>3, <1>4, <1>6, <3>3
      <4> QED
        BY <1>3, <1>6, <2>1, <4>1 DEF Targets
    <3> QED
      BY <3>1, <3>2, <3>3
  <2> QED
    BY <1>4, <2>4 DEF Targets
<1>14. LayoutInv' /\ BranchesReach' /\ ~Quiet' /\ phase' = "expand"
  BY <1>1, <1>2, AroundLayout DEF BranchesReach, Quiet
<1> QED
  BY <1>10, <1>11, <1>12, <1>13, <1>14 DEF ReachInv

(* span is done when a pass has left everything in place: what reached     *)
(* then reaches in asmb.                                                   *)
LEMMA StartAsmReach == ReachInv /\ StartAsm => ReachInv'
<1> SUFFICES ASSUME ReachInv, StartAsm  PROVE ReachInv'
  OBVIOUS
<1>1. /\ LayoutInv /\ Shape /\ TypeOK /\ Ordered /\ BranchesReach
      /\ phase \in {"first", "expand"} /\ p = None /\ ~bflag
  BY DEF ReachInv, LayoutInv, Shape, StartAsm
<1>2. /\ UNCHANGED <<program, nocompress, code, link, pc, compr, seen, far, spass, diags>>
      /\ phase' = "asm"
  BY DEF StartAsm
<1>3. Measurable => \A i \in DOMAIN code : Near(i)
  <2> SUFFICES ASSUME Measurable  PROVE \A i \in DOMAIN code : Near(i)
    OBVIOUS
  <2>1. CASE phase = "first"
    <3>1. ~nocompress /\ \E i \in DOMAIN program : CanShrink(i)
      BY DEF Measurable, LooksAgain
    <3> QED
      BY <1>1, <2>1, <3>1 DEF ReachInv
  <2>2. CASE phase = "expand"
    <3>1. \A i \in DOMAIN code : Passed(i)
      BY <1>1, <2>2, AllPassed DEF ReachInv
    <3> QED
      BY <1>1, <2>2, <3>1 DEF ReachInv, Quiet, Measurable
  <2> QED
    BY <1>1, <2>1, <2>2
<1>4. \A i : Near(i)' <=> Near(i)
  BY <1>2 DEF Near, Type3, Type4, Displacement
<1>5. Measurable' <=> Measurable
  BY <1>2 DEF Measurable, LooksAgain, EndsWell, CanShrink
<1>6. Shape'
  BY <1>1, PassesShape
<1>7. LayoutInv' /\ BranchesReach'
  BY <1>1, <1>2, <1>6 DEF LayoutInv, BranchesReach
<1> QED
  BY <1>2, <1>3, <1>4, <1>5, <1>7, SameLinks DEF ReachInv

LEMMA EmitReach == ReachInv /\ Emit => ReachInv'
<1> SUFFICES ASSUME ReachInv, Emit  PROVE ReachInv'
  OBVIOUS
<1>1. LayoutInv /\ Shape /\ TypeOK /\ phase = "asm" /\ p # None
  BY DEF ReachInv, LayoutInv, Shape, Emit
<1>2. UNCHANGED <<program, nocompress, code, link, pc, compr, seen, far, spass, phase>>
  BY DEF Emit
<1>3. Measurable' <=> Measurable
  BY <1>2 DEF Measurable, LooksAgain, EndsWell, CanShrink
<1>4. \A i : Near(i)' <=> Near(i)
  BY <1>2 DEF Near, Type3, Type4, Displacement
<1>5. ASSUME Measurable  PROVE BranchesReach'
  <2>1. BranchesReach /\ Near(p) /\ Targets
    <3>1. p \in DOMAIN code
      BY <1>1, AtP
    <3> QED
      BY <1>1, <1>5, <3>1 DEF ReachInv, Measurable
  <2>2. ASSUME Type3(p) \/ Type4(p)  PROVE Displacement(p, pc) \in Int
    <3>1. p \in DOMAIN code /\ code[p].as \in Conditional \cup Jumps
      BY <1>1, <2>2, AtP DEF Type3, Type4
    <3>2. code[p].cond \in DOMAIN code
      BY <2>1, <3>1 DEF Targets
    <3>3. DOMAIN pc = DOMAIN code /\ pc \in Seq(Nat)
      BY <1>1, Lens
    <3>4. pc[p] \in Nat /\ pc[code[p].cond] \in Nat
      BY <3>1, <3>2, <3>3
    <3> QED
      BY <3>4 DEF Displacement
  <2> DEFINE v == Displacement(p, pc)
  <2>3. Type3(p) => v \in -BReach .. BReach - 1
    <3>1. BReach \in Nat /\ (Type3(p) => v \in Int /\ Magnitude(v) < BReach)
      BY <2>1, <2>2, LinkSpanAssumption DEF Near
    <3> HIDE DEF v
    <3> QED
      BY <3>1 DEF Magnitude
  <2>4. Type4(p) => v \in -JReach .. JReach - 1
    <3>1. JReach \in Nat /\ (Type4(p) => v \in Int /\ Magnitude(v) < JReach)
      BY <2>1, <2>2, LinkSpanAssumption DEF Near
    <3> HIDE DEF v
    <3> QED
      BY <3>1 DEF Magnitude
  <2>5. diags' \subseteq diags \cup {"phase error"}
    <3> HIDE DEF v
    <3>1. PICK complaints :
            /\ diags' = diags \cup complaints
            /\ complaints =
                 (IF Reached # pc[p] THEN {"phase error"} ELSE {})
                 \cup (IF ~asmcompressed(p, pc, FALSE) /\ Type3(p) /\ v \notin -BReach .. BReach - 1
                         THEN {"branch out of range"} ELSE {})
                 \cup (IF ~asmcompressed(p, pc, FALSE) /\ Type4(p) /\ v \notin -JReach .. JReach - 1
                         THEN {"jump out of range"} ELSE {})
      BY Zenon DEF Emit, v
    <3>2. complaints \subseteq {"phase error"}
      BY <2>3, <2>4, <3>1
    <3> QED
      BY <3>1, <3>2
  <2> QED
    BY <2>1, <2>5 DEF BranchesReach
<1>6. Shape'
  BY <1>1, PassesShape
<1>7. LayoutInv'
  BY <1>1, <1>2, <1>6 DEF LayoutInv
<1>8. ASSUME Measurable'  PROVE (\A i \in DOMAIN code' : Near(i)') /\ BranchesReach'
  BY <1>1, <1>2, <1>3, <1>4, <1>5, <1>8 DEF ReachInv
<1> QED
  BY <1>1, <1>2, <1>7, <1>8, SameLinks DEF ReachInv

LEMMA ReachStep == ReachInv /\ [Next]_vars => ReachInv'
<1> SUFFICES ASSUME ReachInv, [Next]_vars  PROVE ReachInv'
  OBVIOUS
<1>1. LayoutInv'
  BY LayoutStep DEF ReachInv
<1>2. CASE UNCHANGED vars
  <2>1. UNCHANGED <<program, nocompress, code, link, pc, compr, seen, far, spass, phase,
                    p, c, bflag, diags>>
    BY <1>2 DEF vars
  <2>2. /\ BranchesReach' <=> BranchesReach
        /\ Measurable' <=> Measurable
        /\ Quiet' <=> Quiet
    BY <2>1 DEF BranchesReach, Measurable, LooksAgain, EndsWell, CanShrink, Quiet
  <2>3. /\ Exact => Exact'
        /\ Swept => Swept'
        /\ Still => Still'
    <3>1. Exact => Exact'
      BY <2>1 DEF Exact, Laid, At, Bytes, Size
    <3>2. Swept => Swept'
      BY <2>1 DEF Swept, Passed
    <3>3. Still => Still'
      BY <2>1 DEF Still, At
    <3> QED
      BY <3>1, <3>2, <3>3
  <2>4. \A i : (Near(i)' <=> Near(i)) /\ (Passed(i)' <=> Passed(i))
    BY <2>1 DEF Near, Type3, Type4, Displacement, Passed
  <2>5. \A i : CanShrink(i)' <=> CanShrink(i)
    BY <2>1 DEF CanShrink
  <2> QED
    BY <1>1, <2>1, <2>2, <2>3, <2>4, <2>5, SameLinks DEF ReachInv
<1>3. CASE EndAsm
  <2>1. /\ UNCHANGED <<program, nocompress, code, link, pc, far, diags>>
        /\ phase = "asm" /\ phase' = "done"
    BY <1>3 DEF EndAsm
  <2>2. (BranchesReach' <=> BranchesReach) /\ (Measurable' <=> Measurable)
    BY <2>1 DEF BranchesReach, Measurable, LooksAgain, EndsWell, CanShrink
  <2>3. \A i : Near(i)' <=> Near(i)
    BY <2>1 DEF Near, Type3, Type4, Displacement
  <2> QED
    BY <1>1, <2>1, <2>2, <2>3, SameLinks DEF ReachInv
<1>4. CASE Done
  BY <1>2, <1>4 DEF Done
<1> QED
  BY <1>2, <1>3, <1>4, FirstPassReach, NextPassReach, ExpandingReach, AroundReach,
     StartAsmReach, EmitReach DEF Next

(* Without -c, in a program that has something to shorten and does not end *)
(* in a conditional branch, the branches and jumps span leaves in their    *)
(* 4-byte forms all reach, unless a jump had to become an 8-byte one.      *)
THEOREM ReachHolds == Spec => [](Measurable => BranchesReach)
<1>1. Init => ReachInv
  BY InitReach
<1>2. ReachInv /\ [Next]_vars => ReachInv'
  BY ReachStep
<1>3. ReachInv => (Measurable => BranchesReach)
  BY DEF ReachInv, LayoutInv, Shape, TypeOK
<1> QED
  BY <1>1, <1>2, <1>3, PTL DEF Spec

-----------------------------------------------------------------------------
(* That asmb finds everything where span put it: when a pass changes       *)
(* nothing, who is long is too far for its 2-byte form, though it may have *)
(* lost that in an early pass, and measured at addresses of two passes.    *)
(* Addresses alone do not say so, since the padding in front of a function *)
(* can be longer or shorter than it was; distances from the end of the     *)
(* function do, and they do not shrink.                                    *)

(* The places the instructions have in the list, and the functions they    *)
(* are in, numbered.                                                       *)
Numbered(lk, T, o, h) ==
  /\ 1 \in DOMAIN lk /\ None \notin DOMAIN lk
  /\ o \in [DOMAIN lk -> Nat] /\ h \in [DOMAIN lk -> Nat]
  /\ \A i \in DOMAIN lk : o[1] <= o[i]
  /\ \A i \in DOMAIN lk : lk[i] = None => \A k \in DOMAIN lk : o[k] <= o[i]
  /\ \A i \in DOMAIN lk : lk[i] # None => lk[i] \in DOMAIN lk /\ o[lk[i]] = o[i] + 1
  /\ \A i, k \in DOMAIN lk : o[i] = o[k] => i = k
  /\ \A j \in DOMAIN lk : j = 1 \/ \E i \in DOMAIN lk : lk[i] = j
  /\ \A i, j \in DOMAIN lk : o[i] <= o[j] => h[i] <= h[j]
  /\ \A i, j \in DOMAIN lk : o[i] < o[j] /\ j \in T => h[i] < h[j]
  /\ \A i \in DOMAIN lk : lk[i] # None /\ lk[i] \notin T => h[lk[i]] = h[i]

(* Where an instruction goes behind address a.                             *)
Up(T, i, a) == IF i \in T THEN Align4(a) ELSE a

Even(a) == a % 2 = 0

(* The layout that the sizes B make.                                       *)
Layout(lk, T, B, o, A) ==
  /\ A \in [DOMAIN lk -> Nat] /\ A[1] = 0
  /\ \A i \in DOMAIN lk : lk[i] # None => A[lk[i]] = Up(T, lk[i], A[i] + B[i])
  /\ \A i, j \in DOMAIN lk : o[i] <= o[j] => A[i] <= A[j]
  /\ \A i \in DOMAIN lk : Even(A[i])

LEMMA Pads ==
  ASSUME NEW a \in Nat
  PROVE  /\ Align4(a) \in Nat /\ Align4(a) >= a /\ Align4(a) % 4 = 0 /\ Even(Align4(a))
         /\ Even(a) => Align4(a) <= a + 2
         /\ Even(a) => Align4(a) = IF a % 4 = 0 THEN a ELSE a + 2
  BY DEF Align4, Even

LEMMA PadShift ==
  ASSUME NEW a \in Nat, NEW s \in Nat, s % 4 = 0
  PROVE  Align4(a + s) = Align4(a) + s
  BY DEF Align4

LEMMA PadGrows ==
  ASSUME NEW a \in Nat, NEW g \in Nat
  PROVE  /\ Align4(a + g) - Align4(a) \in Nat
         /\ (Align4(a + g) - Align4(a)) % 4 = 0
  BY DEF Align4

LEMMA EvenSum ==
  ASSUME NEW a \in Nat, NEW b \in Nat, Even(a), Even(b)
  PROVE  Even(a + b)
  BY DEF Even

LEMMA EvenFour ==
  ASSUME NEW a \in Nat, a % 4 = 0
  PROVE  Even(a)
  BY DEF Even

(* What comes after p in another function comes after the end of p's.      *)
LEMMA EndOfFunction ==
  ASSUME NEW lk, NEW T, NEW o, NEW h, Numbered(lk, T, o, h),
         NEW i \in DOMAIN lk, NEW j \in DOMAIN lk, h[i] < h[j]
  PROVE  \E l \in DOMAIN lk : /\ lk[l] # None /\ lk[l] \in T /\ lk[l] \in DOMAIN lk
                              /\ h[l] = h[i] /\ o[i] <= o[l] /\ o[lk[l]] <= o[j]
<1> DEFINE D == DOMAIN lk
           Behind == {k \in D : h[i] < h[k]}
           When == {o[k] : k \in Behind}
<1>0. o \in [D -> Nat] /\ h \in [D -> Nat]
  BY DEF Numbered
<1>1. When # {} /\ When \subseteq Nat
  BY <1>0
<1>2. PICK m \in When : \A k \in When : m <= k
  <2> HIDE DEF When
  <2> QED
    BY <1>1, Least
<1>3. PICK f \in Behind : m = o[f]
  OBVIOUS
<1>4. f # 1
  <2>1. o[1] <= o[i]
    BY DEF Numbered
  <2>2. h[1] <= h[i]
    BY <2>1 DEF Numbered
  <2> QED
    BY <1>0, <1>3, <2>2
<1>5. PICK l \in D : lk[l] = f
  BY <1>3, <1>4 DEF Numbered
<1>6. lk[l] # None /\ o[f] = o[l] + 1
  BY <1>5 DEF Numbered
<1>7. o[l] \in Nat /\ h[l] \in Nat /\ o[f] \in Nat /\ h[f] \in Nat /\ o[i] \in Nat /\ h[i] \in Nat
  BY <1>0
<1>8. h[l] <= h[i]
  <2>1. SUFFICES ASSUME h[i] < h[l]  PROVE FALSE
    BY <1>7
  <2>2. o[l] \in When
    BY <2>1
  <2>3. o[f] <= o[l]
    BY <1>2, <1>3, <2>2
  <2> QED
    BY <1>6, <1>7, <2>3
<1>9. h[f] > h[i]
  BY <1>3
<1>10. o[i] <= o[l]
  <2>1. SUFFICES ASSUME o[l] < o[i]  PROVE FALSE
    BY <1>7
  <2>2. o[f] <= o[i]
    BY <1>6, <1>7, <2>1
  <2>3. h[f] <= h[i]
    BY <2>2 DEF Numbered
  <2> QED
    BY <1>7, <1>9, <2>3
<1>11. h[i] <= h[l]
  BY <1>10 DEF Numbered
<1>12. h[l] = h[i]
  BY <1>7, <1>8, <1>11
<1>13. f \in T
  <2>1. SUFFICES ASSUME f \notin T  PROVE FALSE
    OBVIOUS
  <2>2. h[f] = h[l]
    BY <1>5, <1>6, <2>1 DEF Numbered
  <2> QED
    BY <1>7, <1>9, <1>12, <2>2
<1>14. o[f] <= o[j]
  <2>1. o[j] \in When
    OBVIOUS
  <2> QED
    BY <1>2, <1>3, <2>1
<1> QED
  BY <1>5, <1>6, <1>10, <1>12, <1>13, <1>14

LEMMA OneEnd ==
  ASSUME NEW lk, NEW T, NEW o, NEW h, Numbered(lk, T, o, h),
         NEW i \in DOMAIN lk, NEW l \in DOMAIN lk,
         h[i] = h[l], lk[i] # None, lk[i] \in T, lk[l] # None, lk[l] \in T
  PROVE  i = l
<1>0. /\ o[i] \in Nat /\ o[l] \in Nat /\ h[i] \in Nat
      /\ lk[i] \in DOMAIN lk /\ o[lk[i]] = o[i] + 1
      /\ lk[l] \in DOMAIN lk /\ o[lk[l]] = o[l] + 1
      /\ o[lk[i]] \in Nat /\ o[lk[l]] \in Nat /\ h[lk[i]] \in Nat /\ h[lk[l]] \in Nat
  BY DEF Numbered
<1>1. h[l] < h[lk[l]] /\ h[i] < h[lk[i]]
  <2>1. o[l] < o[lk[l]] /\ o[i] < o[lk[i]]
    BY <1>0
  <2> QED
    BY <1>0, <2>1 DEF Numbered
<1>2. ~(o[i] < o[l])
  <2>1. SUFFICES ASSUME o[i] < o[l]  PROVE FALSE
    OBVIOUS
  <2>2. o[lk[i]] <= o[l]
    BY <1>0, <2>1
  <2>3. h[lk[i]] <= h[l]
    BY <1>0, <2>2 DEF Numbered
  <2> QED
    BY <1>0, <1>1, <2>3
<1>3. ~(o[l] < o[i])
  <2>1. SUFFICES ASSUME o[l] < o[i]  PROVE FALSE
    OBVIOUS
  <2>2. o[lk[l]] <= o[i]
    BY <1>0, <2>1
  <2>3. h[lk[l]] <= h[i]
    BY <1>0, <2>2 DEF Numbered
  <2> QED
    BY <1>0, <1>1, <2>3
<1>4. o[i] = o[l]
  BY <1>0, <1>2, <1>3
<1> QED
  BY <1>4 DEF Numbered

(* Behind x all has moved: by g in its function, by S behind that.         *)
Moved(lk, o, h, A, A2, x, g, S) ==
  \A j \in DOMAIN lk :
    A2[j] = A[j] + (IF o[j] <= o[x] THEN 0 ELSE IF h[j] = h[x] THEN g ELSE S)

(* One more instruction's bytes: what is behind it in its function moves   *)
(* by as much, what is behind that by whole words.                         *)
LEMMA Grown ==
  ASSUME NEW lk, NEW T, NEW o, NEW h, Numbered(lk, T, o, h),
         NEW B \in [DOMAIN lk -> Nat], NEW A, Layout(lk, T, B, o, A),
         \A i \in DOMAIN lk : Even(B[i]),
         NEW x \in DOMAIN lk, NEW g \in Nat, Even(g)
  PROVE  \E A2 : \E S \in Nat :
           /\ Layout(lk, T, [B EXCEPT ![x] = B[x] + g], o, A2)
           /\ Moved(lk, o, h, A, A2, x, g, S)
<1> DEFINE D == DOMAIN lk
           Last(l) == l \in D /\ h[l] = h[x] /\ lk[l] # None /\ lk[l] \in T
           E(l) == A[l] + B[l]
           B2 == [B EXCEPT ![x] = B[x] + g]
<1>1. PICK S \in Nat : S % 4 = 0 /\ \A l \in D : Last(l) => S = Align4(E(l) + g) - Align4(E(l))
  <2>1. CASE \E l \in D : Last(l)
    <3>1. PICK l \in D : Last(l)
      BY <2>1
    <3>2. E(l) \in Nat
      BY DEF Layout
    <3>3. Align4(E(l) + g) - Align4(E(l)) \in Nat /\ (Align4(E(l) + g) - Align4(E(l))) % 4 = 0
      BY <3>2, PadGrows
    <3>4. \A k \in D : Last(k) => k = l
      BY <3>1, OneEnd
    <3> QED
      BY <3>3, <3>4
  <2>2. CASE ~\E l \in D : Last(l)
    <3>1. 0 \in Nat /\ 0 % 4 = 0
      OBVIOUS
    <3> QED
      BY <2>2, <3>1
  <2> QED
    BY <2>1, <2>2
<1> DEFINE Move(j) == IF o[j] <= o[x] THEN 0 ELSE IF h[j] = h[x] THEN g ELSE S
           A2 == [j \in D |-> A[j] + Move(j)]
<1>2. /\ o \in [D -> Nat] /\ h \in [D -> Nat] /\ A \in [D -> Nat] /\ 1 \in D
      /\ \A i \in D : Move(i) \in Nat
  BY DEF Numbered, Layout
<1>3. Even(S)
  BY <1>1, EvenFour
<1>4. A2 \in [D -> Nat] /\ A2[1] = 0
  <2>1. A2 \in [D -> Nat]
    BY <1>2
  <2>2. o[1] <= o[x]
    BY DEF Numbered
  <2>3. A2[1] = A[1] + 0
    BY <1>2, <2>2
  <2> QED
    BY <2>1, <2>3 DEF Layout
<1>5. \A i \in D : Even(A2[i])
  <2> TAKE i \in D
  <2>1. Even(A[i]) /\ A[i] \in Nat /\ Even(0)
    BY <1>2 DEF Layout, Even
  <2>2. Even(Move(i)) /\ Move(i) \in Nat
    BY <1>2, <1>3, <2>1
  <2> HIDE DEF Move
  <2> QED
    BY <2>1, <2>2, EvenSum
<1>6. \A i, j \in D : o[i] <= o[j] => A2[i] <= A2[j]
  <2> TAKE i, j \in D
  <2> HAVE o[i] <= o[j]
  <2>1. A[i] <= A[j] /\ h[i] <= h[j]
    BY DEF Layout, Numbered
  <2> QED
    <3>1. CASE o[i] <= o[x]
      <4>1. A2[i] = A[i] + 0 /\ A2[j] = A[j] + Move(j) /\ Move(j) \in Nat
        BY <1>2, <3>1
      <4> HIDE DEF A2, Move
      <4> QED
        BY <1>2, <2>1, <4>1
    <3>2. CASE o[i] > o[x] /\ h[j] = h[i]
      <4>1. o[j] > o[x]
        BY <1>2, <3>2
      <4>2. Move(i) = Move(j)
        BY <1>2, <3>2, <4>1
      <4>3. A2[i] = A[i] + Move(i) /\ A2[j] = A[j] + Move(j)
        OBVIOUS
      <4>4. Move(i) \in Nat /\ A[i] \in Nat /\ A[j] \in Nat
        BY <1>2
      <4> HIDE DEF A2, Move
      <4> QED
        BY <2>1, <4>2, <4>3, <4>4
    <3>3. CASE o[i] > o[x] /\ h[i] # h[x] /\ h[j] # h[i]
      <4>1. h[x] <= h[i]
        BY <1>2, <3>3 DEF Numbered
      <4>2. o[j] > o[x] /\ h[j] # h[x]
        BY <1>2, <2>1, <3>3, <4>1
      <4> QED
        BY <1>2, <2>1, <3>3, <4>2
    <3>4. CASE o[i] > o[x] /\ h[i] = h[x] /\ h[j] # h[i]
      <4>1. h[i] < h[j]
        BY <1>2, <2>1, <3>4
      <4>2. PICK l \in D : /\ lk[l] # None /\ lk[l] \in T /\ lk[l] \in D
                           /\ h[l] = h[i] /\ o[i] <= o[l] /\ o[lk[l]] <= o[j]
        BY <4>1, EndOfFunction
      <4>3. Last(l)
        BY <3>4, <4>2
      <4>4. A[lk[l]] = Align4(E(l)) /\ A[lk[l]] <= A[j] /\ A[i] <= A[l]
        BY <4>2 DEF Layout, Up
      <4>5. S = Align4(E(l) + g) - Align4(E(l)) /\ E(l) \in Nat /\ A[l] <= E(l)
        BY <1>1, <1>2, <4>3
      <4>6. Align4(E(l) + g) >= E(l) + g /\ Align4(E(l) + g) \in Nat /\ Align4(E(l)) \in Nat
        BY <4>5, Pads
      <4>7. A2[i] = A[i] + g /\ A2[j] = A[j] + S
        BY <1>2, <3>4
      <4> HIDE DEF A2, Move, E
      <4> QED
        BY <1>2, <4>2, <4>4, <4>5, <4>6, <4>7
    <3> QED
      BY <1>2, <3>1, <3>2, <3>3, <3>4
<1>7. \A i \in D : lk[i] # None => A2[lk[i]] = Up(T, lk[i], A2[i] + B2[i])
  <2> TAKE i \in D
  <2> HAVE lk[i] # None
  <2>1. lk[i] \in D /\ o[lk[i]] = o[i] + 1 /\ A[lk[i]] = Up(T, lk[i], E(i)) /\ E(i) \in Nat /\ B[i] \in Nat
    BY <1>2 DEF Numbered, Layout
  <2>2. A2[lk[i]] = A[lk[i]] + Move(lk[i]) /\ A2[i] = A[i] + Move(i)
    BY <2>1
  <2>3. CASE i = x
    <3>1. A2[i] + B2[i] = E(i) + g
      BY <1>2, <2>1, <2>2, <2>3
    <3>2. CASE lk[i] \in T
      <4>1. Last(i)
        BY <2>3, <3>2
      <4>2. S = Align4(E(i) + g) - Align4(E(i))
        BY <1>1, <4>1
      <4>3. h[lk[i]] > h[i]
        BY <1>2, <2>1, <3>2 DEF Numbered
      <4>4. Move(lk[i]) = S
        BY <1>2, <2>1, <2>3, <4>3
      <4>5. Align4(E(i)) \in Nat /\ Align4(E(i) + g) \in Nat
        BY <2>1, Pads
      <4> QED
        BY <2>1, <2>2, <3>1, <3>2, <4>2, <4>4, <4>5 DEF Up
    <3>3. CASE lk[i] \notin T
      <4>1. h[lk[i]] = h[i]
        BY <2>1, <3>3 DEF Numbered
      <4>2. Move(lk[i]) = g
        BY <1>2, <2>1, <2>3, <4>1
      <4> QED
        BY <2>1, <2>2, <3>1, <3>3, <4>2 DEF Up
    <3> QED
      BY <3>2, <3>3
  <2>4. CASE i # x /\ o[i] <= o[x]
    <3>1. o[i] # o[x]
      BY <2>4 DEF Numbered
    <3>2. Move(i) = 0 /\ Move(lk[i]) = 0 /\ B2[i] = B[i]
      BY <1>2, <2>1, <2>4, <3>1
    <3>3. A2[i] = A[i] /\ A2[lk[i]] = A[lk[i]]
      BY <1>2, <2>1, <2>2, <3>2
    <3> QED
      BY <2>1, <3>2, <3>3
  <2>5. CASE i # x /\ o[i] > o[x] /\ h[i] = h[x]
    <3>1. Move(i) = g /\ B2[i] = B[i] /\ o[lk[i]] > o[x]
      BY <1>2, <2>1, <2>5
    <3>2. A2[i] + B2[i] = E(i) + g
      BY <1>2, <2>1, <2>2, <3>1
    <3>3. CASE lk[i] \in T
      <4>1. Last(i)
        BY <2>5, <3>3
      <4>2. S = Align4(E(i) + g) - Align4(E(i))
        BY <1>1, <4>1
      <4>3. h[lk[i]] > h[i]
        BY <1>2, <2>1, <3>3 DEF Numbered
      <4>4. Move(lk[i]) = S
        BY <1>2, <2>1, <2>5, <3>1, <4>3
      <4>5. Align4(E(i)) \in Nat /\ Align4(E(i) + g) \in Nat
        BY <2>1, Pads
      <4> QED
        BY <2>1, <2>2, <3>2, <3>3, <4>2, <4>4, <4>5 DEF Up
    <3>4. CASE lk[i] \notin T
      <4>1. h[lk[i]] = h[i]
        BY <2>1, <3>4 DEF Numbered
      <4>2. Move(lk[i]) = g
        BY <1>2, <2>1, <2>5, <3>1, <4>1
      <4> QED
        BY <2>1, <2>2, <3>2, <3>4, <4>2 DEF Up
    <3> QED
      BY <3>3, <3>4
  <2>6. CASE i # x /\ o[i] > o[x] /\ h[i] # h[x]
    <3>1. h[x] <= h[i] /\ h[i] <= h[lk[i]]
      BY <1>2, <2>1, <2>6 DEF Numbered
    <3>2. h[lk[i]] # h[x] /\ o[lk[i]] > o[x]
      BY <1>2, <2>1, <2>6, <3>1
    <3>3. Move(i) = S /\ Move(lk[i]) = S
      <4>1. ~(o[i] <= o[x]) /\ ~(o[lk[i]] <= o[x])
        BY <1>2, <2>1, <2>6, <3>2
      <4> QED
        BY <2>6, <3>2, <4>1
    <3>6. B2[i] = B[i]
      BY <2>6
    <3>4. A2[i] + B2[i] = E(i) + S
      BY <1>2, <2>1, <2>2, <3>3, <3>6
    <3>5. Align4(E(i) + S) = Align4(E(i)) + S
      BY <1>1, <2>1, PadShift
    <3> QED
      BY <2>1, <2>2, <3>3, <3>4, <3>5 DEF Up
  <2> QED
    BY <1>2, <2>3, <2>4, <2>5, <2>6
<1>8. Layout(lk, T, B2, o, A2)
  <2>1. \A i \in DOMAIN lk : lk[i] # None => A2[lk[i]] = Up(T, lk[i], A2[i] + B2[i])
    BY <1>7
  <2> HIDE DEF A2, B2, Move, E, Last
  <2> QED
    BY <1>4, <1>5, <1>6, <2>1, Zenon DEF Layout
<1>9. \A j \in D : A2[j] = A[j] + Move(j)
  OBVIOUS
<1>10. Moved(lk, o, h, A, A2, x, g, S)
  BY <1>9 DEF Moved
<1> HIDE DEF A2
<1> QED
  BY <1>8, <1>10

(* q comes behind x in its function.                                       *)
Joined(lk, T, o, h, x, q, lk2, o2, h2) ==
  /\ q \notin DOMAIN lk /\ q # None /\ q \notin T
  /\ DOMAIN lk2 = DOMAIN lk \cup {q} /\ lk2[x] = q /\ lk2[q] = lk[x]
  /\ \A i \in DOMAIN lk : i # x => lk2[i] = lk[i]
  /\ o2 \in [DOMAIN lk2 -> Nat] /\ o2[q] = o[x] + 1
  /\ h2 \in [DOMAIN lk2 -> Nat] /\ h2[q] = h[x]
  /\ \A i \in DOMAIN lk : /\ o2[i] = IF o[i] <= o[x] THEN o[i] ELSE o[i] + 1
                          /\ h2[i] = h[i]

(* Of the m + n bytes of x, n become q's.                                  *)
Divided(lk, lk2, x, q, m, n, B, A, B2, A2) ==
  /\ m \in Nat /\ n \in Nat /\ Even(m) /\ B[x] = m + n
  /\ B2[x] = m /\ B2[q] = n /\ \A i \in DOMAIN lk : i # x => B2[i] = B[i]
  /\ A2 \in [DOMAIN lk2 -> Nat] /\ A2[q] = A[x] + m
  /\ \A i \in DOMAIN lk : A2[i] = A[i]

(* An instruction q behind x takes its place in x's function, and all      *)
(* those behind move on by one.                                            *)
LEMMA Inserted ==
  ASSUME NEW lk, NEW T, NEW o, NEW h, Numbered(lk, T, o, h),
         NEW x \in DOMAIN lk, NEW q, NEW lk2, NEW o2, NEW h2,
         Joined(lk, T, o, h, x, q, lk2, o2, h2)
  PROVE  Numbered(lk2, T, o2, h2)
<1> USE DEF Joined
<1> DEFINE D == DOMAIN lk
           D2 == DOMAIN lk2
<1>0. /\ o \in [D -> Nat] /\ h \in [D -> Nat] /\ 1 \in D /\ None \notin D
      /\ D2 = D \cup {q} /\ x \in D2 /\ q # x /\ q # 1
  BY DEF Numbered
<1>1. 1 \in D2 /\ None \notin D2
  BY <1>0
<1>2. \A i \in D : o2[1] <= o2[i] /\ o2[1] = o[1]
  <2> TAKE i \in D
  <2>1. o[1] <= o[i] /\ o[1] <= o[x]
    BY DEF Numbered
  <2> QED
    BY <1>0, <2>1
<1>3. \A i \in D2 : o2[1] <= o2[i]
  <2>1. o[1] <= o[x]
    BY DEF Numbered
  <2> QED
    BY <1>0, <1>2, <2>1
<1>4. \A i \in D2 : lk2[i] = None => \A k \in D2 : o2[k] <= o2[i]
  <2> TAKE i \in D2
  <2> HAVE lk2[i] = None
  <2> TAKE k \in D2
  <2>1. i # x
    BY <1>0
  <2>2. CASE i = q
    <3>1. lk[x] = None
      BY <2>2
    <3>2. \A j \in D : o[j] <= o[x]
      BY <3>1 DEF Numbered
    <3> QED
      BY <1>0, <2>2, <3>2
  <2>3. CASE i # q
    <3>1. i \in D /\ lk[i] = None
      BY <1>0, <2>1, <2>3
    <3>2. \A j \in D : o[j] <= o[i]
      BY <3>1 DEF Numbered
    <3>3. o[x] # o[i]
      BY <2>1, <3>1 DEF Numbered
    <3>4. o[x] < o[i]
      BY <1>0, <3>1, <3>2, <3>3
    <3> QED
      BY <1>0, <3>1, <3>2, <3>4
  <2> QED
    BY <2>2, <2>3
<1>5. \A i \in D2 : lk2[i] # None => lk2[i] \in D2 /\ o2[lk2[i]] = o2[i] + 1
  <2> TAKE i \in D2
  <2> HAVE lk2[i] # None
  <2>1. CASE i = x
    BY <1>0, <2>1
  <2>2. CASE i = q
    <3>1. lk[x] \in D /\ o[lk[x]] = o[x] + 1
      BY <2>2 DEF Numbered
    <3> QED
      BY <1>0, <2>2, <3>1
  <2>3. CASE i # x /\ i # q
    <3>1. i \in D /\ lk2[i] = lk[i] /\ lk[i] \in D /\ o[lk[i]] = o[i] + 1
      BY <1>0, <2>3 DEF Numbered
    <3>2. o[x] # o[i]
      BY <2>3, <3>1 DEF Numbered
    <3> QED
      BY <1>0, <3>1, <3>2
  <2> QED
    BY <2>1, <2>2, <2>3
<1>6. \A i, k \in D2 : o2[i] = o2[k] => i = k
  <2> TAKE i, k \in D2
  <2> HAVE o2[i] = o2[k]
  <2>1. \A a \in D : o2[a] # o2[q]
    BY <1>0
  <2>2. CASE i \in D /\ k \in D
    <3>1. o[i] = o[k]
      BY <1>0, <2>2
    <3> QED
      BY <2>2, <3>1 DEF Numbered
  <2> QED
    BY <1>0, <2>1, <2>2
<1>7. \A j \in D2 : j = 1 \/ \E i \in D2 : lk2[i] = j
  <2> TAKE j \in D2
  <2>1. CASE j = q
    BY <1>0, <2>1
  <2>2. CASE j # q /\ j # 1
    <3>1. PICK i \in D : lk[i] = j
      BY <1>0, <2>2 DEF Numbered
    <3> QED
      BY <1>0, <3>1
  <2> QED
    BY <2>1, <2>2
<1>8. \A i, j \in D2 : o2[i] <= o2[j] => h2[i] <= h2[j]
  <2> TAKE i, j \in D2
  <2> HAVE o2[i] <= o2[j]
  <2> DEFINE u == IF i = q THEN x ELSE i
             v == IF j = q THEN x ELSE j
  <2>1. u \in D /\ v \in D /\ h2[i] = h[u] /\ h2[j] = h[v]
    BY <1>0
  <2>2. o[u] <= o[v]
    <3>1. CASE i = q /\ j # q
      BY <1>0, <3>1
    <3>2. CASE i # q /\ j = q
      BY <1>0, <3>2
    <3>3. CASE i # q /\ j # q
      BY <1>0, <3>3
    <3>4. CASE i = q /\ j = q
      BY <1>0, <3>4
    <3> QED
      BY <3>1, <3>2, <3>3, <3>4
  <2> HIDE DEF u, v
  <2>3. h[u] <= h[v]
    BY <2>1, <2>2 DEF Numbered
  <2> QED
    BY <2>1, <2>3
<1>9. \A i, j \in D2 : o2[i] < o2[j] /\ j \in T => h2[i] < h2[j]
  <2> TAKE i, j \in D2
  <2> HAVE o2[i] < o2[j] /\ j \in T
  <2>1. j \in D
    BY <1>0
  <2>2. CASE i = q
    <3>1. o[x] < o[j]
      BY <1>0, <2>1, <2>2
    <3>2. h[x] < h[j]
      BY <2>1, <3>1 DEF Numbered
    <3> QED
      BY <2>1, <2>2, <3>2
  <2>3. CASE i # q
    <3>1. i \in D /\ o[i] < o[j]
      BY <1>0, <2>1, <2>3
    <3>2. h[i] < h[j]
      BY <2>1, <3>1 DEF Numbered
    <3> QED
      BY <2>1, <3>1, <3>2
  <2> QED
    BY <2>2, <2>3
<1>10. \A i \in D2 : lk2[i] # None /\ lk2[i] \notin T => h2[lk2[i]] = h2[i]
  <2> TAKE i \in D2
  <2> HAVE lk2[i] # None /\ lk2[i] \notin T
  <2>1. CASE i = x
    BY <2>1
  <2>2. CASE i = q
    <3>1. lk[x] \in D /\ h[lk[x]] = h[x]
      BY <2>2 DEF Numbered
    <3> QED
      BY <2>2, <3>1
  <2>3. CASE i # x /\ i # q
    <3>1. i \in D /\ lk2[i] = lk[i] /\ lk[i] \in D /\ h[lk[i]] = h[i]
      BY <1>0, <2>3 DEF Numbered
    <3> QED
      BY <3>1
  <2> QED
    BY <2>1, <2>2, <2>3
<1> QED
  BY <1>1, <1>3, <1>4, <1>5, <1>6, <1>7, <1>8, <1>9, <1>10 DEF Numbered

(* The bytes of x shared between x and q.                                  *)
LEMMA Shared ==
  ASSUME NEW lk, NEW T, NEW o, NEW h, Numbered(lk, T, o, h),
         NEW B, NEW A, Layout(lk, T, B, o, A),
         NEW x \in DOMAIN lk, NEW q, NEW lk2, NEW o2, NEW h2,
         Joined(lk, T, o, h, x, q, lk2, o2, h2),
         NEW m, NEW n, NEW B2, NEW A2, Divided(lk, lk2, x, q, m, n, B, A, B2, A2)
  PROVE  Layout(lk2, T, B2, o2, A2)
<1> USE DEF Joined, Divided
<1> DEFINE D == DOMAIN lk
           D2 == DOMAIN lk2
<1>0. /\ o \in [D -> Nat] /\ 1 \in D /\ None \notin D /\ A \in [D -> Nat]
      /\ D2 = D \cup {q} /\ x \in D2 /\ q # x /\ q # 1
  BY DEF Numbered, Layout
<1>1. A2[1] = 0
  BY <1>0 DEF Layout
<1>2. \A i \in D2 : lk2[i] # None => A2[lk2[i]] = Up(T, lk2[i], A2[i] + B2[i])
  <2> TAKE i \in D2
  <2> HAVE lk2[i] # None
  <2>1. CASE i = x
    BY <1>0, <2>1 DEF Up
  <2>2. CASE i = q
    <3>1. lk[x] \in D /\ A[lk[x]] = Up(T, lk[x], A[x] + B[x])
      BY <2>2 DEF Numbered, Layout
    <3>2. A2[q] + B2[q] = A[x] + B[x]
      BY <1>0
    <3> QED
      BY <2>2, <3>1, <3>2
  <2>3. CASE i # x /\ i # q
    <3>1. i \in D /\ lk2[i] = lk[i] /\ lk[i] \in D
      BY <1>0, <2>3 DEF Numbered
    <3>2. A[lk[i]] = Up(T, lk[i], A[i] + B[i])
      BY <3>1 DEF Layout
    <3> QED
      BY <2>3, <3>1, <3>2
  <2> QED
    BY <2>1, <2>2, <2>3
<1>3. \A i, j \in D2 : o2[i] <= o2[j] => A2[i] <= A2[j]
  <2> TAKE i, j \in D2
  <2> HAVE o2[i] <= o2[j]
  <2>1. CASE i \in D /\ j \in D
    <3>1. o[i] <= o[j]
      BY <1>0, <2>1
    <3> QED
      BY <2>1, <3>1 DEF Layout
  <2>2. CASE i \in D /\ j = q
    <3>1. o[i] <= o[x]
      BY <1>0, <2>2
    <3>2. A[i] <= A[x]
      BY <2>2, <3>1 DEF Layout
    <3> QED
      BY <1>0, <2>2, <3>2
  <2>3. CASE i = q /\ j \in D
    <3>1. o[x] + 1 <= o[j]
      BY <1>0, <2>3
    <3>2. lk[x] # None
      BY <1>0, <2>3, <3>1 DEF Numbered
    <3>3. lk[x] \in D /\ o[lk[x]] <= o[j]
      BY <1>0, <3>1, <3>2 DEF Numbered
    <3>4. A[lk[x]] <= A[j] /\ A[lk[x]] = Up(T, lk[x], A[x] + B[x])
      BY <2>3, <3>2, <3>3 DEF Layout
    <3>5. A[x] + m <= A[x] + B[x] /\ A[x] + B[x] \in Nat
      BY <1>0
    <3>6. A[x] + B[x] <= A[lk[x]]
      BY <3>4, <3>5, Pads DEF Up
    <3> QED
      BY <1>0, <2>3, <3>3, <3>4, <3>5, <3>6
  <2>4. CASE i = q /\ j = q
    BY <1>0, <2>4
  <2> QED
    BY <1>0, <2>1, <2>2, <2>3, <2>4
<1>4. \A i \in D2 : Even(A2[i])
  <2> TAKE i \in D2
  <2>1. \A k \in D : Even(A[k]) /\ A[k] \in Nat
    BY <1>0 DEF Layout
  <2>2. Even(A[x] + m)
    BY <2>1, EvenSum
  <2> QED
    BY <1>0, <2>1, <2>2
<1> QED
  BY <1>1, <1>2, <1>3, <1>4 DEF Layout

(* The target t of i is more than back bytes behind it or at least ahead   *)
(* bytes in front, in every layout with the padding in front of the next   *)
(* function left out.                                                      *)
Beyond(lk, T, B, o, h, A, i, t, back, ahead) ==
  /\ o[t] < o[i] => A[t] - A[i] < -back
  /\ o[i] <= o[t] /\ h[t] = h[i] => A[t] - A[i] >= ahead
  /\ h[i] < h[t] =>
       \A l \in DOMAIN lk :
         lk[l] # None /\ lk[l] \in T /\ h[l] = h[i] =>
           (A[l] + B[l] - A[i]) + (A[t] - A[lk[l]]) >= ahead

(* Nothing of a function is behind its end.                                *)
LEMMA BeforeTheEnd ==
  ASSUME NEW lk, NEW T, NEW o, NEW h, Numbered(lk, T, o, h),
         NEW i \in DOMAIN lk, NEW l \in DOMAIN lk, lk[l] # None, lk[l] \in T
  PROVE  /\ lk[l] \in DOMAIN lk /\ h[l] < h[lk[l]]
         /\ h[i] <= h[l] => o[i] <= o[l]
         /\ h[l] < h[i] => o[lk[l]] <= o[i]
<1>0. /\ o \in [DOMAIN lk -> Nat] /\ h \in [DOMAIN lk -> Nat]
      /\ lk[l] \in DOMAIN lk /\ o[lk[l]] = o[l] + 1
  BY DEF Numbered
<1>1. h[l] < h[lk[l]]
  <2>1. o[l] < o[lk[l]]
    BY <1>0
  <2> QED
    BY <1>0, <2>1 DEF Numbered
<1>2. ASSUME o[l] < o[i]  PROVE h[l] < h[i]
  <2>1. o[lk[l]] <= o[i]
    BY <1>0, <1>2
  <2>2. h[lk[l]] <= h[i]
    BY <1>0, <2>1 DEF Numbered
  <2> QED
    BY <1>0, <1>1, <2>2
<1>3. ASSUME o[i] <= o[l]  PROVE h[i] <= h[l]
  BY <1>3 DEF Numbered
<1> QED
  BY <1>0, <1>1, <1>2, <1>3

LEMMA BeyondStays ==
  ASSUME NEW lk, NEW T, NEW o, NEW h, Numbered(lk, T, o, h),
         NEW B \in [DOMAIN lk -> Nat], NEW A \in [DOMAIN lk -> Nat],
         NEW x \in DOMAIN lk, NEW g \in Nat, NEW S \in Nat,
         NEW A2 \in [DOMAIN lk -> Nat],
         Moved(lk, o, h, A, A2, x, g, S),
         NEW i \in DOMAIN lk, NEW t \in DOMAIN lk, h[t] = h[i] \/ t \in T,
         NEW back \in Int, NEW ahead \in Int,
         Beyond(lk, T, B, o, h, A, i, t, back, ahead)
  PROVE  Beyond(lk, T, [B EXCEPT ![x] = B[x] + g], o, h, A2, i, t, back, ahead)
<1> USE DEF Moved
<1> DEFINE D == DOMAIN lk
           Move(j) == IF o[j] <= o[x] THEN 0 ELSE IF h[j] = h[x] THEN g ELSE S
           B2 == [B EXCEPT ![x] = B[x] + g]
<1>0. /\ o \in [D -> Nat] /\ h \in [D -> Nat]
      /\ \A j \in D : Move(j) \in Nat /\ A2[j] = A[j] + Move(j)
  BY DEF Numbered
(* Of two in a function the later moves as far or farther, and so of TEXTs. *)
<1>1. ASSUME NEW a \in D, NEW b \in D, o[a] <= o[b], h[a] = h[b]
      PROVE  Move(a) <= Move(b)
  BY <1>0, <1>1
<1>2. ASSUME NEW a \in D, NEW b \in D, o[a] <= o[b], a \in T
      PROVE  Move(a) <= Move(b)
  <2>1. CASE o[a] <= o[x]
    BY <1>0, <2>1
  <2>2. CASE o[x] < o[a]
    <3>1. h[x] < h[a] /\ h[a] <= h[b]
      BY <1>2, <2>2 DEF Numbered
    <3>2. Move(a) = S /\ Move(b) = S
      BY <1>0, <1>2, <2>2, <3>1
    <3> QED
      BY <1>0, <3>2
  <2> QED
    BY <1>0, <2>1, <2>2
<1>3. \A j \in D : B[j] <= B2[j] /\ B[j] \in Nat /\ B2[j] \in Nat /\ A[j] \in Nat
  OBVIOUS
<1> HIDE DEF Move, B2
<1>4. ASSUME o[t] < o[i]  PROVE A2[t] - A2[i] < -back
  <2>1. Move(t) <= Move(i)
    BY <1>0, <1>1, <1>2, <1>4
  <2>2. A[t] - A[i] < -back
    BY <1>4 DEF Beyond
  <2> QED
    BY <1>0, <1>3, <2>1, <2>2
<1>5. ASSUME o[i] <= o[t], h[t] = h[i]  PROVE A2[t] - A2[i] >= ahead
  <2>1. Move(i) <= Move(t)
    BY <1>0, <1>1, <1>5
  <2>2. A[t] - A[i] >= ahead
    BY <1>5 DEF Beyond
  <2> QED
    BY <1>0, <1>3, <2>1, <2>2
<1>6. ASSUME h[i] < h[t], NEW l \in D, lk[l] # None, lk[l] \in T, h[l] = h[i]
      PROVE  (A2[l] + B2[l] - A2[i]) + (A2[t] - A2[lk[l]]) >= ahead
  <2>1. lk[l] \in D /\ o[i] <= o[l] /\ o[lk[l]] <= o[t]
    <3>1. h[i] <= h[l] /\ h[l] < h[t]
      BY <1>0, <1>6
    <3> QED
      BY <1>6, <3>1, BeforeTheEnd
  <2>2. Move(i) <= Move(l) /\ Move(lk[l]) <= Move(t)
    BY <1>1, <1>2, <1>6, <2>1
  <2>3. (A[l] + B[l] - A[i]) + (A[t] - A[lk[l]]) >= ahead
    BY <1>6 DEF Beyond
  <2> QED
    BY <1>0, <1>3, <2>1, <2>2, <2>3
<1> QED
  BY <1>4, <1>5, <1>6 DEF Beyond, B2

(* What x gains is between it and what is in front of it.                  *)
LEMMA BeyondGains ==
  ASSUME NEW lk, NEW T, NEW o, NEW h, Numbered(lk, T, o, h),
         NEW B \in [DOMAIN lk -> Nat], NEW A \in [DOMAIN lk -> Nat],
         NEW x \in DOMAIN lk, NEW g \in Nat, NEW S \in Nat,
         NEW A2 \in [DOMAIN lk -> Nat],
         Moved(lk, o, h, A, A2, x, g, S),
         NEW t \in DOMAIN lk, h[t] = h[x] \/ t \in T, t # x,
         NEW back \in Int, NEW ahead \in Int,
         Beyond(lk, T, B, o, h, A, x, t, back, ahead)
  PROVE  Beyond(lk, T, [B EXCEPT ![x] = B[x] + g], o, h, A2, x, t, back, ahead + g)
<1> USE DEF Moved
<1> DEFINE D == DOMAIN lk
           B2 == [B EXCEPT ![x] = B[x] + g]
<1>0. /\ o \in [D -> Nat] /\ h \in [D -> Nat] /\ A2[x] = A[x]
      /\ \A j \in D : A[j] \in Nat /\ B[j] \in Nat /\ B2[j] \in Nat
  BY DEF Numbered
<1>1. ASSUME o[t] < o[x]  PROVE A2[t] - A2[x] < -back
  <2>1. A2[t] = A[t]
    BY <1>0, <1>1
  <2>2. A[t] - A[x] < -back
    BY <1>1 DEF Beyond
  <2> QED
    BY <1>0, <2>1, <2>2
<1>2. ASSUME o[x] <= o[t], h[t] = h[x]  PROVE A2[t] - A2[x] >= ahead + g
  <2>1. o[x] # o[t]
    BY DEF Numbered
  <2>2. A2[t] = A[t] + g
    BY <1>0, <1>2, <2>1
  <2>3. A[t] - A[x] >= ahead
    BY <1>2 DEF Beyond
  <2> QED
    BY <1>0, <2>2, <2>3
<1>3. ASSUME h[x] < h[t], NEW l \in D, lk[l] # None, lk[l] \in T, h[l] = h[x]
      PROVE  (A2[l] + B2[l] - A2[x]) + (A2[t] - A2[lk[l]]) >= ahead + g
  <2>1. lk[l] \in D /\ o[x] <= o[l] /\ o[lk[l]] <= o[t] /\ h[l] < h[lk[l]]
    <3>1. h[x] <= h[l] /\ h[l] < h[t]
      BY <1>0, <1>3
    <3> QED
      BY <1>3, <3>1, BeforeTheEnd
  <2>2. A2[l] + B2[l] = A[l] + B[l] + g
    <3>1. CASE l = x
      BY <1>0, <3>1
    <3>2. CASE l # x
      <4>1. o[l] # o[x]
        BY <3>2 DEF Numbered
      <4>2. ~(o[l] <= o[x])
        BY <1>0, <2>1, <4>1
      <4>3. A2[l] = A[l] + g
        BY <1>3, <4>2
      <4>4. B2[l] = B[l]
        BY <3>2
      <4> HIDE DEF B2
      <4> QED
        BY <1>0, <4>3, <4>4
    <3> QED
      BY <3>1, <3>2
  <2>3. A2[t] = A[t] + S /\ A2[lk[l]] = A[lk[l]] + S
    <3>1. o[lk[l]] = o[l] + 1
      BY <1>3 DEF Numbered
    <3>2. ~(o[lk[l]] <= o[x]) /\ ~(o[t] <= o[x])
      BY <1>0, <2>1, <3>1
    <3>3. h[t] # h[x] /\ h[lk[l]] # h[x]
      BY <1>0, <1>3, <2>1
    <3> QED
      BY <2>1, <3>2, <3>3
  <2>4. (A[l] + B[l] - A[x]) + (A[t] - A[lk[l]]) >= ahead
    BY <1>3 DEF Beyond
  <2> HIDE DEF B2
  <2> QED
    BY <1>0, <2>1, <2>2, <2>3, <2>4
<1> QED
  BY <1>1, <1>2, <1>3 DEF Beyond

LEMMA BeyondInserted ==
  ASSUME NEW lk, NEW T, NEW o, NEW h, Numbered(lk, T, o, h),
         NEW B \in [DOMAIN lk -> Nat], NEW A \in [DOMAIN lk -> Nat],
         NEW x \in DOMAIN lk, NEW q, NEW lk2, NEW o2, NEW h2,
         Joined(lk, T, o, h, x, q, lk2, o2, h2),
         NEW m, NEW n, NEW B2, NEW A2, Divided(lk, lk2, x, q, m, n, B, A, B2, A2),
         NEW i \in DOMAIN lk, NEW t \in DOMAIN lk, NEW back \in Int, NEW ahead \in Int,
         Beyond(lk, T, B, o, h, A, i, t, back, ahead)
  PROVE  Beyond(lk2, T, B2, o2, h2, A2, i, t, back, ahead)
<1> USE DEF Joined, Divided
<1> DEFINE D == DOMAIN lk
<1>0. o \in [D -> Nat] /\ h \in [D -> Nat] /\ None \notin D
  BY DEF Numbered
<1>1. /\ o2[t] < o2[i] <=> o[t] < o[i]
      /\ o2[i] <= o2[t] <=> o[i] <= o[t]
  BY <1>0
<1>2. ASSUME h[i] < h[t], NEW l \in DOMAIN lk2, lk2[l] # None, lk2[l] \in T, h2[l] = h2[i]
      PROVE  (A2[l] + B2[l] - A2[i]) + (A2[t] - A2[lk2[l]]) >= ahead
  <2>1. CASE l = q
    <3>1. lk[x] # None /\ lk[x] \in T /\ h[x] = h[i]
      BY <1>2, <2>1
    <3>2. (A[x] + B[x] - A[i]) + (A[t] - A[lk[x]]) >= ahead
      BY <1>2, <3>1 DEF Beyond
    <3>3. lk[x] \in D
      BY <3>1 DEF Numbered
    <3>4. A2[l] + B2[l] = A[x] + B[x]
      BY <2>1
    <3> QED
      BY <2>1, <3>2, <3>3, <3>4
  <2>2. CASE l # q
    <3>1. l \in D /\ l # x
      BY <1>2, <2>2
    <3>2. lk[l] # None /\ lk[l] \in T /\ h[l] = h[i] /\ lk2[l] = lk[l] /\ B2[l] = B[l]
      BY <1>2, <3>1
    <3>3. lk[l] \in D
      BY <3>1, <3>2 DEF Numbered
    <3>4. (A[l] + B[l] - A[i]) + (A[t] - A[lk[l]]) >= ahead
      BY <1>2, <3>1, <3>2 DEF Beyond
    <3> QED
      BY <3>1, <3>2, <3>3, <3>4
  <2> QED
    BY <2>1, <2>2
<1>3. h2[i] = h[i] /\ h2[t] = h[t] /\ A2[i] = A[i] /\ A2[t] = A[t]
  OBVIOUS
<1>4. o2[t] < o2[i] => A2[t] - A2[i] < -back
  BY <1>1, <1>3 DEF Beyond
<1>5. o2[i] <= o2[t] /\ h2[t] = h2[i] => A2[t] - A2[i] >= ahead
  BY <1>1, <1>3 DEF Beyond
<1> QED
  BY <1>2, <1>3, <1>4, <1>5, Zenon DEF Beyond

(* The inserted jump q has the target that x had.                          *)
LEMMA BeyondNew ==
  ASSUME NEW lk, NEW T, NEW o, NEW h, Numbered(lk, T, o, h),
         NEW B \in [DOMAIN lk -> Nat], NEW A \in [DOMAIN lk -> Nat],
         NEW x \in DOMAIN lk, NEW q, NEW lk2, NEW o2, NEW h2,
         Joined(lk, T, o, h, x, q, lk2, o2, h2),
         NEW m, NEW n, NEW B2, NEW A2, Divided(lk, lk2, x, q, m, n, B, A, B2, A2),
         NEW t \in DOMAIN lk, t # x, NEW back \in Int, NEW ahead \in Int,
         Beyond(lk, T, B, o, h, A, x, t, back, ahead)
  PROVE  Beyond(lk2, T, B2, o2, h2, A2, q, t, back, ahead - m)
<1> USE DEF Joined, Divided
<1> DEFINE D == DOMAIN lk
<1>0. o \in [D -> Nat] /\ h \in [D -> Nat] /\ None \notin D
  BY DEF Numbered
<1>1. o[t] # o[x]
  BY DEF Numbered
<1>2. /\ o2[t] < o2[q] <=> o[t] < o[x]
      /\ o2[q] <= o2[t] <=> o[x] <= o[t]
  BY <1>0, <1>1
<1>3. h2[q] = h[x] /\ h2[t] = h[t] /\ A2[q] = A[x] + m /\ A2[t] = A[t]
  OBVIOUS
<1>4. ASSUME h[x] < h[t], NEW l \in DOMAIN lk2, lk2[l] # None, lk2[l] \in T, h2[l] = h2[q]
      PROVE  (A2[l] + B2[l] - A2[q]) + (A2[t] - A2[lk2[l]]) >= ahead - m
  <2>1. CASE l = q
    <3>1. lk[x] # None /\ lk[x] \in T
      BY <1>4, <2>1
    <3>2. (A[x] + B[x] - A[x]) + (A[t] - A[lk[x]]) >= ahead
      BY <1>4, <3>1 DEF Beyond
    <3>3. lk[x] \in D
      BY <3>1 DEF Numbered
    <3> QED
      BY <2>1, <3>2, <3>3
  <2>2. CASE l # q
    <3>1. l \in D /\ l # x
      BY <1>4, <2>2
    <3>2. lk[l] # None /\ lk[l] \in T /\ h[l] = h[x] /\ lk2[l] = lk[l] /\ B2[l] = B[l]
      BY <1>4, <3>1
    <3>3. lk[l] \in D
      BY <3>1, <3>2 DEF Numbered
    <3>4. (A[l] + B[l] - A[x]) + (A[t] - A[lk[l]]) >= ahead
      BY <1>4, <3>1, <3>2 DEF Beyond
    <3> QED
      BY <3>1, <3>2, <3>3, <3>4
  <2> QED
    BY <2>1, <2>2
<1>5. o2[t] < o2[q] => A2[t] - A2[q] < -back
  BY <1>2, <1>3 DEF Beyond
<1>6. o2[q] <= o2[t] /\ h2[t] = h2[q] => A2[t] - A2[q] >= ahead - m
  BY <1>2, <1>3 DEF Beyond
<1> QED
  BY <1>3, <1>4, <1>5, <1>6, Zenon DEF Beyond

LEMMA BeyondLess ==
  ASSUME NEW lk, NEW T, NEW o, NEW h, Numbered(lk, T, o, h),
         NEW B \in [DOMAIN lk -> Nat], NEW A \in [DOMAIN lk -> Nat],
         NEW i \in DOMAIN lk, NEW t \in DOMAIN lk,
         NEW back \in Int, NEW ahead \in Int, NEW back2 \in Int, NEW ahead2 \in Int,
         back2 <= back, ahead2 <= ahead,
         Beyond(lk, T, B, o, h, A, i, t, back, ahead)
  PROVE  Beyond(lk, T, B, o, h, A, i, t, back2, ahead2)
<1>1. \A l \in DOMAIN lk : lk[l] # None => lk[l] \in DOMAIN lk
  BY DEF Numbered
<1> QED
  BY <1>1 DEF Beyond

(* In the layout itself the target is then out of reach.                   *)
LEMMA OutOfReach ==
  ASSUME NEW lk, NEW T, NEW o, NEW h, Numbered(lk, T, o, h),
         NEW B \in [DOMAIN lk -> Nat], NEW A, Layout(lk, T, B, o, A),
         NEW i \in DOMAIN lk, NEW t \in DOMAIN lk, NEW r \in Nat,
         Beyond(lk, T, B, o, h, A, i, t, r, r)
  PROVE  A[t] - A[i] \notin -r .. r - 1
<1>0. /\ o \in [DOMAIN lk -> Nat] /\ h \in [DOMAIN lk -> Nat]
      /\ \A j \in DOMAIN lk : A[j] \in Nat
  BY DEF Numbered, Layout
<1>1. CASE o[t] < o[i]
  BY <1>0, <1>1 DEF Beyond
<1>2. CASE o[i] <= o[t] /\ h[t] = h[i]
  BY <1>0, <1>2 DEF Beyond
<1>3. CASE h[i] < h[t]
  <2>1. PICK l \in DOMAIN lk : /\ lk[l] # None /\ lk[l] \in T /\ lk[l] \in DOMAIN lk
                               /\ h[l] = h[i] /\ o[i] <= o[l] /\ o[lk[l]] <= o[t]
    BY <1>3, EndOfFunction
  <2>2. (A[l] + B[l] - A[i]) + (A[t] - A[lk[l]]) >= r
    BY <1>3, <2>1 DEF Beyond
  <2>3. A[lk[l]] >= A[l] + B[l]
    <3>1. A[lk[l]] = Align4(A[l] + B[l])
      BY <2>1 DEF Layout, Up
    <3> QED
      BY <1>0, <3>1, Pads
  <2> QED
    BY <1>0, <2>1, <2>2, <2>3
<1>4. o[i] <= o[t] => h[i] <= h[t]
  BY DEF Numbered
<1> QED
  BY <1>0, <1>1, <1>2, <1>3, <1>4

-----------------------------------------------------------------------------
(* The forms: even sizes, and who is marked has a 2-byte form.             *)

Texts == {i \in DOMAIN code : code[i].as = "TEXT"}
Lengths == [i \in DOMAIN code |-> Bytes(i)]

(* i has a 2-byte form, which takes its target from -ReachOf(i) on.        *)
Shortable(i) ==
  code[i].as \in {"CWORD", "BEQZ", "BNEZ", "JMP"} \cup (IF RV32 THEN {"JAL"} ELSE {})
ReachOf(i) == IF code[i].as \in Jumps THEN CJReach ELSE CBReach

Parity ==
  /\ \A i \in DOMAIN pc : Even(pc[i])
  /\ Even(c)
  /\ nocompress => compr = {} /\ c % 4 = 0 /\ \A i \in DOMAIN pc : pc[i] % 4 = 0

Marked == \A i \in compr : Shortable(i)

(* What the first pass has been over is as short as it can be.             *)
Shortened ==
  /\ code = program
  /\ ~nocompress => \A i \in DOMAIN code : Shortable(i) /\ (p = None \/ i < p) => i \in compr

Forms ==
  /\ ReachInv /\ Parity /\ Marked
  /\ phase = "first" => Shortened

LEMMA Words ==
  ASSUME NEW i \in DOMAIN code, code \in Seq(Instr)
  PROVE  /\ Size(i) \in Nat /\ Size(i) % 4 = 0 /\ Even(Size(i))
         /\ Bytes(i) \in Nat /\ Even(Bytes(i))
         /\ i \notin compr => Bytes(i) % 4 = 0
<1>0. code[i] \in Instr
  OBVIOUS
<1>1. code[i].as \in Opcodes
  BY <1>0 DEF Instr
<1>2. Size(i) \in {0, 4, 8, 12}
  BY <1>1 DEF Size, Opcodes, Straight, Conditional, Jumps
<1> QED
  BY <1>2 DEF Bytes, Even

LEMMA PlacedParity ==
  ASSUME c \in Nat
  PROVE  /\ Placed(p) \in Nat /\ (Even(c) => Even(Placed(p)))
         /\ c % 4 = 0 => Placed(p) % 4 = 0
  BY Pads DEF Placed

(* What asmcompressed goes by.                                             *)
LEMMA Applies ==
  ASSUME NEW i, NEW at
  PROVE  /\ \A first : asmcompressed(i, at, first) => Shortable(i) /\ ~nocompress
         /\ ~nocompress /\ i \notin far /\ Shortable(i) => asmcompressed(i, at, TRUE)
         /\ ~nocompress /\ i \notin far =>
              (asmcompressed(i, at, FALSE) <=>
                 /\ Shortable(i)
                 /\ \/ code[i].as = "CWORD"
                    \/ Displacement(i, at) \in -ReachOf(i) .. ReachOf(i) - 1)
<1>1. CASE code[i].as = "CWORD"
  BY <1>1 DEF asmcompressed, Shortable, Type4, Jumps
<1>2. CASE code[i].as \in {"BEQZ", "BNEZ"}
  <2>1. code[i].as \notin Jumps /\ code[i].as # "CWORD"
    BY <1>2 DEF Jumps
  <2> QED
    BY <1>2, <2>1 DEF asmcompressed, Shortable, Type4, ReachOf
<1>3. CASE code[i].as = "JMP"
  <2>1. code[i].as \in Jumps
    BY <1>3 DEF Jumps
  <2> QED
    BY <1>3, <2>1 DEF asmcompressed, Shortable, Type4, ReachOf
<1>4. CASE code[i].as = "JAL"
  <2>1. code[i].as \in Jumps
    BY <1>4 DEF Jumps
  <2> QED
    BY <1>4, <2>1 DEF asmcompressed, Shortable, Type4, ReachOf
<1>5. CASE code[i].as \notin {"CWORD", "BEQZ", "BNEZ", "JMP", "JAL"}
  BY <1>5 DEF asmcompressed, Shortable, Type4, Jumps
<1> QED
  BY <1>1, <1>2, <1>3, <1>4, <1>5

LEMMA InitForms == Init => Forms
<1> SUFFICES ASSUME Init  PROVE Forms
  OBVIOUS
<1>1. ReachInv
  BY InitReach
<1>2. Even(0) /\ 0 % 4 = 0
  BY DEF Even
<1>3. \A i \in DOMAIN pc : pc[i] = 0
  BY DEF Init
<1>4. Parity
  BY <1>2, <1>3 DEF Init, Parity
<1>5. Marked
  BY DEF Init, Marked
<1>6. Shortened
  <2>1. TypeOK
    BY <1>1 DEF ReachInv, LayoutInv, Shape
  <2>2. \A i \in DOMAIN code : ~(i < 1)
    BY <2>1, Lens
  <2> QED
    BY <2>2 DEF Init, Shortened, None
<1> QED
  BY <1>1, <1>4, <1>5, <1>6 DEF Forms

LEMMA FirstPassForms == Forms /\ FirstPass => Forms'
<1> SUFFICES ASSUME Forms, FirstPass  PROVE Forms'
  OBVIOUS
<1>1. /\ ReachInv' /\ ReachInv /\ Shape /\ TypeOK /\ phase = "first" /\ p # None /\ Parity /\ Marked
      /\ Shortened /\ Fresh
  BY FirstPassReach DEF Forms, ReachInv, LayoutInv, Shape, FirstPass
<1>2. PICK short \in BOOLEAN : short <=> asmcompressed(p, pc, TRUE)
  OBVIOUS
<1>3. /\ compr' = IF short THEN compr \cup {p} ELSE compr
      /\ c' = Placed(p) + (IF short THEN 2 ELSE Size(p))
      /\ pc' = [pc EXCEPT ![p] = Placed(p)] /\ p' = link[p]
      /\ UNCHANGED <<program, nocompress, code, link, seen, far, phase>>
  BY <1>2 DEF FirstPass
<1>4. c \in Nat /\ p \in DOMAIN pc /\ pc \in Seq(Nat) /\ p \in DOMAIN code /\ code \in Seq(Instr)
      /\ DOMAIN link = DOMAIN code
  BY <1>1, AtP, Lens
<1>5. short => Shortable(p) /\ ~nocompress
  BY <1>2, Applies
<1>6. Parity'
  <2>1. /\ Placed(p) \in Nat /\ Even(Placed(p)) /\ (nocompress => Placed(p) % 4 = 0)
        /\ Size(p) \in Nat /\ Even(Size(p)) /\ Size(p) % 4 = 0 /\ Even(2)
    BY <1>1, <1>4, PlacedParity, Words DEF Parity, Even
  <2>2. Even(c')
    <3>1. PICK s \in Nat : s = (IF short THEN 2 ELSE Size(p)) /\ Even(s)
      BY <2>1
    <3> QED
      BY <1>3, <2>1, <3>1, EvenSum
  <2>3. \A i \in DOMAIN pc' : i \in DOMAIN pc /\ pc'[i] = IF i = p THEN Placed(p) ELSE pc[i]
    BY <1>3, <1>4
  <2>4. nocompress' => compr' = {} /\ c' % 4 = 0
    BY <1>1, <1>3, <1>5, <2>1 DEF Parity
  <2>5. nocompress' = nocompress
    BY <1>3
  <2> QED
    BY <1>1, <2>1, <2>2, <2>3, <2>4, <2>5 DEF Parity
<1>7. Marked'
  BY <1>1, <1>3, <1>5 DEF Marked, Shortable
<1>8. Shortened'
  <2>1. far = {} /\ link[p] = (IF p = Len(program) THEN None ELSE p + 1)
    BY <1>1, <1>4 DEF Fresh
  <2>2. Len(program) = Len(code) /\ DOMAIN code = 1..Len(code) /\ Len(code) \in Nat /\ p \in Nat
    <3>1. Len(program) = Len(code)
      BY <1>1 DEF Fresh
    <3> QED
      BY <1>1, <1>4, <3>1, Lens
  <2>3. ASSUME ~nocompress, NEW i \in DOMAIN code, Shortable(i), link[p] = None \/ i < link[p]
        PROVE  i \in compr'
    <3>1. CASE i = p
      <4>1. asmcompressed(p, pc, TRUE)
        BY <2>1, <2>3, <3>1, Applies
      <4> QED
        BY <1>2, <1>3, <3>1, <4>1
    <3>2. CASE i # p
      <4>1. i < p
        BY <2>1, <2>2, <2>3, <3>2 DEF None
      <4>2. i \in compr
        BY <1>1, <2>3, <4>1 DEF Shortened
      <4> QED
        BY <1>3, <4>2
    <3> QED
      BY <3>1, <3>2
  <2> QED
    BY <1>1, <1>3, <2>3 DEF Shortened, Shortable
<1> QED
  BY <1>1, <1>6, <1>7, <1>8 DEF Forms

LEMMA ExpandingForms == Forms /\ (PassOver \/ Reaching \/ JumpFar) => Forms'
<1> SUFFICES ASSUME Forms, PassOver \/ Reaching \/ JumpFar  PROVE Forms'
  OBVIOUS
<1>0. PICK a : a = p
  OBVIOUS
<1>1. /\ ReachInv' /\ Shape /\ TypeOK /\ p # None /\ Parity /\ Marked /\ phase = "expand"
  BY ExpandingReach DEF Forms, ReachInv, LayoutInv, Shape, PassOver, Reaching, JumpFar, Expanding
<1>2. /\ UNCHANGED <<program, nocompress, code, link, phase>>
      /\ pc' = [pc EXCEPT ![a] = Placed(p)] /\ c' = Placed(p) + Bytes(a)'
      /\ Bytes(a)' \in Nat
  BY <1>0, <1>1, OnePlaced
<1>3. c \in Nat /\ a \in DOMAIN pc /\ pc \in Seq(Nat) /\ a \in DOMAIN code /\ code \in Seq(Instr)
  BY <1>0, <1>1, AtP, Lens
<1>4. compr' \subseteq compr
  BY DEF PassOver, Reaching, JumpFar, MarksLeft, FarMarksLeft
<1>5. code' \in Seq(Instr) /\ a \in DOMAIN code'
  BY <1>2, <1>3
<1>6. Even(Bytes(a)') /\ (a \notin compr' => Bytes(a)' % 4 = 0)
  <2>2. code[a] \in Instr
    BY <1>3
  <2>3. code[a].as \in Opcodes
    BY <2>2 DEF Instr
  <2>4. Size(a)' \in {0, 4, 8, 12}
    BY <1>2, <2>3 DEF Size, Opcodes, Straight, Conditional, Jumps
  <2> QED
    BY <2>4 DEF Bytes, Even
<1>7. Parity'
  <2>1. Placed(p) \in Nat /\ Even(Placed(p)) /\ (nocompress => Placed(p) % 4 = 0)
    BY <1>1, <1>3, PlacedParity DEF Parity
  <2>2. Even(c')
    BY <1>2, <1>6, <2>1, EvenSum
  <2>3. \A i \in DOMAIN pc' : i \in DOMAIN pc /\ pc'[i] = IF i = a THEN Placed(p) ELSE pc[i]
    BY <1>2, <1>3
  <2>4. nocompress => compr' = {} /\ Bytes(a)' % 4 = 0
    BY <1>1, <1>4, <1>6 DEF Parity
  <2>5. nocompress => c' % 4 = 0
    BY <1>2, <2>1, <2>4
  <2> QED
    BY <1>1, <1>2, <2>1, <2>2, <2>3, <2>4, <2>5 DEF Parity
<1>8. Marked'
  BY <1>1, <1>2, <1>4 DEF Marked, Shortable
<1> QED
  BY <1>1, <1>2, <1>7, <1>8 DEF Forms

LEMMA AroundForms == Forms /\ BranchAround => Forms'
<1> SUFFICES ASSUME Forms, BranchAround  PROVE Forms'
  OBVIOUS
<1>0. PICK q : q = Len(code) + 1
  OBVIOUS
<1>a. PICK a : a = p
  OBVIOUS
<1>1. /\ ReachInv' /\ Shape /\ TypeOK /\ p # None /\ Parity /\ Marked /\ phase = "expand"
  BY AroundReach DEF Forms, ReachInv, LayoutInv, Shape, BranchAround, Expanding
<1>2. UNCHANGED <<program, nocompress, phase>>
  BY DEF BranchAround
<1>3. /\ Len(code) \in Nat /\ a \in 1..Len(code) /\ c \in Nat /\ pc[a] \in Nat
      /\ DOMAIN pc = 1..Len(code) /\ compr \subseteq 1..Len(code)
  BY <1>a, <1>1, AtP, Lens
<1>4. /\ \A i \in 1..Len(code) : i # a => code'[i] = code[i] /\ pc'[i] = pc[i]
      /\ code'[a].as = relinv(code[a].as) /\ code[a].as \in Conditional
      /\ DOMAIN pc' = 1..q /\ pc'[a] = c
      /\ c' \in {c + 2, c + 4}
      /\ compr' = (IF c' = c + 2 THEN compr \cup {a} ELSE compr \ {a})
  BY <1>0, <1>a, <1>1, Around
<1>5. PICK m \in {pc[a], c} : pc'[q] = m + (c' - c)
  BY <1>0, <1>a, <1>1, Around
<1>6. c' = c + 2 => ~nocompress /\ code[a].as \in {"BEQZ", "BNEZ"}
  BY <1>a, <1>3 DEF BranchAround
<1>7. Parity'
  <2>1. Even(c) /\ Even(pc[a]) /\ Even(2) /\ Even(4)
    BY <1>1, <1>3 DEF Parity, Even
  <2>2. PICK s \in {2, 4} : c' = c + s /\ pc'[q] = m + s /\ (s = 2 => ~nocompress)
    BY <1>3, <1>4, <1>5, <1>6
  <2>3. Even(c') /\ Even(pc'[q])
    BY <1>3, <2>1, <2>2, EvenSum
  <2>4. nocompress => c' % 4 = 0 /\ pc'[q] % 4 = 0
    <3>1. nocompress => c % 4 = 0 /\ pc[a] % 4 = 0
      BY <1>1, <1>3 DEF Parity
    <3> QED
      BY <1>3, <2>2, <3>1
  <2>5. nocompress => compr' = {}
    BY <1>1, <1>4, <1>6 DEF Parity
  <2>6. ASSUME NEW i \in 1..q  PROVE Even(pc'[i]) /\ (nocompress => pc'[i] % 4 = 0)
    <3>1. CASE i = q
      BY <2>3, <2>4, <3>1
    <3>2. CASE i = a
      BY <1>1, <1>4, <3>2 DEF Parity
    <3>3. CASE i # q /\ i # a
      <4>1. i \in DOMAIN pc /\ pc'[i] = pc[i]
        BY <1>0, <1>3, <1>4, <3>3
      <4> QED
        BY <1>1, <4>1 DEF Parity
    <3> QED
      BY <3>1, <3>2, <3>3
  <2> QED
    BY <1>2, <1>4, <2>3, <2>4, <2>5, <2>6 DEF Parity
<1>8. Marked'
  <2>1. ASSUME NEW i \in compr'  PROVE Shortable(i)'
    <3>1. CASE i = a
      <4>1. code[a].as \in {"BEQZ", "BNEZ"}
        BY <1>4, <1>6, <2>1, <3>1
      <4>2. code'[a].as \in {"BEQZ", "BNEZ"}
        BY <1>4, <4>1 DEF relinv
      <4> QED
        BY <3>1, <4>2 DEF Shortable
    <3>2. CASE i # a
      <4>1. i \in compr /\ code'[i] = code[i]
        BY <1>3, <1>4, <2>1, <3>2
      <4> QED
        BY <1>1, <4>1 DEF Marked, Shortable
    <3> QED
      BY <3>1, <3>2
  <2> QED
    BY <2>1 DEF Marked
<1> QED
  BY <1>1, <1>2, <1>7, <1>8 DEF Forms

LEMMA FormsStep == Forms /\ [Next]_vars => Forms'
<1> SUFFICES ASSUME Forms, [Next]_vars  PROVE Forms'
  OBVIOUS
<1>1. ReachInv' /\ Shape /\ TypeOK /\ Parity /\ Marked
  BY ReachStep DEF Forms, ReachInv, LayoutInv, Shape
<1>2. CASE NextPass \/ StartAsm
  <2>1. UNCHANGED <<nocompress, code, pc, compr>> /\ c' = 0 /\ phase' # "first"
    BY <1>2 DEF NextPass, StartAsm
  <2>2. Even(0) /\ 0 % 4 = 0
    BY DEF Even
  <2>3. Parity' /\ Marked'
    BY <1>1, <2>1, <2>2 DEF Parity, Marked, Shortable
  <2> QED
    BY <1>1, <2>1, <2>3 DEF Forms
<1>3. CASE Emit
  <2>1. UNCHANGED <<nocompress, code, pc, compr, phase>> /\ p # None /\ phase # "first"
    BY <1>3 DEF Emit
  <2>2. PICK short \in BOOLEAN : /\ short <=> asmcompressed(p, pc, FALSE)
                                 /\ c' = pc[p] + (IF short THEN 2 ELSE Size(p))
    BY <1>3 DEF Emit
  <2>3. p \in DOMAIN pc /\ pc[p] \in Nat /\ p \in DOMAIN code /\ code \in Seq(Instr)
    BY <1>1, <2>1, AtP, Lens
  <2>4. /\ Even(pc[p]) /\ (nocompress => pc[p] % 4 = 0 /\ ~short)
        /\ Even(Size(p)) /\ Size(p) \in Nat /\ Size(p) % 4 = 0 /\ Even(2)
    <3>1. Even(2)
      BY DEF Even
    <3>2. Even(pc[p]) /\ (nocompress => pc[p] % 4 = 0)
      BY <1>1, <2>3 DEF Parity
    <3>3. short => ~nocompress
      BY <2>2, Applies
    <3> QED
      BY <2>3, <3>1, <3>2, <3>3, Words
  <2>5. Even(c') /\ (nocompress => c' % 4 = 0)
    <3>1. PICK s \in Nat : s = (IF short THEN 2 ELSE Size(p)) /\ Even(s)
      BY <2>4
    <3>2. c' = pc[p] + s /\ (nocompress => s % 4 = 0)
      BY <2>2, <2>4, <3>1
    <3>3. Even(c')
      BY <2>3, <2>4, <3>1, <3>2, EvenSum
    <3> QED
      BY <2>3, <2>4, <3>1, <3>2, <3>3
  <2>6. Parity' /\ Marked'
    BY <1>1, <2>1, <2>5 DEF Parity, Marked, Shortable
  <2> QED
    BY <1>1, <2>1, <2>6 DEF Forms
<1>4. CASE EndAsm \/ UNCHANGED vars
  <2>1. UNCHANGED <<program, nocompress, code, pc, compr, p, c>> /\ (phase' = "first" => phase = "first")
    BY <1>4 DEF EndAsm, vars
  <2>2. Parity' /\ Marked'
    BY <1>1, <2>1 DEF Parity, Marked, Shortable
  <2>3. phase' = "first" => Shortened'
    BY <2>1 DEF Forms, Shortened, Shortable
  <2> QED
    BY <1>1, <2>2, <2>3 DEF Forms
<1> QED
  BY <1>2, <1>3, <1>4, FirstPassForms, ExpandingForms, AroundForms DEF Next, Done

-----------------------------------------------------------------------------
(* The layout that the sizes of each moment make, which nobody computes.   *)

(* The layout A that the sizes of this moment make, as far as this pass    *)
(* has come; it is the one there is if no size has changed.                *)
Places(o, A) ==
  /\ \A i \in DOMAIN code : Passed(i) <=> (p = None \/ o[i] < o[p])
  /\ \A i \in DOMAIN code : Passed(i) => pc[i] = A[i]
  /\ p # None => At(p, c) = A[p]
  /\ ~bflag => \A i \in DOMAIN code : pc[i] = A[i]

(* A jump this pass has inserted has an address that tells nothing.        *)
Awaiting(i) == ~Passed(i) /\ (i = p /\ code[i].as = "JMP" => i \in compr)

(* What the pass is still to come to has moved, but not by different       *)
(* distances within a function; and no TEXT from another.                  *)
InStep(h, A) ==
  /\ \A i, j \in DOMAIN code :
       Awaiting(i) /\ Awaiting(j) /\ h[i] = h[j] => pc[j] - pc[i] = A[j] - A[i]
  /\ \A i, j \in Texts : ~Passed(i) /\ ~Passed(j) => pc[j] - pc[i] = A[j] - A[i]
  /\ \A i \in DOMAIN code :
       Awaiting(i) /\ link[i] \in Texts => pc[link[i]] = Align4(pc[i] + Bytes(i))

(* Branches have their targets in their functions, or call.                *)
Aimed(h) ==
  \A i \in DOMAIN code : code[i].as \in Conditional \cup Jumps =>
    /\ code[i].cond \in DOMAIN code
    /\ h[code[i].cond] = h[i] \/ code[i].cond \in Texts

(* Who has lost the 2-byte form will never be in its reach again.          *)
Chosen(o, h, A) ==
  /\ \A i \in DOMAIN code : code[i].as = "CWORD" => i \in compr
  /\ ~bflag => \A i \in compr : Passed(i) /\ code[i].as # "CWORD" =>
                 A[code[i].cond] - A[i] \in -ReachOf(i) .. ReachOf(i) - 1
  /\ \A i \in DOMAIN code : Shortable(i) /\ i \notin compr =>
       Beyond(link, Texts, Lengths, o, h, A, i, code[i].cond, ReachOf(i), ReachOf(i))

Drawn(o, h, A) ==
  /\ Numbered(link, Texts, o, h)
  /\ Layout(link, Texts, Lengths, o, A)
  /\ Places(o, A) /\ InStep(h, A) /\ Aimed(h) /\ Chosen(o, h, A)

(* The function that instruction i of the program is in.                   *)
Home(i) ==
  CHOOSE t \in DOMAIN program :
    /\ t <= i /\ program[t].as = "TEXT"
    /\ \A k \in DOMAIN program : t < k /\ k <= i => program[k].as # "TEXT"

(* Branches stay in their function, or go to the beginning of one.         *)
Functional ==
  \A i \in DOMAIN program : program[i].as \in Conditional \cup Jumps =>
    \/ Home(program[i].cond) = Home(i)
    \/ program[program[i].cond].as = "TEXT"

Followed == ~nocompress /\ Functional /\ EndsWell /\ far = {}

(* What asmb writes for i.                                                 *)
Emitted(i) == IF asmcompressed(i, pc, FALSE) THEN 2 ELSE Size(i)

Kept ==
  /\ pc[1] = 0
  /\ \A i \in DOMAIN link : link[i] # None => pc[link[i]] = At(link[i], pc[i] + Emitted(i))
  /\ NoPhaseError
  /\ phase = "asm" =>
       /\ p = 1 => c = 0
       /\ \A i \in DOMAIN link : p # None /\ link[i] = p => c = pc[i] + Emitted(i)

PhaseInv ==
  /\ Forms
  /\ phase \in {"first", "expand"} => NoPhaseError
  /\ phase = "expand" /\ Followed => \E o, h, A : Drawn(o, h, A)
  /\ phase \in {"asm", "done"} /\ (nocompress \/ Followed) => Kept

LEMMA ReachIs ==
  ASSUME NEW i
  PROVE  ReachOf(i) \in Nat /\ ReachOf(i) > 0 /\ CJReach \in Nat /\ BReach \in Nat /\ CJReach + 2 <= BReach
  BY LinkSpanAssumption DEF ReachOf

LEMMA LengthsType ==
  ASSUME TypeOK
  PROVE  /\ Lengths \in [DOMAIN link -> Nat] /\ DOMAIN link = DOMAIN code
         /\ \A i \in DOMAIN link : Lengths[i] = Bytes(i) /\ Even(Lengths[i])
<1>1. DOMAIN link = DOMAIN code /\ code \in Seq(Instr)
  BY Lens
<1>2. \A i \in DOMAIN code : Bytes(i) \in Nat /\ Even(Bytes(i))
  BY <1>1, Words
<1> QED
  BY <1>1, <1>2 DEF Lengths

(* In the last pass nothing has changed: span's marks are asmb's choice.   *)
LEMMA LastPass ==
  ASSUME TypeOK, Marked, ~nocompress, far = {}, p = None, ~bflag,
         NEW o, NEW h, NEW A, Drawn(o, h, A), NEW i \in DOMAIN code
  PROVE  i \in compr <=> asmcompressed(i, pc, FALSE)
<1>1. asmcompressed(i, pc, FALSE) <=>
        /\ Shortable(i)
        /\ code[i].as = "CWORD" \/ Displacement(i, pc) \in -ReachOf(i) .. ReachOf(i) - 1
  BY Applies
<1>2. Shortable(i) /\ code[i].as # "CWORD" => code[i].as \in Conditional \cup Jumps
  BY DEF Shortable, Conditional, Jumps
<1>3. Shortable(i) /\ code[i].as # "CWORD" =>
        code[i].cond \in DOMAIN code /\ Displacement(i, pc) = A[code[i].cond] - A[i]
  BY <1>2 DEF Drawn, Places, Aimed, Displacement
<1>4. ASSUME i \in compr  PROVE asmcompressed(i, pc, FALSE)
  BY <1>1, <1>3, <1>4 DEF Drawn, Places, Chosen, Marked
<1>5. ASSUME i \notin compr, Shortable(i)  PROVE ~asmcompressed(i, pc, FALSE)
  <2>1. code[i].as # "CWORD"
    BY <1>5 DEF Drawn, Chosen
  <2>2. Beyond(link, Texts, Lengths, o, h, A, i, code[i].cond, ReachOf(i), ReachOf(i))
    BY <1>5 DEF Drawn, Chosen
  <2>3. /\ Numbered(link, Texts, o, h) /\ Layout(link, Texts, Lengths, o, A)
        /\ Lengths \in [DOMAIN link -> Nat] /\ DOMAIN link = DOMAIN code /\ ReachOf(i) \in Nat
    BY LengthsType, ReachIs DEF Drawn
  <2>4. A[code[i].cond] - A[i] \notin -ReachOf(i) .. ReachOf(i) - 1
    BY <1>3, <1>5, <2>1, <2>2, <2>3, OutOfReach
  <2> QED
    BY <1>1, <1>3, <1>5, <2>1, <2>4
<1> QED
  BY <1>1, <1>4, <1>5

LEMMA StartAsmPhase == PhaseInv /\ StartAsm => PhaseInv'
<1> SUFFICES ASSUME PhaseInv, StartAsm  PROVE PhaseInv'
  OBVIOUS
<1>1. /\ Forms /\ Forms' /\ ReachInv /\ Shape /\ TypeOK /\ Exact /\ Spread /\ Parity /\ Marked
      /\ phase \in {"first", "expand"} /\ p = None /\ ~bflag /\ NoPhaseError
  BY FormsStep DEF PhaseInv, Forms, ReachInv, LayoutInv, Shape, StartAsm, Next
<1>2. /\ UNCHANGED <<program, nocompress, code, link, pc, compr, seen, far, spass, diags>>
      /\ phase' = "asm" /\ p' = 1 /\ c' = 0
  BY DEF StartAsm
<1>3. DOMAIN link = DOMAIN code /\ code \in Seq(Instr)
  BY <1>1, Lens
<1>4. ASSUME nocompress \/ Followed, NEW i \in DOMAIN code
      PROVE  i \in compr <=> asmcompressed(i, pc, FALSE)
  <2>1. CASE nocompress
    BY <1>1, <2>1, Applies DEF Parity
  <2>2. CASE ~nocompress /\ phase = "first"
    <3>1. Shortened /\ Fresh
      BY <1>1, <2>2 DEF Forms, ReachInv, LayoutInv
    <3>2. ~Shortable(i)
      <4>1. i \in DOMAIN program /\ code[i] = program[i]
        BY <3>1 DEF Shortened
      <4>2. ~CanShrink(i)
        BY <1>1, <2>2, <4>1 DEF ReachInv
      <4> QED
        BY <4>1, <4>2 DEF CanShrink, Shortable
    <3> QED
      BY <1>1, <3>2, Applies DEF Marked
  <2>3. CASE ~nocompress /\ phase = "expand"
    <3>1. PICK o, h, A : Drawn(o, h, A)
      BY <1>4, <2>3 DEF PhaseInv
    <3>2. far = {}
      BY <1>4, <2>3 DEF Followed
    <3> QED
      BY <1>1, <2>3, <3>1, <3>2, LastPass
  <2> QED
    BY <1>1, <2>1, <2>2, <2>3
<1>5. nocompress' = nocompress /\ (Followed' <=> Followed)
  BY <1>2 DEF Followed, Functional, Home, EndsWell
<1>6. ASSUME nocompress \/ Followed  PROVE Kept'
  <2>1. \A i \in DOMAIN code : Emitted(i) = Bytes(i)
    BY <1>4, <1>6 DEF Emitted, Bytes
  <2>2. \A i \in DOMAIN link : link[i] # None => pc[link[i]] = At(link[i], pc[i] + Emitted(i))
    <3>1. \A i \in DOMAIN link : Laid(i)
      BY <1>1, <1>3, Lens DEF Laid, None
    <3> QED
      BY <1>1, <1>3, <2>1, <3>1 DEF Exact, None
  <2>3. \A i : Emitted(i)' = Emitted(i)
    BY <1>2 DEF Emitted, Size, asmcompressed, Type4, Displacement
  <2>4. \A i, x : At(i, x)' = At(i, x)
    BY <1>2 DEF At
  <2>5. \A i \in DOMAIN link : link[i] # 1
    BY <1>1 DEF Shape, Chained
  <2>6. NoPhaseError' /\ pc[1] = 0
    BY <1>1, <1>2 DEF NoPhaseError, Spread
  <2>7. \A i \in DOMAIN link' :
          link'[i] # None => pc'[link'[i]] = (IF code'[link'[i]].as = "TEXT" THEN Align4(pc'[i] + Emitted(i)') ELSE pc'[i] + Emitted(i)')
    BY <1>2, <2>2, <2>3 DEF At
  <2> QED
    BY <1>2, <2>5, <2>6, <2>7 DEF Kept, At
<1> QED
  BY <1>1, <1>2, <1>5, <1>6 DEF PhaseInv

LEMMA EmitPhase == PhaseInv /\ Emit => PhaseInv'
<1> SUFFICES ASSUME PhaseInv, Emit  PROVE PhaseInv'
  OBVIOUS
<1>1. /\ Forms /\ Forms' /\ ReachInv /\ Shape /\ TypeOK /\ Parity /\ Ordered /\ Chained
      /\ phase = "asm" /\ p # None
  BY FormsStep DEF PhaseInv, Forms, ReachInv, LayoutInv, Shape, Emit, Next
<1>2. /\ UNCHANGED <<program, nocompress, code, link, pc, compr, seen, far, phase>>
      /\ p' = link[p] /\ c' = pc[p] + Emitted(p)
  BY DEF Emit, Emitted
<1>3. nocompress' = nocompress /\ (Followed' <=> Followed)
  BY <1>2 DEF Followed, Functional, Home, EndsWell
<1>4. ASSUME nocompress \/ Followed  PROVE Kept'
  <2>1. Kept
    BY <1>1, <1>4 DEF PhaseInv
  <2>2. p \in DOMAIN link /\ DOMAIN link = DOMAIN code /\ c \in Nat
    BY <1>1, AtP, Lens
  <2>3. pc[p] = At(p, c)
    <3>1. CASE p = 1
      <4>1. c = 0 /\ pc[1] = 0 /\ Align4(0) = 0
        BY <1>1, <2>1, <3>1 DEF Kept, Align4
      <4> QED
        BY <3>1, <4>1 DEF At
    <3>2. CASE p # 1
      <4>1. PICK i \in DOMAIN link : link[i] = p
        BY <1>1, <2>2, <3>2 DEF Ordered
      <4>2. c = pc[i] + Emitted(i) /\ pc[p] = At(p, pc[i] + Emitted(i))
        BY <1>1, <2>1, <4>1 DEF Kept
      <4> QED
        BY <4>2
    <3> QED
      BY <3>1, <3>2
  <2>4. Reached = At(p, c)
    <3>1. Even(c) /\ (nocompress => c % 4 = 0)
      BY <1>1 DEF Parity
    <3>2. Align4(c) = IF c % 4 = 0 THEN c ELSE c + 2
      BY <2>2, <3>1, Pads
    <3>3. c % 4 = 0 \/ c % 4 = 2
      BY <2>2, <3>1 DEF Even
    <3> QED
      BY <2>2, <3>1, <3>2, <3>3 DEF Reached, At
  <2>5. NoPhaseError'
    <3> DEFINE v == Displacement(p, pc)
    <3> HIDE DEF v
    <3>1. PICK complaints :
            /\ diags' = diags \cup complaints
            /\ complaints =
                 (IF Reached # pc[p] THEN {"phase error"} ELSE {})
                 \cup (IF ~asmcompressed(p, pc, FALSE) /\ Type3(p) /\ v \notin -BReach .. BReach - 1
                         THEN {"branch out of range"} ELSE {})
                 \cup (IF ~asmcompressed(p, pc, FALSE) /\ Type4(p) /\ v \notin -JReach .. JReach - 1
                         THEN {"jump out of range"} ELSE {})
      BY Zenon DEF Emit, v
    <3>2. "phase error" \notin complaints
      BY <2>3, <2>4, <3>1
    <3> QED
      BY <2>1, <3>1, <3>2 DEF Kept, NoPhaseError
  <2>6. \A i : Emitted(i)' = Emitted(i)
    BY <1>2 DEF Emitted, Size, asmcompressed, Type4, Displacement
  <2>7. \A i \in DOMAIN link : link[i] # 1 /\ (link[p] # None /\ link[i] = link[p] => i = p)
    BY <1>1, <2>2 DEF Chained
  <2>8. \A i \in DOMAIN link' :
          link'[i] # None => pc'[link'[i]] = (IF code'[link'[i]].as = "TEXT" THEN Align4(pc'[i] + Emitted(i)') ELSE pc'[i] + Emitted(i)')
    BY <1>2, <2>1, <2>6 DEF Kept, At
  <2>9. pc'[1] = 0 /\ (p' = 1 => c' = 0)
    BY <1>2, <2>1, <2>2, <2>7 DEF Kept
  <2>10. \A i \in DOMAIN link' : p' # None /\ link'[i] = p' => c' = pc'[i] + Emitted(i)'
    BY <1>2, <2>6, <2>7
  <2> QED
    BY <2>5, <2>8, <2>9, <2>10 DEF Kept, At
<1> QED
  BY <1>1, <1>2, <1>3, <1>4 DEF PhaseInv

-----------------------------------------------------------------------------
(* The picture at the beginning of a pass.                                 *)

LEMMA Climbs ==
  ASSUME NEW n \in Nat, NEW f \in [1..n -> Nat],
         \A i \in 1..n : i < n => f[i] <= f[i + 1]
  PROVE  \A i, j \in 1..n : i <= j => f[i] <= f[j]
<1> DEFINE Bad == {j \in 1..n : \E i \in 1..n : i <= j /\ ~(f[i] <= f[j])}
<1>1. SUFFICES ASSUME Bad # {}  PROVE FALSE
  OBVIOUS
<1>2. PICK j \in Bad : \A k \in Bad : j <= k
  <2>1. Bad \subseteq Nat
    OBVIOUS
  <2> HIDE DEF Bad
  <2> QED
    BY <1>1, <2>1, Least
<1>3. PICK i \in 1..n : i <= j /\ ~(f[i] <= f[j])
  OBVIOUS
<1>4. i < j /\ j - 1 \in 1..n /\ j \in 1..n /\ i <= j - 1 /\ j - 1 < n /\ (j - 1) + 1 = j
  BY <1>3
<1>5. f[i] <= f[j - 1]
  <2>1. j - 1 \notin Bad
    BY <1>2, <1>4
  <2> QED
    BY <1>4, <2>1
<1>6. f[j - 1] <= f[j]
  BY <1>4
<1> QED
  BY <1>3, <1>4, <1>5, <1>6

LEMMA Homes ==
  ASSUME program \in Programs, NEW i \in DOMAIN program
  PROVE  /\ Home(i) \in DOMAIN program /\ Home(i) <= i /\ program[Home(i)].as = "TEXT"
         /\ \A k \in DOMAIN program : Home(i) < k /\ k <= i => program[k].as # "TEXT"
<1>1. /\ Len(program) \in Nat /\ DOMAIN program = 1..Len(program) /\ 1 \in DOMAIN program
      /\ program[1].as = "TEXT"
  BY ProgramShape
<1> DEFINE Before == {t \in DOMAIN program : t <= i /\ program[t].as = "TEXT"}
           Away == {i - t : t \in Before}
<1>2. Away # {} /\ Away \subseteq Nat
  <2>1. 1 \in Before
    BY <1>1
  <2> QED
    BY <1>1, <2>1
<1>3. PICK m \in Away : \A k \in Away : m <= k
  <2> HIDE DEF Away
  <2> QED
    BY <1>2, Least
<1>4. PICK t \in Before : m = i - t
  OBVIOUS
<1>5. \A k \in DOMAIN program : t < k /\ k <= i => program[k].as # "TEXT"
  <2> SUFFICES ASSUME NEW k \in DOMAIN program, t < k, k <= i, program[k].as = "TEXT"  PROVE FALSE
    OBVIOUS
  <2>1. i - k \in Away
    OBVIOUS
  <2>2. i - t <= i - k
    BY <1>3, <1>4, <2>1
  <2> QED
    BY <1>1, <2>2
<1> QED
  BY <1>4, <1>5 DEF Home

LEMMA InOrder ==
  ASSUME NEW n \in Nat, n >= 1, NEW T, NEW lk, DOMAIN lk = 1..n,
         \A i \in 1..n : lk[i] = IF i = n THEN None ELSE i + 1,
         NEW o \in [1..n -> Nat], \A i \in 1..n : o[i] = i,
         NEW h \in [1..n -> Nat],
         \A i \in 1..n : h[i] \in 1..n /\ h[i] <= i /\ h[i] \in T,
         \A i, k \in 1..n : h[i] < k /\ k <= i => k \notin T
  PROVE  Numbered(lk, T, o, h)
<1> DEFINE D == 1..n
<1>1. 1 \in D /\ None \notin D
  BY DEF None
<1>2. \A i \in D : o[1] <= o[i]
  BY <1>1
<1>3. \A i \in D : lk[i] = None => \A k \in D : o[k] <= o[i]
  BY DEF None
<1>4. \A i \in D : lk[i] # None => lk[i] \in D /\ o[lk[i]] = o[i] + 1
  <2> TAKE i \in D
  <2> HAVE lk[i] # None
  <2>1. lk[i] = i + 1 /\ i + 1 \in D
    OBVIOUS
  <2> QED
    BY <2>1
<1>5. \A i, k \in D : o[i] = o[k] => i = k
  OBVIOUS
<1>6. \A j \in D : j = 1 \/ \E i \in D : lk[i] = j
  <2> TAKE j \in D
  <2>1. j # 1 => j - 1 \in D /\ j - 1 # n /\ (j - 1) + 1 = j
    OBVIOUS
  <2> QED
    BY <2>1
<1>7. \A i, j \in D : i <= j => h[i] <= h[j]
  <2> TAKE i, j \in D
  <2> HAVE i <= j
  <2>1. h[i] <= j /\ h[i] \in D /\ h[i] \in T /\ h[j] \in D
    OBVIOUS
  <2>2. ~(h[j] < h[i])
    BY <2>1
  <2> QED
    BY <2>1, <2>2
<1>8. \A i, j \in D : i < j /\ j \in T => h[i] < h[j]
  <2> TAKE i, j \in D
  <2> HAVE i < j /\ j \in T
  <2>1. h[j] \in D /\ h[i] \in D /\ h[i] <= i /\ h[j] <= j /\ ~(h[j] < j)
    OBVIOUS
  <2> QED
    BY <2>1
<1>9. \A i \in D : lk[i] # None /\ lk[i] \notin T => h[lk[i]] = h[i]
  <2> TAKE i \in D
  <2> HAVE lk[i] # None /\ lk[i] \notin T
  <2>1. lk[i] = i + 1 /\ i + 1 \in D
    OBVIOUS
  <2>2. h[i + 1] \in D /\ h[i + 1] \in T /\ h[i + 1] <= i /\ h[i] \in D /\ h[i] <= i /\ h[i] \in T
    BY <2>1
  <2>3. ~(h[i] < h[i + 1]) /\ ~(h[i + 1] < h[i])
    <3>1. h[i] <= i + 1
      BY <2>2
    <3> QED
      BY <2>1, <2>2, <3>1
  <2> QED
    BY <2>1, <2>2, <2>3
<1>10. /\ \A i, j \in D : o[i] <= o[j] => h[i] <= h[j]
       /\ \A i, j \in D : o[i] < o[j] /\ j \in T => h[i] < h[j]
  BY <1>7, <1>8
<1> QED
  BY <1>1, <1>2, <1>3, <1>4, <1>5, <1>6, <1>9, <1>10 DEF Numbered

LEMMA FirstNumbers ==
  ASSUME Shape, Fresh, code = program, NEW o, NEW h,
         o = [i \in DOMAIN link |-> i], h = [i \in DOMAIN link |-> Home(i)]
  PROVE  Numbered(link, Texts, o, h)
<1> DEFINE n == Len(program)
<1>1. /\ n \in Nat /\ n >= 1 /\ DOMAIN program = 1..n /\ DOMAIN link = 1..n
      /\ program \in Programs
  <2>1. TypeOK /\ Len(code) = n
    BY DEF Shape, Fresh
  <2>2. n \in Nat /\ DOMAIN program = 1..n /\ 1 \in DOMAIN program /\ DOMAIN link = 1..n
    BY <2>1, Lens
  <2>3. program \in Programs
    BY <2>1 DEF TypeOK
  <2> QED
    BY <2>2, <2>3
<1>2. \A i \in 1..n : link[i] = IF i = n THEN None ELSE i + 1
  BY <1>1 DEF Fresh
<1>3. \A i \in 1..n : Home(i) \in 1..n /\ Home(i) <= i /\ Home(i) \in Texts
  BY <1>1, Homes DEF Texts
<1>4. \A i, k \in 1..n : Home(i) < k /\ k <= i => k \notin Texts
  BY <1>1, Homes DEF Texts
<1>5. o \in [1..n -> Nat] /\ \A i \in 1..n : o[i] = i
  BY <1>1
<1>6. h \in [1..n -> Nat] /\ \A i \in 1..n : h[i] = Home(i)
  BY <1>1, <1>3
<1>7. \A i \in 1..n : h[i] \in 1..n /\ h[i] <= i /\ h[i] \in Texts
  BY <1>3, <1>6
<1>8. \A i, k \in 1..n : h[i] < k /\ k <= i => k \notin Texts
  BY <1>4, <1>6
<1> HIDE DEF n
<1> QED
  BY <1>1, <1>2, <1>5, <1>6, <1>7, <1>8, InOrder

LEMMA FirstLayout ==
  ASSUME Forms, phase = "first", p = None, NEW o, o = [i \in DOMAIN link |-> i]
  PROVE  Layout(link, Texts, Lengths, o, pc)
<1>1. /\ Shape /\ TypeOK /\ Exact /\ Spread /\ Parity /\ Fresh
  BY DEF Forms, ReachInv, LayoutInv, Shape
<1>2. /\ DOMAIN link = 1..Len(code) /\ DOMAIN code = 1..Len(code) /\ DOMAIN pc = 1..Len(code)
      /\ pc \in Seq(Nat) /\ Len(code) \in Nat /\ Len(pc) = Len(code)
      /\ Len(code) = Len(program)
  BY <1>1, Lens DEF Fresh
<1>3. pc \in [1..Len(code) -> Nat] /\ pc[1] = 0
  BY <1>1, <1>2 DEF Spread
<1>4. \A i \in DOMAIN link : link[i] # None => pc[link[i]] = Up(Texts, link[i], pc[i] + Lengths[i])
  <2> TAKE i \in DOMAIN link
  <2> HAVE link[i] # None
  <2>1. link[i] \in DOMAIN code
    BY <1>1, <1>2 DEF Shape, Chained, None
  <2>2. pc[link[i]] = At(link[i], pc[i] + Bytes(i))
    BY <1>1 DEF Exact, Laid
  <2> QED
    BY <1>2, <2>1, <2>2 DEF At, Up, Texts, Lengths
<1>5. \A i \in 1..Len(code) : i < Len(code) => pc[i] <= pc[i + 1]
  <2> TAKE i \in 1..Len(code)
  <2> HAVE i < Len(code)
  <2>1. link[i] = i + 1 /\ link[i] # None
    BY <1>1, <1>2 DEF Fresh, None
  <2>2. Lengths[i] \in Nat /\ pc[i] \in Nat
    <3>1. i \in DOMAIN link
      BY <1>2
    <3> QED
      BY <1>1, <1>3, <3>1, LengthsType
  <2>3. pc[i] + Lengths[i] <= Up(Texts, link[i], pc[i] + Lengths[i])
    <3>1. pc[i] + Lengths[i] \in Nat
      BY <2>2
    <3>2. \A a \in Nat : a <= Up(Texts, link[i], a)
      BY Pads DEF Up
    <3> QED
      BY <3>1, <3>2
  <2>4. pc[i + 1] = Up(Texts, link[i], pc[i] + Lengths[i]) /\ pc[i + 1] \in Nat
    BY <1>2, <1>3, <1>4, <2>1
  <2> QED
    BY <2>2, <2>3, <2>4
<1>6. \A i, j \in DOMAIN link : o[i] <= o[j] => pc[i] <= pc[j]
  <2>1. \A i, j \in 1..Len(code) : i <= j => pc[i] <= pc[j]
    BY <1>2, <1>3, <1>5, Climbs
  <2> QED
    BY <1>2, <2>1
<1>7. \A i \in DOMAIN link : Even(pc[i])
  BY <1>1, <1>2 DEF Parity
<1> QED
  BY <1>2, <1>3, <1>4, <1>6, <1>7 DEF Layout

LEMMA NonePassed ==
  ASSUME ReachInv, NextPass
  PROVE  \A i \in DOMAIN code : ~Passed(i)' /\ (phase = "expand" => Passed(i))
<1>1. Shape /\ Ordered /\ p = None /\ phase \in {"first", "expand"} /\ (spass' <=> ~spass) /\ seen' = seen
  BY DEF ReachInv, LayoutInv, NextPass
<1>2. CASE phase = "first"
  <2>1. seen = {} /\ ~spass
    BY <1>2 DEF ReachInv
  <2> QED
    BY <1>1, <1>2, <2>1 DEF Passed
<1>3. CASE phase = "expand"
  <2>1. \A i \in DOMAIN code : Passed(i)
    BY <1>1, <1>3, AllPassed DEF ReachInv
  <2> QED
    BY <1>1, <2>1 DEF Passed
<1> QED
  BY <1>1, <1>2, <1>3

LEMMA NextPassDrawn ==
  ASSUME PhaseInv, NextPass, Followed
  PROVE  \E o, h, A : Drawn(o, h, A)'
<1>1. /\ Forms /\ ReachInv /\ Shape /\ TypeOK /\ phase \in {"first", "expand"} /\ p = None
  BY DEF PhaseInv, Forms, ReachInv, LayoutInv, Shape, NextPass
<1>2. /\ UNCHANGED <<program, nocompress, code, link, pc, compr, seen, far, diags>>
      /\ phase' = "expand" /\ bflag' = FALSE /\ c' = 0 /\ p' = 1
  BY DEF NextPass
<1>3. /\ \A i \in DOMAIN code : ~Passed(i)' /\ (phase = "expand" => Passed(i))
      /\ DOMAIN link = DOMAIN code /\ 1 \in DOMAIN code
  <2>1. 1 \in 1..Len(program) /\ Len(program) \in Nat /\ Len(program) <= Len(code)
    BY <1>1, Lens
  <2>2. Len(code) \in Nat /\ DOMAIN code = 1..Len(code) /\ DOMAIN link = 1..Len(code)
    BY <1>1, Lens
  <2> QED
    BY <1>1, <2>1, <2>2, NonePassed
<1>4. \E o, h, A : /\ Numbered(link, Texts, o, h) /\ Layout(link, Texts, Lengths, o, A) /\ Aimed(h)
                   /\ \A i \in DOMAIN code : pc[i] = A[i]
                   /\ \A i \in DOMAIN code : code[i].as = "CWORD" => i \in compr
                   /\ \A i \in DOMAIN code : Shortable(i) /\ i \notin compr =>
                        Beyond(link, Texts, Lengths, o, h, A, i, code[i].cond, ReachOf(i), ReachOf(i))
  <2>1. CASE phase = "first"
    <3>1. Shortened /\ Fresh
      BY <1>1, <2>1 DEF Forms, ReachInv, LayoutInv
    <3>2. PICK o : o = [i \in DOMAIN link |-> i]
      OBVIOUS
    <3>3. PICK h : h = [i \in DOMAIN link |-> Home(i)]
      OBVIOUS
    <3>4. Numbered(link, Texts, o, h)
      BY <1>1, <3>1, <3>2, <3>3, FirstNumbers DEF Shortened
    <3>5. Layout(link, Texts, Lengths, o, pc)
      BY <1>1, <2>1, <3>2, FirstLayout
    <3>6. \A i \in DOMAIN code : Shortable(i) => i \in compr
      BY <1>1, <3>1 DEF Shortened, Followed
    <3>7. \A i \in DOMAIN code : code[i].as = "CWORD" => i \in compr
      BY <3>6 DEF Shortable
    <3>8. Aimed(h)
      <4>1. code = program /\ Functional /\ Targets
        BY <1>1, <3>1 DEF Shortened, Followed, ReachInv
      <4>2. ASSUME NEW i \in DOMAIN code, code[i].as \in Conditional \cup Jumps
            PROVE  code[i].cond \in DOMAIN code /\ (h[code[i].cond] = h[i] \/ code[i].cond \in Texts)
        <5>1. code[i].cond \in DOMAIN code
          BY <4>1, <4>2 DEF Targets
        <5>2. Home(code[i].cond) = Home(i) \/ code[code[i].cond].as = "TEXT"
          BY <4>1, <4>2 DEF Functional
        <5> QED
          BY <1>3, <3>3, <5>1, <5>2 DEF Texts
      <4> QED
        BY <4>2 DEF Aimed
    <3> QED
      BY <3>4, <3>5, <3>6, <3>7, <3>8
  <2>2. CASE phase = "expand"
    <3>1. PICK o, h, A : Drawn(o, h, A)
      BY <2>2 DEF PhaseInv
    <3>2. \A i \in DOMAIN code : pc[i] = A[i]
      BY <1>3, <2>2, <3>1 DEF Drawn, Places
    <3> QED
      BY <3>1, <3>2 DEF Drawn, Chosen
  <2> QED
    BY <1>1, <2>1, <2>2
<1>5. PICK o, h, A : /\ Numbered(link, Texts, o, h) /\ Layout(link, Texts, Lengths, o, A) /\ Aimed(h)
                     /\ \A i \in DOMAIN code : pc[i] = A[i]
                     /\ \A i \in DOMAIN code : code[i].as = "CWORD" => i \in compr
                     /\ \A i \in DOMAIN code : Shortable(i) /\ i \notin compr =>
                          Beyond(link, Texts, Lengths, o, h, A, i, code[i].cond, ReachOf(i), ReachOf(i))
  BY <1>4
<1>6. /\ Texts' = Texts /\ Lengths' = Lengths /\ \A i : Bytes(i)' = Bytes(i)
  BY <1>2 DEF Texts, Lengths, Bytes, Size
<1>7. Numbered(link', Texts', o, h) /\ Layout(link', Texts', Lengths', o, A)
  BY <1>2, <1>5, <1>6
<1>8. Places(o, A)'
  <2>1. \A i \in DOMAIN code : ~(o[i] < o[1])
    BY <1>3, <1>5 DEF Numbered
  <2>2. p' # None
    BY <1>2 DEF None
  <2>3. At(1, 0)' = A[1]
    <3>1. A[1] = 0 /\ Align4(0) = 0
      BY <1>5 DEF Layout, Align4
    <3> QED
      BY <3>1 DEF At
  <2>4. At(p, c)' = A[p']
    BY <1>2, <2>3 DEF At
  <2>5. \A i \in DOMAIN code' : ~Passed(i)' /\ ~(o[i] < o[p']) /\ pc'[i] = A[i]
    BY <1>2, <1>3, <1>5, <2>1
  <2> QED
    BY <2>2, <2>4, <2>5 DEF Places
<1>9. InStep(h, A)'
  <2>1. \A i \in DOMAIN code : pc'[i] = A[i]
    BY <1>2, <1>5
  <2>2. ASSUME NEW i \in DOMAIN code, link[i] \in Texts
        PROVE  link[i] \in DOMAIN code /\ A[link[i]] = Align4(A[i] + Bytes(i))
    <3>1. link[i] \in DOMAIN code /\ link[i] # None
      BY <1>3, <1>5, <2>2 DEF Texts, Numbered
    <3>2. A[link[i]] = Up(Texts, link[i], A[i] + Lengths[i])
      BY <1>3, <1>5, <3>1 DEF Layout
    <3> QED
      BY <2>2, <3>1, <3>2 DEF Up, Lengths
  <2>3. \A i \in Texts : i \in DOMAIN code
    BY DEF Texts
  <2>4. \A i \in DOMAIN code' : link'[i] \in Texts' => pc'[link'[i]] = Align4(pc'[i] + Bytes(i)')
    BY <1>2, <1>6, <2>1, <2>2
  <2>5. \A i, j \in Texts' : pc'[j] - pc'[i] = A[j] - A[i]
    BY <1>6, <2>1, <2>3
  <2>6. \A i, j \in DOMAIN code' : pc'[j] - pc'[i] = A[j] - A[i]
    BY <1>2, <2>1
  <2> QED
    BY <2>4, <2>5, <2>6 DEF InStep
<1>10. Aimed(h)'
  BY <1>2, <1>5, <1>6 DEF Aimed
<1>11. Chosen(o, h, A)'
  <2>1. \A i : (Shortable(i)' <=> Shortable(i)) /\ ReachOf(i)' = ReachOf(i)
    BY <1>2 DEF Shortable, ReachOf
  <2>2. \A i \in compr' : ~Passed(i)'
    <3>1. compr' \subseteq DOMAIN code
      BY <1>1, <1>2 DEF TypeOK
    <3> QED
      BY <1>3, <3>1
  <2>3. \A i \in DOMAIN code' : Shortable(i)' /\ i \notin compr' =>
            Beyond(link', Texts', Lengths', o, h, A, i, code'[i].cond, ReachOf(i)', ReachOf(i)')
    BY <1>2, <1>5, <1>6, <2>1
  <2>4. \A i \in DOMAIN code' : code'[i].as = "CWORD" => i \in compr'
    BY <1>2, <1>5
  <2> QED
    BY <2>2, <2>3, <2>4 DEF Chosen
<1> QED
  BY <1>7, <1>8, <1>9, <1>10, <1>11 DEF Drawn

-----------------------------------------------------------------------------
(* The picture while a pass goes on.                                       *)

(* The displacement a branch is measured by is that in the layout of its   *)
(* sizes, but for the padding at the end of its function.                  *)
LEMMA MeasuredIs ==
  ASSUME TypeOK, Swept, Parity, p # None, NEW o, NEW h, NEW A, Drawn(o, h, A),
         Awaiting(p), code[p].as \in Conditional \cup Jumps, code[p].as # "TEXT",
         NEW t, t = code[p].cond, NEW v, v = Displacement(p, Measured)
  PROVE  /\ v \in Int /\ t \in DOMAIN code /\ (t = p => v = 0)
         /\ o[t] < o[p] => v = A[t] - A[p] /\ v <= 0
         /\ o[p] <= o[t] /\ h[t] = h[p] => v = A[t] - A[p] /\ v >= 0
         /\ h[p] < h[t] =>
              /\ v >= 0
              /\ \A l \in DOMAIN link : link[l] # None /\ link[l] \in Texts /\ h[l] = h[p] =>
                   v <= (A[l] + Lengths[l] - A[p]) + (A[t] - A[link[l]]) + 2
         /\ ~bflag => v = A[t] - A[p]
<1>1. /\ Numbered(link, Texts, o, h) /\ Layout(link, Texts, Lengths, o, A)
      /\ Places(o, A) /\ InStep(h, A) /\ Aimed(h)
  BY DEF Drawn
<1>2. /\ p \in DOMAIN code /\ DOMAIN link = DOMAIN code /\ DOMAIN pc = DOMAIN code
      /\ pc \in Seq(Nat) /\ c \in Nat /\ spass \in BOOLEAN
  BY AtP, Lens DEF TypeOK
<1>3. /\ \A i \in DOMAIN code : /\ pc[i] \in Nat /\ A[i] \in Nat /\ o[i] \in Nat /\ h[i] \in Nat
                                /\ Lengths[i] \in Nat /\ Lengths[i] = Bytes(i)
      /\ \A i \in DOMAIN code : Even(pc[i]) /\ Even(Lengths[i])
  <2>1. A \in [DOMAIN link -> Nat] /\ o \in [DOMAIN link -> Nat] /\ h \in [DOMAIN link -> Nat]
    BY <1>1 DEF Numbered, Layout
  <2>2. \A i \in DOMAIN code : pc[i] \in Nat
    BY <1>2
  <2>3. \A i \in DOMAIN code : A[i] \in Nat /\ o[i] \in Nat /\ h[i] \in Nat
    BY <1>2, <2>1
  <2>4. \A i \in DOMAIN code : Lengths[i] \in Nat /\ Lengths[i] = Bytes(i) /\ Even(Lengths[i])
    BY <1>2, LengthsType
  <2>5. \A i \in DOMAIN code : Even(pc[i])
    BY <1>2 DEF Parity
  <2> QED
    BY <2>2, <2>3, <2>4, <2>5
<1>4. t \in DOMAIN code /\ (h[t] = h[p] \/ t \in Texts)
  BY <1>1, <1>2 DEF Aimed
<1>5. ~Passed(p) /\ c = A[p] /\ \A i \in DOMAIN code : Passed(i) <=> o[i] < o[p]
  BY <1>1 DEF Swept, Places, At
<1>6. CASE Passed(t)
  <2>1. t # p /\ Measured = [pc EXCEPT ![p] = c]
    BY <1>2, <1>5, <1>6 DEF Measured, Passed
  <2>2. v = pc[t] - c
    BY <1>2, <1>4, <2>1 DEF Displacement
  <2>3. pc[t] = A[t] /\ o[t] < o[p]
    BY <1>1, <1>4, <1>5, <1>6 DEF Places
  <2>4. A[t] <= A[p]
    BY <1>1, <1>2, <1>3, <1>4, <2>3 DEF Layout
  <2>5. ~(h[p] < h[t])
    <3>1. h[t] <= h[p]
      BY <1>1, <1>2, <1>3, <1>4, <2>3 DEF Numbered
    <3> QED
      BY <1>2, <1>3, <1>4, <3>1
  <2>6. A[t] \in Nat /\ A[p] \in Nat /\ o[t] \in Nat /\ o[p] \in Nat
    BY <1>2, <1>3, <1>4
  <2>7. v = A[t] - A[p] /\ v \in Int /\ v <= 0
    BY <1>5, <2>2, <2>3, <2>4, <2>6
  <2>8. ~(o[p] <= o[t])
    BY <2>3, <2>6
  <2> QED
    BY <1>4, <2>1, <2>5, <2>7, <2>8
<1>7. CASE ~Passed(t)
  <2>1. v = pc[t] - pc[p] /\ v \in Int /\ (t = p => v = 0)
    <3>1. Measured = pc
      BY <1>2, <1>7 DEF Measured, Passed
    <3> QED
      BY <1>2, <1>3, <1>4, <3>1 DEF Displacement
  <2>2. o[p] <= o[t] /\ ~(o[t] < o[p])
    BY <1>2, <1>3, <1>4, <1>5, <1>7
  <2>3. A[p] <= A[t]
    BY <1>1, <1>2, <1>4, <2>2 DEF Layout
  <2>4. \A i \in DOMAIN code : ~Passed(i) => Awaiting(i)
    BY DEF Awaiting
  <2>5. h[t] = h[p] => v = A[t] - A[p] /\ v >= 0
    <3> SUFFICES ASSUME h[t] = h[p]  PROVE v = A[t] - A[p] /\ v >= 0
      OBVIOUS
    <3>1. pc[t] - pc[p] = A[t] - A[p]
      BY <1>1, <1>2, <1>4, <1>7, <2>4 DEF InStep
    <3> QED
      BY <1>2, <1>3, <1>4, <2>1, <2>3, <3>1
  <2>6. ASSUME h[p] < h[t], NEW l \in DOMAIN link, link[l] # None, link[l] \in Texts, h[l] = h[p]
        PROVE  v >= 0 /\ v <= (A[l] + Lengths[l] - A[p]) + (A[t] - A[link[l]]) + 2
    <3>1. t \in Texts /\ link[l] \in DOMAIN code /\ l \in DOMAIN code
      BY <1>2, <1>3, <1>4, <2>6 DEF Texts
    <3>2. o[p] <= o[l] /\ o[link[l]] <= o[t] /\ h[l] < h[link[l]]
      <4>1. h[p] <= h[l] /\ h[l] < h[t]
        BY <1>2, <1>3, <2>6
      <4> QED
        BY <1>1, <1>2, <1>4, <2>6, <4>1, BeforeTheEnd
    <3>3. ~Passed(l) /\ ~Passed(link[l])
      <4>1. o[link[l]] = o[l] + 1
        BY <1>1, <2>6 DEF Numbered
      <4> QED
        BY <1>2, <1>3, <1>5, <3>1, <3>2, <4>1
    <3>4. pc[l] - pc[p] = A[l] - A[p]
      BY <1>1, <1>2, <2>4, <2>6, <3>1, <3>3 DEF InStep
    <3>5. pc[link[l]] = Align4(pc[l] + Bytes(l))
      BY <1>1, <2>4, <2>6, <3>1, <3>3 DEF InStep
    <3>6. pc[t] - pc[link[l]] = A[t] - A[link[l]]
      BY <1>1, <1>7, <2>6, <3>1, <3>3 DEF InStep
    <3>7. pc[l] + Lengths[l] <= pc[link[l]] /\ pc[link[l]] <= pc[l] + Lengths[l] + 2
      <4>1. pc[l] + Lengths[l] \in Nat /\ Even(pc[l] + Lengths[l])
        BY <1>3, <3>1, EvenSum
      <4>2. pc[link[l]] = Align4(pc[l] + Lengths[l])
        BY <1>3, <3>1, <3>5
      <4> QED
        BY <4>1, <4>2, Pads
    <3>8. A[p] <= A[l] /\ A[link[l]] <= A[t]
      BY <1>1, <1>2, <1>4, <3>1, <3>2 DEF Layout
    <3>9. /\ pc[l] \in Nat /\ pc[p] \in Nat /\ pc[t] \in Nat /\ pc[link[l]] \in Nat /\ Lengths[l] \in Nat
          /\ A[l] \in Nat /\ A[p] \in Nat /\ A[t] \in Nat /\ A[link[l]] \in Nat
      BY <1>2, <1>3, <1>4, <3>1
    <3> QED
      BY <2>1, <3>4, <3>6, <3>7, <3>8, <3>9
  <2>7. h[p] < h[t] => v >= 0
    <3> SUFFICES ASSUME h[p] < h[t]  PROVE v >= 0
      OBVIOUS
    <3>1. PICK l \in DOMAIN link : link[l] # None /\ link[l] \in Texts /\ h[l] = h[p]
      BY <1>1, <1>2, <1>4, EndOfFunction
    <3> QED
      BY <2>6, <3>1
  <2>8. ~bflag => v = A[t] - A[p]
    BY <1>1, <1>2, <1>4, <2>1 DEF Places
  <2> QED
    BY <1>4, <2>1, <2>2, <2>5, <2>6, <2>7, <2>8
<1> QED
  BY <1>6, <1>7

(* Out of a reach by this measure.                                         *)
LEMMA MeasuredBeyond ==
  ASSUME TypeOK, Swept, Parity, p # None, NEW o, NEW h, NEW A, Drawn(o, h, A),
         Awaiting(p), code[p].as \in Conditional \cup Jumps, code[p].as # "TEXT",
         NEW t, t = code[p].cond, NEW v, v = Displacement(p, Measured),
         NEW back \in Nat, NEW ahead \in Nat, ahead > 0, v < -back \/ v >= ahead
  PROVE  /\ t # p /\ t \in DOMAIN link /\ (h[t] = h[p] \/ t \in Texts)
         /\ Beyond(link, Texts, Lengths, o, h, A, p, t, back, ahead - 2)
<1>1. /\ v \in Int /\ t \in DOMAIN code /\ (t = p => v = 0)
      /\ o[t] < o[p] => v = A[t] - A[p] /\ v <= 0
      /\ o[p] <= o[t] /\ h[t] = h[p] => v = A[t] - A[p] /\ v >= 0
      /\ h[p] < h[t] =>
           /\ v >= 0
           /\ \A l \in DOMAIN link : link[l] # None /\ link[l] \in Texts /\ h[l] = h[p] =>
                v <= (A[l] + Lengths[l] - A[p]) + (A[t] - A[link[l]]) + 2
  BY MeasuredIs
<1>2. DOMAIN link = DOMAIN code /\ p \in DOMAIN code
  BY AtP, Lens
<1>3. h[t] = h[p] \/ t \in Texts
  BY <1>2 DEF Drawn, Aimed
<1>4. \A i \in DOMAIN link : A[i] \in Nat /\ Lengths[i] \in Nat
  BY LengthsType DEF Drawn, Layout
<1>5. \A l \in DOMAIN link : link[l] # None => link[l] \in DOMAIN link
  BY DEF Drawn, Numbered
<1>6. o[t] < o[p] => A[t] - A[p] < -back
  BY <1>1
<1>7. o[p] <= o[t] /\ h[t] = h[p] => A[t] - A[p] >= ahead - 2
  BY <1>1
<1>8. ASSUME h[p] < h[t], NEW l \in DOMAIN link, link[l] # None, link[l] \in Texts, h[l] = h[p]
      PROVE  (A[l] + Lengths[l] - A[p]) + (A[t] - A[link[l]]) >= ahead - 2
  <2>1. v <= (A[l] + Lengths[l] - A[p]) + (A[t] - A[link[l]]) + 2 /\ v >= ahead
    BY <1>1, <1>8
  <2>2. A[l] \in Nat /\ Lengths[l] \in Nat /\ A[p] \in Nat /\ A[t] \in Nat /\ A[link[l]] \in Nat
    BY <1>1, <1>2, <1>4, <1>5, <1>8
  <2> QED
    BY <1>1, <2>1, <2>2
<1>9. Beyond(link, Texts, Lengths, o, h, A, p, t, back, ahead - 2)
  BY <1>6, <1>7, <1>8 DEF Beyond
<1> QED
  BY <1>1, <1>2, <1>3, <1>9

(* The pass goes on over p, in a layout that p's new size makes.           *)
LEMMA PlacesOn ==
  ASSUME TypeOK, Swept, p # None, NEW o, NEW h, NEW A, Drawn(o, h, A),
         UNCHANGED <<code, link>>, NEW a, a = p, p' = link[a],
         pc' = [pc EXCEPT ![a] = Placed(a)], c' = Placed(a) + Bytes(a)', Bytes(a)' \in Nat,
         \A i \in DOMAIN code : i # a => Bytes(i)' = Bytes(i) /\ (i \in compr' <=> i \in compr),
         \A i \in DOMAIN code : Passed(i)' <=> Passed(i) \/ i = a,
         NEW g \in Nat, NEW S \in Nat, NEW A2, Layout(link, Texts, Lengths', o, A2),
         Moved(link, o, h, A, A2, a, g, S),
         bflag' = FALSE => bflag = FALSE /\ g = 0 /\ S = 0
  PROVE  Places(o, A2)' /\ InStep(h, A2)'
<1> USE DEF Moved
<1> DEFINE D == DOMAIN code
<1>1. /\ Numbered(link, Texts, o, h) /\ Layout(link, Texts, Lengths, o, A)
      /\ Places(o, A) /\ InStep(h, A)
  BY DEF Drawn
<1>2. /\ a \in D /\ DOMAIN link = D /\ DOMAIN pc = D /\ D \subseteq Nat
      /\ pc \in Seq(Nat) /\ c \in Nat
  BY AtP, Lens
<1>3. \A i \in D : /\ pc[i] \in Nat /\ A[i] \in Nat /\ A2[i] \in Nat /\ o[i] \in Nat /\ h[i] \in Nat
  <2>1. /\ A \in [DOMAIN link -> Nat] /\ A2 \in [DOMAIN link -> Nat]
        /\ o \in [DOMAIN link -> Nat] /\ h \in [DOMAIN link -> Nat]
    BY <1>1 DEF Numbered, Layout
  <2>2. \A i \in D : pc[i] \in Nat
    BY <1>2
  <2> QED
    BY <1>2, <2>1, <2>2
<1>4. /\ ~Passed(a) /\ Placed(a) = A[a]
      /\ \A i \in D : Passed(i) <=> o[i] < o[a]
      /\ \A i \in D : Passed(i) => pc[i] = A[i]
      /\ ~bflag => \A i \in D : pc[i] = A[i]
  BY <1>1, PlacedAt DEF Swept, Places
<1>5. \A i \in D : Passed(i)' <=> o[i] <= o[a]
  <2> TAKE i \in D
  <2>1. o[i] = o[a] => i = a
    BY <1>1, <1>2 DEF Numbered
  <2> QED
    BY <1>2, <1>3, <1>4, <2>1
<1>6. \A i \in D : pc'[i] = IF i = a THEN A[a] ELSE pc[i]
  BY <1>2, <1>4
<1>7. Texts' = Texts /\ \A i \in D : Lengths'[i] = Bytes(i)'
  BY DEF Texts, Lengths
<1>8. \A i \in D : Passed(i)' <=> (p' = None \/ o[i] < o[p'])
  <2>1. CASE link[a] = None
    <3>1. \A i \in D : o[i] <= o[a]
      BY <1>1, <1>2, <2>1 DEF Numbered
    <3> QED
      BY <1>5, <2>1, <3>1
  <2>2. CASE link[a] # None
    <3>1. o[link[a]] = o[a] + 1
      BY <1>1, <1>2, <2>2 DEF Numbered
    <3> QED
      BY <1>2, <1>3, <1>5, <2>2, <3>1
  <2> QED
    BY <2>1, <2>2
<1>9. \A i \in D : Passed(i)' => pc'[i] = A2[i]
  <2> TAKE i \in D
  <2> HAVE Passed(i)'
  <2>1. A2[i] = A[i]
    BY <1>2, <1>3, <1>5
  <2> QED
    BY <1>4, <1>6, <2>1
<1>10. ASSUME link[a] # None
       PROVE  (IF code[link[a]].as = "TEXT" THEN Align4(c') ELSE c') = A2[link[a]]
  <2>1. link[a] \in D /\ A2[link[a]] = Up(Texts, link[a], A2[a] + Lengths'[a])
    <3>1. link[a] \in D
      BY <1>1, <1>2, <1>10 DEF Numbered
    <3>2. \A i \in DOMAIN link : link[i] # None => A2[link[i]] = Up(Texts, link[i], A2[i] + Lengths'[i])
      BY DEF Layout
    <3> QED
      BY <1>2, <1>10, <3>1, <3>2
  <2>2. A2[a] = A[a]
    <3>1. o[a] <= o[a] /\ a \in DOMAIN link /\ A[a] \in Nat
      BY <1>2, <1>3
    <3>2. A2[a] = A[a] + 0
      BY <3>1
    <3> QED
      BY <3>1, <3>2
  <2>3. c' = A2[a] + Lengths'[a]
    BY <1>2, <1>4, <1>7, <2>2
  <2> QED
    BY <2>1, <2>3 DEF Up, Texts
<1>11. ~bflag' => \A i \in D : pc'[i] = A2[i]
  <2> SUFFICES ASSUME ~bflag', NEW i \in D  PROVE pc'[i] = A2[i]
    OBVIOUS
  <2>1. bflag = FALSE /\ g = 0 /\ S = 0
    <3>1. CASE bflag' = FALSE
      BY <3>1
    <3> QED
      BY <3>1
  <2> QED
    BY <1>2, <1>3, <1>4, <1>6, <2>1
<1>12. Places(o, A2)'
  BY <1>8, <1>9, <1>10, <1>11 DEF Places, At
<1>13. \A i \in D : Awaiting(i)' => Awaiting(i) /\ o[a] < o[i] /\ i # a
  <2> SUFFICES ASSUME NEW i \in D, Awaiting(i)'  PROVE Awaiting(i) /\ o[a] < o[i] /\ i # a
    OBVIOUS
  <2>1. ~Passed(i)'
    BY DEF Awaiting
  <2>2. o[a] < o[i] /\ i # a /\ ~Passed(i)
    BY <1>2, <1>3, <1>4, <1>5, <2>1
  <2> QED
    BY <2>2 DEF Awaiting
<1>b. \A i \in D : ~Passed(i)' => o[a] < o[i] /\ ~(o[i] <= o[a]) /\ i # a /\ ~Passed(i)
  <2> SUFFICES ASSUME NEW i \in D, ~Passed(i)'  PROVE o[a] < o[i] /\ ~(o[i] <= o[a]) /\ i # a /\ ~Passed(i)
    OBVIOUS
  <2> QED
    BY <1>2, <1>3, <1>4, <1>5
<1>14. ASSUME NEW i \in D, NEW j \in D, Awaiting(i)', Awaiting(j)', h[i] = h[j]
       PROVE  pc'[j] - pc'[i] = A2[j] - A2[i]
  <2>1. Awaiting(i) /\ Awaiting(j) /\ o[a] < o[i] /\ o[a] < o[j] /\ i # a /\ j # a
    BY <1>13, <1>14
  <2>2. pc[j] - pc[i] = A[j] - A[i]
    BY <1>1, <1>14, <2>1 DEF InStep
  <2>3. \E d \in {g, S} : A2[i] = A[i] + d /\ A2[j] = A[j] + d
    <3>1. ~(o[i] <= o[a]) /\ ~(o[j] <= o[a])
      BY <1>2, <1>3, <2>1
    <3>2. CASE h[i] = h[a]
      <4>1. A2[i] = A[i] + g /\ A2[j] = A[j] + g
        BY <1>2, <1>14, <3>1, <3>2
      <4> QED
        BY <4>1
    <3>3. CASE h[i] # h[a]
      <4>1. A2[i] = A[i] + S /\ A2[j] = A[j] + S
        BY <1>2, <1>14, <3>1, <3>3
      <4> QED
        BY <4>1
    <3> QED
      BY <3>2, <3>3
  <2> QED
    BY <1>3, <1>6, <2>1, <2>2, <2>3
<1>15. ASSUME NEW i \in Texts, NEW j \in Texts, ~Passed(i)', ~Passed(j)'
       PROVE  pc'[j] - pc'[i] = A2[j] - A2[i]
  <2>1. i \in D /\ j \in D
    BY DEF Texts
  <2>2. o[a] < o[i] /\ o[a] < o[j] /\ i # a /\ j # a /\ ~Passed(i) /\ ~Passed(j)
    BY <1>15, <1>b, <2>1
  <2>3. pc[j] - pc[i] = A[j] - A[i]
    BY <1>1, <2>2 DEF InStep
  <2>4. h[a] < h[i] /\ h[a] < h[j]
    BY <1>1, <1>2, <2>1, <2>2 DEF Numbered
  <2>5. A2[i] = A[i] + S /\ A2[j] = A[j] + S
    <3>1. ~(o[i] <= o[a]) /\ ~(o[j] <= o[a])
      BY <1>15, <1>b, <2>1
    <3>2. h[i] # h[a] /\ h[j] # h[a]
      BY <1>2, <1>3, <2>1, <2>4
    <3> QED
      BY <1>2, <2>1, <3>1, <3>2
  <2> QED
    BY <1>3, <1>6, <2>1, <2>2, <2>3, <2>5
<1>16. ASSUME NEW i \in D, Awaiting(i)', link[i] \in Texts
       PROVE  pc'[link[i]] = Align4(pc'[i] + Bytes(i)')
  <2>1. Awaiting(i) /\ o[a] < o[i] /\ i # a
    BY <1>13, <1>16
  <2>2. pc[link[i]] = Align4(pc[i] + Bytes(i))
    BY <1>1, <1>16, <2>1 DEF InStep
  <2>3. link[i] \in D /\ link[i] # a
    <3>1. link[i] \in D /\ link[i] # None
      BY <1>1, <1>2, <1>16 DEF Texts, Numbered
    <3>2. o[link[i]] = o[i] + 1
      BY <1>1, <1>2, <3>1 DEF Numbered
    <3> QED
      BY <1>2, <1>3, <2>1, <3>1, <3>2
  <2> QED
    BY <1>6, <2>1, <2>2, <2>3
<1>17. InStep(h, A2)'
  BY <1>7, <1>14, <1>15, <1>16 DEF InStep
<1> QED
  BY <1>12, <1>17

(* p keeps its form: nothing of the layout changes.                        *)
LEMMA StillDrawn ==
  ASSUME Forms, PassOver \/ Reaching, Followed, ~Overrun, NEW o, NEW h, NEW A, Drawn(o, h, A)
  PROVE  Drawn(o, h, A)'
<1>0. PICK a : a = p
  OBVIOUS
<1>1. /\ ReachInv /\ Shape /\ TypeOK /\ Swept /\ Parity /\ Marked /\ p # None /\ phase = "expand"
  BY DEF Forms, ReachInv, LayoutInv, Shape, PassOver, Reaching, Expanding
<1>2. /\ UNCHANGED <<program, nocompress, code, link, compr, far, spass>> /\ p' = link[a]
      /\ pc' = [pc EXCEPT ![a] = Placed(a)]
      /\ (bflag' <=> bflag)
      /\ seen' = (seen \ {a}) \cup (IF a \in seen THEN {} ELSE {a})
  <2>1. CASE PassOver
    BY <1>0, <2>1 DEF PassOver, Place
  <2>2. CASE Reaching
    BY <1>0, <1>1, <2>2 DEF Reaching, Place, MarksLeft, AnotherPass, TypeOK
  <2> QED
    BY <2>1, <2>2
<1>3. /\ a \in DOMAIN code /\ DOMAIN link = DOMAIN code /\ compr \subseteq DOMAIN code
      /\ code \in Seq(Instr) /\ bflag \in BOOLEAN /\ bflag' \in BOOLEAN
  <2>1. TypeOK'
    BY FormsStep DEF Forms, ReachInv, LayoutInv, Shape, Next
  <2> QED
    BY <1>0, <1>1, <2>1, AtP, Lens DEF TypeOK
<1>4. \A i : Bytes(i)' = Bytes(i) /\ (Shortable(i)' <=> Shortable(i)) /\ ReachOf(i)' = ReachOf(i)
  BY <1>2 DEF Bytes, Size, Shortable, ReachOf
<1>5. c' = Placed(a) + Bytes(a)' /\ Bytes(a)' \in Nat
  BY <1>0, <1>1, OnePlaced
<1>6. \A i \in DOMAIN code : Passed(i)' <=> Passed(i) \/ i = a
  <2>1. ~Passed(a)
    BY <1>0, <1>1 DEF Swept
  <2> QED
    BY <1>2, <2>1 DEF Passed
<1>7. Lengths' = Lengths /\ Texts' = Texts
  BY <1>2, <1>4 DEF Lengths, Texts
<1>8. Numbered(link, Texts, o, h) /\ Layout(link, Texts, Lengths, o, A)
  BY DEF Drawn
<1>9. Moved(link, o, h, A, A, a, 0, 0)
  BY <1>8 DEF Layout, Moved
<1>10. Places(o, A)' /\ InStep(h, A)'
  <2>1. \A i \in DOMAIN code : i # a => Bytes(i)' = Bytes(i) /\ (i \in compr' <=> i \in compr)
    BY <1>2, <1>4
  <2>2. bflag' = FALSE => bflag = FALSE /\ 0 = 0 /\ 0 = 0
    BY <1>2, <1>3
  <2>3. Layout(link, Texts, Lengths', o, A)
    BY <1>7, <1>8
  <2>4. UNCHANGED <<code, link>> /\ p' = link[a] /\ pc' = [pc EXCEPT ![a] = Placed(a)]
    BY <1>2
  <2> QED
    BY <1>0, <1>1, <1>5, <1>6, <1>9, <2>1, <2>2, <2>3, <2>4, PlacesOn
<1>11. Aimed(h)'
  BY <1>2, <1>7 DEF Drawn, Aimed
<1>12. ASSUME a \in compr, ~bflag, code[a].as # "CWORD"
       PROVE  A[code[a].cond] - A[a] \in -ReachOf(a) .. ReachOf(a) - 1
  <2>1. Shortable(a)
    BY <1>1, <1>12 DEF Marked
  <2>2. code[a].as \in Conditional \cup Jumps /\ code[a].as # "TEXT"
    BY <1>12, <2>1, Kinds DEF Shortable, Conditional, Jumps
  <2>3. asmcompressed(a, Measured, FALSE)
    BY <1>0, <1>12 DEF Overrun
  <2>4. Displacement(a, Measured) \in -ReachOf(a) .. ReachOf(a) - 1
    BY <1>12, <2>3, Applies DEF Followed
  <2>5. Awaiting(p)
    BY <1>0, <1>1, <1>12 DEF Awaiting, Swept
  <2>6. Displacement(a, Measured) = A[code[a].cond] - A[a]
    BY <1>0, <1>1, <1>12, <2>2, <2>5, MeasuredIs
  <2> QED
    BY <2>4, <2>6
<1>13. Chosen(o, h, A)'
  <2>1. \A i \in DOMAIN code' : code'[i].as = "CWORD" => i \in compr'
    BY <1>2 DEF Drawn, Chosen
  <2>2. ASSUME ~bflag', NEW i \in compr', Passed(i)', code'[i].as # "CWORD"
        PROVE  A[code'[i].cond] - A[i] \in -ReachOf(i)' .. ReachOf(i)' - 1
    <3>1. i \in compr /\ i \in DOMAIN code /\ ~bflag /\ (Passed(i) \/ i = a) /\ code[i].as # "CWORD"
      BY <1>2, <1>3, <1>6, <2>2
    <3>2. A[code[i].cond] - A[i] \in -ReachOf(i) .. ReachOf(i) - 1
      BY <1>12, <3>1 DEF Drawn, Chosen
    <3> QED
      BY <1>2, <1>4, <3>2
  <2>3. \A i \in DOMAIN code' : Shortable(i)' /\ i \notin compr' =>
            Beyond(link', Texts', Lengths', o, h, A, i, code'[i].cond, ReachOf(i)', ReachOf(i)')
    BY <1>2, <1>4, <1>7 DEF Drawn, Chosen
  <2> QED
    BY <2>1, <2>2, <2>3 DEF Chosen
<1> QED
  BY <1>2, <1>7, <1>8, <1>10, <1>11, <1>13 DEF Drawn

(* p loses its 2-byte form.                                                *)
LEMMA OverrunDrawn ==
  ASSUME Forms, Reaching, Followed, Overrun, NEW o, NEW h, NEW A, Drawn(o, h, A)
  PROVE  \E A2 : Drawn(o, h, A2)'
<1>0. PICK a : a = p
  OBVIOUS
<1>1. /\ ReachInv /\ Shape /\ TypeOK /\ Swept /\ Parity /\ Marked /\ p # None /\ phase = "expand"
  BY DEF Forms, ReachInv, LayoutInv, Shape, Reaching, Expanding
<1>2. /\ UNCHANGED <<program, nocompress, code, link, far, spass>> /\ p' = link[a]
      /\ pc' = [pc EXCEPT ![a] = Placed(a)]
      /\ bflag' = TRUE /\ compr' = compr \ {a} /\ a \in compr
      /\ seen' = (seen \ {a}) \cup (IF a \in seen THEN {} ELSE {a})
  BY <1>0 DEF Reaching, Place, MarksLeft, AnotherPass, Overrun
<1>3. /\ a \in DOMAIN code /\ DOMAIN link = DOMAIN code /\ compr \subseteq DOMAIN code
      /\ code \in Seq(Instr)
  BY <1>0, <1>1, AtP, Lens DEF TypeOK
<1>4. /\ Shortable(a) /\ code[a].as # "CWORD" /\ ~asmcompressed(a, Measured, FALSE)
      /\ far = {} /\ ~nocompress
  BY <1>0, <1>1, <1>2, Applies DEF Overrun, Followed, Marked
<1>5. code[a].as \in Conditional \cup Jumps /\ code[a].as # "TEXT"
  BY <1>4, Kinds DEF Shortable, Conditional, Jumps
<1>6. /\ \A i : (Shortable(i)' <=> Shortable(i)) /\ ReachOf(i)' = ReachOf(i) /\ Size(i)' = Size(i)
      /\ \A i : i # a => Bytes(i)' = Bytes(i) /\ (i \in compr' <=> i \in compr)
      /\ Bytes(a) = 2 /\ Bytes(a)' = 4
  <2>1. \A i : (Shortable(i)' <=> Shortable(i)) /\ ReachOf(i)' = ReachOf(i) /\ Size(i)' = Size(i)
    BY <1>2 DEF Size, Shortable, ReachOf
  <2>2. Size(a) = 4
    BY <1>3, <1>4, <1>5, Sizes
  <2> QED
    BY <1>2, <2>1, <2>2 DEF Bytes
<1>7. c' = Placed(a) + Bytes(a)' /\ Bytes(a)' \in Nat
  BY <1>0, <1>1, OnePlaced
<1>8. \A i \in DOMAIN code : Passed(i)' <=> Passed(i) \/ i = a
  <2>1. ~Passed(a)
    BY <1>0, <1>1 DEF Swept
  <2> QED
    BY <1>2, <2>1 DEF Passed
<1>9. Numbered(link, Texts, o, h) /\ Layout(link, Texts, Lengths, o, A) /\ Texts' = Texts
  BY <1>2 DEF Drawn, Texts
<1>10. /\ Lengths \in [DOMAIN link -> Nat] /\ A \in [DOMAIN link -> Nat]
       /\ \A i \in DOMAIN link : Even(Lengths[i])
  BY <1>1, <1>9, LengthsType DEF Layout
<1>11. Lengths' = [Lengths EXCEPT ![a] = Lengths[a] + 2]
  <2>1. Lengths[a] = 2
    BY <1>3, <1>6 DEF Lengths
  <2>2. Lengths' = [i \in DOMAIN code |-> Bytes(i)']
    BY <1>2 DEF Lengths
  <2>3. DOMAIN Lengths = DOMAIN code /\ \A i \in DOMAIN code : Lengths[i] = Bytes(i)
    BY DEF Lengths
  <2>4. \A i \in DOMAIN code : Bytes(i)' = IF i = a THEN Lengths[a] + 2 ELSE Lengths[i]
    BY <1>6, <2>1, <2>3
  <2>5. Lengths' = [i \in DOMAIN code |-> IF i = a THEN Lengths[a] + 2 ELSE Lengths[i]]
    BY <2>2, <2>4
  <2> HIDE DEF Lengths
  <2> QED
    BY <2>3, <2>5
<1>12. PICK A2 : \E S \in Nat :
         /\ Layout(link, Texts, [Lengths EXCEPT ![a] = Lengths[a] + 2], o, A2)
         /\ Moved(link, o, h, A, A2, a, 2, S)
  <2>1. Even(2) /\ 2 \in Nat /\ a \in DOMAIN link
    BY <1>3 DEF Even
  <2> QED
    BY <1>9, <1>10, <2>1, Grown
<1>13. PICK S \in Nat :
         /\ Layout(link, Texts, [Lengths EXCEPT ![a] = Lengths[a] + 2], o, A2)
         /\ Moved(link, o, h, A, A2, a, 2, S)
  BY <1>12
<1>14. Layout(link, Texts, Lengths', o, A2) /\ A2 \in [DOMAIN link -> Nat]
  <2>1. Layout(link, Texts, Lengths', o, A2)
    BY <1>11, <1>13
  <2> QED
    BY <2>1 DEF Layout
<1>15. Places(o, A2)' /\ InStep(h, A2)'
  <2>1. \A i \in DOMAIN code : i # a => Bytes(i)' = Bytes(i) /\ (i \in compr' <=> i \in compr)
    BY <1>6
  <2>2. bflag' = FALSE => bflag = FALSE /\ 2 = 0 /\ S = 0
    BY <1>2
  <2>3. UNCHANGED <<code, link>> /\ p' = link[a] /\ pc' = [pc EXCEPT ![a] = Placed(a)]
    BY <1>2
  <2> QED
    BY <1>0, <1>1, <1>7, <1>8, <1>13, <1>14, <2>1, <2>2, <2>3, PlacesOn
<1>16. Aimed(h)'
  BY <1>2, <1>9 DEF Drawn, Aimed
<1>17. Aimed(h) /\ Chosen(o, h, A)
  BY DEF Drawn
<1>18. ASSUME NEW i \in DOMAIN code, Shortable(i), i \notin compr'
       PROVE  Beyond(link, Texts, Lengths', o, h, A2, i, code[i].cond, ReachOf(i), ReachOf(i))
  <2>0. ReachOf(i) \in Nat /\ ReachOf(i) > 0
    BY ReachIs
  <2>1. CASE i # a
    <3>1. i \notin compr /\ code[i].as # "CWORD"
      BY <1>2, <1>17, <1>18, <2>1 DEF Chosen
    <3>2. code[i].as \in Conditional \cup Jumps
      BY <1>18, <3>1 DEF Shortable, Conditional, Jumps
    <3>3. code[i].cond \in DOMAIN link /\ (h[code[i].cond] = h[i] \/ code[i].cond \in Texts)
      BY <1>3, <1>17, <3>2 DEF Aimed
    <3>4. Beyond(link, Texts, Lengths, o, h, A, i, code[i].cond, ReachOf(i), ReachOf(i))
      BY <1>17, <1>18, <3>1 DEF Chosen
    <3>5. Beyond(link, Texts, [Lengths EXCEPT ![a] = Lengths[a] + 2], o, h, A2, i, code[i].cond,
                 ReachOf(i), ReachOf(i))
      <4>1. ReachOf(i) \in Int /\ i \in DOMAIN link /\ a \in DOMAIN link /\ 2 \in Nat
        BY <1>3, <2>0
      <4> QED
        BY <1>9, <1>10, <1>13, <1>14, <3>3, <3>4, <4>1, BeyondStays
    <3> QED
      BY <1>11, <3>5
  <2>2. CASE i = a
    <3> DEFINE v == Displacement(p, Measured)
               t == code[p].cond
               r == ReachOf(a)
    <3>1. Awaiting(p)
      BY <1>0, <1>1, <1>2 DEF Awaiting, Swept
    <3>2. v \notin -r .. r - 1
      BY <1>0, <1>4, Applies
    <3>3. v \in Int /\ r \in Nat /\ r > 0
      <4>1. v \in Int
        BY <1>0, <1>1, <1>5, <3>1, MeasuredIs
      <4> QED
        BY <2>0, <2>2, <4>1
    <3>4. v < -r \/ v >= r
      <4> HIDE DEF v, r
      <4> QED
        BY <3>2, <3>3
    <3>5. /\ t # p /\ t \in DOMAIN link /\ (h[t] = h[p] \/ t \in Texts)
          /\ Beyond(link, Texts, Lengths, o, h, A, p, t, r, r - 2)
      <4> HIDE DEF r
      <4> QED
        BY <1>0, <1>1, <1>5, <3>1, <3>3, <3>4, MeasuredBeyond
    <3>6. Beyond(link, Texts, [Lengths EXCEPT ![a] = Lengths[a] + 2], o, h, A2, a, t, r, (r - 2) + 2)
      <4>1. r \in Int /\ r - 2 \in Int /\ a \in DOMAIN link /\ 2 \in Nat
        BY <1>3, <3>3
      <4> HIDE DEF r, t
      <4> QED
        BY <1>0, <1>9, <1>10, <1>13, <1>14, <3>5, <4>1, BeyondGains
    <3>7. (r - 2) + 2 = r
      BY <3>3
    <3>8. Beyond(link, Texts, Lengths', o, h, A2, a, t, r, r)
      BY <1>11, <3>6, <3>7, Zenon
    <3> QED
      BY <1>0, <2>2, <3>8, Zenon
  <2> QED
    BY <2>1, <2>2
<1>19. Chosen(o, h, A2)'
  <2>1. \A i \in DOMAIN code' : code'[i].as = "CWORD" => i \in compr'
    BY <1>2, <1>4, <1>17 DEF Chosen
  <2>2. \A i \in DOMAIN code' : Shortable(i)' /\ i \notin compr' =>
            Beyond(link', Texts', Lengths', o, h, A2, i, code'[i].cond, ReachOf(i)', ReachOf(i)')
    BY <1>2, <1>6, <1>9, <1>18
  <2> QED
    BY <1>2, <2>1, <2>2 DEF Chosen
<1>20. Numbered(link, Texts, o, h)' /\ Layout(link, Texts, Lengths, o, A2)'
  BY <1>2, <1>9, <1>14
<1>21. Drawn(o, h, A2)'
  BY <1>15, <1>16, <1>19, <1>20 DEF Drawn
<1> QED
  BY <1>21

(* What a branch around does to the forms and the marks.                   *)
LEMMA AroundFormsAre ==
  ASSUME Forms, BranchAround, Followed, NEW a, a = p, NEW q, q = Len(code) + 1
  PROVE  /\ DOMAIN code = DOMAIN link /\ a \in DOMAIN code /\ q \notin DOMAIN code /\ q # None
         /\ DOMAIN code' = DOMAIN code \cup {q} /\ DOMAIN link' = DOMAIN code \cup {q}
         /\ \A i \in DOMAIN code : i # a => code'[i] = code[i] /\ link'[i] = link[i] /\ pc'[i] = pc[i]
         /\ code'[a].as \in Conditional /\ code[a].as \in Conditional /\ code'[a].cond = link[a]
         /\ code'[q].as = "JMP" /\ code'[q].cond = code[a].cond
         /\ link'[a] = q /\ link'[q] = link[a] /\ pc'[a] = c /\ p' = q
         /\ bflag' = TRUE /\ far' = {} /\ q \notin compr'
         /\ \A i \in DOMAIN code : i # a => (i \in compr' <=> i \in compr)
         /\ Shortable(a)' => a \in compr'
         /\ Passed(a)' /\ ~Passed(q)' /\ ~Passed(a)
         /\ \A i \in DOMAIN code : i # a => (Passed(i)' <=> Passed(i))
         /\ Texts' = Texts
         /\ \A i \in DOMAIN code : i # a => Bytes(i)' = Bytes(i)
         /\ \E m \in {2, 4} : c' = c + m /\ Bytes(a)' = m /\ Bytes(q)' = 4
         /\ Bytes(a) \in {2, 4}
<1>1. /\ ReachInv /\ Shape /\ TypeOK /\ Swept /\ p # None /\ ~nocompress /\ far = {}
  BY DEF Forms, ReachInv, LayoutInv, Shape, BranchAround, Expanding, Followed
<1>2. /\ bflag' = TRUE /\ far' = {} /\ spass' = spass /\ nocompress' = nocompress
  BY <1>1 DEF BranchAround, AnotherPassAround
<1>3. /\ Len(code) \in Nat /\ a \in 1..Len(code) /\ DOMAIN code = 1..Len(code) /\ DOMAIN link = 1..Len(code)
      /\ compr \subseteq 1..Len(code) /\ seen \subseteq 1..Len(code)
  BY <1>1, AtP, Lens DEF TypeOK
<1>4. /\ code[a].as \in Conditional /\ DOMAIN code' = 1..q /\ DOMAIN link' = 1..q
      /\ \A i \in 1..Len(code) : i # a => code'[i] = code[i]
      /\ code'[a].as = relinv(code[a].as) /\ code'[a].cond = link[a]
      /\ code'[q].as = "JMP" /\ code'[q].cond = code[a].cond
      /\ \A i \in 1..Len(code) : i # a => link'[i] = link[i]
      /\ link'[a] = q /\ link'[q] = link[a]
  BY <1>1, Around
<1>5. /\ \A i \in 1..Len(code) : i # a => pc'[i] = pc[i]
      /\ pc'[a] = c /\ p' = q
  BY <1>1, Around
<1>6. q \notin 1..Len(code) /\ q # a /\ 1..q = (1..Len(code)) \cup {q} /\ q # None
  BY <1>3 DEF None
<1>7. PICK m \in {2, 4} :
        /\ c' = c + m
        /\ m = 2 <=> code[a].as \in {"BEQZ", "BNEZ"}
        /\ compr' = IF m = 2 THEN compr \cup {a} ELSE compr \ {a}
  BY <1>1 DEF BranchAround
<1>8. seen' = ((seen \ {a}) \cup (IF a \in seen THEN {} ELSE {a})) \cup (IF spass THEN {} ELSE {q})
  BY DEF BranchAround
<1>9. Passed(a)' /\ ~Passed(q)' /\ ~Passed(a) /\ \A i \in 1..Len(code) : i # a => (Passed(i)' <=> Passed(i))
  <2>1. ~Passed(a)
    BY <1>1 DEF Swept
  <2>2. q \notin seen
    BY <1>3, <1>6
  <2> QED
    BY <1>2, <1>6, <1>8, <2>1, <2>2 DEF Passed
<1>10. code'[a].as \in Conditional /\ (code'[a].as \in {"BEQZ", "BNEZ"} => code[a].as \in {"BEQZ", "BNEZ"})
  BY <1>4 DEF relinv, Conditional
<1>11. q \notin compr' /\ \A i \in DOMAIN code : i # a => (i \in compr' <=> i \in compr)
  BY <1>3, <1>6, <1>7
<1>12. Shortable(a)' => a \in compr'
  <2>1. Shortable(a)' => code'[a].as \in {"BEQZ", "BNEZ"}
    BY <1>10 DEF Shortable, Conditional
  <2> QED
    BY <1>7, <1>10, <2>1
<1>13. Texts' = Texts
  <2>1. code[a].as # "TEXT" /\ code'[a].as # "TEXT" /\ code'[q].as # "TEXT"
    BY <1>4, <1>10, Kinds
  <2>2. \A i : i \in DOMAIN code' /\ code'[i].as = "TEXT" <=> i \in DOMAIN code /\ code[i].as = "TEXT"
    BY <1>3, <1>4, <1>6, <2>1
  <2> QED
    BY <2>2 DEF Texts
<1>14. ASSUME NEW i \in DOMAIN code, i # a  PROVE Bytes(i)' = Bytes(i)
  <2>1. code'[i] = code[i] /\ far' = far /\ (i \in compr' <=> i \in compr)
    BY <1>1, <1>2, <1>3, <1>4, <1>11, <1>14
  <2>2. Size(i)' = Size(i)
    BY <2>1 DEF Size
  <2> QED
    BY <2>1, <2>2 DEF Bytes
<1>15. Size(a) = 4 /\ Size(a)' = 4 /\ Size(q)' = 4
  <2>1. Size(a) = 4
    BY <1>4, Kinds DEF Size, Conditional
  <2>2. code'[a].as \notin {"TEXT", "WORD8", "WORD12"} \cup Jumps
    BY <1>10 DEF Conditional, Jumps
  <2>3. Size(a)' = 4
    BY <1>10, <2>2 DEF Size
  <2>4. code'[q].as \in Jumps /\ code'[q].as \notin {"TEXT", "WORD8", "WORD12", "CWORD", "WORD4"} \cup Conditional
    BY <1>4 DEF Jumps, Conditional
  <2>5. q \notin far'
    BY <1>2
  <2>6. Size(q)' = 4
    BY <2>4, <2>5 DEF Size
  <2> QED
    BY <2>1, <2>3, <2>6
<1>16. Bytes(a) \in {2, 4} /\ Bytes(a)' = m /\ Bytes(q)' = 4
  BY <1>7, <1>11, <1>15 DEF Bytes
<1> QED
  BY <1>2, <1>3, <1>4, <1>5, <1>6, <1>7, <1>9, <1>10, <1>11, <1>12, <1>13, <1>14, <1>16

(* The pass goes on at the new jump.                                       *)
LEMMA AroundPlaces ==
  ASSUME Forms, BranchAround, Followed, NEW a, a = p, NEW q, q = Len(code) + 1,
         NEW o, NEW h, NEW A, Drawn(o, h, A), NEW o2, NEW h2,
         Joined(link, Texts, o, h, a, q, link', o2, h2),
         NEW g \in Nat, NEW S \in Nat, NEW A1 \in [DOMAIN link -> Nat],
         Moved(link, o, h, A, A1, a, g, S),
         NEW m \in Nat, c' = c + m,
         NEW A2, A2[q] = A1[a] + m, \A i \in DOMAIN link : A2[i] = A1[i]
  PROVE  Places(o2, A2)' /\ InStep(h2, A2)'
<1> DEFINE D == DOMAIN code
<1>1. /\ Numbered(link, Texts, o, h) /\ Layout(link, Texts, Lengths, o, A)
      /\ Places(o, A) /\ InStep(h, A)
  BY DEF Drawn
<1>2. /\ TypeOK /\ Swept /\ p # None
  BY DEF Forms, ReachInv, LayoutInv, Shape, BranchAround, Expanding
<1>3. /\ a \in D /\ DOMAIN link = D /\ DOMAIN pc = D /\ pc \in Seq(Nat) /\ c \in Nat
  BY <1>2, AtP, Lens
<1>4. \A i \in D : /\ pc[i] \in Nat /\ A[i] \in Nat /\ A1[i] \in Nat /\ o[i] \in Nat /\ h[i] \in Nat
  <2>1. A \in [DOMAIN link -> Nat] /\ o \in [DOMAIN link -> Nat] /\ h \in [DOMAIN link -> Nat]
    BY <1>1 DEF Numbered, Layout
  <2>2. \A i \in D : pc[i] \in Nat
    BY <1>3
  <2> QED
    BY <1>3, <2>1, <2>2
<1>5. /\ q \notin D /\ q # None /\ DOMAIN code' = D \cup {q}
      /\ \A i \in D : i # a => code'[i] = code[i] /\ link'[i] = link[i] /\ pc'[i] = pc[i]
      /\ code[a].as \in Conditional /\ code'[q].as = "JMP"
      /\ pc'[a] = c /\ p' = q /\ bflag' = TRUE /\ q \notin compr'
      /\ Passed(a)' /\ ~Passed(q)' /\ ~Passed(a)
      /\ \A i \in D : i # a => (Passed(i)' <=> Passed(i))
      /\ Texts' = Texts
      /\ \A i \in D : i # a => Bytes(i)' = Bytes(i)
      /\ \E n \in {2, 4} : c' = c + n
  BY AroundFormsAre
<1>6. /\ o2[q] = o[a] + 1
      /\ \A i \in D : o2[i] = (IF o[i] <= o[a] THEN o[i] ELSE o[i] + 1) /\ h2[i] = h[i]
  BY <1>3 DEF Joined
<1>7. /\ c = A[a]
      /\ \A i \in D : Passed(i) <=> o[i] < o[a]
      /\ \A i \in D : Passed(i) => pc[i] = A[i]
  <2>1. code[a].as # "TEXT"
    BY <1>5, Kinds
  <2> QED
    BY <1>1, <1>2, <2>1 DEF Places, At
<1>8. \A i \in D : o[i] <= o[a] => A1[i] = A[i]
  BY <1>3, <1>4 DEF Moved
<1>9. \A i \in D : Passed(i)' <=> o[i] <= o[a]
  <2> SUFFICES ASSUME NEW i \in D  PROVE Passed(i)' <=> o[i] <= o[a]
    OBVIOUS
  <2>1. o[i] \in Nat /\ o[a] \in Nat
    BY <1>3, <1>4
  <2>2. CASE i = a
    BY <1>5, <2>1, <2>2
  <2>3. CASE i # a
    <3>1. o[i] # o[a]
      BY <1>1, <1>3, <2>3 DEF Numbered
    <3>2. Passed(i)' <=> o[i] < o[a]
      BY <1>5, <1>7, <2>3
    <3> QED
      BY <2>1, <3>1, <3>2
  <2> QED
    BY <2>2, <2>3
<1>10. Places(o2, A2)'
  <2>1. ASSUME NEW i \in D \cup {q}  PROVE (Passed(i)' <=> o2[i] < o2[q])
    <3>1. CASE i = q
      <4>1. o2[q] \in Nat
        <5>1. o[a] \in Nat
          BY <1>3, <1>4
        <5>2. o2[q] = o[a] + 1
          BY <1>6
        <5> QED
          BY <5>1, <5>2
      <4>2. ~Passed(i)'
        BY <1>5, <3>1 DEF Passed
      <4>3. ~(o2[i] < o2[q])
        BY <3>1, <4>1
      <4> QED
        BY <4>2, <4>3
    <3>2. CASE i \in D
      <4>1. o[i] \in Nat /\ o[a] \in Nat
        BY <1>3, <1>4, <3>2
      <4>2. o2[i] < o2[q] <=> o[i] <= o[a]
        <5>1. o2[i] = (IF o[i] <= o[a] THEN o[i] ELSE o[i] + 1) /\ o2[q] = o[a] + 1
          BY <1>6, <3>2
        <5>2. CASE o[i] <= o[a]
          BY <4>1, <5>1, <5>2
        <5>3. CASE ~(o[i] <= o[a])
          BY <4>1, <5>1, <5>3
        <5> QED
          BY <5>2, <5>3
      <4> QED
        BY <1>9, <3>2, <4>2
    <3> QED
      BY <3>1, <3>2
  <2>2. ASSUME NEW i \in D \cup {q}, Passed(i)'  PROVE pc'[i] = A2[i]
    <3>1. i \in D /\ o[i] <= o[a]
      BY <1>5, <1>9, <2>2
    <3>2. A2[i] = A[i]
      BY <1>3, <1>8, <3>1
    <3>3. CASE i = a
      BY <1>5, <1>7, <3>2, <3>3
    <3>4. CASE i # a
      <4>1. Passed(i)
        BY <1>5, <2>2, <3>1, <3>4
      <4> QED
        BY <1>5, <1>7, <3>1, <3>2, <3>4, <4>1
    <3> QED
      BY <3>3, <3>4
  <2>3. c' = A2[q]
    <3>1. A1[a] = c
      <4>1. o[a] <= o[a]
        BY <1>3, <1>4
      <4> QED
        BY <1>3, <1>7, <1>8, <4>1
    <3> QED
      BY <3>1
  <2>4. At(p, c)' = c'
    BY <1>5 DEF At
  <2> QED
    BY <1>5, <2>1, <2>2, <2>3, <2>4 DEF Places
<1>11. ASSUME NEW i \in D \cup {q}, ~Passed(i)', i # q
       PROVE  i \in D /\ o[a] < o[i] /\ ~(o[i] <= o[a]) /\ i # a /\ ~Passed(i) /\ Awaiting(i)
  <2>1. i \in D /\ ~(o[i] <= o[a]) /\ i # a
    BY <1>5, <1>9, <1>11
  <2>2. ~Passed(i)
    BY <1>5, <1>11, <2>1
  <2>3. o[a] < o[i]
    <3>1. o[a] \in Nat /\ o[i] \in Nat
      BY <1>3, <1>4, <2>1
    <3> QED
      BY <2>1, <3>1
  <2> QED
    BY <2>1, <2>2, <2>3 DEF Awaiting
<1>12. \A i : Awaiting(i)' => ~Passed(i)' /\ i # q
  BY <1>5 DEF Awaiting
<1>13. ASSUME NEW i \in D \cup {q}, NEW j \in D \cup {q}, Awaiting(i)', Awaiting(j)', h2[i] = h2[j]
       PROVE  pc'[j] - pc'[i] = A2[j] - A2[i]
  <2>1. /\ i \in D /\ Awaiting(i) /\ ~(o[i] <= o[a]) /\ i # a
        /\ j \in D /\ Awaiting(j) /\ ~(o[j] <= o[a]) /\ j # a
    BY <1>11, <1>12, <1>13
  <2>2. pc[j] - pc[i] = A[j] - A[i] /\ h[i] = h[j]
    BY <1>1, <1>6, <1>13, <2>1 DEF InStep
  <2>3. \E d \in {g, S} : A1[i] = A[i] + d /\ A1[j] = A[j] + d
    <3>1. CASE h[i] = h[a]
      <4>1. A1[i] = A[i] + g /\ A1[j] = A[j] + g
        BY <1>3, <2>1, <2>2, <3>1 DEF Moved
      <4> QED
        BY <4>1
    <3>2. CASE h[i] # h[a]
      <4>1. A1[i] = A[i] + S /\ A1[j] = A[j] + S
        BY <1>3, <2>1, <2>2, <3>2 DEF Moved
      <4> QED
        BY <4>1
    <3> QED
      BY <3>1, <3>2
  <2>4. A2[i] = A1[i] /\ A2[j] = A1[j] /\ pc'[i] = pc[i] /\ pc'[j] = pc[j]
    BY <1>3, <1>5, <2>1
  <2>5. A[i] \in Nat /\ A[j] \in Nat /\ pc[i] \in Nat /\ pc[j] \in Nat
    BY <1>4, <2>1
  <2> QED
    BY <2>2, <2>3, <2>4, <2>5
<1>14. ASSUME NEW i \in Texts, NEW j \in Texts, ~Passed(i)', ~Passed(j)'
       PROVE  pc'[j] - pc'[i] = A2[j] - A2[i]
  <2>1. i \in D /\ j \in D /\ i # q /\ j # q
    BY <1>5 DEF Texts
  <2>2. /\ o[a] < o[i] /\ ~(o[i] <= o[a]) /\ i # a /\ ~Passed(i)
        /\ o[a] < o[j] /\ ~(o[j] <= o[a]) /\ j # a /\ ~Passed(j)
    BY <1>11, <1>14, <2>1
  <2>3. pc[j] - pc[i] = A[j] - A[i]
    BY <1>1, <2>2 DEF InStep
  <2>4. h[a] < h[i] /\ h[a] < h[j]
    BY <1>1, <1>3, <2>1, <2>2 DEF Numbered
  <2>5. h[i] # h[a] /\ h[j] # h[a]
    <3>1. h[a] \in Nat /\ h[i] \in Nat /\ h[j] \in Nat
      BY <1>3, <1>4, <2>1
    <3> QED
      BY <2>4, <3>1
  <2>6. A1[i] = A[i] + S /\ A1[j] = A[j] + S
    BY <1>3, <2>1, <2>2, <2>5 DEF Moved
  <2>7. A2[i] = A1[i] /\ A2[j] = A1[j] /\ pc'[i] = pc[i] /\ pc'[j] = pc[j]
    BY <1>3, <1>5, <2>1, <2>2
  <2> QED
    BY <1>4, <2>1, <2>3, <2>6, <2>7
<1>15. ASSUME NEW i \in D \cup {q}, Awaiting(i)', link'[i] \in Texts
       PROVE  pc'[link'[i]] = Align4(pc'[i] + Bytes(i)')
  <2>1. i \in D /\ Awaiting(i) /\ i # a
    BY <1>11, <1>12, <1>15
  <2>2. link'[i] = link[i] /\ pc'[i] = pc[i] /\ Bytes(i)' = Bytes(i)
    BY <1>5, <2>1
  <2>3. pc[link[i]] = Align4(pc[i] + Bytes(i))
    BY <1>1, <1>15, <2>1, <2>2 DEF InStep
  <2>4. link[i] \in D /\ link[i] # a
    BY <1>5, <1>15, <2>2, Kinds DEF Texts
  <2>5. pc'[link[i]] = pc[link[i]]
    BY <1>5, <2>4
  <2> QED
    BY <2>2, <2>3, <2>5
<1>16. InStep(h2, A2)'
  BY <1>5, <1>13, <1>14, <1>15 DEF InStep
<1> QED
  BY <1>10, <1>16

(* p becomes a branch around the new jump q: the function's bytes grow by  *)
(* those of the jump and of the 2-byte form it may have had.               *)
LEMMA AroundDrawn ==
  ASSUME Forms, BranchAround, Followed, NEW o, NEW h, NEW A, Drawn(o, h, A)
  PROVE  \E o2, h2, A2 : Drawn(o2, h2, A2)'
<1>0. PICK a : a = p
  OBVIOUS
<1>a. PICK q : q = Len(code) + 1
  OBVIOUS
<1>1. /\ ReachInv /\ Shape /\ TypeOK /\ Swept /\ Parity /\ p # None /\ Targets
  BY DEF Forms, ReachInv, LayoutInv, Shape, BranchAround, Expanding, Followed
<1>2. /\ DOMAIN code = DOMAIN link /\ a \in DOMAIN link /\ q \notin DOMAIN link /\ q # None
      /\ DOMAIN code' = DOMAIN link \cup {q} /\ DOMAIN link' = DOMAIN link \cup {q}
      /\ \A i \in DOMAIN link : i # a => code'[i] = code[i] /\ link'[i] = link[i]
      /\ code'[a].as \in Conditional /\ code[a].as \in Conditional /\ code'[a].cond = link[a]
      /\ code'[q].as = "JMP" /\ code'[q].cond = code[a].cond
      /\ link'[a] = q /\ link'[q] = link[a]
  BY <1>0, <1>a, AroundFormsAre
<1>3. /\ bflag' = TRUE /\ q \notin compr'
      /\ \A i \in DOMAIN link : i # a => (i \in compr' <=> i \in compr)
      /\ Shortable(a)' => a \in compr'
      /\ Texts' = Texts
      /\ \A i \in DOMAIN link : i # a => Bytes(i)' = Bytes(i)
      /\ Bytes(a) \in {2, 4}
  BY <1>0, <1>a, AroundFormsAre
<1>4. PICK m \in {2, 4} : c' = c + m /\ Bytes(a)' = m /\ Bytes(q)' = 4
  BY <1>0, <1>a, AroundFormsAre
<1>5. /\ Numbered(link, Texts, o, h) /\ Layout(link, Texts, Lengths, o, A)
      /\ Aimed(h) /\ Chosen(o, h, A)
  BY DEF Drawn
<1>6. /\ Lengths \in [DOMAIN link -> Nat] /\ Lengths[a] \in {2, 4}
      /\ \A i \in DOMAIN link : Lengths[i] = Bytes(i) /\ Even(Lengths[i])
  BY <1>1, <1>2, <1>3, LengthsType
<1>7. PICK g \in Nat : g = (m + 4) - Lengths[a] /\ Even(g) /\ g - m >= 0
  BY <1>6 DEF Even
<1>8. PICK A1 : \E S \in Nat : /\ Layout(link, Texts, [Lengths EXCEPT ![a] = Lengths[a] + g], o, A1)
                               /\ Moved(link, o, h, A, A1, a, g, S)
  BY <1>2, <1>5, <1>6, <1>7, Grown
<1>9. PICK S \in Nat : Moved(link, o, h, A, A1, a, g, S)
  BY <1>8
<1>10. PICK B : B = [Lengths EXCEPT ![a] = Lengths[a] + g]
  OBVIOUS
<1>11. /\ Layout(link, Texts, B, o, A1) /\ A1 \in [DOMAIN link -> Nat] /\ A \in [DOMAIN link -> Nat]
       /\ B \in [DOMAIN link -> Nat] /\ B[a] = m + 4
       /\ \A i \in DOMAIN link : i # a => B[i] = Lengths[i]
  <2>1. Layout(link, Texts, B, o, A1)
    BY <1>8, <1>10
  <2>2. A1 \in [DOMAIN link -> Nat] /\ A \in [DOMAIN link -> Nat]
    BY <1>5, <2>1 DEF Layout
  <2>3. Lengths[a] + g = m + 4 /\ Lengths[a] + g \in Nat
    BY <1>6, <1>7
  <2>4. B \in [DOMAIN link -> Nat] /\ B[a] = Lengths[a] + g /\ \A i \in DOMAIN link : i # a => B[i] = Lengths[i]
    <3> HIDE DEF Lengths
    <3> QED
      BY <1>2, <1>6, <1>10, <2>3
  <2> QED
    BY <2>1, <2>2, <2>3, <2>4
<1>12. o \in [DOMAIN link -> Nat] /\ h \in [DOMAIN link -> Nat] /\ None \notin DOMAIN link
  BY <1>5 DEF Numbered
<1>13. PICK o2 : o2 = [i \in DOMAIN link' |-> IF i = q THEN o[a] + 1
                                             ELSE IF o[i] <= o[a] THEN o[i] ELSE o[i] + 1]
  OBVIOUS
<1>14. PICK h2 : h2 = [i \in DOMAIN link' |-> IF i = q THEN h[a] ELSE h[i]]
  OBVIOUS
<1>15. PICK A2 : A2 = [i \in DOMAIN link' |-> IF i = q THEN A1[a] + m ELSE A1[i]]
  OBVIOUS
<1>16. Joined(link, Texts, o, h, a, q, link', o2, h2)
  <2>1. q \notin Texts
    BY <1>2 DEF Texts
  <2>2. /\ \A i \in DOMAIN link : o[i] \in Nat /\ h[i] \in Nat /\ o[i] + 1 \in Nat
        /\ o[a] + 1 \in Nat /\ h[a] \in Nat
    BY <1>2, <1>12
  <2>3. o2 \in [DOMAIN link' -> Nat] /\ h2 \in [DOMAIN link' -> Nat]
    BY <1>2, <1>13, <1>14, <2>2
  <2>4. o2[q] = o[a] + 1 /\ h2[q] = h[a]
    BY <1>2, <1>13, <1>14
  <2>5. \A i \in DOMAIN link : /\ o2[i] = IF o[i] <= o[a] THEN o[i] ELSE o[i] + 1
                               /\ h2[i] = h[i]
    BY <1>2, <1>13, <1>14
  <2> QED
    BY <1>2, <2>1, <2>3, <2>4, <2>5 DEF Joined
<1>17. /\ A2 \in [DOMAIN link' -> Nat] /\ A2[q] = A1[a] + m
       /\ \A i \in DOMAIN link : A2[i] = A1[i]
  <2>1. /\ \A i \in DOMAIN link : A1[i] \in Nat
        /\ A1[a] + m \in Nat
    BY <1>2, <1>11
  <2> QED
    BY <1>2, <1>15, <2>1
<1>18. Lengths'[q] = 4 /\ Lengths'[a] = m /\ \A i \in DOMAIN link : i # a => Lengths'[i] = Lengths[i]
  <2>1. \A i \in DOMAIN code' : Lengths'[i] = Bytes(i)'
    BY DEF Lengths
  <2> HIDE DEF Lengths
  <2> QED
    BY <1>2, <1>3, <1>4, <1>6, <2>1
<1>19. Divided(link, link', a, q, m, 4, B, A1, Lengths', A2)
  <2>1. Even(m) /\ m \in Nat /\ 4 \in Nat
    BY DEF Even
  <2>2. \A i \in DOMAIN link : i # a => Lengths'[i] = B[i]
    BY <1>11, <1>18
  <2> QED
    BY <1>11, <1>17, <1>18, <2>1, <2>2 DEF Divided
<1>20. Numbered(link', Texts, o2, h2) /\ Layout(link', Texts, Lengths', o2, A2)
  BY <1>2, <1>5, <1>11, <1>16, <1>19, Inserted, Shared
<1>21. Places(o2, A2)' /\ InStep(h2, A2)'
  <2>1. A1 \in [DOMAIN link -> Nat] /\ m \in Nat /\ c' = c + m
    BY <1>4, <1>11
  <2>2. A2[q] = A1[a] + m /\ \A i \in DOMAIN link : A2[i] = A1[i]
    BY <1>17
  <2> QED
    BY <1>0, <1>a, <1>9, <1>16, <2>1, <2>2, AroundPlaces
<1>22. \A i \in DOMAIN link : h2[i] = h[i]
  BY <1>16 DEF Joined
<1>23. /\ code[a].cond \in DOMAIN link /\ code[a].cond # a
       /\ h[code[a].cond] = h[a] \/ code[a].cond \in Texts
       /\ Beyond(link, Texts, Lengths, o, h, A, a, code[a].cond, BReach - 1, BReach - 2)
  <2> DEFINE v == Displacement(p, Measured)
             t == code[p].cond
  <2>1. /\ Awaiting(p) /\ code[p].as \in Conditional \cup Jumps /\ code[p].as # "TEXT"
    <3>1. code[p].as # "JMP" /\ ~Passed(p)
      BY <1>0, <1>1, <1>2, Kinds DEF Swept
    <3> QED
      BY <1>0, <1>2, <3>1, Kinds DEF Awaiting
  <2>2. v \in Int
    BY <1>1, <2>1, MeasuredIs
  <2>3. BReach - 1 \in Nat /\ BReach \in Nat /\ BReach > 0
    BY LinkSpanAssumption
  <2>4. Magnitude(v) >= BReach
    BY DEF BranchAround
  <2>5. v < -(BReach - 1) \/ v >= BReach
    <3> HIDE DEF v
    <3> QED
      BY <2>2, <2>3, <2>4 DEF Magnitude
  <2>6. /\ t # p /\ t \in DOMAIN link /\ (h[t] = h[p] \/ t \in Texts)
        /\ Beyond(link, Texts, Lengths, o, h, A, p, t, BReach - 1, BReach - 2)
    BY <1>1, <2>1, <2>3, <2>5, MeasuredBeyond
  <2> QED
    BY <1>0, <2>6
<1>24. Aimed(h2)'
  <2>1. ASSUME NEW i \in DOMAIN link, i # a, code'[i].as \in Conditional \cup Jumps
        PROVE  /\ code'[i].cond \in DOMAIN link'
               /\ h2[code'[i].cond] = h2[i] \/ code'[i].cond \in Texts
    <3>1. code'[i] = code[i]
      BY <1>2, <2>1
    <3>2. code[i].cond \in DOMAIN link /\ (h[code[i].cond] = h[i] \/ code[i].cond \in Texts)
      BY <1>2, <1>5, <2>1, <3>1 DEF Aimed
    <3> QED
      BY <1>2, <1>22, <3>1, <3>2
  <2>2. /\ code'[a].cond \in DOMAIN link'
        /\ h2[code'[a].cond] = h2[a] \/ code'[a].cond \in Texts
    <3>1. link[a] # None
      BY <1>1, <1>2 DEF Targets
    <3>2. link[a] \in DOMAIN link /\ (h[link[a]] = h[a] \/ link[a] \in Texts)
      BY <1>2, <1>5, <3>1 DEF Numbered
    <3> QED
      BY <1>2, <1>22, <3>2
  <2>3. /\ code'[q].cond \in DOMAIN link'
        /\ h2[code'[q].cond] = h2[q] \/ code'[q].cond \in Texts
    <3>1. h2[q] = h[a]
      BY <1>16 DEF Joined
    <3> QED
      BY <1>2, <1>22, <1>23, <3>1
  <2>4. \A i \in DOMAIN code' : code'[i].as \in Conditional \cup Jumps =>
          /\ code'[i].cond \in DOMAIN code'
          /\ h2[code'[i].cond] = h2[i] \/ code'[i].cond \in Texts
    BY <1>2, <2>1, <2>2, <2>3
  <2> QED
    BY <1>3, <2>4 DEF Aimed
<1>25. ASSUME NEW i \in DOMAIN link, i # a, Shortable(i)', i \notin compr'
       PROVE  Beyond(link', Texts, Lengths', o2, h2, A2, i, code'[i].cond, ReachOf(i)', ReachOf(i)')
  <2>1. code'[i] = code[i] /\ i \notin compr
    BY <1>2, <1>3, <1>25
  <2>2. Shortable(i) /\ ReachOf(i)' = ReachOf(i)
    BY <1>25, <2>1 DEF Shortable, ReachOf
  <2>3. code[i].as # "CWORD"
    BY <1>2, <1>5, <2>1 DEF Chosen
  <2>4. code[i].as \in Conditional \cup Jumps
    BY <2>2, <2>3 DEF Shortable, Conditional, Jumps
  <2>5. code[i].cond \in DOMAIN link /\ (h[code[i].cond] = h[i] \/ code[i].cond \in Texts)
    BY <1>2, <1>5, <2>4 DEF Aimed
  <2>6. Beyond(link, Texts, Lengths, o, h, A, i, code[i].cond, ReachOf(i), ReachOf(i))
    BY <1>2, <1>5, <2>1, <2>2 DEF Chosen
  <2>7. ReachOf(i) \in Int
    BY ReachIs
  <2>8. Beyond(link, Texts, [Lengths EXCEPT ![a] = Lengths[a] + g], o, h, A1, i, code[i].cond, ReachOf(i), ReachOf(i))
    BY <1>2, <1>5, <1>6, <1>9, <1>11, <2>5, <2>6, <2>7, BeyondStays
  <2>9. Beyond(link, Texts, B, o, h, A1, i, code[i].cond, ReachOf(i), ReachOf(i))
    BY <1>10, <2>8
  <2>10. Beyond(link', Texts, Lengths', o2, h2, A2, i, code[i].cond, ReachOf(i), ReachOf(i))
    BY <1>2, <1>5, <1>11, <1>16, <1>19, <2>5, <2>7, <2>9, BeyondInserted
  <2> QED
    BY <2>1, <2>2, <2>10
<1>26. Beyond(link', Texts, Lengths', o2, h2, A2, q, code'[q].cond, ReachOf(q)', ReachOf(q)')
  <2> DEFINE t == code[a].cond
  <2>1. /\ BReach - 1 \in Int /\ BReach - 2 \in Int /\ (BReach - 2) + g \in Int
        /\ ((BReach - 2) + g) - m \in Int /\ CJReach \in Int
        /\ CJReach <= BReach - 1 /\ CJReach <= ((BReach - 2) + g) - m
    <3>1. CJReach \in Nat /\ BReach \in Nat /\ CJReach + 2 <= BReach
      BY LinkSpanAssumption
    <3> QED
      BY <1>7, <3>1
  <2>2. Beyond(link, Texts, [Lengths EXCEPT ![a] = Lengths[a] + g], o, h, A1, a, t, BReach - 1, (BReach - 2) + g)
    BY <1>2, <1>5, <1>6, <1>9, <1>11, <1>23, <2>1, BeyondGains
  <2>3. Beyond(link, Texts, B, o, h, A1, a, t, BReach - 1, (BReach - 2) + g)
    BY <1>10, <2>2
  <2>4. Beyond(link', Texts, Lengths', o2, h2, A2, q, t, BReach - 1, ((BReach - 2) + g) - m)
    BY <1>2, <1>5, <1>11, <1>16, <1>19, <1>23, <2>1, <2>3, BeyondNew
  <2>5. Lengths' \in [DOMAIN link' -> Nat]
    <3>1. \A i \in DOMAIN link' : Lengths'[i] \in Nat
      BY <1>2, <1>6, <1>18
    <3>2. Lengths' = [i \in DOMAIN link' |-> Lengths'[i]]
      BY <1>2 DEF Lengths
    <3> HIDE DEF Lengths
    <3> QED
      BY <3>1, <3>2
  <2>6. Beyond(link', Texts, Lengths', o2, h2, A2, q, t, CJReach, CJReach)
    <3>1. q \in DOMAIN link' /\ t \in DOMAIN link'
      BY <1>2, <1>23
    <3> QED
      BY <1>17, <1>20, <2>1, <2>4, <2>5, <3>1, BeyondLess
  <2>7. ReachOf(q)' = CJReach
    BY <1>2, Kinds DEF ReachOf
  <2> QED
    BY <1>2, <2>6, <2>7
<1>27. Chosen(o2, h2, A2)'
  <2>1. \A i \in DOMAIN code' : code'[i].as = "CWORD" => i \in compr'
    <3>1. code'[a].as # "CWORD" /\ code'[q].as # "CWORD"
      BY <1>2 DEF Conditional
    <3>2. \A i \in DOMAIN link : i # a /\ code'[i].as = "CWORD" => i \in compr'
      BY <1>2, <1>3, <1>5 DEF Chosen
    <3> QED
      BY <1>2, <3>1, <3>2
  <2>2. \A i \in DOMAIN code' : Shortable(i)' /\ i \notin compr' =>
          Beyond(link', Texts', Lengths', o2, h2, A2, i, code'[i].cond, ReachOf(i)', ReachOf(i)')
    <3> SUFFICES ASSUME NEW i \in DOMAIN code', Shortable(i)', i \notin compr'
                 PROVE  Beyond(link', Texts', Lengths', o2, h2, A2, i, code'[i].cond, ReachOf(i)', ReachOf(i)')
      OBVIOUS
    <3>1. CASE i = q
      BY <1>3, <1>26, <3>1
    <3>2. CASE i # q
      <4>1. i \in DOMAIN link /\ i # a
        BY <1>2, <1>3, <3>2
      <4> QED
        BY <1>3, <1>25, <4>1
    <3> QED
      BY <3>1, <3>2
  <2> QED
    BY <1>3, <2>1, <2>2 DEF Chosen
<1>28. Numbered(link, Texts, o2, h2)' /\ Layout(link, Texts, Lengths, o2, A2)'
  BY <1>3, <1>20
<1>29. Drawn(o2, h2, A2)'
  BY <1>21, <1>24, <1>27, <1>28 DEF Drawn
<1> QED
  BY <1>29

(* What neither moves a pass nor the layout leaves the picture as it is.   *)
LEMMA PictureStays ==
  ASSUME UNCHANGED vars, NEW o, NEW h, NEW A, Drawn(o, h, A)
  PROVE  Drawn(o, h, A)'
<1>1. UNCHANGED <<code, link, pc, compr, seen, far, spass, p, c, bflag>>
  BY DEF vars
<1>2. \A i : /\ Passed(i)' <=> Passed(i)
             /\ Bytes(i)' = Bytes(i)
             /\ Shortable(i)' <=> Shortable(i)
             /\ ReachOf(i)' = ReachOf(i)
  BY <1>1 DEF Passed, Bytes, Size, Shortable, ReachOf
<1>3. Texts' = Texts /\ Lengths' = Lengths
  BY <1>1, <1>2 DEF Texts, Lengths
<1>4. \A i : Awaiting(i)' <=> Awaiting(i)
  BY <1>1, <1>2 DEF Awaiting
<1>5. Places(o, A)'
  <2>1. Places(o, A)
    BY DEF Drawn
  <2>2. At(p, c)' = At(p, c)
    BY <1>1 DEF At
  <2> QED
    BY <1>1, <1>2, <2>1, <2>2 DEF Places
<1>6. InStep(h, A)'
  BY <1>1, <1>2, <1>3, <1>4 DEF Drawn, InStep
<1>7. Aimed(h)'
  BY <1>1, <1>3 DEF Drawn, Aimed
<1>8. Chosen(o, h, A)'
  BY <1>1, <1>2, <1>3 DEF Drawn, Chosen
<1>9. Numbered(link, Texts, o, h)' /\ Layout(link, Texts, Lengths, o, A)'
  BY <1>1, <1>3 DEF Drawn
<1> QED
  BY <1>5, <1>6, <1>7, <1>8, <1>9 DEF Drawn

LEMMA InitPhase == Init => PhaseInv
<1> SUFFICES ASSUME Init  PROVE PhaseInv
  OBVIOUS
<1>1. Forms
  BY InitForms
<1>2. phase = "first" /\ NoPhaseError
  BY DEF Init, NoPhaseError
<1> QED
  BY <1>1, <1>2 DEF PhaseInv

LEMMA ExpandingPhase == PhaseInv /\ (PassOver \/ Reaching \/ JumpFar \/ BranchAround) => PhaseInv'
<1> SUFFICES ASSUME PhaseInv, PassOver \/ Reaching \/ JumpFar \/ BranchAround  PROVE PhaseInv'
  OBVIOUS
<1>1. /\ Forms /\ Forms' /\ TypeOK /\ Marked /\ phase = "expand" /\ p # None /\ NoPhaseError
  BY FormsStep DEF PhaseInv, Forms, ReachInv, LayoutInv, Shape, PassOver, Reaching, JumpFar,
     BranchAround, Expanding, Next
<1>2. UNCHANGED <<program, nocompress, phase, diags>>
  BY DEF PassOver, Reaching, JumpFar, BranchAround
<1>3. NoPhaseError' /\ phase' = "expand"
  BY <1>1, <1>2 DEF NoPhaseError
<1>4. ASSUME Followed'  PROVE \E o, h, A : Drawn(o, h, A)'
  <2>1. far' = {}
    BY <1>4 DEF Followed
  <2>2. far \subseteq far'
    BY DEF PassOver, Reaching, JumpFar, BranchAround
  <2>3. Followed
    BY <1>2, <1>4, <2>1, <2>2 DEF Followed, Functional, Home, EndsWell
  <2>4. PICK o, h, A : Drawn(o, h, A)
    BY <1>1, <2>3 DEF PhaseInv
  <2>5. CASE PassOver
    <3>1. ~Overrun
      <4>1. p \in compr => Shortable(p) /\ code[p].as = "CWORD"
        BY <1>1, <2>1, <2>2, <2>5 DEF Marked, PassOver, Type3, Type4, Shortable, Conditional, Jumps
      <4>2. p \notin far /\ ~nocompress
        BY <2>1, <2>2, <2>3 DEF Followed
      <4>3. p \in compr => asmcompressed(p, Measured, FALSE)
        BY <4>1, <4>2, Applies
      <4> QED
        BY <4>3 DEF Overrun
    <3>2. Drawn(o, h, A)'
      BY <1>1, <2>3, <2>4, <2>5, <3>1, StillDrawn
    <3> QED
      BY <3>2
  <2>6. CASE Reaching /\ ~Overrun
    <3>1. Drawn(o, h, A)'
      BY <1>1, <2>3, <2>4, <2>6, StillDrawn
    <3> QED
      BY <3>1
  <2>7. CASE Reaching /\ Overrun
    BY <1>1, <2>3, <2>4, <2>7, OverrunDrawn
  <2>8. CASE JumpFar
    BY <2>1, <2>8 DEF JumpFar
  <2>9. CASE BranchAround
    BY <1>1, <2>3, <2>4, <2>9, AroundDrawn
  <2> QED
    BY <2>5, <2>6, <2>7, <2>8, <2>9
<1> QED
  BY <1>1, <1>3, <1>4 DEF PhaseInv

LEMMA PhaseStep == PhaseInv /\ [Next]_vars => PhaseInv'
<1> SUFFICES ASSUME PhaseInv, [Next]_vars  PROVE PhaseInv'
  OBVIOUS
<1>1. Forms /\ Forms'
  BY FormsStep DEF PhaseInv
<1>2. CASE FirstPass
  <2>1. phase = "first" /\ phase' = "first" /\ diags' = diags
    BY <1>2 DEF FirstPass
  <2> QED
    BY <1>1, <2>1 DEF PhaseInv, NoPhaseError
<1>3. CASE NextPass
  <2>1. /\ phase \in {"first", "expand"} /\ phase' = "expand"
        /\ UNCHANGED <<program, nocompress, far, diags>>
    BY <1>3 DEF NextPass
  <2>2. NoPhaseError' /\ (Followed' <=> Followed)
    <3>1. NoPhaseError
      BY <2>1 DEF PhaseInv
    <3>2. NoPhaseError'
      BY <2>1, <3>1 DEF NoPhaseError
    <3>3. Followed' <=> Followed
      BY <2>1 DEF Followed, Functional, Home, EndsWell
    <3> QED
      BY <3>2, <3>3
  <2>3. Followed => \E o, h, A : Drawn(o, h, A)'
    BY <1>3, NextPassDrawn
  <2> QED
    BY <1>1, <2>1, <2>2, <2>3 DEF PhaseInv
<1>4. CASE EndAsm \/ Done \/ UNCHANGED vars
  <2>1. /\ UNCHANGED <<program, nocompress, code, link, pc, far, p, c, diags>>
        /\ phase' = phase \/ (phase = "asm" /\ phase' = "done")
    BY <1>4 DEF EndAsm, Done, vars
  <2>2. phase = "expand" => UNCHANGED vars
    BY <1>4 DEF EndAsm, Done
  <2>3. (NoPhaseError' <=> NoPhaseError) /\ (Followed' <=> Followed)
    BY <2>1 DEF NoPhaseError, Followed, Functional, Home, EndsWell
  <2>4. \A i : Emitted(i)' = Emitted(i)
    BY <2>1 DEF Emitted, Size, asmcompressed, Type4, Displacement
  <2>5. Kept /\ phase \in {"asm", "done"} => Kept'
    <3>1. \A i, x : (IF code'[i].as = "TEXT" THEN Align4(x) ELSE x) = At(i, x)
      BY <2>1 DEF At
    <3> SUFFICES ASSUME Kept, phase \in {"asm", "done"}  PROVE Kept'
      OBVIOUS
    <3>2. \A i \in DOMAIN link' : link'[i] # None =>
            pc'[link'[i]] = (IF code'[link'[i]].as = "TEXT" THEN Align4(pc'[i] + Emitted(i)')
                                                           ELSE pc'[i] + Emitted(i)')
      BY <2>1, <2>4, <3>1 DEF Kept
    <3>3. phase' = "asm" => /\ p' = 1 => c' = 0
                            /\ \A i \in DOMAIN link' : p' # None /\ link'[i] = p' => c' = pc'[i] + Emitted(i)'
      BY <2>1, <2>4 DEF Kept
    <3>4. pc'[1] = 0 /\ NoPhaseError'
      BY <2>1, <2>3 DEF Kept
    <3> QED
      BY <3>2, <3>3, <3>4 DEF Kept, At
  <2>6. ASSUME phase' = "expand", Followed'  PROVE \E o, h, A : Drawn(o, h, A)'
    <3>1. phase = "expand" /\ Followed /\ UNCHANGED vars
      BY <2>1, <2>2, <2>3, <2>6
    <3>2. PICK o, h, A : Drawn(o, h, A)
      BY <3>1 DEF PhaseInv
    <3>3. Drawn(o, h, A)'
      BY <3>1, <3>2, PictureStays
    <3> QED
      BY <3>3
  <2>7. phase' \in {"asm", "done"} => phase \in {"asm", "done"}
    BY <2>1
  <2>8. phase' \in {"first", "expand"} => phase \in {"first", "expand"}
    BY <2>1
  <2>9. nocompress' = nocompress
    BY <2>1
  <2> QED
    BY <1>1, <2>3, <2>5, <2>6, <2>7, <2>8, <2>9 DEF PhaseInv
<1> QED
  BY <1>2, <1>3, <1>4, ExpandingPhase, StartAsmPhase, EmitPhase DEF Next

(* asmb, which chooses the 2-byte forms again without looking at span's    *)
(* marks, finds every instruction where span put it: with -c in every      *)
(* program; without, in every program whose branches stay in their         *)
(* functions or go to the beginning of one, that does not end in a         *)
(* conditional branch, and no jump of which had to become an 8-byte one.   *)
THEOREM PhaseHolds == Spec => [](nocompress \/ Followed => NoPhaseError)
<1>1. Init => PhaseInv
  BY InitPhase
<1>2. PhaseInv /\ [Next]_vars => PhaseInv'
  BY PhaseStep
<1>3. PhaseInv => (nocompress \/ Followed => NoPhaseError)
  <2> SUFFICES ASSUME PhaseInv, nocompress \/ Followed  PROVE NoPhaseError
    OBVIOUS
  <2>1. phase \in {"first", "expand", "asm", "done"}
    BY DEF PhaseInv, Forms, ReachInv, LayoutInv, Shape, TypeOK
  <2> QED
    BY <2>1 DEF PhaseInv, Kept
<1> QED
  BY <1>1, <1>2, <1>3, PTL DEF Spec
=============================================================================
