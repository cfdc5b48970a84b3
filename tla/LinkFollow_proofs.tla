-------------------------- MODULE LinkFollow_proofs --------------------------
(***************************************************************************)
(* What xfol calls impossible is: the diagnostics "cant happen 1" and      *)
(* "cant happen 2" are never given and its search never runs off the       *)
(* program, for every program and every bound on the search (IInv).  And   *)
(* the reordered program does what the program did (FInv): each            *)
(* instruction laid out goes on to images of what its original went on to, *)
(* and what is laid out is one chain from firstp.                          *)
(***************************************************************************)
EXTENDS LinkFollow, SequenceTheorems, FiniteSetTheorems, WellFoundedInduction, TLAPS

Node  == [as : Opcodes, cond : Nat, link : Nat, original : Nat]
Frame == [after : {"branch", "copy"}, at : Nat]

TypeOK ==
  /\ text \in Programs
  /\ code \in Seq(Node) /\ Len(text) <= Len(code)
  /\ \A i \in DOMAIN code : code[i].cond <= Len(code) /\ code[i].link <= Len(code)
  /\ foll \subseteq DOMAIN code
  /\ firstp \in 0..Len(code) /\ lastp \in 0..Len(code) /\ p \in 0..Len(code)
  /\ stack \in Seq(Frame) /\ \A k \in DOMAIN stack : stack[k].at \in DOMAIN code
  /\ phase \in {"patch", "follow", "done"}

(* What has a mark and goes on to its successor has one that has a mark,   *)
(* but for the last one laid out.                                          *)
Onward ==
  \A i \in foll : i = lastp \/ code[i].as \in Leaves \/ code[i].link \in foll

(* An inverted copy jumps to what is laid out.                             *)
CopiesBack ==
  \A k \in DOMAIN stack : stack[k].after = "copy" => code[stack[k].at].cond \in foll

IInv ==
  /\ TypeOK
  /\ phase = "patch" => foll = {} /\ stack = <<>> /\ Len(code) = Len(text)
  /\ phase = "follow" => lastp # None /\ firstp # None
  /\ Onward
  /\ CopiesBack
  /\ CantHappen

-----------------------------------------------------------------------------
LEMMA NatLess == IsWellFoundedOn({ss \in Nat \X Nat : ss[1] < ss[2]}, Nat)
  BY NatLessThanWellFounded DEF OpToRel

LEMMA Least ==
  ASSUME NEW S, S # {}, S \subseteq Nat
  PROVE  \E m \in S : \A k \in S : m <= k
<1> DEFINE Less == {ss \in Nat \X Nat : ss[1] < ss[2]}
<1>1. IsWellFoundedOn(Less, Nat)
  BY NatLess
<1> HIDE DEF Less
<1>2. PICK m \in S : \A k \in S : ~(<<k, m>> \in Less)
  BY <1>1, WFMin
<1>3. \A k \in S : ~(k < m)
  <2> TAKE k \in S
  <2>1. ~(<<k, m>> \in Less)
    BY <1>2
  <2>2. <<k, m>> \in Nat \X Nat
    OBVIOUS
  <2> QED
    BY <2>1, <2>2 DEF Less
<1>4. \A k \in S : m <= k
  <2> TAKE k \in S
  <2>1. ~(k < m) /\ k \in Nat /\ m \in Nat
    BY <1>3
  <2> QED
    BY <2>1
<1> QED
  BY <1>4

LEMMA UpTo ==
  ASSUME NEW K \in Nat, NEW S, 0 \in S, \A n \in 1..K : n - 1 \in S => n \in S
  PROVE  0..K \subseteq S
<1> DEFINE Missing == {n \in 0..K : n \notin S}
<1>1. SUFFICES ASSUME Missing # {}  PROVE FALSE
  OBVIOUS
<1>2. Missing \subseteq Nat
  OBVIOUS
<1> HIDE DEF Missing
<1>3. PICK m \in Missing : \A k \in Missing : m <= k
  BY <1>1, <1>2, Least
<1>4. m \in 1..K /\ m \notin S
  BY DEF Missing
<1>5. m - 1 \in S
  BY <1>3, <1>4 DEF Missing
<1> QED
  BY <1>4, <1>5

(* next applied over and over: what Iterated is, from any i, as long as    *)
(* next stays within its domain.                                           *)
LEMMA Iterates ==
  ASSUME NEW D, IsFiniteSet(D), NEW next \in [D -> D], NEW i \in D
  PROVE  /\ Cardinality(D) \in Nat
         /\ DOMAIN Iterated(next, i) = 0..Cardinality(D)
         /\ Iterated(next, i)[0] = i
         /\ \A n \in 1..Cardinality(D) : Iterated(next, i)[n] = next[Iterated(next, i)[n - 1]]
         /\ \A n \in 0..Cardinality(D) : Iterated(next, i)[n] \in D
<1> DEFINE K == Cardinality(D)
           Goes(f, k) == f = [n \in 0..k |-> IF n = 0 THEN i ELSE next[f[n - 1]]]
           Some == {k \in Nat : \E f : Goes(f, k)}
<1>1. K \in Nat
  BY FS_CardinalityType
<1>2. 0 \in Some
  <2>1. Goes([n \in 0..0 |-> i], 0)
    OBVIOUS
  <2> QED
    BY <2>1
<1>3. ASSUME NEW k \in 1..K, k - 1 \in Some  PROVE k \in Some
  <2>1. PICK f : Goes(f, k - 1)
    BY <1>3
  <2> DEFINE g == [n \in 0..k |-> IF n = 0 THEN i ELSE next[f[n - 1]]]
  <2>2. \A n \in 0..k - 1 : f[n] = IF n = 0 THEN i ELSE next[f[n - 1]]
    BY <2>1
  <2>3. \A n \in 0..k - 1 : g[n] = f[n]
    BY <2>2
  <2>4. \A n \in 1..k : g[n - 1] = f[n - 1]
    BY SMTT(30), <2>3
  <2>5. \A n \in 0..k : g[n] = IF n = 0 THEN i ELSE next[g[n - 1]]
    <3> SUFFICES ASSUME NEW n \in 0..k  PROVE g[n] = IF n = 0 THEN i ELSE next[g[n - 1]]
      OBVIOUS
    <3>1. g[n] = IF n = 0 THEN i ELSE next[f[n - 1]]
      OBVIOUS
    <3>2. n # 0 => n \in 1..k
      OBVIOUS
    <3> HIDE DEF g
    <3> QED
      BY <2>4, <3>1, <3>2
  <2> HIDE DEF Goes
  <2>6. Goes(g, k)
    BY <2>5, Zenon DEF Goes
  <2> QED
    BY <1>1, <2>6
<1>4. K \in Some
  <2> HIDE DEF Some, K
  <2> QED
    BY <1>1, <1>2, <1>3, UpTo
<1>5. Goes(Iterated(next, i), K)
  <2>1. DOMAIN next = D
    OBVIOUS
  <2>2. Iterated(next, i) = CHOOSE f : Goes(f, K)
    BY <2>1, Zenon DEF Iterated
  <2>3. \E f : Goes(f, K)
    BY <1>4
  <2> HIDE DEF Goes, K
  <2> QED
    BY <2>2, <2>3, Zenon
<1> DEFINE at == Iterated(next, i)
<1>6. /\ DOMAIN at = 0..K /\ at[0] = i
      /\ \A n \in 1..K : at[n] = next[at[n - 1]]
  <2> HIDE DEF at, K
  <2>1. Goes(at, K)
    BY <1>5 DEF at
  <2> QED
    BY <1>1, <2>1
<1>7. \A n \in 0..K : at[n] \in D
  <2> DEFINE Inside == {n \in 0..K : at[n] \in D}
  <2> HIDE DEF at, K
  <2>1. 0 \in Inside
    BY <1>1, <1>6
  <2>2. ASSUME NEW n \in 1..K, n - 1 \in Inside  PROVE n \in Inside
    BY <1>6, <2>2
  <2> HIDE DEF Inside
  <2>3. 0..K \subseteq Inside
    BY <1>1, <2>1, <2>2, UpTo
  <2> QED
    BY <2>3 DEF Inside
<1> QED
  BY <1>1, <1>6, <1>7

-----------------------------------------------------------------------------
(* What the assumption on the constants says of the program at hand.       *)
LEMMA ProgramShape ==
  ASSUME text \in Programs
  PROVE  /\ Len(text) \in Nat /\ Len(text) >= 1 /\ DOMAIN text = 1..Len(text)
         /\ \A i \in DOMAIN text :
              text[i].as \in Opcodes /\ text[i].cond \in 0..Len(text)
<1>1. IsProgram(text)
  BY LinkFollowAssumption
<1>2. text \in Seq([as : Opcodes \ {"GOK"}, cond : Nat, frame : Nat]) /\ text # <<>>
  BY <1>1 DEF IsProgram
<1>3. Len(text) \in Nat /\ Len(text) >= 1 /\ DOMAIN text = 1..Len(text)
  BY <1>2
<1>4. ASSUME NEW i \in DOMAIN text
      PROVE  text[i].as \in Opcodes /\ text[i].cond \in 0..Len(text)
  <2>1. text[i] \in [as : Opcodes \ {"GOK"}, cond : Nat, frame : Nat]
    <3> DEFINE T == [as : Opcodes \ {"GOK"}, cond : Nat, frame : Nat]
    <3>1. text \in Seq(T) /\ i \in 1..Len(text)
      BY <1>2, <1>3
    <3> HIDE DEF T
    <3>2. text[i] \in T
      BY <3>1, ElementOfSeq
    <3> QED
      BY <3>2 DEF T
  <2>2. text[i].as \in Opcodes
    BY <2>1
  <2> DEFINE later == {j \in i + 1 .. Len(text) : text[j].as = "TEXT"}
  <2>3. CASE text[i].as \in Conditional \cup {"JMP", "JAL"}
    <3>1. text[i].cond \in DOMAIN text
      BY <1>1, <2>3 DEF IsProgram, Conditional
    <3> QED
      BY <1>3, <2>2, <3>1
  <2>4. CASE text[i].as = "TEXT"
    <3>1. text[i].cond = IF later = {} THEN None
                         ELSE CHOOSE j \in later : \A k \in later : j <= k
      BY <1>1, <2>4 DEF IsProgram, Conditional
    <3>2. later \subseteq 1..Len(text)
      BY <1>3
    <3>3. CASE later = {}
      BY <1>3, <2>2, <3>1, <3>3 DEF None
    <3>4. CASE later # {}
      <4>1. later \subseteq Nat
        BY <1>3, <3>2
      <4> HIDE DEF later
      <4>2. \E j \in later : \A k \in later : j <= k
        BY <3>4, <4>1, Least
      <4>3. text[i].cond \in later
        BY <3>1, <3>4, <4>2
      <4>4. text[i].cond \in 1..Len(text)
        BY <3>2, <4>3
      <4> QED
        BY <1>3, <2>2, <4>4
    <3> QED
      BY <3>3, <3>4
  <2>5. CASE text[i].as \notin Conditional \cup {"JMP", "JAL", "TEXT"}
    <3>1. text[i].cond = None
      BY <1>1, <2>5 DEF IsProgram
    <3> QED
      BY <1>3, <2>2, <3>1 DEF None
  <2> QED
    BY <2>3, <2>4, <2>5
<1> QED
  BY <1>3, <1>4

LEMMA Lens ==
  ASSUME TypeOK
  PROVE  /\ code \in Seq(Node) /\ Len(code) \in Nat /\ DOMAIN code = 1..Len(code)
         /\ Len(text) \in Nat /\ Len(text) >= 1 /\ Len(text) <= Len(code)
         /\ foll \subseteq 1..Len(code)
         /\ \A i \in 1..Len(code) : /\ code[i] \in Node /\ code[i].as \in Opcodes
                                    /\ code[i].cond \in 0..Len(code) /\ code[i].link \in 0..Len(code)
<1>1. /\ code \in Seq(Node) /\ Len(text) <= Len(code) /\ foll \subseteq DOMAIN code
      /\ \A i \in DOMAIN code : code[i].cond <= Len(code) /\ code[i].link <= Len(code)
      /\ text \in Programs
  BY DEF TypeOK
<1>2. Len(code) \in Nat /\ DOMAIN code = 1..Len(code)
  BY <1>1, LenProperties
<1>3. Len(text) \in Nat /\ Len(text) >= 1
  BY <1>1, ProgramShape
<1>4. ASSUME NEW i \in 1..Len(code)
      PROVE  /\ code[i] \in Node /\ code[i].as \in Opcodes
             /\ code[i].cond \in 0..Len(code) /\ code[i].link \in 0..Len(code)
  <2>1. code[i] \in Node
    BY <1>1, <1>2, ElementOfSeq
  <2>2. code[i].as \in Opcodes /\ code[i].cond \in Nat /\ code[i].link \in Nat
    BY <2>1 DEF Node
  <2> QED
    BY <1>1, <1>2, <2>1, <2>2
<1> QED
  BY <1>1, <1>2, <1>3, <1>4

(* The program and the null pointer are finitely many places.              *)
LEMMA Places ==
  ASSUME NEW n \in Nat
  PROVE  /\ IsFiniteSet((1..n) \cup {None})
         /\ Cardinality((1..n) \cup {None}) = n + 1
         /\ (1..n) \cup {None} = 0..n
<1>1. (1..n) \cup {None} = 0..n
  BY DEF None
<1>2. IsFiniteSet(0..n) /\ Cardinality(0..n) = n + 1
  BY FS_Interval
<1> QED
  BY <1>1, <1>2

(* The n-th instruction from t along the links.                            *)
LEMMA PieceIs ==
  ASSUME TypeOK, NEW t \in 0..Len(code)
  PROVE  /\ DOMAIN Piece(t) = 0 .. Len(code) + 1
         /\ Piece(t)[0] = t
         /\ \A n \in 0 .. Len(code) + 1 : Piece(t)[n] \in 0..Len(code)
         /\ \A n \in 1 .. Len(code) + 1 :
              Piece(t)[n] = IF Piece(t)[n - 1] \in {None, lastp} THEN Piece(t)[n - 1]
                            ELSE code[Piece(t)[n - 1]].link
<1> DEFINE D == DOMAIN code \cup {None}
           next == [q \in D |-> IF q \in {None, lastp} THEN q ELSE code[q].link]
           at == Iterated(next, t)
           K == Cardinality(D)
<1>1. D = 0..Len(code) /\ IsFiniteSet(D) /\ K = Len(code) + 1 /\ Len(code) \in Nat
  BY Lens, Places
<1>2. next \in [D -> D]
  <2>1. ASSUME NEW q \in D  PROVE (IF q \in {None, lastp} THEN q ELSE code[q].link) \in D
    <3>1. q # None => q \in 1..Len(code)
      BY <1>1 DEF None
    <3>2. q # None => code[q].link \in D
      BY <1>1, <3>1, Lens
    <3> QED
      BY <3>2
  <2> QED
    BY <2>1
<1>3. t \in D
  BY <1>1
<1>4. Piece(t) = at
  BY DEF Piece
<1>5. /\ DOMAIN at = 0..K /\ at[0] = t
      /\ \A n \in 1..K : at[n] = next[at[n - 1]]
      /\ \A n \in 0..K : at[n] \in D
  <2> HIDE DEF D, next, at, K
  <2> QED
    BY SMTT(30), <1>1, <1>2, <1>3, Iterates DEF at, K
<1>6. \A q \in D : next[q] = IF q \in {None, lastp} THEN q ELSE code[q].link
  OBVIOUS
<1> HIDE DEF D, next, at, K
<1>7. ASSUME NEW n \in 1 .. Len(code) + 1
      PROVE  at[n] = IF at[n - 1] \in {None, lastp} THEN at[n - 1] ELSE code[at[n - 1]].link
  <2>1. n - 1 \in 0..K /\ n \in 1..K
    BY <1>1
  <2> QED
    BY <1>5, <1>6, <2>1
<1> QED
  BY <1>1, <1>4, <1>5, <1>7

(* What control gets to through jumps is in the program, if anywhere.      *)
LEMMA brloopIs ==
  ASSUME TypeOK, NEW i \in 0..Len(code)
  PROVE  brloop(i) \in 0..Len(code)
<1> DEFINE D == DOMAIN code \cup {None}
           next == [j \in D |-> IF j # None /\ code[j].as = "JMP" /\ code[j].cond # None
                                 THEN code[j].cond ELSE j]
           end == Iterated(next, i)[Len(code)]
<1>1. /\ D = 0..Len(code) /\ IsFiniteSet(D) /\ Cardinality(D) = Len(code) + 1 /\ Len(code) \in Nat
  BY Lens, Places
<1>2. next \in [D -> D]
  <2>1. ASSUME NEW j \in D, j # None  PROVE code[j].cond \in D
    BY <1>1, <2>1, Lens DEF None
  <2> QED
    BY <2>1
<1>3. end \in D
  <2> HIDE DEF D, next
  <2>1. Len(code) \in 0..Cardinality(D)
    BY <1>1
  <2> QED
    BY <1>1, <1>2, <2>1, Iterates
<1>4. Through(code, i) = IF end # None /\ code[end].as = "JMP" THEN Spin ELSE end
  BY DEF Through
<1>5. brloop(i) \in {None, end}
  <2> HIDE DEF end
  <2> QED
    BY <1>4 DEF brloop
<1> QED
  BY <1>1, <1>3, <1>5 DEF None

-----------------------------------------------------------------------------
LEMMA WithLink ==
  ASSUME NEW r \in Node, NEW l \in Nat
  PROVE  /\ [r EXCEPT !.link = l] \in Node
         /\ [r EXCEPT !.link = l].as = r.as
         /\ [r EXCEPT !.link = l].cond = r.cond
         /\ [r EXCEPT !.link = l].link = l
         /\ [r EXCEPT !.link = l].original = r.original
  BY DEF Node

LEMMA WithCond ==
  ASSUME NEW r \in Node, NEW t \in Nat
  PROVE  /\ [r EXCEPT !.cond = t] \in Node
         /\ [r EXCEPT !.cond = t].as = r.as
         /\ [r EXCEPT !.cond = t].cond = t
         /\ [r EXCEPT !.cond = t].link = r.link
         /\ [r EXCEPT !.cond = t].original = r.original
  BY DEF Node

(* Only the link of i is another one.                                      *)
LEMMA Relinked ==
  ASSUME NEW s \in Seq(Node), NEW i \in 1..Len(s), NEW l \in Nat,
         NEW t, t = [s EXCEPT ![i].link = l]
  PROVE  /\ t \in Seq(Node) /\ Len(t) = Len(s) /\ DOMAIN t = 1..Len(s)
         /\ \A k \in 1..Len(s) : k # i => t[k] = s[k]
         /\ \A k \in 1..Len(s) : t[k].as = s[k].as /\ t[k].cond = s[k].cond
         /\ \A k \in 1..Len(s) : t[k].original = s[k].original
         /\ t[i].link = l
<1> DEFINE d == [s[i] EXCEPT !.link = l]
<1>1. s[i] \in Node
  BY ElementOfSeq
<1>2. /\ d \in Node /\ d.as = s[i].as /\ d.cond = s[i].cond /\ d.link = l
      /\ d.original = s[i].original
  BY <1>1, WithLink
<1>3. t = [s EXCEPT ![i] = d]
  OBVIOUS
<1> HIDE DEF d
<1>4. /\ t \in Seq(Node) /\ Len(t) = Len(s)
      /\ \A k \in 1..Len(s) : t[k] = IF k = i THEN d ELSE s[k]
  BY <1>2, <1>3, ExceptSeq
<1> QED
  BY <1>2, <1>4, LenProperties

LEMMA Retargeted ==
  ASSUME NEW s \in Seq(Node), NEW i \in 1..Len(s), NEW l \in Nat,
         NEW t, t = [s EXCEPT ![i].cond = l]
  PROVE  /\ t \in Seq(Node) /\ Len(t) = Len(s) /\ DOMAIN t = 1..Len(s)
         /\ \A k \in 1..Len(s) : k # i => t[k] = s[k]
         /\ \A k \in 1..Len(s) : t[k].as = s[k].as /\ t[k].link = s[k].link
         /\ \A k \in 1..Len(s) : t[k].original = s[k].original
         /\ t[i].cond = l
<1> DEFINE d == [s[i] EXCEPT !.cond = l]
<1>1. s[i] \in Node
  BY ElementOfSeq
<1>2. /\ d \in Node /\ d.as = s[i].as /\ d.cond = l /\ d.link = s[i].link
      /\ d.original = s[i].original
  BY <1>1, WithCond
<1>3. t = [s EXCEPT ![i] = d]
  OBVIOUS
<1> HIDE DEF d
<1>4. /\ t \in Seq(Node) /\ Len(t) = Len(s)
      /\ \A k \in 1..Len(s) : t[k] = IF k = i THEN d ELSE s[k]
  BY <1>2, <1>3, ExceptSeq
<1> QED
  BY <1>2, <1>4, LenProperties

LEMMA FunctionSeq ==
  ASSUME NEW S, NEW n \in Nat, NEW f \in [1..n -> S]
  PROVE  f \in Seq(S) /\ Len(f) = n /\ DOMAIN f = 1..n
<1>1. f \in Seq(S)
  BY SeqDef
<1>2. Len(f) \in Nat /\ 1..Len(f) = 1..n
  BY <1>1, LenProperties
<1> QED
  BY <1>1, <1>2

-----------------------------------------------------------------------------
LEMMA InitInv == Init => IInv
<1> SUFFICES ASSUME Init  PROVE IInv
  OBVIOUS
<1> DEFINE n == Len(text)
<1>1. /\ n \in Nat /\ n >= 1 /\ DOMAIN text = 1..n /\ text \in Programs
      /\ \A i \in 1..n : text[i].as \in Opcodes /\ text[i].cond \in 0..n
  BY ProgramShape DEF Init
<1>2. code = [i \in 1..n |-> [as |-> text[i].as, cond |-> text[i].cond,
                              link |-> IF i = n THEN None ELSE i + 1, original |-> i]]
  BY <1>1 DEF Init
<1>3. /\ foll = {} /\ firstp = 1 /\ lastp = None /\ stack = <<>> /\ phase = "patch" /\ p = 1
      /\ cant = {}
  BY DEF Init
<1> HIDE DEF n
<1>4. ASSUME NEW i \in 1..n
      PROVE  /\ code[i] \in Node
             /\ code[i].cond <= n /\ code[i].link <= n
  <2>1. (IF i = n THEN None ELSE i + 1) \in 0..n
    BY <1>1 DEF None
  <2>2. /\ code[i] = [as |-> text[i].as, cond |-> text[i].cond,
                      link |-> IF i = n THEN None ELSE i + 1, original |-> i]
        /\ text[i].as \in Opcodes /\ text[i].cond \in Nat /\ text[i].cond <= n
    BY <1>1, <1>2
  <2>3. code[i] \in Node
    BY <2>1, <2>2 DEF Node
  <2> QED
    BY <2>1, <2>2, <2>3
<1>5. code \in Seq(Node) /\ Len(code) = n /\ DOMAIN code = 1..n
  <2>1. code \in [1..n -> Node]
    BY <1>2, <1>4
  <2> QED
    BY <1>1, <2>1, FunctionSeq
<1>6. stack \in Seq(Frame) /\ DOMAIN stack = {}
  BY <1>3
<1>7. TypeOK
  BY <1>1, <1>3, <1>4, <1>5, <1>6 DEF TypeOK, None, n
<1> QED
  BY <1>3, <1>5, <1>6, <1>7 DEF IInv, Onward, CopiesBack, CantHappen, None, n

LEMMA PatchStep == IInv /\ Patch => IInv'
<1> SUFFICES ASSUME IInv, Patch  PROVE IInv'
  OBVIOUS
<1>1. /\ TypeOK /\ phase = "patch" /\ p # None /\ phase' = phase
      /\ foll = {} /\ stack = <<>> /\ Len(code) = Len(text) /\ cant = {}
      /\ UNCHANGED <<text, foll, firstp, lastp, stack, cant>> /\ p' = code[p].link
  BY DEF IInv, Patch, CantHappen
<1>2. /\ p \in 1..Len(code) /\ code \in Seq(Node) /\ DOMAIN code = 1..Len(code)
      /\ \A i \in 1..Len(code) : /\ code[i].cond \in 0..Len(code) /\ code[i].link \in 0..Len(code)
  <2>1. p \in 0..Len(code)
    BY <1>1 DEF TypeOK
  <2> QED
    BY <1>1, <2>1, Lens DEF None
<1>3. PICK t \in 0..Len(code) : code' = code \/ code' = [code EXCEPT ![p].cond = t]
  <2>1. brloop(code[p].cond) \in 0..Len(code)
    BY <1>1, <1>2, brloopIs
  <2>2. code[p].cond \in 0..Len(code)
    BY <1>2
  <2>3. code' = code \/ code' = [code EXCEPT ![p].cond = brloop(code[p].cond)]
    BY DEF Patch
  <2> QED
    BY <2>1, <2>3
<1>4. /\ code' \in Seq(Node) /\ Len(code') = Len(code) /\ DOMAIN code' = 1..Len(code)
      /\ \A i \in 1..Len(code) : code'[i].cond \in 0..Len(code) /\ code'[i].link \in 0..Len(code)
  <2>1. CASE code' = code
    BY <1>2, <2>1
  <2>2. CASE code' = [code EXCEPT ![p].cond = t]
    <3>1. t \in Nat /\ code \in Seq(Node) /\ p \in 1..Len(code)
      BY <1>2
    <3>2. /\ code' \in Seq(Node) /\ Len(code') = Len(code) /\ DOMAIN code' = 1..Len(code)
          /\ \A k \in 1..Len(code) : k # p => code'[k] = code[k]
          /\ \A k \in 1..Len(code) : code'[k].as = code[k].as /\ code'[k].link = code[k].link
          /\ code'[p].cond = t
      BY SMTT(30), <2>2, <3>1, Retargeted
    <3>3. ASSUME NEW i \in 1..Len(code)
          PROVE  code'[i].cond \in 0..Len(code) /\ code'[i].link \in 0..Len(code)
      <4>1. i = p \/ code'[i] = code[i]
        BY <3>2
      <4>2. code'[i].link \in 0..Len(code)
        BY <1>2, <3>2
      <4> QED
        BY <1>2, <3>2, <4>1, <4>2
    <3> QED
      BY <3>2, <3>3
  <2> QED
    BY <1>3, <2>1, <2>2
<1>5. p' \in 0..Len(code')
  BY <1>1, <1>2, <1>4
<1>6. TypeOK'
  BY <1>1, <1>4, <1>5 DEF TypeOK
<1> QED
  BY <1>1, <1>4, <1>6 DEF IInv, Onward, CopiesBack, CantHappen

LEMMA FollowStep == IInv /\ Follow => IInv'
<1> SUFFICES ASSUME IInv, Follow  PROVE IInv'
  OBVIOUS
<1> DEFINE e == [as |-> "GOK", cond |-> None, link |-> None, original |-> None]
<1>1. /\ TypeOK /\ phase = "patch" /\ phase' = "follow"
      /\ foll = {} /\ stack = <<>> /\ cant = {}
      /\ UNCHANGED <<text, foll, stack, cant>>
      /\ code' = Append(code, e) /\ p' = 1
      /\ firstp' = Len(code) + 1 /\ lastp' = Len(code) + 1
  BY DEF IInv, Follow, CantHappen
<1>2. /\ code \in Seq(Node) /\ Len(code) \in Nat /\ Len(code) >= Len(text) /\ Len(text) \in Nat
      /\ \A i \in 1..Len(code) : code[i].cond \in 0..Len(code) /\ code[i].link \in 0..Len(code)
  BY <1>1, Lens
<1>3. e \in Node /\ e.cond = 0 /\ e.link = 0
  BY DEF Node, Opcodes, None
<1> HIDE DEF e
<1>4. /\ code' \in Seq(Node) /\ Len(code') = Len(code) + 1 /\ DOMAIN code' = 1..(Len(code) + 1)
      /\ \A i \in 1..Len(code) : code'[i] = code[i]
      /\ code'[Len(code) + 1] = e
  BY <1>1, <1>2, <1>3
<1>5. \A i \in DOMAIN code' : code'[i].cond <= Len(code') /\ code'[i].link <= Len(code')
  <2> SUFFICES ASSUME NEW i \in 1..(Len(code) + 1)
               PROVE  code'[i].cond <= Len(code) + 1 /\ code'[i].link <= Len(code) + 1
    BY <1>4
  <2>1. CASE i = Len(code) + 1
    BY <1>2, <1>3, <1>4, <2>1
  <2>2. CASE i # Len(code) + 1
    <3>1. i \in 1..Len(code)
      BY <1>2, <2>2
    <3> QED
      BY <1>2, <1>4, <3>1
  <2> QED
    BY <2>1, <2>2
<1>6. TypeOK'
  BY <1>1, <1>2, <1>4, <1>5 DEF TypeOK
<1>7. lastp' # None /\ firstp' # None
  BY <1>1, <1>2 DEF None
<1> QED
  BY <1>1, <1>6, <1>7 DEF IInv, Onward, CopiesBack, CantHappen

-----------------------------------------------------------------------------
(* What the rounds of xfol's loop start from.                              *)
LEMMA AtRound ==
  ASSUME IInv, Following
  PROVE  /\ TypeOK /\ phase = "follow" /\ p \in 1..Len(code) /\ lastp \in 1..Len(code)
         /\ Onward /\ CopiesBack /\ cant = {}
         /\ DirectJump(p) => code[p].as = "JMP" /\ Target = code[p].cond
         /\ Target \in 1..Len(code)
         /\ Marked \subseteq 1..Len(code) /\ foll \subseteq Marked
         /\ \A i \in Marked : i \in foll \/ code[i].as \in Leaves
<1>1. TypeOK /\ phase = "follow" /\ p # None /\ lastp # None /\ Onward /\ CopiesBack /\ cant = {}
  BY DEF IInv, Following, CantHappen
<1>2. p \in 0..Len(code) /\ lastp \in 0..Len(code)
  BY <1>1 DEF TypeOK
<1>3. p \in 1..Len(code) /\ lastp \in 1..Len(code)
  BY <1>1, <1>2, Lens DEF None
<1>4. Target \in 1..Len(code)
  <2>1. code[p].cond \in 0..Len(code)
    BY <1>1, <1>3, Lens
  <2> QED
    BY <1>1, <1>3, <2>1, Lens DEF Target, DirectJump, None
<1>5. Marked \subseteq 1..Len(code) /\ foll \subseteq Marked
  BY <1>1, <1>3, Lens DEF Marked
<1>6. \A i \in Marked : i \in foll \/ code[i].as \in Leaves
  BY DEF Marked, DirectJump, Leaves
<1> QED
  BY <1>1, <1>3, <1>4, <1>5, <1>6 DEF DirectJump, Target

LEMMA ElideStep == IInv /\ Elide => IInv'
<1> SUFFICES ASSUME IInv, Elide  PROVE IInv'
  OBVIOUS
<1>1. /\ TypeOK /\ phase = "follow" /\ Onward /\ CopiesBack /\ cant = {}
      /\ Target \in 1..Len(code) /\ Marked \subseteq 1..Len(code) /\ foll \subseteq Marked
      /\ \A i \in Marked : i \in foll \/ code[i].as \in Leaves
  BY AtRound DEF Elide
<1>2. /\ foll' = Marked /\ p' = Target
      /\ UNCHANGED <<text, code, firstp, lastp, stack, phase, cant>>
  BY DEF Elide
<1>3. TypeOK'
  <2>1. DOMAIN code = 1..Len(code) /\ Len(code) \in Nat
    BY <1>1, Lens
  <2> QED
    BY <1>1, <1>2, <2>1 DEF TypeOK
<1>4. Onward'
  BY <1>1, <1>2 DEF Onward
<1>5. CopiesBack'
  BY <1>1, <1>2 DEF CopiesBack
<1> QED
  BY <1>1, <1>2, <1>3, <1>4, <1>5 DEF IInv, CantHappen

(* The stack with one more call, or one less.                              *)
LEMMA Pushed ==
  ASSUME NEW s \in Seq(Frame), NEW f \in Frame, NEW t, t = <<f>> \o s
  PROVE  /\ t \in Seq(Frame)
         /\ \A k \in DOMAIN t : t[k] = f \/ \E j \in DOMAIN s : t[k] = s[j]
<1>1. <<f>> \in Seq(Frame) /\ Len(<<f>>) = 1 /\ <<f>>[1] = f
  OBVIOUS
<1>2. /\ t \in Seq(Frame) /\ Len(t) = 1 + Len(s)
      /\ \A i \in 1 .. 1 + Len(s) : t[i] = IF i <= 1 THEN <<f>>[i] ELSE s[i - 1]
  BY <1>1, ConcatProperties
<1>3. Len(s) \in Nat /\ DOMAIN s = 1..Len(s) /\ DOMAIN t = 1 .. 1 + Len(s)
  BY <1>2, LenProperties
<1>4. ASSUME NEW k \in DOMAIN t  PROVE t[k] = f \/ \E j \in DOMAIN s : t[k] = s[j]
  <2>1. CASE k = 1
    BY <1>1, <1>2, <1>3, <2>1
  <2>2. CASE k # 1
    <3>1. k - 1 \in DOMAIN s /\ t[k] = s[k - 1]
      BY <1>2, <1>3, <2>2
    <3> QED
      BY <3>1
  <2> QED
    BY <2>1, <2>2
<1> QED
  BY <1>2, <1>4

LEMMA PoppedIs ==
  ASSUME NEW s \in Seq(Frame), s # <<>>
  PROVE  /\ Tail(s) \in Seq(Frame)
         /\ \A k \in DOMAIN Tail(s) : \E j \in DOMAIN s : Tail(s)[k] = s[j]
         /\ 1 \in DOMAIN s /\ Head(s) = s[1]
<1>1. /\ Tail(s) \in Seq(Frame) /\ Len(Tail(s)) = Len(s) - 1
      /\ \A i \in 1 .. Len(Tail(s)) : Tail(s)[i] = s[i + 1]
  BY HeadTailProperties
<1>2. Len(s) \in Nat /\ DOMAIN s = 1..Len(s) /\ DOMAIN Tail(s) = 1 .. Len(s) - 1 /\ Len(s) # 0
  BY <1>1, LenProperties, EmptySeq
<1>3. ASSUME NEW k \in DOMAIN Tail(s)  PROVE \E j \in DOMAIN s : Tail(s)[k] = s[j]
  <2>1. k + 1 \in DOMAIN s /\ Tail(s)[k] = s[k + 1]
    BY <1>1, <1>2
  <2> QED
    BY <2>1
<1> QED
  BY <1>1, <1>2, <1>3

LEMMA LayOutStep == IInv /\ (LayLeaf \/ LayBranch \/ LayNext) => IInv'
<1> SUFFICES ASSUME IInv, LayLeaf \/ LayBranch \/ LayNext  PROVE IInv'
  OBVIOUS
<1>1. LayOut
  BY DEF LayLeaf, LayBranch, LayNext
<1>2. /\ TypeOK /\ phase = "follow" /\ p \in 1..Len(code) /\ lastp \in 1..Len(code)
      /\ Onward /\ CopiesBack /\ cant = {}
  BY <1>1, AtRound DEF LayOut
<1>3. /\ foll' = foll \cup {p} /\ code' = [code EXCEPT ![lastp].link = p] /\ lastp' = p
      /\ UNCHANGED <<text, firstp, phase, cant>>
  BY <1>1 DEF LayOut
<1>4. /\ code \in Seq(Node) /\ Len(code) \in Nat /\ DOMAIN code = 1..Len(code)
      /\ foll \subseteq 1..Len(code) /\ Len(text) <= Len(code)
      /\ \A i \in 1..Len(code) : code[i].cond \in 0..Len(code) /\ code[i].link \in 0..Len(code)
  BY <1>2, Lens
<1>5. /\ code' \in Seq(Node) /\ Len(code') = Len(code) /\ DOMAIN code' = 1..Len(code)
      /\ \A k \in 1..Len(code) : k # lastp => code'[k] = code[k]
      /\ \A k \in 1..Len(code) : code'[k].as = code[k].as /\ code'[k].cond = code[k].cond
      /\ code'[lastp].link = p
  <2>1. p \in Nat /\ lastp \in 1..Len(code) /\ code \in Seq(Node)
    BY <1>2, <1>4
  <2>2. code' = [code EXCEPT ![lastp].link = p]
    BY <1>3
  <2> QED
    BY SMTT(30), <2>1, <2>2, Relinked
<1>6. \A k \in 1..Len(code) : code'[k].cond \in 0..Len(code) /\ code'[k].link \in 0..Len(code)
  <2>1. p \in 0..Len(code)
    BY <1>2
  <2> QED
    BY <1>4, <1>5, <2>1
<1>7. p' \in 0..Len(code)
  <2>1. p' \in {None, code'[p].link}
    BY DEF LayLeaf, LayBranch, LayNext
  <2>2. None \in 0..Len(code)
    BY <1>4 DEF None
  <2> QED
    BY <1>2, <1>6, <2>1, <2>2
<1>8. stack \in Seq(Frame) /\ \A k \in DOMAIN stack : stack[k].at \in 1..Len(code)
  BY <1>2, <1>4 DEF TypeOK
<1>9. /\ stack' \in Seq(Frame)
      /\ \A k \in DOMAIN stack' : \/ stack'[k].at = p /\ stack'[k].after = "branch"
                                  \/ \E j \in DOMAIN stack : stack'[k] = stack[j]
  <2>1. CASE stack' = stack
    BY <1>8, <2>1
  <2>2. CASE LayBranch
    <3> DEFINE f == [after |-> "branch", at |-> p]
    <3>1. f \in Frame /\ f.at = p /\ f.after = "branch"
      BY <1>2 DEF Frame
    <3>2. stack' = <<f>> \o stack
      BY <2>2 DEF LayBranch
    <3> HIDE DEF f
    <3> QED
      BY <1>8, <3>1, <3>2, Pushed
  <2> QED
    BY <2>1, <2>2 DEF LayLeaf, LayNext
<1>10. \A k \in DOMAIN stack' : stack'[k].at \in 1..Len(code)
  BY <1>2, <1>8, <1>9
<1>11. TypeOK'
  <2>1. lastp' \in 0..Len(code) /\ foll' \subseteq 1..Len(code)
    BY <1>2, <1>3, <1>4
  <2>2. /\ text' \in Programs /\ firstp' \in 0..Len(code) /\ Len(text') <= Len(code)
        /\ phase' \in {"patch", "follow", "done"}
    BY <1>2, <1>3 DEF TypeOK
  <2>3. \A k \in 1..Len(code) : code'[k].cond <= Len(code) /\ code'[k].link <= Len(code)
    BY <1>4, <1>6
  <2> QED
    BY <1>5, <1>7, <1>9, <1>10, <2>1, <2>2, <2>3 DEF TypeOK
<1>12. Onward'
  <2> SUFFICES ASSUME NEW i \in foll \cup {p}, i # p
               PROVE  code'[i].as \in Leaves \/ code'[i].link \in foll \cup {p}
    BY <1>3 DEF Onward
  <2>1. i \in foll /\ i \in 1..Len(code)
    BY <1>4
  <2>2. CASE i = lastp
    BY <1>5, <2>2
  <2>3. CASE i # lastp
    BY <1>2, <1>5, <2>1, <2>3 DEF Onward
  <2> QED
    BY <2>2, <2>3
<1>13. CopiesBack'
  <2> SUFFICES ASSUME NEW k \in DOMAIN stack', stack'[k].after = "copy"
               PROVE  code'[stack'[k].at].cond \in foll'
    BY DEF CopiesBack
  <2>1. PICK j \in DOMAIN stack : stack'[k] = stack[j]
    BY <1>9
  <2>2. code[stack[j].at].cond \in foll /\ stack[j].at \in 1..Len(code)
    BY <1>2, <1>8, <2>1 DEF CopiesBack
  <2> QED
    BY <1>3, <1>5, <2>1, <2>2
<1>14. lastp' # None /\ firstp' # None /\ phase' = "follow" /\ cant' = {}
  BY <1>2, <1>3 DEF None, IInv
<1> QED
  BY <1>11, <1>12, <1>13, <1>14 DEF IInv, CantHappen

LEMMA ReturnStep == IInv /\ (ReturnToBranch \/ ReturnToCopy) => IInv'
<1> SUFFICES ASSUME IInv, ReturnToBranch \/ ReturnToCopy  PROVE IInv'
  OBVIOUS
<1>1. /\ TypeOK /\ Onward /\ CopiesBack /\ CantHappen
      /\ phase = "follow" /\ stack # <<>> /\ stack' = Tail(stack) /\ lastp # None /\ firstp # None
      /\ UNCHANGED <<text, code, foll, firstp, lastp, phase>>
  BY DEF IInv, ReturnToBranch, ReturnToCopy, Popped
<1>2. /\ stack \in Seq(Frame) /\ \A k \in DOMAIN stack : stack[k].at \in DOMAIN code
      /\ DOMAIN code = 1..Len(code) /\ Len(code) \in Nat
      /\ \A i \in 1..Len(code) : code[i].cond \in 0..Len(code)
  BY <1>1, Lens DEF TypeOK
<1>3. /\ stack' \in Seq(Frame) /\ 1 \in DOMAIN stack /\ Head(stack) = stack[1]
      /\ \A k \in DOMAIN stack' : \E j \in DOMAIN stack : stack'[k] = stack[j]
  BY <1>1, <1>2, PoppedIs
<1>4. p' \in 0..Len(code)
  <2>1. CASE ReturnToBranch
    <3>1. p' \in {None, code[Head(stack).at].cond}
      BY <2>1 DEF ReturnToBranch
    <3>2. None \in 0..Len(code)
      BY <1>2 DEF None
    <3> QED
      BY <1>2, <1>3, <3>1, <3>2
  <2>2. CASE ReturnToCopy
    BY <1>1, <2>2 DEF ReturnToCopy, TypeOK
  <2> QED
    BY <2>1, <2>2
<1>5. TypeOK'
  BY <1>1, <1>2, <1>3, <1>4 DEF TypeOK
<1>6. Onward'
  BY <1>1 DEF Onward
<1>7. CopiesBack'
  BY <1>1, <1>3 DEF CopiesBack
<1>8. CantHappen'
  <2>1. CASE ReturnToBranch
    BY <1>1, <2>1 DEF ReturnToBranch, CantHappen
  <2>2. CASE ReturnToCopy
    <3>1. code[Head(stack).at].cond \in foll
      BY <1>1, <1>3, <2>2 DEF ReturnToCopy, CopiesBack
    <3> QED
      BY <1>1, <2>2, <3>1 DEF ReturnToCopy, Impossible, CantHappen
  <2> QED
    BY <2>1, <2>2
<1> QED
  BY <1>1, <1>5, <1>6, <1>7, <1>8 DEF IInv


LEMMA EndStep == IInv /\ EndFollow => IInv'
<1> SUFFICES ASSUME IInv, EndFollow  PROVE IInv'
  OBVIOUS
<1>1. /\ TypeOK /\ Onward /\ CopiesBack /\ CantHappen /\ phase = "follow"
      /\ lastp # None /\ firstp # None /\ stack = <<>>
      /\ phase' = "done" /\ firstp' = code[firstp].link
      /\ code' = [code EXCEPT ![lastp].link = None]
      /\ UNCHANGED <<text, foll, lastp, p, stack, cant>>
  BY DEF IInv, EndFollow
<1>2. /\ code \in Seq(Node) /\ Len(code) \in Nat /\ DOMAIN code = 1..Len(code)
      /\ foll \subseteq 1..Len(code) /\ Len(text) <= Len(code)
      /\ \A i \in 1..Len(code) : code[i].cond \in 0..Len(code) /\ code[i].link \in 0..Len(code)
  BY <1>1, Lens
<1>3. lastp \in 1..Len(code) /\ firstp \in 1..Len(code)
  <2>1. lastp \in 0..Len(code) /\ firstp \in 0..Len(code)
    BY <1>1 DEF TypeOK
  <2> QED
    BY <1>1, <1>2, <2>1 DEF None
<1>4. /\ code' \in Seq(Node) /\ Len(code') = Len(code) /\ DOMAIN code' = 1..Len(code)
      /\ \A k \in 1..Len(code) : k # lastp => code'[k] = code[k]
      /\ \A k \in 1..Len(code) : code'[k].as = code[k].as /\ code'[k].cond = code[k].cond
      /\ code'[lastp].link = None
  <2>1. None \in Nat /\ lastp \in 1..Len(code) /\ code \in Seq(Node)
    BY <1>2, <1>3 DEF None
  <2>2. code' = [code EXCEPT ![lastp].link = None]
    BY <1>1
  <2> HIDE DEF None
  <2> QED
    BY <2>1, <2>2, Relinked
<1>5. \A k \in 1..Len(code) : code'[k].cond \in 0..Len(code) /\ code'[k].link \in 0..Len(code)
  <2>1. None \in 0..Len(code)
    BY <1>2 DEF None
  <2> QED
    BY <1>2, <1>4, <2>1
<1>6. TypeOK'
  <2>1. \A k \in 1..Len(code) : code'[k].cond <= Len(code) /\ code'[k].link <= Len(code)
    BY <1>2, <1>5
  <2>2. firstp' \in 0..Len(code)
    BY <1>1, <1>2, <1>3
  <2>3. /\ text' \in Programs /\ lastp' \in 0..Len(code) /\ p' \in 0..Len(code)
        /\ stack' \in Seq(Frame) /\ \A k \in DOMAIN stack' : stack'[k].at \in 1..Len(code)
    BY <1>1, <1>2 DEF TypeOK
  <2> QED
    BY <1>1, <1>2, <1>4, <2>1, <2>2, <2>3 DEF TypeOK
<1>7. Onward'
  <2> SUFFICES ASSUME NEW i \in foll, i # lastp
               PROVE  code'[i].as \in Leaves \/ code'[i].link \in foll
    BY <1>1 DEF Onward
  <2> QED
    BY <1>1, <1>2, <1>4 DEF Onward
<1>8. CopiesBack'
  BY <1>1 DEF CopiesBack
<1> QED
  BY <1>1, <1>6, <1>7, <1>8 DEF IInv, CantHappen

-----------------------------------------------------------------------------
(* From a mark the search only meets marks, up to the end of the piece:    *)
(* the links it follows are those of instructions laid out before.         *)
LEMMA PieceMarked ==
  ASSUME IInv, AtMarked, NEW n \in DOMAIN Piece(Target), Searched(Piece(Target), n),
         \A j \in 0 .. n - 1 : ~Ends(Piece(Target)[j])
  PROVE  \A j \in 0..n : Piece(Target)[j] \in Marked
<1> DEFINE at == Piece(Target)
           S == {j \in 0..n : at[j] \in Marked}
<1>1. /\ TypeOK /\ Onward /\ Target \in 1..Len(code) /\ Target \in Marked
      /\ Marked \subseteq 1..Len(code) /\ foll \subseteq Marked
      /\ \A i \in Marked : i \in foll \/ code[i].as \in Leaves
  BY AtRound DEF AtMarked
<1>2. Len(code) \in Nat /\ Target \in 0..Len(code)
  BY <1>1, Lens
<1>3. /\ DOMAIN at = 0 .. Len(code) + 1 /\ at[0] = Target
      /\ \A j \in 1 .. Len(code) + 1 :
           at[j] = IF at[j - 1] \in {None, lastp} THEN at[j - 1] ELSE code[at[j - 1]].link
  BY <1>1, <1>2, PieceIs
<1>4. /\ \A j \in 0..n : at[j] # lastp
      /\ \A j \in 0 .. n - 1 : code[at[j]].as \notin Leaves
  BY DEF Searched, Ends
<1>5. n \in Nat /\ n <= Len(code) + 1
  BY <1>2, <1>3
<1> HIDE DEF at
<1>6. 0 \in S
  BY <1>1, <1>3, <1>5
<1>7. ASSUME NEW j \in 1..n, j - 1 \in S  PROVE j \in S
  <2>1. j - 1 \in 0 .. n - 1 /\ j - 1 \in 0..n /\ j \in 1 .. Len(code) + 1 /\ j \in 0..n
    BY <1>2, <1>5
  <2>2. at[j - 1] \in Marked /\ at[j - 1] # lastp /\ code[at[j - 1]].as \notin Leaves
    BY <1>4, <1>7, <2>1
  <2>3. at[j - 1] \in foll /\ at[j - 1] # None
    <3>1. at[j - 1] \in foll
      BY <1>1, <2>2
    <3>2. at[j - 1] \in 1..Len(code)
      BY <1>1, <2>2
    <3> QED
      BY <1>2, <3>1, <3>2 DEF None
  <2>4. code[at[j - 1]].link \in foll
    BY <1>1, <2>2, <2>3 DEF Onward
  <2>5. at[j] = code[at[j - 1]].link
    BY <1>3, <2>1, <2>2, <2>3
  <2> QED
    BY <1>1, <2>1, <2>4, <2>5
<1>8. 0..n \subseteq S
  <2> HIDE DEF S
  <2> QED
    BY <1>5, <1>6, <1>7, UpTo
<1> QED
  BY <1>8 DEF at

(* What the three ways to go back to an instruction laid out before have   *)
(* in common: new instructions, linked up behind lastp.                    *)
LEMMA Extended ==
  ASSUME IInv, AtMarked, NEW r \in Nat, r >= Len(code) + 1,
         code' \in Seq(Node), Len(code') = r,
         \A k \in 1..Len(code) : k # lastp => code'[k] = code[k],
         \A k \in 1..Len(code) : code'[k].as = code[k].as /\ code'[k].cond = code[k].cond,
         code'[lastp].link = Len(code) + 1,
         \A k \in Len(code) + 1 .. r - 1 : code'[k].link = k + 1,
         \A k \in Len(code) + 1 .. r : code'[k].cond \in 0..r /\ code'[k].link \in 0..r,
         lastp' = r, foll' = Marked \cup (Len(code) + 1 .. r),
         p' \in 0..r, stack' \in Seq(Frame), \A k \in DOMAIN stack' : stack'[k].at \in 1..r,
         UNCHANGED <<text, firstp, phase>>
  PROVE  TypeOK' /\ Onward' /\ phase' = "follow" /\ lastp' # None /\ firstp' # None
<1>1. /\ TypeOK /\ phase = "follow" /\ lastp \in 1..Len(code) /\ Onward
      /\ Marked \subseteq 1..Len(code) /\ foll \subseteq Marked
      /\ \A i \in Marked : i \in foll \/ code[i].as \in Leaves
  BY AtRound DEF AtMarked
<1>2. /\ Len(code) \in Nat /\ Len(text) \in Nat /\ Len(text) <= Len(code)
      /\ \A i \in 1..Len(code) : code[i].cond \in 0..Len(code) /\ code[i].link \in 0..Len(code)
  BY <1>1, Lens
<1>3. DOMAIN code' = 1..r
  BY LenProperties
<1>4. \A k \in 1..r : code'[k].cond <= r /\ code'[k].link <= r
  <2> SUFFICES ASSUME NEW k \in 1..r  PROVE code'[k].cond <= r /\ code'[k].link <= r
    OBVIOUS
  <2>1. CASE k \in Len(code) + 1 .. r
    <3>1. code'[k].cond \in 0..r /\ code'[k].link \in 0..r
      BY <2>1
    <3> QED
      BY <3>1
  <2>2. CASE k \notin Len(code) + 1 .. r
    <3>1. k \in 1..Len(code)
      BY <1>2, <2>2
    <3>2. /\ code'[k].cond = code[k].cond
          /\ code'[k].link = code[k].link \/ code'[k].link = Len(code) + 1
      BY <3>1
    <3>3. code[k].cond \in 0..Len(code) /\ code[k].link \in 0..Len(code)
      BY <1>2, <3>1
    <3> QED
      BY <1>2, <3>2, <3>3
  <2> QED
    BY <2>1, <2>2
<1>5. lastp' \in 1..r /\ foll' \subseteq 1..r /\ Len(text) <= r
  <2>1. Len(text) <= r /\ r \in 1..r
    BY <1>2
  <2>2. \A i \in 1..Len(code) : i \in 1..r
    BY <1>2
  <2>3. \A i \in Len(code) + 1 .. r : i \in 1..r
    BY <1>2
  <2>4. foll' \subseteq 1..r
    BY <1>1, <2>2, <2>3
  <2> QED
    BY <2>1, <2>4
<1>6. TypeOK'
  <2>1. text' \in Programs /\ firstp' \in 0..r /\ Len(text') <= r
    <3>1. text \in Programs /\ firstp \in 0..Len(code)
      BY <1>1 DEF TypeOK
    <3> QED
      BY <1>2, <1>5, <3>1
  <2>2. lastp' \in 0..r /\ phase' \in {"patch", "follow", "done"}
    BY <1>1, <1>5
  <2> QED
    BY <1>3, <1>4, <1>5, <2>1, <2>2 DEF TypeOK
<1>7. Onward'
  <2> SUFFICES ASSUME NEW i \in foll', i # r
               PROVE  code'[i].as \in Leaves \/ code'[i].link \in foll'
    BY DEF Onward
  <2>1. CASE i \in Len(code) + 1 .. r
    <3>1. i \in Len(code) + 1 .. r - 1 /\ i + 1 \in Len(code) + 1 .. r
      BY <1>2, <2>1
    <3> QED
      BY <3>1
  <2>2. CASE i \in Marked
    <3>1. i \in 1..Len(code)
      BY <1>1, <2>2
    <3>2. CASE code[i].as \in Leaves
      BY <3>1, <3>2
    <3>3. CASE i = lastp
      <4>1. Len(code) + 1 \in Len(code) + 1 .. r
        BY <1>2
      <4> QED
        BY <3>3, <4>1
    <3>4. CASE i # lastp /\ code[i].as \notin Leaves
      <4>1. i \in foll /\ code[i].link \in foll
        BY <1>1, <2>2, <3>4 DEF Onward
      <4>2. code'[i] = code[i]
        BY <3>1, <3>4
      <4> QED
        BY <1>1, <4>1, <4>2
    <3> QED
      BY <3>2, <3>3, <3>4
  <2> QED
    BY <2>1, <2>2
<1>8. lastp' # None /\ firstp' # None
  <2>1. firstp # None
    BY <1>1 DEF IInv
  <2> QED
    BY <1>2, <2>1 DEF None
<1> QED
  BY <1>1, <1>6, <1>7, <1>8

LEMMA JumpBackStep == IInv /\ JumpBack => IInv'
<1> SUFFICES ASSUME IInv, JumpBack  PROVE IInv'
  OBVIOUS
<1> DEFINE e == [as |-> "JMP", cond |-> Target, link |-> None, original |-> None]
           s == [code EXCEPT ![lastp].link = Len(code) + 1]
           r == Len(code) + 1
<1>1. /\ AtMarked
      /\ cant' = Impossible(~RunsOff(Piece(Target)), "null")
      /\ code' = Append(s, e) /\ lastp' = r /\ foll' = MarkedJump /\ p' = None
      /\ UNCHANGED <<text, firstp, stack, phase>>
  BY DEF JumpBack
<1>2. /\ TypeOK /\ CopiesBack /\ cant = {} /\ lastp \in 1..Len(code)
      /\ Target \in 1..Len(code) /\ Marked \subseteq 1..Len(code) /\ foll \subseteq Marked
  BY <1>1, AtRound DEF AtMarked
<1>3. /\ code \in Seq(Node) /\ Len(code) \in Nat /\ DOMAIN code = 1..Len(code)
  BY <1>2, Lens
<1>4. r \in Nat
  BY <1>3
<1>5. /\ s \in Seq(Node) /\ Len(s) = Len(code)
      /\ \A k \in 1..Len(code) : k # lastp => s[k] = code[k]
      /\ \A k \in 1..Len(code) : s[k].as = code[k].as /\ s[k].cond = code[k].cond
      /\ s[lastp].link = r
  <2> HIDE DEF r
  <2>1. s = [code EXCEPT ![lastp].link = r]
    BY DEF r
  <2>2. code \in Seq(Node) /\ lastp \in 1..Len(code) /\ r \in Nat
    BY <1>2, <1>3, <1>4
  <2> HIDE DEF s, e
  <2> QED
    BY <2>1, <2>2, Relinked
<1>6. e \in Node /\ e.cond \in 0..r /\ e.link \in 0..r
  <2>1. Target \in Nat /\ Target \in 0..r /\ None \in Nat /\ None \in 0..r /\ "JMP" \in Opcodes
    BY <1>2, <1>3 DEF None, Opcodes, Leaves
  <2> HIDE DEF None, Target
  <2> QED
    BY <2>1 DEF Node
<1> HIDE DEF e, s
<1>7. /\ code' \in Seq(Node) /\ Len(code') = r
      /\ \A k \in 1..Len(code) : code'[k] = s[k]
      /\ code'[r] = e
  BY <1>1, <1>3, <1>5, <1>6
<1>8. /\ \A k \in 1..Len(code) : k # lastp => code'[k] = code[k]
      /\ \A k \in 1..Len(code) : code'[k].as = code[k].as /\ code'[k].cond = code[k].cond
      /\ code'[lastp].link = Len(code) + 1
  BY <1>2, <1>5, <1>7
<1>9. /\ \A k \in Len(code) + 1 .. r - 1 : code'[k].link = k + 1
      /\ \A k \in Len(code) + 1 .. r : code'[k].cond \in 0..r /\ code'[k].link \in 0..r
  <2>1. \A k \in Len(code) + 1 .. r : k = r
    BY <1>3
  <2>2. \A k \in Len(code) + 1 .. r - 1 : FALSE
    BY <1>3
  <2> QED
    BY <1>6, <1>7, <2>1, <2>2
<1>10. foll' = Marked \cup (Len(code) + 1 .. r)
  <2>1. Len(code) + 1 .. r = {r}
    BY <1>3
  <2> QED
    BY <1>1, <2>1 DEF MarkedJump
<1>11. /\ p' \in 0..r /\ stack' \in Seq(Frame)
       /\ \A k \in DOMAIN stack' : stack'[k].at \in 1..r
       /\ \A k \in DOMAIN stack : stack[k].at \in 1..Len(code)
  <2>1. /\ stack \in Seq(Frame) /\ \A k \in DOMAIN stack : stack[k].at \in 1..Len(code)
    BY <1>2, <1>3 DEF TypeOK
  <2>2. p' \in 0..r
    BY <1>1, <1>3 DEF None
  <2>3. \A j \in 1..Len(code) : j \in 1..r
    BY <1>3
  <2> QED
    BY <1>1, <2>1, <2>2, <2>3
<1>12. r >= Len(code) + 1 /\ r \in Nat
  BY <1>3
<1>13. TypeOK' /\ Onward' /\ phase' = "follow" /\ lastp' # None /\ firstp' # None
  <2>1. /\ lastp' = r /\ UNCHANGED <<text, firstp, phase>> /\ Len(code') = r /\ code' \in Seq(Node)
    BY <1>1, <1>7
  <2> HIDE DEF r
  <2> QED
    BY <1>1, <1>8, <1>9, <1>10, <1>11, <1>12, <2>1, Extended
<1>14. CopiesBack'
  <2> SUFFICES ASSUME NEW k \in DOMAIN stack, stack[k].after = "copy"
               PROVE  code'[stack[k].at].cond \in foll'
    BY <1>1 DEF CopiesBack
  <2>1. code[stack[k].at].cond \in foll /\ stack[k].at \in 1..Len(code)
    BY <1>2, <1>11 DEF CopiesBack
  <2>2. code'[stack[k].at].cond = code[stack[k].at].cond
    BY <1>8, <2>1
  <2> QED
    BY <1>2, <1>10, <2>1, <2>2
<1>15. ~RunsOff(Piece(Target))
  <2> SUFFICES ASSUME RunsOff(Piece(Target))  PROVE FALSE
    OBVIOUS
  <2> DEFINE at == Piece(Target)
  <2>1. PICK n \in DOMAIN at : /\ at[n] = None /\ Searched(at, n)
                               /\ \A j \in 0 .. n - 1 : ~Ends(at[j])
    BY DEF RunsOff
  <2>2. n \in 0 .. Len(code) + 1
    <3>1. Target \in 0..Len(code)
      BY <1>2
    <3> QED
      BY <1>2, <3>1, PieceIs
  <2>3. \A j \in 0..n : at[j] \in Marked
    <3>1. n \in DOMAIN Piece(Target) /\ Searched(Piece(Target), n)
      BY <2>1
    <3>2. \A j \in 0 .. n - 1 : ~Ends(Piece(Target)[j])
      BY <2>1
    <3> QED
      BY <1>1, <3>1, <3>2, PieceMarked
  <2>4. at[n] \in Marked
    BY <1>3, <2>2, <2>3
  <2> QED
    BY <1>2, <2>1, <2>4 DEF None
<1>16. cant' = {}
  BY <1>1, <1>2, <1>15 DEF Impossible
<1> QED
  BY <1>13, <1>14, <1>16 DEF IInv, CantHappen

LEMMA Behind ==
  ASSUME code \in Seq(Node), lastp \in 1..Len(code), NEW l \in Nat
  PROVE  \E s \in Seq(Node) :
           /\ s = [code EXCEPT ![lastp].link = l] /\ Len(s) = Len(code)
           /\ \A k \in 1..Len(code) : k # lastp => s[k] = code[k]
           /\ \A k \in 1..Len(code) : s[k].as = code[k].as /\ s[k].cond = code[k].cond
           /\ \A k \in 1..Len(code) : s[k].original = code[k].original
           /\ s[lastp].link = l
<1> DEFINE s == [code EXCEPT ![lastp].link = l]
<1>1. s = [code EXCEPT ![lastp].link = l]
  OBVIOUS
<1> HIDE DEF s
<1>2. /\ s \in Seq(Node) /\ Len(s) = Len(code)
      /\ \A k \in 1..Len(code) : k # lastp => s[k] = code[k]
      /\ \A k \in 1..Len(code) : s[k].as = code[k].as /\ s[k].cond = code[k].cond
      /\ \A k \in 1..Len(code) : s[k].original = code[k].original
      /\ s[lastp].link = l
  BY <1>1, Relinked
<1> QED
  BY <1>1, <1>2

(* What the copy of a piece is.                                            *)
LEMMA WithCopyIs ==
  ASSUME TypeOK, lastp \in 1..Len(code), NEW n \in Nat, NEW at,
         \A j \in 0..n : at[j] \in 1..Len(code)
  PROVE  /\ WithCopy(at, n) \in Seq(Node) /\ Len(WithCopy(at, n)) = Len(code) + n + 1
         /\ \A k \in 1..Len(code) : k # lastp => WithCopy(at, n)[k] = code[k]
         /\ \A k \in 1..Len(code) : /\ WithCopy(at, n)[k].as = code[k].as
                                    /\ WithCopy(at, n)[k].cond = code[k].cond
         /\ \A k \in 1..Len(code) : WithCopy(at, n)[k].original = code[k].original
         /\ WithCopy(at, n)[lastp].link = Len(code) + 1
         /\ \A k \in 1 .. n + 1 : /\ WithCopy(at, n)[Len(code) + k].as = code[at[k - 1]].as
                                  /\ WithCopy(at, n)[Len(code) + k].cond = code[at[k - 1]].cond
                                  /\ WithCopy(at, n)[Len(code) + k].link =
                                       IF k <= n THEN Len(code) + k + 1 ELSE code[at[k - 1]].link
         /\ \A k \in 1 .. n + 1 :
              WithCopy(at, n)[Len(code) + k].original = code[at[k - 1]].original
<1> DEFINE L == Len(code)
           s == [code EXCEPT ![lastp].link = L + 1]
           goes(k) == IF k <= n THEN L + k + 1 ELSE code[at[k - 1]].link
           copy == [k \in 1 .. n + 1 |-> [code[at[k - 1]] EXCEPT !.link = goes(k)]]
           c == WithCopy(at, n)
<1>1. /\ code \in Seq(Node) /\ L \in Nat
      /\ \A i \in 1..L : code[i] \in Node /\ code[i].link \in 0..L
  BY Lens
<1>2. c = s \o copy
  <2>1. ASSUME NEW k \in 1 .. n + 1
        PROVE  [code[at[k - 1]] EXCEPT !.link = IF k <= n THEN L + k + 1 ELSE @]
                 = [code[at[k - 1]] EXCEPT !.link = goes(k)]
    OBVIOUS
  <2>2. [k \in 1 .. n + 1 |-> [code[at[k - 1]] EXCEPT !.link = IF k <= n THEN L + k + 1 ELSE @]]
          = copy
    <3> HIDE DEF L, goes
    <3> QED
      BY <2>1, Zenon
  <2> QED
    BY <2>2, Zenon DEF WithCopy
<1>3. /\ s \in Seq(Node) /\ Len(s) = L
      /\ \A k \in 1..L : k # lastp => s[k] = code[k]
      /\ \A k \in 1..L : s[k].as = code[k].as /\ s[k].cond = code[k].cond
      /\ \A k \in 1..L : s[k].original = code[k].original
      /\ s[lastp].link = L + 1
  <2> DEFINE l == L + 1
  <2>1. s = [code EXCEPT ![lastp].link = l]
    OBVIOUS
  <2>2. code \in Seq(Node) /\ lastp \in 1..Len(code) /\ l \in Nat
    BY <1>1
  <2> HIDE DEF s, l, L
  <2>3. PICK z \in Seq(Node) :
           /\ z = [code EXCEPT ![lastp].link = l] /\ Len(z) = Len(code)
           /\ \A k \in 1..Len(code) : k # lastp => z[k] = code[k]
           /\ \A k \in 1..Len(code) : z[k].as = code[k].as /\ z[k].cond = code[k].cond
           /\ \A k \in 1..Len(code) : z[k].original = code[k].original
           /\ z[lastp].link = l
    BY <2>2, Behind, Zenon
  <2>4. s = z
    BY <2>1, <2>3
  <2> QED
    BY <2>3, <2>4 DEF l, L
<1>4. ASSUME NEW k \in 1 .. n + 1
      PROVE  /\ copy[k] \in Node /\ copy[k].as = code[at[k - 1]].as
             /\ copy[k].cond = code[at[k - 1]].cond /\ copy[k].link = goes(k)
             /\ copy[k].original = code[at[k - 1]].original
  <2>1. k - 1 \in 0..n
    OBVIOUS
  <2>2. at[k - 1] \in 1..L
    BY <2>1
  <2>3. code[at[k - 1]] \in Node /\ code[at[k - 1]].link \in 0..L
    BY <1>1, <2>2
  <2>4. goes(k) \in Nat
    BY <1>1, <2>3
  <2>5. copy[k] = [code[at[k - 1]] EXCEPT !.link = goes(k)]
    OBVIOUS
  <2> HIDE DEF copy, goes, L
  <2> QED
    BY <2>3, <2>4, <2>5, WithLink
<1>5. copy \in Seq(Node) /\ Len(copy) = n + 1
  <2>1. copy \in [1 .. n + 1 -> Node]
    <3>1. copy = [k \in 1 .. n + 1 |-> copy[k]] /\ \A k \in 1 .. n + 1 : copy[k] \in Node
      BY <1>4
    <3> HIDE DEF copy
    <3> QED
      BY <3>1
  <2>2. n + 1 \in Nat
    OBVIOUS
  <2> HIDE DEF copy
  <2> QED
    BY <2>1, <2>2, FunctionSeq
<1> HIDE DEF s, copy, goes, c
<1>6. /\ c \in Seq(Node) /\ Len(c) = L + (n + 1)
      /\ \A i \in 1 .. L + (n + 1) : c[i] = IF i <= L THEN s[i] ELSE copy[i - L]
  <2>1. /\ c \in Seq(Node) /\ Len(c) = Len(s) + Len(copy)
        /\ \A i \in 1 .. Len(s) + Len(copy) : c[i] = IF i <= Len(s) THEN s[i] ELSE copy[i - Len(s)]
    <3>1. s \in Seq(Node) /\ copy \in Seq(Node)
      BY <1>3, <1>5
    <3> HIDE DEF L
    <3> QED
      BY <1>2, <3>1, ConcatProperties
  <2>2. Len(s) = L /\ Len(copy) = n + 1
    BY <1>3, <1>5
  <2> HIDE DEF L
  <2> QED
    BY <2>1, <2>2
<1>7. \A k \in 1..L : c[k] = s[k]
  BY <1>1, <1>6
<1>8. \A k \in 1 .. n + 1 : c[L + k] = copy[k]
  <2> SUFFICES ASSUME NEW k \in 1 .. n + 1  PROVE c[L + k] = copy[k]
    OBVIOUS
  <2>1. L + k \in 1 .. L + (n + 1) /\ ~(L + k <= L) /\ L + k - L = k
    BY <1>1
  <2> QED
    BY <1>6, <2>1
<1>9. L + (n + 1) = L + n + 1
  BY <1>1
<1>10. \A k \in 1 .. n + 1 : /\ c[L + k].as = code[at[k - 1]].as
                             /\ c[L + k].cond = code[at[k - 1]].cond
                             /\ c[L + k].link = goes(k)
                             /\ c[L + k].original = code[at[k - 1]].original
  BY <1>4, <1>8
<1> QED
  BY <1>3, <1>6, <1>7, <1>9, <1>10 DEF c, goes

(* The piece to be copied: all of it is laid out already.                  *)
LEMMA ToCopy ==
  ASSUME IInv, AtMarked, NEW n \in DOMAIN Piece(Target), FirstEnd(Piece(Target), n)
  PROVE  /\ n \in Nat
         /\ \A j \in 0..n : Piece(Target)[j] \in Marked /\ Piece(Target)[j] \in 1..Len(code)
         /\ Piece(Target)[n] \in Marked /\ Piece(Target)[n] # lastp
         /\ CantHappen1(Piece(Target), n) = {}
<1>1. /\ TypeOK /\ cant = {} /\ Target \in 1..Len(code) /\ Marked \subseteq 1..Len(code)
  BY AtRound DEF AtMarked
<1>2. n \in 0 .. Len(code) + 1 /\ Len(code) \in Nat
  <2>1. Target \in 0..Len(code) /\ Len(code) \in Nat
    BY <1>1, Lens
  <2> QED
    BY <1>1, <2>1, PieceIs
<1>3. \A j \in 0..n : Piece(Target)[j] \in Marked
  <2>1. Searched(Piece(Target), n) /\ \A j \in 0 .. n - 1 : ~Ends(Piece(Target)[j])
    BY DEF FirstEnd
  <2> QED
    BY <2>1, PieceMarked
<1>4. Piece(Target)[n] # lastp
  BY <1>2 DEF FirstEnd, Searched
<1>5. CantHappen1(Piece(Target), n) = {}
  BY <1>1, <1>3 DEF CantHappen1, Impossible
<1>6. n \in Nat /\ n \in 0..n
  BY <1>2
<1> QED
  BY <1>1, <1>3, <1>4, <1>5, <1>6

(* The instructions of the copy are linked up, and stay in the program.    *)
LEMMA CopyLinked ==
  ASSUME TypeOK, lastp \in 1..Len(code), NEW n \in Nat, NEW at,
         \A j \in 0..n : at[j] \in 1..Len(code), NEW r, r = Len(code) + n + 1
  PROVE  \A k \in Len(code) + 1 .. r :
           /\ WithCopy(at, n)[k].cond \in 0..r /\ WithCopy(at, n)[k].link \in 0..r
           /\ k # r => WithCopy(at, n)[k].link = k + 1
<1>1. /\ Len(code) \in Nat
      /\ \A i \in 1..Len(code) : code[i].cond \in 0..Len(code) /\ code[i].link \in 0..Len(code)
  BY Lens
<1> DEFINE c == WithCopy(at, n)
<1>2. \A k \in 1 .. n + 1 : /\ c[Len(code) + k].cond = code[at[k - 1]].cond
                            /\ c[Len(code) + k].link =
                                 IF k <= n THEN Len(code) + k + 1 ELSE code[at[k - 1]].link
  BY SMTT(30), WithCopyIs
<1> HIDE DEF c
<1>3. SUFFICES ASSUME NEW k \in Len(code) + 1 .. r
               PROVE  /\ c[k].cond \in 0..r /\ c[k].link \in 0..r
                      /\ k # r => c[k].link = k + 1
  BY DEF c
<1>4. PICK m \in 1 .. n + 1 : k = Len(code) + m
  <2>1. k - Len(code) \in 1 .. n + 1 /\ k = Len(code) + (k - Len(code))
    BY <1>1
  <2> QED
    BY <2>1
<1>5. code[at[m - 1]].cond \in 0..Len(code) /\ code[at[m - 1]].link \in 0..Len(code)
  <2>1. m - 1 \in 0..n
    OBVIOUS
  <2> QED
    BY <1>1, <2>1
<1>6. /\ c[k].cond = code[at[m - 1]].cond
      /\ c[k].link = IF m <= n THEN Len(code) + m + 1 ELSE code[at[m - 1]].link
  BY <1>2, <1>4
<1>7. k # r => m <= n
  BY <1>1, <1>4
<1>8. m <= n => c[k].link = k + 1 /\ k + 1 \in 0..r
  BY <1>1, <1>4, <1>6
<1>9. ~(m <= n) => c[k].link = code[at[m - 1]].link
  BY <1>6
<1>10. \A i \in 0..Len(code) : i \in 0..r
  BY <1>1
<1> QED
  BY <1>5, <1>6, <1>7, <1>8, <1>9, <1>10

LEMMA CopyToEndStep == IInv /\ CopyToEnd => IInv'
<1> SUFFICES ASSUME IInv, CopyToEnd  PROVE IInv'
  OBVIOUS
<1> DEFINE at == Piece(Target)
<1>1. PICK n \in DOMAIN at :
         /\ FirstEnd(at, n) /\ code[at[n]].as \in Leaves
         /\ code' = WithCopy(at, n)
         /\ lastp' = Len(code) + n + 1
         /\ foll' = Marked \cup (Len(code) + 1 .. Len(code) + n + 1)
         /\ cant' = CantHappen1(at, n)
  BY DEF CopyToEnd
<1>2. /\ AtMarked /\ p' = None /\ UNCHANGED <<text, firstp, stack, phase>>
  BY DEF CopyToEnd
<1>3. /\ TypeOK /\ CopiesBack /\ lastp \in 1..Len(code) /\ foll \subseteq Marked
  BY <1>2, AtRound DEF AtMarked
<1>4. /\ Len(code) \in Nat /\ DOMAIN code = 1..Len(code)
      /\ \A i \in 1..Len(code) : code[i].cond \in 0..Len(code) /\ code[i].link \in 0..Len(code)
  BY <1>3, Lens
<1>5. /\ n \in Nat
      /\ \A j \in 0..n : at[j] \in 1..Len(code)
      /\ CantHappen1(at, n) = {}
  <2>1. n \in DOMAIN Piece(Target) /\ FirstEnd(Piece(Target), n)
    BY <1>1
  <2> QED
    BY <1>2, <2>1, ToCopy
<1> HIDE DEF at
<1>6. /\ code' \in Seq(Node) /\ Len(code') = Len(code) + n + 1
      /\ \A k \in 1..Len(code) : k # lastp => code'[k] = code[k]
      /\ \A k \in 1..Len(code) : code'[k].as = code[k].as /\ code'[k].cond = code[k].cond
      /\ code'[lastp].link = Len(code) + 1
  BY <1>1, <1>3, <1>5, WithCopyIs
<1>7. PICK r \in Nat : r = Len(code) + n + 1
  BY <1>4, <1>5
<1>8. \A k \in Len(code) + 1 .. r :
        /\ code'[k].cond \in 0..r /\ code'[k].link \in 0..r
        /\ k # r => code'[k].link = k + 1
  BY <1>1, <1>3, <1>5, <1>7, CopyLinked
<1>9. /\ stack \in Seq(Frame) /\ \A k \in DOMAIN stack : stack[k].at \in 1..Len(code)
  BY <1>3, <1>4 DEF TypeOK
<1>10. TypeOK' /\ Onward' /\ phase' = "follow" /\ lastp' # None /\ firstp' # None
  <2>1. \A i \in 0..Len(code) : i \in 0..r
    BY <1>4, <1>5, <1>7
  <2>2. \A i \in 1..Len(code) : i \in 1..r
    BY <1>4, <1>5, <1>7
  <2>3. p' \in 0..r /\ r >= Len(code) + 1
    BY <1>2, <1>4, <1>5, <1>7 DEF None
  <2>4. stack' \in Seq(Frame) /\ \A k \in DOMAIN stack' : stack'[k].at \in 1..r
    BY <1>2, <1>9, <2>2
  <2>5. lastp' = r /\ foll' = Marked \cup (Len(code) + 1 .. r) /\ Len(code') = r
    BY <1>1, <1>6, <1>7
  <2>6. \A k \in Len(code) + 1 .. r - 1 : code'[k].link = k + 1
    <3>1. \A k \in Len(code) + 1 .. r - 1 : k \in Len(code) + 1 .. r /\ k # r
      BY <1>4, <1>7
    <3> QED
      BY <1>8, <3>1
  <2>7. \A k \in Len(code) + 1 .. r : code'[k].cond \in 0..r /\ code'[k].link \in 0..r
    BY <1>8
  <2>8. UNCHANGED <<text, firstp, phase>>
    BY <1>2
  <2> QED
    BY <1>2, <1>6, <2>3, <2>4, <2>5, <2>6, <2>7, <2>8, Extended
<1>11. CopiesBack'
  <2> SUFFICES ASSUME NEW k \in DOMAIN stack, stack[k].after = "copy"
               PROVE  code'[stack[k].at].cond \in foll'
    BY <1>2 DEF CopiesBack
  <2>1. code[stack[k].at].cond \in foll /\ stack[k].at \in 1..Len(code)
    BY <1>3, <1>9 DEF CopiesBack
  <2>2. code'[stack[k].at].cond = code[stack[k].at].cond
    BY <1>6, <2>1
  <2> QED
    BY <1>1, <1>3, <2>1, <2>2
<1>12. cant' = {}
  BY <1>1, <1>5
<1> QED
  BY <1>10, <1>11, <1>12 DEF IInv, CantHappen

LEMMA CopyInvertedStep == IInv /\ CopyInverted => IInv'
<1> SUFFICES ASSUME IInv, CopyInverted  PROVE IInv'
  OBVIOUS
<1> DEFINE at == Piece(Target)
<1>1. PICK n \in DOMAIN at :
         LET r      == Len(code) + n + 1
             copied == [WithCopy(at, n) EXCEPT ![r] = Inverted(@, code[at[n]])]
         IN /\ FirstEnd(at, n) /\ Invertible(at[n])
            /\ code' = copied
            /\ lastp' = r
            /\ foll' = Marked \cup (Len(code) + 1 .. r)
            /\ cant' = CantHappen1(at, n)
            /\ stack' = <<[after |-> "copy", at |-> r]>> \o stack
            /\ p' = IF copied[r].link \in Marked THEN None ELSE copied[r].link
  BY DEF CopyInverted
<1>2. /\ AtMarked /\ UNCHANGED <<text, firstp, phase>>
  BY DEF CopyInverted
<1>3. /\ TypeOK /\ Onward /\ CopiesBack /\ lastp \in 1..Len(code) /\ foll \subseteq Marked
      /\ \A i \in Marked : i \in foll \/ code[i].as \in Leaves
  BY <1>2, AtRound DEF AtMarked
<1>4. /\ Len(code) \in Nat /\ DOMAIN code = 1..Len(code)
      /\ \A i \in 1..Len(code) : code[i].cond \in 0..Len(code) /\ code[i].link \in 0..Len(code)
  BY <1>3, Lens
<1>5. /\ n \in Nat
      /\ \A j \in 0..n : at[j] \in 1..Len(code)
      /\ at[n] \in Marked /\ at[n] # lastp
      /\ CantHappen1(at, n) = {}
  <2>1. n \in DOMAIN Piece(Target) /\ FirstEnd(Piece(Target), n)
    BY <1>1
  <2> QED
    BY <1>2, <2>1, ToCopy
<1> DEFINE q == at[n]
           c == WithCopy(at, n)
<1>6. PICK r \in Nat : r = Len(code) + n + 1
  BY <1>4, <1>5
<1> DEFINE d == Inverted(c[r], code[q])
           f == [after |-> "copy", at |-> r]
<1>7. /\ code' = [c EXCEPT ![r] = d]
      /\ lastp' = r /\ foll' = Marked \cup (Len(code) + 1 .. r)
      /\ cant' = {} /\ stack' = <<f>> \o stack
      /\ p' \in {None, code'[r].link}
      /\ Invertible(q)
  BY <1>1, <1>5, <1>6
<1> HIDE DEF at
<1>8. /\ c \in Seq(Node) /\ Len(c) = r
      /\ \A k \in 1..Len(code) : k # lastp => c[k] = code[k]
      /\ \A k \in 1..Len(code) : c[k].as = code[k].as /\ c[k].cond = code[k].cond
      /\ c[lastp].link = Len(code) + 1
  BY <1>3, <1>5, <1>6, WithCopyIs
<1>9. \A k \in Len(code) + 1 .. r :
        /\ c[k].cond \in 0..r /\ c[k].link \in 0..r
        /\ k # r => c[k].link = k + 1
  BY <1>3, <1>5, <1>6, CopyLinked
<1>10. /\ q \in 1..Len(code) /\ code[q].as \in Conditional
       /\ code[q].cond \in 0..Len(code) /\ code[q].link \in foll
  <2>1. n \in 0..n
    BY <1>5
  <2>2. q \in 1..Len(code) /\ q \in Marked /\ q # lastp
    BY <1>5, <2>1
  <2>3. code[q].as \in Conditional
    BY <1>7 DEF Invertible
  <2>4. code[q].as \notin Leaves
    BY <2>3 DEF Conditional, Leaves
  <2>5. code[q].link \in foll
    BY <1>3, <2>2, <2>4 DEF Onward
  <2> QED
    BY <1>4, <2>2, <2>3, <2>5
<1>11. foll \subseteq 1..Len(code)
  BY <1>3, Lens
<1>12. r \in 1..r /\ r >= Len(code) + 1 /\ r \in Len(code) + 1 .. r
  BY <1>4, <1>5, <1>6
<1> HIDE DEF c, q
<1>13. d \in Node /\ d.cond = code[q].link /\ d.link = code[q].cond
  <2>1. c[r] \in Node
    BY <1>8, <1>12, ElementOfSeq
  <2>2. code[q].link \in Nat /\ code[q].cond \in Nat
    BY <1>4, <1>10, <1>11
  <2>3. relinv(code[q].as) \in Opcodes
    BY DEF relinv, Opcodes, Conditional
  <2> DEFINE a == relinv(code[q].as)
             l == code[q].cond
             t == code[q].link
             e == c[r]
  <2>4. d = [e EXCEPT !.as = a, !.cond = t, !.link = l]
    BY DEF Inverted
  <2>5. a \in Opcodes /\ l \in Nat /\ t \in Nat /\ e \in Node
    BY <2>1, <2>2, <2>3
  <2> HIDE DEF a, l, t, e, d
  <2>6. d \in Node /\ d.cond = t /\ d.link = l
    BY <2>4, <2>5 DEF Node
  <2> QED
    BY <2>6 DEF t, l
<1> HIDE DEF d
<1>14. /\ code' \in Seq(Node) /\ Len(code') = r
       /\ \A k \in 1..r : code'[k] = IF k = r THEN d ELSE c[k]
  BY <1>7, <1>8, <1>12, <1>13, ExceptSeq
<1>15. /\ \A i \in 0..Len(code) : i \in 0..r
       /\ \A i \in 1..Len(code) : i \in 1..r /\ i # r
       /\ \A i \in Len(code) + 1 .. r : i \in 1..r
       /\ \A i \in Len(code) + 1 .. r - 1 : i \in Len(code) + 1 .. r /\ i # r
  BY <1>4, <1>12
<1>16. /\ \A k \in 1..Len(code) : code'[k] = c[k]
       /\ \A k \in Len(code) + 1 .. r - 1 : code'[k] = c[k]
       /\ code'[r] = d
  BY <1>12, <1>14, <1>15
<1>17. /\ \A k \in 1..Len(code) : k # lastp => code'[k] = code[k]
       /\ \A k \in 1..Len(code) : code'[k].as = code[k].as /\ code'[k].cond = code[k].cond
       /\ code'[lastp].link = Len(code) + 1
  BY <1>3, <1>8, <1>16
<1>18. \A k \in Len(code) + 1 .. r - 1 : code'[k].link = k + 1
  BY <1>9, <1>15, <1>16
<1>19. \A k \in Len(code) + 1 .. r : code'[k].cond \in 0..r /\ code'[k].link \in 0..r
  <2>1. d.cond \in 0..r /\ d.link \in 0..r
    <3>1. code[q].link \in 1..Len(code)
      BY <1>10, <1>11
    <3>2. code[q].link \in 1..r
      BY <1>15, <3>1
    <3>3. code[q].link \in 0..r
      BY <3>2
    <3> QED
      BY <1>10, <1>13, <1>15, <3>3
  <2> SUFFICES ASSUME NEW k \in Len(code) + 1 .. r
               PROVE  code'[k].cond \in 0..r /\ code'[k].link \in 0..r
    OBVIOUS
  <2>2. CASE k = r
    BY <1>16, <2>1, <2>2
  <2>3. CASE k # r
    <3>1. code'[k] = c[k]
      BY <1>14, <1>15, <2>3
    <3> QED
      BY <1>9, <3>1
  <2> QED
    BY <2>2, <2>3
<1>20. p' \in 0..r
  BY <1>7, <1>12, <1>19 DEF None
<1>21. /\ stack \in Seq(Frame) /\ \A k \in DOMAIN stack : stack[k].at \in 1..Len(code)
  BY <1>3, <1>4 DEF TypeOK
<1>22. /\ stack' \in Seq(Frame) /\ f.at = r
       /\ \A k \in DOMAIN stack' : stack'[k] = f \/ \E j \in DOMAIN stack : stack'[k] = stack[j]
  <2>1. f \in Frame /\ f.at = r /\ stack' = <<f>> \o stack
    BY <1>7 DEF Frame
  <2> HIDE DEF f
  <2> QED
    BY <1>21, <2>1, Pushed
<1> HIDE DEF f
<1>23. \A k \in DOMAIN stack' : stack'[k].at \in 1..r
  BY <1>12, <1>15, <1>21, <1>22
<1>24. TypeOK' /\ Onward' /\ phase' = "follow" /\ lastp' # None /\ firstp' # None
  BY <1>2, <1>7, <1>12, <1>14, <1>17, <1>18, <1>19, <1>20, <1>22, <1>23, Extended
<1>25. CopiesBack'
  <2> SUFFICES ASSUME NEW k \in DOMAIN stack', stack'[k].after = "copy"
               PROVE  code'[stack'[k].at].cond \in foll'
    BY DEF CopiesBack
  <2>1. CASE stack'[k] = f
    BY <1>3, <1>7, <1>10, <1>13, <1>16, <1>22, <2>1
  <2>2. CASE stack'[k] # f
    <3>1. PICK j \in DOMAIN stack : stack'[k] = stack[j]
      BY <1>22, <2>2
    <3>2. code[stack[j].at].cond \in foll /\ stack[j].at \in 1..Len(code)
      BY <1>3, <1>21, <3>1 DEF CopiesBack
    <3>3. code'[stack[j].at].cond = code[stack[j].at].cond
      BY <1>17, <3>2
    <3> QED
      BY <1>3, <1>7, <3>1, <3>2, <3>3
  <2> QED
    BY <2>1, <2>2
<1> QED
  BY <1>7, <1>24, <1>25 DEF IInv, CantHappen

-----------------------------------------------------------------------------
LEMMA NextInv == IInv /\ [Next]_vars => IInv'
<1> SUFFICES ASSUME IInv, [Next]_vars  PROVE IInv'
  OBVIOUS
<1>1. CASE Patch
  BY <1>1, PatchStep
<1>2. CASE Follow
  BY <1>2, FollowStep
<1>3. CASE Elide
  BY <1>3, ElideStep
<1>4. CASE CopyToEnd
  BY <1>4, CopyToEndStep
<1>5. CASE CopyInverted
  BY <1>5, CopyInvertedStep
<1>6. CASE JumpBack
  BY <1>6, JumpBackStep
<1>7. CASE LayLeaf \/ LayBranch \/ LayNext
  BY <1>7, LayOutStep
<1>8. CASE ReturnToBranch \/ ReturnToCopy
  BY <1>8, ReturnStep
<1>9. CASE EndFollow
  BY <1>9, EndStep
<1>10. CASE UNCHANGED vars
  BY <1>10 DEF vars, IInv, TypeOK, Onward, CopiesBack, CantHappen
<1> QED
  BY <1>1, <1>2, <1>3, <1>4, <1>5, <1>6, <1>7, <1>8, <1>9, <1>10 DEF Next, Done

(* The linker's state is always one that its types allow: links, targets   *)
(* and marks stay within the instructions there are (patch, follow, xfol). *)
THEOREM TypesKept == Spec => []TypeOK
<1>1. Init => IInv
  BY InitInv
<1>2. IInv /\ [Next]_vars => IInv'
  BY NextInv
<1>3. IInv => TypeOK
  BY DEF IInv
<1> QED
  BY <1>1, <1>2, <1>3, PTL DEF Spec

(* Neither "cant happen 1" nor "cant happen 2" is ever printed, and the    *)
(* search for the end of a piece never follows a null link: whatever the   *)
(* program and however far xfol looks (the for loop of xfol, and what it   *)
(* does behind an inverted copy).                                          *)
THEOREM CannotHappen == Spec => []CantHappen
<1>1. Init => IInv
  BY InitInv
<1>2. IInv /\ [Next]_vars => IInv'
  BY NextInv
<1>3. IInv => CantHappen
  BY DEF IInv
<1> QED
  BY <1>1, <1>2, <1>3, PTL DEF Spec

-----------------------------------------------------------------------------
(* Applied often enough, next comes back to where it has been.             *)
LEMMA Recurs ==
  ASSUME NEW D, IsFiniteSet(D), NEW next \in [D -> D], NEW i \in D
  PROVE  \E m \in 0 .. Cardinality(D) - 1 :
           Iterated(next, i)[Cardinality(D)] = Iterated(next, i)[m]
<1> DEFINE K == Cardinality(D)
           at == Iterated(next, i)
<1>1. /\ K \in Nat /\ at[0] = i
      /\ \A n \in 1..K : at[n] = next[at[n - 1]]
      /\ \A n \in 0..K : at[n] \in D
  BY Iterates
<1> HIDE DEF at, K
<1>2. \E a, b \in 0..K : a < b /\ at[a] = at[b]
  <2> DEFINE f == [n \in 0..K |-> at[n]]
  <2>1. f \in [0..K -> D]
    BY <1>1
  <2>2. IsFiniteSet(0..K) /\ Cardinality(0..K) = K + 1
    BY <1>1, FS_Interval
  <2>3. Cardinality(D) < Cardinality(0..K)
    BY <1>1, <2>2 DEF K
  <2>4. PICK x, y \in 0..K : x # y /\ f[x] = f[y]
    <3> HIDE DEF f
    <3> QED
      BY <2>1, <2>2, <2>3, FS_PigeonHole
  <2>5. at[x] = at[y] /\ (x < y \/ y < x)
    BY <1>1, <2>4
  <2> QED
    BY <2>5
<1>3. PICK a \in 0..K, b \in 0..K : a < b /\ at[a] = at[b]
  BY <1>2
<1> DEFINE Again == {m \in 0 .. K - b : at[a + m] = at[b + m]}
<1>4. 0 \in Again
  BY <1>1, <1>3
<1>5. ASSUME NEW m \in 1 .. K - b, m - 1 \in Again  PROVE m \in Again
  <2>1. /\ a + m \in 1..K /\ b + m \in 1..K
        /\ a + m - 1 = a + (m - 1) /\ b + m - 1 = b + (m - 1)
    BY <1>1, <1>3
  <2>2. at[a + m] = next[at[a + (m - 1)]] /\ at[b + m] = next[at[b + (m - 1)]]
    BY <1>1, <2>1
  <2> QED
    BY <1>5, <2>2
<1>6. K - b \in Nat /\ a + (K - b) \in 0 .. K - 1 /\ b + (K - b) = K
  BY <1>1, <1>3
<1>7. K - b \in Again
  <2> HIDE DEF Again
  <2>1. 0 .. K - b \subseteq Again
    BY <1>4, <1>5, <1>6, UpTo
  <2> QED
    BY <1>6, <2>1
<1> QED
  BY <1>6, <1>7 DEF at, K

LEMMA Recurring ==
  ASSUME NEW D, IsFiniteSet(D), NEW next \in [D -> D], NEW i \in D,
         NEW at, at = Iterated(next, i)
  PROVE  /\ at[0] = i
         /\ \A n \in 1..Cardinality(D) : at[n] = next[at[n - 1]]
         /\ \A n \in 0..Cardinality(D) : at[n] \in D
         /\ \E m \in 0 .. Cardinality(D) - 1 : at[Cardinality(D)] = at[m]
<1>1. /\ at[0] = i
      /\ \A n \in 1..Cardinality(D) : at[n] = next[at[n - 1]]
      /\ \A n \in 0..Cardinality(D) : at[n] \in D
  BY Iterates
<1>2. \E m \in 0 .. Cardinality(D) - 1 : at[Cardinality(D)] = at[m]
  BY Recurs
<1> QED
  BY <1>1, <1>2

-----------------------------------------------------------------------------
(* Programs whose targets are places in them.                              *)
Within(prog) ==
  /\ Len(prog) \in Nat /\ Len(prog) >= 1 /\ DOMAIN prog = 1..Len(prog)
  /\ \A j \in DOMAIN prog : prog[j].cond \in 0..Len(prog)

Jumping(prog, j) == j # None /\ prog[j].as = "JMP" /\ prog[j].cond # None

(* at is the way from i through jumps.                                     *)
Way(prog, i, at) ==
  /\ at[0] = i
  /\ \A n \in 1 .. Len(prog) + 1 :
       at[n] = IF Jumping(prog, at[n - 1]) THEN prog[at[n - 1]].cond ELSE at[n - 1]
  /\ \A n \in 0 .. Len(prog) + 1 : at[n] \in 0..Len(prog)
  /\ \E m \in 0..Len(prog) : at[Len(prog) + 1] = at[m]
  /\ Through(prog, i) = IF at[Len(prog)] # None /\ prog[at[Len(prog)]].as = "JMP"
                          THEN Spin ELSE at[Len(prog)]

LEMMA WayIs ==
  ASSUME NEW prog, Within(prog), NEW i \in 0..Len(prog)
  PROVE  \E at : Way(prog, i, at)
<1> DEFINE L == Len(prog)
           D == DOMAIN prog \cup {None}
           next == [j \in D |-> IF j # None /\ prog[j].as = "JMP" /\ prog[j].cond # None
                                  THEN prog[j].cond ELSE j]
           at == Iterated(next, i)
<1>1. /\ L \in Nat /\ L >= 1 /\ D = 0..L /\ IsFiniteSet(D) /\ Cardinality(D) = L + 1
      /\ \A j \in 1..L : prog[j].cond \in 0..L
  BY Places DEF Within
<1>2. \A j \in D : next[j] = IF Jumping(prog, j) THEN prog[j].cond ELSE j
  BY DEF Jumping
<1>3. next \in [D -> D]
  <2>1. ASSUME NEW j \in D, j # None  PROVE prog[j].cond \in D
    BY <1>1, <2>1 DEF None
  <2> QED
    BY <2>1
<1>4. Through(prog, i) = IF at[L] # None /\ prog[at[L]].as = "JMP" THEN Spin ELSE at[L]
  BY DEF Through
<1>5. i \in D
  BY <1>1
<1> HIDE DEF next, D, L
<1>6. /\ at[0] = i
      /\ \A n \in 1 .. L + 1 : at[n] = next[at[n - 1]]
      /\ \A n \in 0 .. L + 1 : at[n] \in 0..L
      /\ \E m \in 0 .. L + 1 - 1 : at[L + 1] = at[m]
  <2>1. PICK d, f, a, o : d = D /\ f = next /\ a = at /\ o = i
    OBVIOUS
  <2> HIDE DEF at
  <2>2. IsFiniteSet(d) /\ f \in [d -> d] /\ o \in d /\ a = Iterated(f, o)
    BY <1>1, <1>3, <1>5, <2>1 DEF at
  <2>3. /\ a[0] = o
        /\ \A n \in 1..Cardinality(d) : a[n] = f[a[n - 1]]
        /\ \A n \in 0..Cardinality(d) : a[n] \in d
        /\ \E m \in 0 .. Cardinality(d) - 1 : a[Cardinality(d)] = a[m]
    BY <2>2, Recurring
  <2> QED
    BY <1>1, <2>1, <2>3
<1> HIDE DEF at
<1>7. \A n \in 1 .. L + 1 : at[n] = IF Jumping(prog, at[n - 1]) THEN prog[at[n - 1]].cond
                                                               ELSE at[n - 1]
  <2> SUFFICES ASSUME NEW n \in 1 .. L + 1
               PROVE  at[n] = IF Jumping(prog, at[n - 1]) THEN prog[at[n - 1]].cond
                                                          ELSE at[n - 1]
    OBVIOUS
  <2>1. n - 1 \in 0 .. L + 1
    BY <1>1
  <2>2. at[n - 1] \in D
    BY <1>1, <1>6, <2>1
  <2> QED
    BY <1>2, <1>6, <2>2
<1>8. \E m \in 0..L : at[L + 1] = at[m]
  <2>1. L + 1 - 1 = L
    BY <1>1
  <2> QED
    BY <1>6, <2>1
<1>9. Way(prog, i, at)
  BY <1>4, <1>6, <1>7, <1>8 DEF Way, L
<1> QED
  BY <1>9

(* Control stays where there is no jump to a label.                        *)
LEMMA ThroughStays ==
  ASSUME NEW prog, Within(prog), NEW i \in 0..Len(prog), ~Jumping(prog, i)
  PROVE  Through(prog, i) = IF i # None /\ prog[i].as = "JMP" THEN Spin ELSE i
<1>1. PICK at : Way(prog, i, at)
  BY WayIs
<1> DEFINE S == {n \in 0..Len(prog) : at[n] = i}
<1>2. Len(prog) \in Nat
  BY DEF Within
<1>3. 0 \in S
  BY <1>1, <1>2 DEF Way
<1>4. ASSUME NEW n \in 1..Len(prog), n - 1 \in S  PROVE n \in S
  <2>1. n \in 1 .. Len(prog) + 1
    BY <1>2
  <2>2. at[n] = IF Jumping(prog, at[n - 1]) THEN prog[at[n - 1]].cond ELSE at[n - 1]
    BY <1>1, <2>1 DEF Way
  <2> QED
    BY <1>4, <2>2
<1>5. at[Len(prog)] = i
  <2> HIDE DEF S
  <2>1. 0..Len(prog) \subseteq S
    BY <1>2, <1>3, <1>4, UpTo
  <2>2. Len(prog) \in S
    BY <1>2, <2>1
  <2> QED
    BY <2>2 DEF S
<1> QED
  BY <1>1, <1>5 DEF Way

(* A jump takes control to where its target takes it, a cycle included.    *)
LEMMA ThroughJump ==
  ASSUME NEW prog, Within(prog), NEW i \in 1..Len(prog), Jumping(prog, i)
  PROVE  Through(prog, i) = Through(prog, prog[i].cond)
<1> DEFINE L == Len(prog)
           c == prog[i].cond
<1>1. L \in Nat /\ L >= 1 /\ i \in 0..L /\ c \in 0..L
  BY DEF Within
<1>2. PICK at : Way(prog, i, at)
  BY <1>1, WayIs
<1>3. PICK to : Way(prog, c, to)
  BY <1>1, WayIs
<1> HIDE DEF L, c
<1>4. /\ at[0] = i
      /\ \A n \in 1 .. L + 1 : at[n] = IF Jumping(prog, at[n - 1]) THEN prog[at[n - 1]].cond
                                                                  ELSE at[n - 1]
      /\ to[0] = c
      /\ \A n \in 1 .. L + 1 : to[n] = IF Jumping(prog, to[n - 1]) THEN prog[to[n - 1]].cond
                                                                  ELSE to[n - 1]
  BY <1>2, <1>3 DEF Way, L
<1> DEFINE S == {n \in 0..L : at[n + 1] = to[n]}
<1>5. \A n \in 0..L : at[n + 1] = to[n]
  <2>1. 0 \in S
    <3>1. 1 \in 1 .. L + 1 /\ 1 - 1 = 0 /\ 0 + 1 = 1 /\ 0 \in 0..L
      BY <1>1
    <3>2. at[1] = c
      BY <1>4, <3>1 DEF c
    <3> QED
      BY <1>4, <3>1, <3>2
  <2>2. ASSUME NEW n \in 1..L, n - 1 \in S  PROVE n \in S
    <3>1. n \in 1 .. L + 1 /\ n + 1 \in 1 .. L + 1 /\ n + 1 - 1 = n /\ n - 1 + 1 = n /\ n \in 0..L
      BY <1>1
    <3>2. at[n] = to[n - 1]
      BY <2>2, <3>1
    <3>3. at[n + 1] = IF Jumping(prog, at[n]) THEN prog[at[n]].cond ELSE at[n]
      BY <1>4, <3>1
    <3>4. to[n] = IF Jumping(prog, to[n - 1]) THEN prog[to[n - 1]].cond ELSE to[n - 1]
      BY <1>4, <3>1
    <3> QED
      BY <3>1, <3>2, <3>3, <3>4
  <2> HIDE DEF S
  <2>3. 0..L \subseteq S
    BY <1>1, <2>1, <2>2, UpTo
  <2> QED
    BY <2>3 DEF S
<1>6. at[L] = to[L - 1] /\ at[L + 1] = to[L] /\ L \in 1 .. L + 1 /\ L - 1 \in 0..L /\ L \in 0..L
  <2>1. L - 1 \in 0..L /\ L - 1 + 1 = L
    BY <1>1
  <2> QED
    BY <1>1, <1>5, <2>1
<1>7. /\ Through(prog, i) = IF at[L] # None /\ prog[at[L]].as = "JMP" THEN Spin ELSE at[L]
      /\ Through(prog, c) = IF to[L] # None /\ prog[to[L]].as = "JMP" THEN Spin ELSE to[L]
  BY <1>2, <1>3 DEF Way, L
<1>8. CASE ~Jumping(prog, to[L - 1])
  <2>1. to[L] = at[L]
    BY <1>4, <1>6, <1>8
  <2> QED
    BY <1>7, <2>1 DEF c
<1>9. CASE Jumping(prog, to[L - 1])
  <2> DEFINE T == {n \in 0..L : Jumping(prog, at[L - n])}
  <2>1. 0 \in T
    BY <1>1, <1>6, <1>9
  <2>2. ASSUME NEW n \in 1..L, n - 1 \in T  PROVE n \in T
    <3>1. L - n \in 0..L /\ L - (n - 1) \in 1 .. L + 1 /\ L - (n - 1) - 1 = L - n /\ n \in 0..L
      BY <1>1
    <3>2. /\ Jumping(prog, at[L - (n - 1)])
          /\ at[L - (n - 1)] = IF Jumping(prog, at[L - n]) THEN prog[at[L - n]].cond ELSE at[L - n]
      BY <1>4, <2>2, <3>1
    <3> QED
      BY <3>1, <3>2
  <2>3. \A m \in 0..L : Jumping(prog, at[m])
    <3> SUFFICES ASSUME NEW m \in 0..L  PROVE Jumping(prog, at[m])
      OBVIOUS
    <3>1. 0..L \subseteq T
      <4> HIDE DEF T
      <4> QED
        BY <1>1, <2>1, <2>2, UpTo
    <3>2. L - m \in 0..L /\ L - (L - m) = m
      BY <1>1
    <3> QED
      BY <3>1, <3>2
  <2>4. PICK m \in 0..L : at[L + 1] = at[m]
    BY <1>2 DEF Way, L
  <2>5. Jumping(prog, to[L]) /\ Jumping(prog, at[L])
    BY <1>6, <2>3, <2>4
  <2> QED
    BY <1>7, <2>5 DEF Jumping, c
<1> QED
  BY <1>8, <1>9

(* It ends at an instruction that is no jump, if anywhere.                 *)
LEMMA ThroughEnds ==
  ASSUME NEW prog, Within(prog), NEW i \in 1..Len(prog), Through(prog, i) # Spin
  PROVE  Through(prog, i) \in 1..Len(prog) /\ prog[Through(prog, i)].as # "JMP"
<1> DEFINE L == Len(prog)
<1>1. PICK at : Way(prog, i, at)
  BY WayIs
<1>2. L \in Nat
  BY DEF Within
<1>3. /\ at[0] = i
      /\ \A n \in 1 .. L + 1 : at[n] = IF Jumping(prog, at[n - 1]) THEN prog[at[n - 1]].cond
                                                                  ELSE at[n - 1]
      /\ \A n \in 0 .. L + 1 : at[n] \in 0..L
      /\ Through(prog, i) = IF at[L] # None /\ prog[at[L]].as = "JMP" THEN Spin ELSE at[L]
  BY <1>1 DEF Way
<1> DEFINE S == {n \in 0..L : at[n] # None}
<1>4. 0 \in S
  BY <1>2, <1>3 DEF None
<1>5. ASSUME NEW n \in 1..L, n - 1 \in S  PROVE n \in S
  <2>1. n \in 1 .. L + 1
    BY <1>2
  <2>2. at[n] = IF Jumping(prog, at[n - 1]) THEN prog[at[n - 1]].cond ELSE at[n - 1]
    BY <1>3, <2>1
  <2> QED
    BY <1>5, <2>2 DEF Jumping
<1>6. at[L] # None
  <2> HIDE DEF S, L
  <2>1. 0..L \subseteq S
    BY <1>2, <1>4, <1>5, UpTo
  <2>2. L \in S
    BY <1>2, <2>1
  <2> QED
    BY <2>2 DEF S
<1>7. at[L] \in 0..L
  BY <1>2, <1>3
<1>8. at[L] \in 1..L
  BY <1>2, <1>6, <1>7 DEF None
<1> QED
  BY <1>3, <1>6, <1>8

(* What goes along with jumps is where they end.                           *)
LEMMA ThroughBy ==
  ASSUME NEW prog, Within(prog), NEW g,
         \A j \in 1..Len(prog) : prog[j].as # "JMP" => g[j] = j,
         \A j \in 1..Len(prog) :
           /\ Jumping(prog, j)
           /\ Through(prog, prog[j].cond) # Spin
           /\ g[prog[j].cond] = Through(prog, prog[j].cond)
           => g[j] = g[prog[j].cond],
         NEW i \in 1..Len(prog), Through(prog, i) # Spin
  PROVE  g[i] = Through(prog, i)
<1> DEFINE L == Len(prog)
           end == Through(prog, i)
<1>1. PICK at : Way(prog, i, at)
  BY WayIs
<1>2. L \in Nat
  BY DEF Within
<1>3. /\ at[0] = i
      /\ \A n \in 1 .. L + 1 : at[n] = IF Jumping(prog, at[n - 1]) THEN prog[at[n - 1]].cond
                                                                  ELSE at[n - 1]
      /\ \A n \in 0 .. L + 1 : at[n] \in 0..L
      /\ end = IF at[L] # None /\ prog[at[L]].as = "JMP" THEN Spin ELSE at[L]
  BY <1>1 DEF Way
<1> HIDE DEF end
<1> DEFINE S == {n \in 0..L : at[n] \in 1..L /\ Through(prog, at[n]) = end}
<1>4. 0 \in S
  BY <1>2, <1>3 DEF end
<1>5. ASSUME NEW n \in 1..L, n - 1 \in S  PROVE n \in S
  <2>1. n \in 1 .. L + 1 /\ n \in 0 .. L + 1
    BY <1>2
  <2>2. at[n] = IF Jumping(prog, at[n - 1]) THEN prog[at[n - 1]].cond ELSE at[n - 1]
    BY <1>3, <2>1
  <2>3. CASE Jumping(prog, at[n - 1])
    <3>1. at[n - 1] \in 1..L /\ Through(prog, at[n - 1]) = end
      BY <1>5
    <3>2. Through(prog, at[n]) = end
      BY <2>2, <2>3, <3>1, ThroughJump
    <3>3. at[n] # None /\ at[n] \in 0..L
      BY <1>3, <2>1, <2>2, <2>3 DEF Jumping
    <3> QED
      BY <1>2, <3>2, <3>3 DEF None
  <2>4. CASE ~Jumping(prog, at[n - 1])
    BY <1>5, <2>2, <2>4
  <2> QED
    BY <2>3, <2>4
<1>6. \A n \in 0..L : at[n] \in 1..L /\ Through(prog, at[n]) = end
  <2> HIDE DEF S, L
  <2>1. 0..L \subseteq S
    BY <1>2, <1>4, <1>5, UpTo
  <2> QED
    BY <2>1 DEF S
<1> DEFINE T == {n \in 0..L : g[at[L - n]] = end}
<1>7. 0 \in T
  <2>1. L \in 0..L /\ L - 0 = L /\ 0 \in 0..L
    BY <1>2
  <2>2. at[L] \in 1..L /\ end # Spin
    BY <1>6, <2>1 DEF end
  <2>3. end = at[L] /\ prog[at[L]].as # "JMP"
    BY <1>2, <1>3, <2>2 DEF None
  <2>4. g[at[L]] = at[L]
    BY <2>2, <2>3
  <2> QED
    BY <2>1, <2>3, <2>4
<1>8. ASSUME NEW n \in 1..L, n - 1 \in T  PROVE n \in T
  <2>1. L - n \in 0..L /\ L - (n - 1) \in 1 .. L + 1 /\ L - (n - 1) \in 0..L
        /\ L - (n - 1) - 1 = L - n /\ n \in 0..L
    BY <1>2
  <2>2. PICK a : a = at[L - n]
    OBVIOUS
  <2>3. PICK b : b = at[L - (n - 1)]
    OBVIOUS
  <2>4. /\ a \in 1..L /\ b \in 1..L /\ Through(prog, b) = end /\ g[b] = end
        /\ b = IF Jumping(prog, a) THEN prog[a].cond ELSE a
    BY <1>3, <1>6, <1>8, <2>1, <2>2, <2>3
  <2>5. g[a] = end
    <3>1. CASE Jumping(prog, a)
      <4>1. b = prog[a].cond /\ Through(prog, b) # Spin
        BY <2>4, <3>1 DEF end
      <4> QED
        BY <2>4, <3>1, <4>1
    <3>2. CASE ~Jumping(prog, a)
      BY <2>4, <3>2
    <3> QED
      BY <3>1, <3>2
  <2> QED
    BY <2>1, <2>2, <2>5
<1>9. L \in T
  <2> HIDE DEF T
  <2>1. 0..L \subseteq T
    BY <1>2, <1>7, <1>8, UpTo
  <2> QED
    BY <1>2, <2>1
<1>10. at[L - L] = i
  BY <1>2, <1>3
<1> QED
  BY <1>9, <1>10 DEF end

-----------------------------------------------------------------------------
(* What patch makes of the target of instruction i.                        *)
Resolved(prog, i) ==
  IF prog[i].cond = None \/ Through(prog, prog[i].cond) = Spin THEN None
  ELSE Through(prog, prog[i].cond)

(* now is the program with some of its targets resolved.                   *)
Partly(prog, now) ==
  /\ Len(now) = Len(prog) /\ DOMAIN now = DOMAIN prog
  /\ \A i \in DOMAIN prog :
       /\ now[i].as = prog[i].as
       /\ now[i].cond \in {prog[i].cond, Resolved(prog, i)}

(* Resolving targets takes nothing elsewhere.                              *)
LEMMA PartlyThrough ==
  ASSUME NEW prog, Within(prog), NEW now, Partly(prog, now)
  PROVE  /\ Within(now)
         /\ \A i \in 1..Len(prog) : Through(now, i) = Through(prog, i)
<1> DEFINE L == Len(prog)
<1>1. /\ L \in Nat /\ L >= 1 /\ DOMAIN prog = 1..L /\ DOMAIN now = 1..L /\ Len(now) = L
      /\ \A j \in 1..L : prog[j].cond \in 0..L
      /\ \A j \in 1..L : now[j].as = prog[j].as
                       /\ now[j].cond \in {prog[j].cond, Resolved(prog, j)}
  BY DEF Within, Partly
<1>2. ASSUME NEW j \in 1..L, Resolved(prog, j) # None
      PROVE  /\ prog[j].cond \in 1..L /\ Through(prog, prog[j].cond) # Spin
             /\ Resolved(prog, j) = Through(prog, prog[j].cond)
             /\ Resolved(prog, j) \in 1..L /\ prog[Resolved(prog, j)].as # "JMP"
  <2>1. /\ prog[j].cond \in 0..L /\ prog[j].cond # None /\ Through(prog, prog[j].cond) # Spin
        /\ Resolved(prog, j) = Through(prog, prog[j].cond)
    BY <1>1, <1>2 DEF Resolved
  <2>2. prog[j].cond \in 1..L
    BY <1>1, <2>1 DEF None
  <2> QED
    BY <2>1, <2>2, ThroughEnds
<1>3. Within(now)
  <2> SUFFICES ASSUME NEW j \in 1..L  PROVE now[j].cond \in 0..L
    BY <1>1 DEF Within
  <2>1. CASE Resolved(prog, j) = None
    BY <1>1, <2>1 DEF None
  <2>2. CASE Resolved(prog, j) # None
    BY <1>1, <1>2, <2>2
  <2> QED
    BY <2>1, <2>2
<1>4. ASSUME NEW i \in 1..L, Through(now, i) # Spin
      PROVE  Through(prog, i) = Through(now, i)
  <2> DEFINE g == [j \in 1..L |-> Through(prog, j)]
  <2>1. ASSUME NEW j \in 1..L, now[j].as # "JMP"  PROVE g[j] = j
    <3>1. ~Jumping(prog, j) /\ prog[j].as # "JMP" /\ j \in 0..L
      BY <1>1, <2>1 DEF Jumping
    <3> QED
      BY <3>1, ThroughStays
  <2>2. ASSUME NEW j \in 1..L, Jumping(now, j)  PROVE g[j] = g[now[j].cond]
    <3>1. j # None /\ prog[j].as = "JMP" /\ now[j].cond # None
      BY <1>1, <2>2 DEF Jumping
    <3>2. now[j].cond \in 1..L
      BY <1>1, <1>3, <3>1 DEF Within, None
    <3>3. CASE now[j].cond = prog[j].cond
      <4>1. Jumping(prog, j)
        BY <3>1, <3>3 DEF Jumping
      <4>2. Through(prog, j) = Through(prog, prog[j].cond)
        BY <4>1, ThroughJump
      <4> QED
        BY <3>2, <3>3, <4>2
    <3>4. CASE now[j].cond = Resolved(prog, j)
      <4>1. PICK t \in 1..L : t = Resolved(prog, j)
        BY <3>2, <3>4
      <4>2. t # None
        BY <3>1, <3>4, <4>1
      <4>3. prog[j].cond \in 1..L /\ t = Through(prog, prog[j].cond) /\ prog[t].as # "JMP"
        BY <1>2, <4>1, <4>2
      <4>4. Jumping(prog, j)
        BY <1>1, <3>1, <4>3 DEF Jumping, None
      <4>5. Through(prog, j) = t
        BY <4>3, <4>4, ThroughJump
      <4>6. ~Jumping(prog, t) /\ t \in 0..L
        BY <4>3 DEF Jumping
      <4>7. Through(prog, t) = t
        BY <4>3, <4>6, ThroughStays
      <4> QED
        BY <3>4, <4>1, <4>5, <4>7
    <3> QED
      BY <1>1, <3>3, <3>4
  <2> HIDE DEF g
  <2>3. g[i] = Through(now, i)
    BY <1>1, <1>3, <1>4, <2>1, <2>2, ThroughBy
  <2> QED
    BY <2>3 DEF g
<1>5. ASSUME NEW i \in 1..L, Through(prog, i) # Spin
      PROVE  Through(now, i) = Through(prog, i)
  <2> DEFINE g == [j \in 1..L |-> Through(now, j)]
  <2>1. ASSUME NEW j \in 1..L, prog[j].as # "JMP"  PROVE g[j] = j
    <3>1. ~Jumping(now, j) /\ now[j].as # "JMP" /\ j \in 0..Len(now)
      BY <1>1, <2>1 DEF Jumping
    <3> QED
      BY <1>3, <3>1, ThroughStays
  <2>2. ASSUME NEW j \in 1..L, Jumping(prog, j), Through(prog, prog[j].cond) # Spin,
               g[prog[j].cond] = Through(prog, prog[j].cond)
        PROVE  g[j] = g[prog[j].cond]
    <3>1. j # None /\ prog[j].as = "JMP" /\ prog[j].cond # None
      BY <2>2 DEF Jumping
    <3>2. prog[j].cond \in 1..L
      BY <1>1, <3>1 DEF None
    <3>3. PICK t : t = Through(prog, prog[j].cond)
      OBVIOUS
    <3>4. t \in 1..L /\ prog[t].as # "JMP" /\ t = Resolved(prog, j)
      BY <2>2, <3>1, <3>2, <3>3, ThroughEnds DEF Resolved
    <3>5. t # None
      BY <3>4 DEF None
    <3>6. Jumping(now, j) /\ j \in 1..Len(now)
      BY <1>1, <3>1, <3>4, <3>5 DEF Jumping
    <3>7. Through(now, j) = Through(now, now[j].cond)
      BY <1>3, <3>6, ThroughJump
    <3>8. CASE now[j].cond = prog[j].cond
      BY <3>2, <3>7, <3>8
    <3>9. CASE now[j].cond = t
      <4>1. ~Jumping(now, t) /\ t \in 0..Len(now) /\ now[t].as # "JMP"
        BY <1>1, <3>4 DEF Jumping
      <4>2. Through(now, t) = t
        BY <1>3, <4>1, ThroughStays
      <4> QED
        BY <2>2, <3>3, <3>7, <3>9, <4>2
    <3> QED
      BY <1>1, <3>4, <3>8, <3>9
  <2> HIDE DEF g
  <2>3. g[i] = Through(prog, i)
    BY <1>1, <1>5, <2>1, <2>2, ThroughBy
  <2> QED
    BY <2>3 DEF g
<1>6. ASSUME NEW i \in 1..L  PROVE Through(now, i) = Through(prog, i)
  BY <1>4, <1>5
<1> QED
  BY <1>3, <1>6

-----------------------------------------------------------------------------
(* The programs whose control flow is kept: no branch leads to a jump      *)
(* through a register, as brloop takes the target away from such a branch, *)
(* and calls call functions.                                               *)
Plain(prog) ==
  /\ \A i \in DOMAIN prog :
       prog[i].as \in Conditional \cup {"JMP"} /\ Through(prog, prog[i].cond) # Spin =>
         prog[Through(prog, prog[i].cond)].as # "IJMP"
  /\ \A i \in DOMAIN prog : prog[i].as = "JAL" => prog[prog[i].cond].as = "TEXT"

Successor(prog, i) == IF i = Len(prog) THEN None ELSE i + 1

(* patch: the targets of what lies before p are resolved.                  *)
Patching ==
  /\ firstp = 1 /\ p \in 0..Len(text)
  /\ \A i \in 1..Len(text) :
       /\ code[i].as = text[i].as /\ code[i].original = i
       /\ code[i].link = Successor(text, i)
       /\ code[i].cond = IF p = None \/ i < p THEN Resolved(text, i) ELSE text[i].cond

(* A jump to a label is marked, but dropped; what else is marked is laid   *)
(* out.                                                                    *)
Dropped(prog, i) == i \in 1..Len(prog) /\ prog[i].as = "JMP" /\ Resolved(prog, i) # None
Laid(i) == i \in foll /\ ~Dropped(text, i)

(* The first instruction of the new order.                                 *)
Anchor == Len(text) + 1

(* The instructions of the program.                                        *)
OfText ==
  \A i \in 1..Len(text) :
    /\ code[i].as = text[i].as /\ code[i].original = i /\ code[i].cond = Resolved(text, i)
    /\ i \notin foll => code[i].link = Successor(text, i)

(* r repeats an instruction of the program, or its opposite; jumps only if *)
(* they go nowhere.                                                        *)
Repeats(prog, r) ==
  /\ r.original \in 1..Len(prog)
  /\ r.as = "JMP" => r.cond = None /\ Resolved(prog, r.original) = None
  /\ \/ r.as = prog[r.original].as
     \/ prog[r.original].as \in Conditional /\ r.as = relinv(prog[r.original].as)

(* What xfol adds: jumps back and copies.                                  *)
JumpsBack(r) == r.as = "JMP" /\ r.cond # None /\ r.original = None
Added ==
  /\ firstp = Anchor /\ Anchor \in 1..Len(code)
  /\ code[Anchor].as = "GOK" /\ code[Anchor].cond = None /\ code[Anchor].original = None
  /\ Anchor \notin foll
  /\ \A i \in Anchor + 1 .. Len(code) :
       i \in foll /\ (JumpsBack(code[i]) \/ Repeats(text, code[i]))

(* Targets are resolved.                                                   *)
Settled ==
  \A i \in 1..Len(code) :
    code[i].cond # None =>
      /\ ~Dropped(text, code[i].cond)
      /\ code[i].as = "JMP" => code[i].cond <= Len(text)

Pointers ==
  /\ p \in 0..Len(text)
  /\ \A k \in DOMAIN stack :
       stack[k].after = "branch" => stack[k].at <= Len(text) /\ Laid(stack[k].at)
  /\ \/ Laid(lastp) /\ Laid(1)
     \/ lastp = Anchor /\ p = 1 /\ foll = {} /\ stack = <<>>
  /\ p = None => code[lastp].as \in Leaves

(* The new order is one chain.                                             *)
Chain ==
  \A i \in 1..Len(code) : i # lastp /\ (i = Anchor \/ Laid(i)) => Laid(code[i].link)
Closed(S) == \A i \in S : i # lastp /\ (i = Anchor \/ Laid(i)) => code[i].link \in S
Connected ==
  \A S \in SUBSET Nat : Anchor \in S /\ Closed(S) => \A i \in 1..Len(code) : Laid(i) => i \in S

(* Where control at i gets to through jumps.                               *)
Goes(now, i) ==
  IF now[i].as # "JMP" THEN i
  ELSE IF now[i].cond = None \/ now[now[i].cond].as = "JMP" THEN Spin
  ELSE now[i].cond

(* Control at i gets to where control at o got in the program.             *)
Means(prog, now, i, o) ==
  IF Goes(now, i) = Spin THEN Through(prog, o) = Spin
  ELSE now[Goes(now, i)].original = Through(prog, o)

(* Where r goes in the program if it goes on, and if it jumps.             *)
Falls(prog, r) == IF r.as = prog[r.original].as THEN r.original + 1 ELSE prog[r.original].cond
Jumps(prog, r) == IF r.as = prog[r.original].as THEN prog[r.original].cond ELSE r.original + 1

FallsRight ==
  \A i \in 1..Len(code) :
    Laid(i) /\ code[i].as \notin Leaves =>
      Means(text, code, IF i = lastp THEN p ELSE code[i].link, Falls(text, code[i]))

(* A branch of now to t goes where control at o went in the program.       *)
Leads(prog, now, t, o) ==
  IF t = None THEN Through(prog, o) = Spin ELSE Means(prog, now, t, o)

JumpsRight ==
  \A i \in 1..Len(code) :
    Laid(i) /\ code[i].as \in Conditional \cup {"JAL"} =>
      Leads(text, code, code[i].cond, Jumps(text, code[i]))

(* Targets are laid out, or will be.                                       *)
Waits(t) ==
  \/ t = p
  \/ \E k \in DOMAIN stack : stack[k].after = "branch" /\ code[stack[k].at].cond = t
Landed ==
  \A i \in 1..Len(code) :
    Laid(i) /\ code[i].cond # None /\ code[i].as # "JAL" =>
      Laid(code[i].cond) \/ Waits(code[i].cond)

FollowInv ==
  /\ OfText /\ Added /\ Settled /\ Pointers
  /\ Chain /\ Connected
  /\ FallsRight /\ JumpsRight /\ Landed

FInv ==
  Plain(text) =>
    /\ phase = "patch" => Patching
    /\ phase = "follow" => FollowInv
    /\ FlowPreserved

-----------------------------------------------------------------------------
LEMMA TextShape ==
  ASSUME text \in Programs
  PROVE  /\ Within(text)
         /\ text[1].as = "TEXT" /\ text[Len(text)].as \in Leaves
         /\ \A i \in 1..Len(text) :
              /\ text[i].as \in Opcodes \ {"GOK"}
              /\ text[i].as \in Conditional \cup {"JMP", "JAL"} => text[i].cond \in 1..Len(text)
              /\ text[i].as = "TEXT" /\ text[i].cond # None =>
                   text[i].cond \in 1..Len(text) /\ text[text[i].cond].as = "TEXT"
              /\ text[i].as \notin Conditional \cup {"JMP", "JAL", "TEXT"} => text[i].cond = None
         /\ \A o \in 2..Len(text) :
              text[o].as = "TEXT" =>
                \E i \in 1 .. o - 1 : text[i].as = "TEXT" /\ text[i].cond = o
<1>1. IsProgram(text)
  BY LinkFollowAssumption
<1>2. /\ Len(text) \in Nat /\ Len(text) >= 1 /\ DOMAIN text = 1..Len(text)
      /\ \A i \in 1..Len(text) : text[i].as \in Opcodes /\ text[i].cond \in 0..Len(text)
  BY ProgramShape
<1>3. text[1].as = "TEXT" /\ text[Len(text)].as \in Leaves
  BY <1>1 DEF IsProgram
<1> DEFINE later(i) == {j \in i + 1 .. Len(text) : text[j].as = "TEXT"}
<1>4. ASSUME NEW i \in 1..Len(text), text[i].as = "TEXT"
      PROVE  \/ later(i) = {} /\ text[i].cond = None
             \/ text[i].cond \in later(i) /\ \A k \in later(i) : text[i].cond <= k
  <2>1. text[i].cond = IF later(i) = {} THEN None
                       ELSE CHOOSE j \in later(i) : \A k \in later(i) : j <= k
    BY <1>1, <1>2, <1>4 DEF IsProgram, Conditional
  <2>2. later(i) \subseteq Nat
    BY <1>2
  <2> HIDE DEF later
  <2>3. CASE later(i) # {}
    <3>1. \E j \in later(i) : \A k \in later(i) : j <= k
      BY <2>2, <2>3, Least
    <3> QED
      BY <2>1, <2>3, <3>1
  <2> QED
    BY <2>1, <2>3
<1>5. ASSUME NEW i \in 1..Len(text)
      PROVE  /\ text[i].as \in Opcodes \ {"GOK"}
             /\ text[i].as \in Conditional \cup {"JMP", "JAL"} => text[i].cond \in 1..Len(text)
             /\ text[i].as = "TEXT" /\ text[i].cond # None =>
                  text[i].cond \in 1..Len(text) /\ text[text[i].cond].as = "TEXT"
             /\ text[i].as \notin Conditional \cup {"JMP", "JAL", "TEXT"} => text[i].cond = None
  <2>1. text[i].as # "GOK"
    <3> DEFINE T == [as : Opcodes \ {"GOK"}, cond : Nat, frame : Nat]
    <3>1. text \in Seq(T) /\ i \in 1..Len(text)
      BY <1>1 DEF IsProgram
    <3> HIDE DEF T
    <3>2. text[i] \in T
      BY <3>1, ElementOfSeq
    <3> QED
      BY <3>2 DEF T
  <2>2. text[i].as \in Conditional \cup {"JMP", "JAL"} => text[i].cond \in 1..Len(text)
    BY <1>1, <1>2 DEF IsProgram, Conditional
  <2>3. text[i].as = "TEXT" /\ text[i].cond # None =>
          text[i].cond \in 1..Len(text) /\ text[text[i].cond].as = "TEXT"
    BY <1>2, <1>4
  <2>4. text[i].as \notin Conditional \cup {"JMP", "JAL", "TEXT"} => text[i].cond = None
    BY <1>1, <1>2 DEF IsProgram
  <2> QED
    BY <1>2, <2>1, <2>2, <2>3, <2>4
<1>6. ASSUME NEW o \in 2..Len(text), text[o].as = "TEXT"
      PROVE  \E i \in 1 .. o - 1 : text[i].as = "TEXT" /\ text[i].cond = o
  <2> DEFINE D == {d \in 1 .. o - 1 : text[o - d].as = "TEXT"}
  <2>1. D # {} /\ D \subseteq Nat
    <3>1. o - 1 \in 1 .. o - 1 /\ o - (o - 1) = 1
      BY <1>2
    <3> QED
      BY <1>3, <3>1
  <2> HIDE DEF D
  <2>2. PICK d \in D : \A k \in D : d <= k
    BY <2>1, Least
  <2>3. d \in 1 .. o - 1 /\ text[o - d].as = "TEXT"
    BY <2>2 DEF D
  <2>4. PICK i \in 1 .. o - 1 : i = o - d
    BY <1>2, <2>3
  <2>5. i \in 1..Len(text) /\ text[i].as = "TEXT" /\ o \in later(i)
    BY <1>2, <1>6, <2>3, <2>4
  <2>6. text[i].cond \in later(i) /\ text[i].cond <= o
    BY <1>4, <2>5
  <2>7. ~(text[i].cond < o)
    <3> SUFFICES ASSUME text[i].cond < o  PROVE FALSE
      OBVIOUS
    <3>1. o - text[i].cond \in 1 .. o - 1 /\ o - (o - text[i].cond) = text[i].cond
      BY <1>2, <2>6
    <3>2. o - text[i].cond \in D
      BY <2>6, <3>1 DEF D
    <3>3. d <= o - text[i].cond
      BY <2>2, <3>2
    <3> QED
      BY <1>2, <2>3, <2>4, <2>6, <3>3
  <2>8. text[i].cond = o
    BY <1>2, <2>6, <2>7
  <2> QED
    BY <2>5, <2>8
<1> QED
  BY <1>2, <1>3, <1>5, <1>6 DEF Within

(* A target that is left is that of an instruction that is no jump.        *)
LEMMA ResolvedIs ==
  ASSUME text \in Programs, Plain(text), NEW i \in 1..Len(text)
  PROVE  /\ Resolved(text, i) \in 0..Len(text)
         /\ Resolved(text, i) # None =>
              /\ Resolved(text, i) \in 1..Len(text) /\ text[i].cond \in 1..Len(text)
              /\ Through(text, text[i].cond) = Resolved(text, i)
              /\ Through(text, text[i].cond) # Spin
              /\ text[Resolved(text, i)].as \notin {"JMP", "IJMP"}
              /\ ~Dropped(text, Resolved(text, i))
         /\ Resolved(text, i) = None /\ text[i].cond # None =>
              Through(text, text[i].cond) = Spin
<1>1. Within(text)
  BY TextShape
<1>2. /\ Len(text) \in Nat /\ DOMAIN text = 1..Len(text) /\ text[i].cond \in 0..Len(text)
  BY <1>1 DEF Within
<1>3. ASSUME Resolved(text, i) # None
      PROVE  /\ Resolved(text, i) \in 1..Len(text) /\ text[i].cond \in 1..Len(text)
             /\ Through(text, text[i].cond) = Resolved(text, i)
             /\ Through(text, text[i].cond) # Spin
             /\ text[Resolved(text, i)].as \notin {"JMP", "IJMP"}
  <2>1. /\ text[i].cond # None /\ Through(text, text[i].cond) # Spin
        /\ Through(text, text[i].cond) = Resolved(text, i)
    BY <1>3 DEF Resolved
  <2>2. text[i].cond \in 1..Len(text)
    BY <1>2, <2>1 DEF None
  <2>3. Resolved(text, i) \in 1..Len(text) /\ text[Resolved(text, i)].as # "JMP"
    BY <1>1, <2>1, <2>2, ThroughEnds
  <2>4. text[Resolved(text, i)].as # "IJMP"
    <3>1. CASE text[i].as \in Conditional \cup {"JMP"}
      BY <1>2, <2>1, <3>1 DEF Plain
    <3>2. CASE text[i].as \in {"JAL", "TEXT"}
      <4>1. text[text[i].cond].as = "TEXT"
        BY <1>2, <2>1, <3>2, TextShape DEF Plain
      <4>2. Through(text, text[i].cond) = text[i].cond
        BY <1>1, <1>2, <2>2, <4>1, ThroughStays DEF Jumping
      <4> QED
        BY <2>1, <4>1, <4>2
    <3> QED
      BY <2>1, <3>1, <3>2, TextShape
  <2> QED
    BY <2>1, <2>2, <2>3, <2>4
<1>4. Resolved(text, i) \in 0..Len(text)
  BY <1>2, <1>3 DEF None
<1>5. Resolved(text, i) # None => ~Dropped(text, Resolved(text, i))
  BY <1>3 DEF Dropped
<1>6. Resolved(text, i) = None /\ text[i].cond # None => Through(text, text[i].cond) = Spin
  <2> SUFFICES ASSUME text[i].cond # None, Through(text, text[i].cond) # Spin
               PROVE  Resolved(text, i) # None
    OBVIOUS
  <2>1. text[i].cond \in 1..Len(text)
    BY <1>2 DEF None
  <2>2. Through(text, text[i].cond) \in 1..Len(text)
    BY <1>1, <2>1, ThroughEnds
  <2> QED
    BY <1>2, <2>2 DEF Resolved, None
<1> QED
  BY <1>3, <1>4, <1>5, <1>6

-----------------------------------------------------------------------------
LEMMA InitFlow == Init => FInv
<1> SUFFICES ASSUME Init, Plain(text)  PROVE phase = "patch" /\ Patching
  BY DEF Init, FInv, FlowPreserved
<1>1. text \in Programs /\ phase = "patch" /\ firstp = 1 /\ p = 1
  BY DEF Init
<1>2. Len(text) \in Nat /\ Len(text) >= 1 /\ DOMAIN text = 1..Len(text)
  BY <1>1, ProgramShape
<1>3. ASSUME NEW i \in 1..Len(text)
      PROVE  /\ code[i].as = text[i].as /\ code[i].original = i
             /\ code[i].link = Successor(text, i)
             /\ code[i].cond = text[i].cond
  BY <1>2 DEF Init, Successor
<1>4. \A i \in 1..Len(text) : ~(i < 1)
  BY <1>2
<1> QED
  BY <1>1, <1>2, <1>3, <1>4 DEF Patching, None

LEMMA PatchFlow == IInv /\ FInv /\ Patch => FInv'
<1> SUFFICES ASSUME IInv, FInv, Patch, Plain(text)'  PROVE (phase = "patch" /\ Patching)'
  BY DEF FInv, FlowPreserved
<1>1. /\ TypeOK /\ phase = "patch" /\ phase' = "patch" /\ p # None /\ Len(code) = Len(text)
      /\ text' = text /\ firstp' = firstp /\ p' = code[p].link
  BY DEF IInv, Patch
<1>2. Plain(text) /\ Patching
  BY <1>1 DEF FInv
<1>3. text \in Programs /\ Within(text)
  BY <1>1, TextShape DEF TypeOK
<1>4. /\ Len(text) \in Nat /\ Len(text) >= 1 /\ p \in 1..Len(text) /\ firstp = 1
      /\ DOMAIN text = 1..Len(text) /\ DOMAIN code = 1..Len(text) /\ code \in Seq(Node)
  BY <1>1, <1>2, <1>3, Lens DEF Within, Patching, None
<1>5. \A i \in 1..Len(text) :
        /\ code[i].as = text[i].as /\ code[i].original = i
        /\ code[i].link = Successor(text, i)
        /\ code[i].cond = IF i < p THEN Resolved(text, i) ELSE text[i].cond
  BY <1>1, <1>2 DEF Patching
<1>6. code[p].cond = text[p].cond
  BY <1>4, <1>5
<1>7. Partly(text, code)
  BY <1>1, <1>4, <1>5 DEF Partly
<1>8. text[p].cond # None => brloop(text[p].cond) = Resolved(text, p)
  <2> SUFFICES ASSUME text[p].cond # None  PROVE brloop(text[p].cond) = Resolved(text, p)
    OBVIOUS
  <2>1. text[p].cond \in 1..Len(text)
    BY <1>3, <1>4 DEF Within, None
  <2>2. Through(code, text[p].cond) = Through(text, text[p].cond)
    BY <1>3, <1>7, <2>1, PartlyThrough
  <2>3. CASE Through(text, text[p].cond) = Spin
    BY <2>2, <2>3 DEF brloop, Resolved
  <2>4. CASE Through(text, text[p].cond) # Spin
    <3>1. Resolved(text, p) # None
      <4>1. Through(text, text[p].cond) \in 1..Len(text)
        BY <1>3, <2>1, <2>4, ThroughEnds
      <4> QED
        BY <2>4, <4>1 DEF Resolved, None
    <3>2. /\ Through(text, text[p].cond) = Resolved(text, p)
          /\ Resolved(text, p) \in 1..Len(text)
          /\ text[Resolved(text, p)].as # "IJMP"
      BY <1>2, <1>3, <1>4, <3>1, ResolvedIs
    <3>3. PICK t : t = Resolved(text, p)
      OBVIOUS
    <3>4. Through(code, text[p].cond) = t /\ t # Spin /\ t # None /\ code[t].as # "IJMP"
      BY <1>5, <2>2, <2>4, <3>1, <3>2, <3>3
    <3> QED
      BY <3>3, <3>4 DEF brloop
  <2> QED
    BY <2>3, <2>4
<1>9. /\ \A i \in 1..Len(text) : /\ code'[i].as = text[i].as /\ code'[i].original = i
                                 /\ code'[i].link = Successor(text, i)
      /\ \A i \in 1..Len(text) : i # p => code'[i].cond = code[i].cond
      /\ code'[p].cond = Resolved(text, p)
  <2>1. CASE text[p].cond = None
    <3>1. code' = code /\ Resolved(text, p) = None
      BY <1>6, <2>1 DEF Patch, Resolved
    <3> QED
      BY <1>5, <1>6, <2>1, <3>1
  <2>2. CASE text[p].cond # None
    <3>1. PICK t : t = Resolved(text, p)
      OBVIOUS
    <3>2. t \in Nat
      BY <1>2, <1>3, <1>4, <3>1, ResolvedIs
    <3>3. code' = [code EXCEPT ![p].cond = t]
      BY <1>6, <1>8, <2>2, <3>1 DEF Patch
    <3>4. /\ \A k \in 1..Len(code) : k # p => code'[k] = code[k]
          /\ \A k \in 1..Len(code) : code'[k].as = code[k].as /\ code'[k].link = code[k].link
          /\ \A k \in 1..Len(code) : code'[k].original = code[k].original
          /\ code'[p].cond = t
      <4>1. code \in Seq(Node) /\ p \in 1..Len(code)
        BY <1>1, <1>4
      <4> QED
        BY SMTT(30), <3>2, <3>3, <4>1, Retargeted
    <3> QED
      BY <1>1, <1>5, <3>1, <3>4
  <2> QED
    BY <2>1, <2>2
<1>10. p' = Successor(text, p)
  BY <1>1, <1>4, <1>5
<1>11. PICK n, a, b : n = Len(text) /\ a = p /\ b = p'
  OBVIOUS
<1>12. n \in Nat /\ a \in 1..n /\ b = IF a = n THEN 0 ELSE a + 1
  BY <1>4, <1>10, <1>11 DEF Successor, None
<1>13. b \in 0..n /\ \A i \in 1..n : (b = 0 \/ i < b) <=> (i = a \/ i < a)
  <2>1. CASE a = n
    BY <1>12, <2>1
  <2>2. CASE a # n
    BY <1>12, <2>2
  <2> QED
    BY <2>1, <2>2
<1>14. ASSUME NEW i \in 1..Len(text)
       PROVE  code'[i].cond = IF p' = None \/ i < p' THEN Resolved(text, i) ELSE text[i].cond
  <2>1. (p' = None \/ i < p') <=> (i = p \/ i < p)
    BY <1>11, <1>13 DEF None
  <2>2. CASE i = p
    BY <1>9, <2>1, <2>2
  <2>3. CASE i # p
    BY <1>5, <1>9, <2>1, <2>3
  <2> QED
    BY <2>2, <2>3
<1>15. Patching'
  BY <1>1, <1>4, <1>9, <1>11, <1>13, <1>14 DEF Patching
<1> QED
  BY <1>1, <1>15

LEMMA FollowFlow == IInv /\ FInv /\ Follow => FInv'
<1> SUFFICES ASSUME IInv, FInv, Follow, Plain(text)'  PROVE (phase = "follow" /\ FollowInv)'
  BY DEF FInv, FlowPreserved
<1>1. /\ TypeOK /\ phase = "patch" /\ phase' = "follow" /\ p = None /\ Len(code) = Len(text)
      /\ text' = text /\ foll = {} /\ foll' = {} /\ stack = <<>> /\ stack' = <<>>
      /\ firstp' = Len(text) + 1 /\ lastp' = Len(text) + 1 /\ p' = 1
  BY DEF IInv, Follow
<1>2. Plain(text) /\ Patching
  BY <1>1 DEF FInv
<1>3. text \in Programs /\ Within(text)
  BY <1>1, TextShape DEF TypeOK
<1>4. /\ Len(text) \in Nat /\ Len(text) >= 1
      /\ DOMAIN text = 1..Len(text) /\ DOMAIN code = 1..Len(text) /\ code \in Seq(Node)
  BY <1>1, <1>2, <1>3, Lens DEF Within
<1> DEFINE e == [as |-> "GOK", cond |-> None, link |-> None, original |-> None]
           N == Len(text)
<1>5. e.as = "GOK" /\ e.cond = None /\ e.original = None /\ code' = Append(code, e) /\ e \in Node
  BY DEF Follow, Node, Opcodes, None
<1> HIDE DEF e
<1>6. /\ Len(code') = N + 1
      /\ \A i \in 1..N : code'[i] = code[i]
      /\ code'[N + 1] = e
  BY <1>1, <1>4, <1>5
<1>7. \A i \in 1..N : /\ code'[i].as = text[i].as /\ code'[i].original = i
                      /\ code'[i].link = Successor(text, i)
                      /\ code'[i].cond = Resolved(text, i)
  BY <1>1, <1>2, <1>6 DEF Patching
<1>8. OfText'
  BY <1>1, <1>7 DEF OfText
<1>9. Added'
  <2>1. N + 1 \in 1..N + 1 /\ \A i \in N + 1 + 1 .. N + 1 : FALSE
    BY <1>4
  <2> QED
    BY <1>1, <1>5, <1>6, <2>1 DEF Added, Anchor
<1>10. Settled'
  <2> SUFFICES ASSUME NEW i \in 1..N + 1, code'[i].cond # None
               PROVE  ~Dropped(text, code'[i].cond) /\ code'[i].cond <= N
    BY <1>1, <1>6 DEF Settled
  <2>1. i \in 1..N
    BY <1>4, <1>5, <1>6
  <2>2. code'[i].cond = Resolved(text, i) /\ Resolved(text, i) # None
    BY <1>7, <2>1
  <2>3. Resolved(text, i) \in 1..N /\ ~Dropped(text, Resolved(text, i))
    BY <1>2, <1>3, <2>1, <2>2, ResolvedIs
  <2> QED
    BY <1>4, <2>2, <2>3
<1>11. \A i : ~Laid(i)'
  BY <1>1 DEF Laid
<1>12. Pointers'
  <2>1. 1 \in 0..N /\ 1 # None
    BY <1>4 DEF None
  <2> QED
    BY <1>1, <2>1 DEF Pointers, Anchor
<1>13. Chain' /\ Connected' /\ FallsRight' /\ JumpsRight' /\ Landed'
  BY <1>1, <1>11 DEF Chain, Connected, FallsRight, JumpsRight, Landed, Anchor
<1> QED
  BY <1>1, <1>8, <1>9, <1>10, <1>12, <1>13 DEF FollowInv

-----------------------------------------------------------------------------
(* Where the instructions there are lead does not change.                  *)
LEMMA StillMeans ==
  ASSUME NEW L \in Nat, NEW now, NEW after,
         \A k \in 1..L : /\ after[k].as = now[k].as /\ after[k].cond = now[k].cond
                         /\ after[k].original = now[k].original
                         /\ now[k].cond \in 0..L
  PROVE  \A i \in 1..L : \A prog, o : Means(prog, after, i, o) <=> Means(prog, now, i, o)
<1> SUFFICES ASSUME NEW i \in 1..L, NEW prog, NEW o
             PROVE  Means(prog, after, i, o) <=> Means(prog, now, i, o)
  OBVIOUS
<1>1. now[i].cond # None => now[i].cond \in 1..L
  BY DEF None
<1>2. Goes(after, i) = Goes(now, i)
  BY <1>1 DEF Goes
<1>3. Goes(now, i) = Spin \/ Goes(now, i) \in 1..L
  BY <1>1 DEF Goes
<1> QED
  BY <1>2, <1>3 DEF Means

(* An instruction that repeats a leads where a does.                       *)
LEMMA Mirrors ==
  ASSUME NEW L \in Nat, NEW now, NEW after,
         \A k \in 1..L : /\ after[k].as = now[k].as /\ after[k].cond = now[k].cond
                         /\ after[k].original = now[k].original
                         /\ now[k].cond \in 0..L,
         NEW a \in 1..L, NEW k \in Nat, after[k].original = now[a].original,
         \/ now[a].as # "JMP" /\ after[k].as # "JMP"
         \/ after[k].as = now[a].as /\ after[k].cond = now[a].cond,
         NEW prog, NEW o, Means(prog, now, a, o)
  PROVE  Means(prog, after, k, o)
<1>1. now[a].cond # None => now[a].cond \in 1..L
  BY DEF None
<1>2. CASE now[a].as # "JMP"
  <2>1. after[k].as # "JMP"
    BY <1>2
  <2>2. Goes(now, a) = a /\ Goes(after, k) = k /\ a # Spin /\ k # Spin
    BY <1>2, <2>1 DEF Goes, Spin
  <2> QED
    BY <2>2 DEF Means
<1>3. CASE now[a].as = "JMP"
  <2>1. after[k].as = "JMP" /\ after[k].cond = now[a].cond
    BY <1>3
  <2>2. Goes(after, k) = Goes(now, a)
    BY <1>1, <1>3, <2>1 DEF Goes
  <2>3. Goes(now, a) = Spin \/ Goes(now, a) \in 1..L
    BY <1>1, <1>3 DEF Goes
  <2> QED
    BY <2>2, <2>3 DEF Means
<1> QED
  BY <1>2, <1>3

-----------------------------------------------------------------------------
(* What all rounds of xfol's loop start from.                              *)
LEMMA FlowFacts ==
  ASSUME TypeOK, Plain(text), FollowInv
  PROVE  /\ text \in Programs /\ Within(text)
         /\ Len(text) \in Nat /\ Len(text) >= 1 /\ Len(code) \in Nat /\ Len(text) < Len(code)
         /\ Anchor = Len(text) + 1 /\ Anchor \in 1..Len(code)
         /\ code \in Seq(Node) /\ DOMAIN code = 1..Len(code) /\ DOMAIN text = 1..Len(text)
         /\ foll \subseteq 1..Len(code)
         /\ \A i \in 1..Len(text) : i \in 1..Len(code)
         /\ \A i \in 1..Len(code) : /\ code[i].cond \in 0..Len(code)
                                    /\ code[i].link \in 0..Len(code)
         /\ \A i : Laid(i) => i \in 1..Len(code) /\ i # Anchor
<1>1. text \in Programs /\ Within(text)
  BY TextShape DEF TypeOK
<1>2. /\ Len(text) \in Nat /\ Len(text) >= 1 /\ Len(code) \in Nat /\ Len(text) <= Len(code)
      /\ code \in Seq(Node) /\ DOMAIN code = 1..Len(code) /\ DOMAIN text = 1..Len(text)
      /\ foll \subseteq 1..Len(code)
      /\ \A i \in 1..Len(code) : /\ code[i].cond \in 0..Len(code)
                                 /\ code[i].link \in 0..Len(code)
  BY <1>1, Lens DEF Within
<1>3. Anchor = Len(text) + 1 /\ Anchor \in 1..Len(code) /\ Anchor \notin foll
  BY DEF FollowInv, Added, Anchor
<1>4. Len(text) < Len(code)
  BY <1>2, <1>3
<1>5. \A i \in 1..Len(text) : i \in 1..Len(code)
  BY <1>2
<1>6. \A i : Laid(i) => i \in 1..Len(code) /\ i # Anchor
  BY <1>2, <1>3 DEF Laid
<1> QED
  BY <1>1, <1>2, <1>3, <1>4, <1>5, <1>6

(* A direct jump is dropped.                                               *)
LEMMA DirectIs ==
  ASSUME OfText, NEW i \in 1..Len(text)
  PROVE  DirectJump(i) <=> Dropped(text, i)
BY DEF OfText, DirectJump, Dropped

(* The instructions of the program mean themselves.                        *)
LEMMA TextMeans ==
  ASSUME text \in Programs, Plain(text), OfText, NEW j \in 1..Len(text)
  PROVE  Means(text, code, j, j)
<1>1. Within(text) /\ Len(text) \in Nat /\ j \in 0..Len(text) /\ j # None
  BY TextShape DEF Within, None
<1>2. code[j].as = text[j].as /\ code[j].original = j /\ code[j].cond = Resolved(text, j)
  BY DEF OfText
<1>3. CASE text[j].as # "JMP"
  <2>1. Goes(code, j) = j /\ j # Spin
    BY <1>1, <1>2, <1>3 DEF Goes, Spin
  <2>2. Through(text, j) = j
    BY <1>1, <1>3, ThroughStays DEF Jumping
  <2> QED
    BY <1>2, <2>1, <2>2 DEF Means
<1>4. CASE text[j].as = "JMP"
  <2>1. text[j].cond # None /\ Jumping(text, j)
    BY <1>1, <1>4, TextShape DEF Jumping, None
  <2>2. Through(text, j) = Through(text, text[j].cond)
    BY <1>1, <2>1, ThroughJump
  <2>3. CASE Resolved(text, j) = None
    <3>1. Through(text, j) = Spin
      BY <2>1, <2>2, <2>3, ResolvedIs
    <3>2. Goes(code, j) = Spin
      BY <1>2, <1>4, <2>3 DEF Goes
    <3> QED
      BY <3>1, <3>2 DEF Means
  <2>4. CASE Resolved(text, j) # None
    <3>1. PICK t : t = Resolved(text, j)
      OBVIOUS
    <3>2. /\ t \in 1..Len(text) /\ Through(text, j) = t /\ text[t].as # "JMP"
      BY <2>2, <2>4, <3>1, ResolvedIs
    <3>3. code[t].as # "JMP" /\ code[t].original = t
      BY <3>2 DEF OfText
    <3>4. Goes(code, j) = t /\ t # Spin
      BY <1>2, <1>4, <2>4, <3>1, <3>2, <3>3 DEF Goes, Spin
    <3> QED
      BY <3>2, <3>3, <3>4 DEF Means
  <2> QED
    BY <2>3, <2>4
<1> QED
  BY <1>3, <1>4

(* Their branches lead where they led.                                     *)
LEMMA TextJumps ==
  ASSUME text \in Programs, Plain(text), OfText, NEW j \in 1..Len(text),
         text[j].as \in Conditional \cup {"JAL"}
  PROVE  Leads(text, code, code[j].cond, text[j].cond)
<1>1. text[j].cond # None
  <2>1. text[j].cond \in 1..Len(text)
    BY TextShape
  <2> QED
    BY <2>1 DEF None
<1>2. PICK t : t = Resolved(text, j)
  OBVIOUS
<1>3. code[j].cond = t
  BY <1>2 DEF OfText
<1>4. CASE t = None
  BY <1>1, <1>2, <1>3, <1>4, ResolvedIs DEF Leads
<1>5. CASE t # None
  <2>1. t \in 1..Len(text) /\ Through(text, text[j].cond) = t /\ text[t].as # "JMP"
    BY <1>2, <1>5, ResolvedIs
  <2>2. code[t].as # "JMP" /\ code[t].original = t
    BY <2>1 DEF OfText
  <2>3. Goes(code, t) = t /\ t # Spin
    BY <2>1, <2>2 DEF Goes, Spin
  <2> QED
    BY <1>3, <1>5, <2>1, <2>2, <2>3 DEF Leads, Means
<1> QED
  BY <1>4, <1>5

(* The target of a jump that is dropped: no jump, and the jump's meaning.  *)
LEMMA DroppedTo ==
  ASSUME text \in Programs, Plain(text), OfText, NEW j \in 1..Len(text), Dropped(text, j)
  PROVE  /\ code[j].cond \in 1..Len(text) /\ code[j].cond # None
         /\ ~Dropped(text, code[j].cond) /\ code[code[j].cond].as # "JMP"
         /\ \A o : Means(text, code, j, o) => Means(text, code, code[j].cond, o)
<1>1. PICK t : t = Resolved(text, j)
  OBVIOUS
<1>2. t # None /\ text[j].as = "JMP"
  BY <1>1 DEF Dropped
<1>3. t \in 1..Len(text) /\ text[t].as # "JMP" /\ ~Dropped(text, t)
  BY <1>1, <1>2, ResolvedIs
<1>4. code[j].cond = t /\ code[j].as = "JMP" /\ code[t].as # "JMP"
  BY <1>1, <1>2, <1>3 DEF OfText
<1>5. Goes(code, j) = t /\ Goes(code, t) = t
  BY <1>2, <1>4 DEF Goes
<1> QED
  BY <1>2, <1>3, <1>4, <1>5 DEF Means

-----------------------------------------------------------------------------
LEMMA ElideFlow == IInv /\ FInv /\ Elide => FInv'
<1> SUFFICES ASSUME IInv, FInv, Elide, Plain(text)'  PROVE (phase = "follow" /\ FollowInv)'
  BY DEF FInv, FlowPreserved
<1>1. /\ TypeOK /\ phase = "follow" /\ phase' = "follow" /\ p # None /\ DirectJump(p)
      /\ foll' = foll \cup {p} /\ p' = code[p].cond
      /\ UNCHANGED <<text, code, firstp, lastp, stack>>
  BY DEF IInv, Elide, Following, Marked, Target
<1>2. Plain(text) /\ FollowInv
  BY <1>1 DEF FInv
<1>3. /\ text \in Programs /\ Within(text) /\ Len(text) \in Nat
      /\ Anchor = Len(text) + 1 /\ Anchor \in 1..Len(code)
  BY <1>1, <1>2, FlowFacts
<1>4. /\ OfText /\ Added /\ Settled /\ Pointers
      /\ Chain /\ Connected
      /\ FallsRight /\ JumpsRight /\ Landed
  BY <1>2 DEF FollowInv
<1>5. p \in 1..Len(text)
  BY <1>1, <1>3, <1>4 DEF Pointers, None
<1>6. Dropped(text, p)
  BY <1>1, <1>4, <1>5, DirectIs
<1>7. /\ code[p].cond \in 1..Len(text) /\ code[p].cond # None
      /\ ~Dropped(text, code[p].cond)
      /\ \A o : Means(text, code, p, o) => Means(text, code, code[p].cond, o)
  BY <1>2, <1>3, <1>4, <1>5, <1>6, DroppedTo
<1>8. \A i : Laid(i)' <=> Laid(i)
  BY <1>1, <1>6 DEF Laid
<1>9. OfText'
  BY <1>1, <1>4 DEF OfText
<1>10. Added'
  <2>1. p # Anchor
    BY <1>3, <1>5
  <2> QED
    BY <1>1, <1>4, <2>1 DEF Added, Anchor
<1>11. Settled'
  BY <1>1, <1>4 DEF Settled
<1>12. Pointers'
  <2>1. p # 1
    <3>1. text[1].as = "TEXT"
      BY <1>3, TextShape
    <3> QED
      BY <1>6, <3>1 DEF Dropped
  <2>2. p' \in 0..Len(text) /\ p' # None
    BY <1>1, <1>3, <1>7
  <2> QED
    BY <1>1, <1>4, <1>8, <2>1, <2>2 DEF Pointers
<1>13. Chain'
  BY <1>1, <1>4, <1>8 DEF Chain, Anchor
<1>14. Connected'
  <2>1. \A S : Closed(S)' <=> Closed(S)
    BY <1>1, <1>8 DEF Closed, Anchor
  <2> QED
    BY <1>1, <1>4, <1>8, <2>1 DEF Connected, Anchor
<1>15. FallsRight'
  <2> SUFFICES ASSUME NEW i \in 1..Len(code), Laid(i), code[i].as \notin Leaves
               PROVE  Means(text, code, IF i = lastp THEN p' ELSE code[i].link,
                            Falls(text, code[i]))
    BY <1>1, <1>8 DEF FallsRight
  <2>1. Means(text, code, IF i = lastp THEN p ELSE code[i].link, Falls(text, code[i]))
    BY <1>4 DEF FallsRight
  <2> QED
    BY <1>1, <1>7, <2>1
<1>16. JumpsRight'
  BY <1>1, <1>4, <1>8 DEF JumpsRight
<1>17. Landed'
  <2> SUFFICES ASSUME NEW i \in 1..Len(code), Laid(i), code[i].cond # None, code[i].as # "JAL"
               PROVE  Laid(code[i].cond) \/ Waits(code[i].cond)'
    BY <1>1, <1>8 DEF Landed
  <2>1. Laid(code[i].cond) \/ Waits(code[i].cond)
    BY <1>4 DEF Landed
  <2>2. code[i].cond # p
    BY <1>4, <1>6 DEF Settled
  <2> QED
    BY <1>1, <2>1, <2>2 DEF Waits
<1> QED
  BY <1>1, <1>9, <1>10, <1>11, <1>12, <1>13, <1>14, <1>15, <1>16, <1>17 DEF FollowInv

-----------------------------------------------------------------------------
(* The calls on the stack.                                                *)
Members(s) == {s[k] : k \in DOMAIN s}

LEMMA PushedAll ==
  ASSUME NEW s \in Seq(Frame), NEW f \in Frame
  PROVE  Members(<<f>> \o s) = Members(s) \cup {f}
<1> DEFINE t == <<f>> \o s
<1>1. <<f>> \in Seq(Frame) /\ Len(<<f>>) = 1 /\ <<f>>[1] = f
  OBVIOUS
<1>2. /\ t \in Seq(Frame) /\ Len(t) = 1 + Len(s)
      /\ \A i \in 1 .. 1 + Len(s) : t[i] = IF i <= 1 THEN <<f>>[i] ELSE s[i - 1]
  BY <1>1, ConcatProperties
<1> HIDE DEF t
<1>3. Len(s) \in Nat /\ DOMAIN s = 1..Len(s) /\ DOMAIN t = 1 .. 1 + Len(s)
  BY <1>2, LenProperties
<1>4. 1 \in DOMAIN t /\ t[1] = f
  BY <1>1, <1>2, <1>3
<1>5. ASSUME NEW j \in DOMAIN s  PROVE \E k \in DOMAIN t : t[k] = s[j]
  <2>1. j + 1 \in DOMAIN t /\ ~(j + 1 <= 1) /\ j + 1 - 1 = j
    BY <1>3
  <2>2. t[j + 1] = s[j]
    BY <1>2, <1>3, <2>1
  <2> QED
    BY <2>1, <2>2
<1>6. ASSUME NEW k \in DOMAIN t  PROVE t[k] = f \/ \E j \in DOMAIN s : t[k] = s[j]
  <2>1. CASE k = 1
    BY <1>1, <1>2, <1>3, <2>1
  <2>2. CASE k # 1
    <3>1. k - 1 \in DOMAIN s /\ t[k] = s[k - 1]
      BY <1>2, <1>3, <2>2
    <3> QED
      BY <3>1
  <2> QED
    BY <2>1, <2>2
<1>7. Members(t) = Members(s) \cup {f}
  BY <1>4, <1>5, <1>6 DEF Members
<1> QED
  BY <1>7 DEF t

LEMMA PoppedAll ==
  ASSUME NEW s \in Seq(Frame), s # <<>>
  PROVE  \A j \in DOMAIN s : s[j] = Head(s) \/ \E k \in DOMAIN Tail(s) : Tail(s)[k] = s[j]
<1>1. /\ Tail(s) \in Seq(Frame) /\ Len(Tail(s)) = Len(s) - 1
      /\ \A i \in 1 .. Len(Tail(s)) : Tail(s)[i] = s[i + 1]
  BY HeadTailProperties
<1>2. Len(s) \in Nat /\ DOMAIN s = 1..Len(s) /\ DOMAIN Tail(s) = 1 .. Len(s) - 1
  BY <1>1, LenProperties
<1>3. Head(s) = s[1]
  BY PoppedIs
<1> SUFFICES ASSUME NEW j \in DOMAIN s, j # 1
             PROVE  \E k \in DOMAIN Tail(s) : Tail(s)[k] = s[j]
  BY <1>3
<1>4. j - 1 \in DOMAIN Tail(s) /\ j - 1 \in 1 .. Len(Tail(s)) /\ j - 1 + 1 = j
  BY <1>1, <1>2
<1> QED
  BY <1>1, <1>4

LEMMA ReturnFlow == IInv /\ FInv /\ (ReturnToBranch \/ ReturnToCopy) => FInv'
<1> SUFFICES ASSUME IInv, FInv, ReturnToBranch \/ ReturnToCopy, Plain(text)'
             PROVE  (phase = "follow" /\ FollowInv)'
  BY DEF FInv, FlowPreserved, ReturnToBranch, ReturnToCopy
<1>1. /\ TypeOK /\ phase = "follow" /\ phase' = "follow" /\ p = None
      /\ stack # <<>> /\ stack' = Tail(stack)
      /\ UNCHANGED <<text, code, foll, firstp, lastp>>
  BY DEF IInv, ReturnToBranch, ReturnToCopy, Popped
<1>2. Plain(text) /\ FollowInv
  BY <1>1 DEF FInv
<1>3. /\ text \in Programs /\ Within(text) /\ Len(text) \in Nat
      /\ Anchor = Len(text) + 1 /\ Anchor \in 1..Len(code)
  BY <1>1, <1>2, FlowFacts
<1>4. /\ OfText /\ Added /\ Settled /\ Pointers
      /\ Chain /\ Connected
      /\ FallsRight /\ JumpsRight /\ Landed
  BY <1>2 DEF FollowInv
<1>5. /\ stack \in Seq(Frame) /\ 1 \in DOMAIN stack /\ Head(stack) = stack[1]
      /\ \A k \in DOMAIN stack' : \E j \in DOMAIN stack : stack'[k] = stack[j]
      /\ \A j \in DOMAIN stack : stack[j] = Head(stack) \/ \E k \in DOMAIN stack' : stack'[k] = stack[j]
      /\ \A k \in DOMAIN stack : stack[k].at \in DOMAIN code
  BY <1>1, PoppedIs, PoppedAll DEF TypeOK
<1>6. PICK f : f = Head(stack)
  OBVIOUS
<1>7. f = stack[1] /\ f.at \in 1..Len(code)
  BY <1>1, <1>2, <1>5, <1>6, FlowFacts
<1>9. \/ /\ f.after = "branch"
         /\ p' = IF code[f.at].cond \in foll THEN None ELSE code[f.at].cond
      \/ f.after = "copy" /\ p' = p
  BY <1>1, <1>6 DEF ReturnToBranch, ReturnToCopy
<1>10. \A i : Laid(i)' <=> Laid(i)
  BY <1>1 DEF Laid
<1>11. p' \in 0..Len(text)
  <2>1. CASE f.after = "branch"
    <3>1. f.at \in 1..Len(text)
      BY <1>3, <1>4, <1>5, <1>7, <2>1 DEF Pointers
    <3>2. code[f.at].cond = Resolved(text, f.at)
      BY <1>4, <3>1 DEF OfText
    <3>3. code[f.at].cond \in 0..Len(text) /\ None \in 0..Len(text)
      BY <1>2, <1>3, <3>1, <3>2, ResolvedIs DEF None
    <3> QED
      BY <1>9, <2>1, <3>3
  <2>2. CASE f.after = "copy"
    BY <1>4, <1>9, <2>2 DEF Pointers
  <2> QED
    BY <1>9, <2>1, <2>2
<1>12. Laid(lastp) /\ Laid(1) /\ code[lastp].as \in Leaves
  <2>1. p # 1
    BY <1>1 DEF None
  <2> QED
    BY <1>1, <1>4, <2>1 DEF Pointers
<1>13. OfText' /\ Added' /\ Settled' /\ Chain' /\ Connected' /\ JumpsRight'
  <2>1. \A S : Closed(S)' <=> Closed(S)
    BY <1>1, <1>10 DEF Closed, Anchor
  <2>2. OfText' /\ Added' /\ Settled'
    BY <1>1, <1>4 DEF OfText, Added, Settled, Anchor
  <2>3. Chain' /\ JumpsRight'
    BY <1>1, <1>4, <1>10 DEF Chain, JumpsRight, Anchor
  <2>4. Connected'
    BY <1>1, <1>4, <1>10, <2>1 DEF Connected, Anchor
  <2> QED
    BY <2>2, <2>3, <2>4
<1>14. Pointers'
  <2>1. \A k \in DOMAIN stack' :
          stack'[k].after = "branch" => stack'[k].at <= Len(text) /\ Laid(stack'[k].at)
    BY <1>4, <1>5 DEF Pointers
  <2> QED
    BY <1>1, <1>10, <1>11, <1>12, <2>1 DEF Pointers
<1>15. FallsRight'
  <2> SUFFICES ASSUME NEW i \in 1..Len(code), Laid(i), code[i].as \notin Leaves
               PROVE  Means(text, code, IF i = lastp THEN p' ELSE code[i].link,
                            Falls(text, code[i]))
    BY <1>1, <1>10 DEF FallsRight
  <2>1. i # lastp
    BY <1>12
  <2>2. Means(text, code, IF i = lastp THEN p ELSE code[i].link, Falls(text, code[i]))
    BY <1>4 DEF FallsRight
  <2> QED
    BY <2>1, <2>2
<1>16. Landed'
  <2> SUFFICES ASSUME NEW i \in 1..Len(code), Laid(i), code[i].cond # None, code[i].as # "JAL"
               PROVE  Laid(code[i].cond) \/ Waits(code[i].cond)'
    BY <1>1, <1>10 DEF Landed
  <2>1. PICK t : t = code[i].cond
    OBVIOUS
  <2>2. Laid(t) \/ Waits(t)
    BY <1>4, <2>1 DEF Landed
  <2>3. ~Dropped(text, t) /\ t # None
    BY <1>4, <2>1 DEF Settled
  <2>4. CASE \E k \in DOMAIN stack : stack[k].after = "branch" /\ code[stack[k].at].cond = t
    <3>1. PICK k \in DOMAIN stack : stack[k].after = "branch" /\ code[stack[k].at].cond = t
      BY <2>4
    <3>2. CASE stack[k] = f
      <4>1. p' = IF t \in foll THEN None ELSE t
        BY <1>9, <3>1, <3>2
      <4> QED
        BY <1>1, <2>1, <2>3, <4>1 DEF Laid, Waits
    <3>3. CASE stack[k] # f
      <4>1. PICK m \in DOMAIN stack' : stack'[m] = stack[k]
        BY <1>5, <1>6, <3>3
      <4>2. stack'[m].after = "branch" /\ code'[stack'[m].at].cond = t
        BY <1>1, <3>1, <4>1
      <4>3. \E n \in DOMAIN stack' : stack'[n].after = "branch" /\ code'[stack'[n].at].cond = t
        BY <4>2
      <4> QED
        BY <1>1, <2>1, <4>3 DEF Waits
    <3> QED
      BY <3>2, <3>3
  <2> QED
    BY <1>1, <2>1, <2>2, <2>3, <2>4 DEF Waits
<1> QED
  BY <1>1, <1>13, <1>14, <1>15, <1>16 DEF FollowInv

-----------------------------------------------------------------------------
LEMMA LayOutFlow == IInv /\ FInv /\ (LayLeaf \/ LayBranch \/ LayNext) => FInv'
<1> SUFFICES ASSUME IInv, FInv, LayLeaf \/ LayBranch \/ LayNext, Plain(text)'
             PROVE  (phase = "follow" /\ FollowInv)'
  BY DEF FInv, FlowPreserved, LayLeaf, LayBranch, LayNext, LayOut, Following
<1>1. LayOut
  BY DEF LayLeaf, LayBranch, LayNext
<1>2. /\ TypeOK /\ phase = "follow" /\ phase' = "follow" /\ p # None /\ ~DirectJump(p) /\ p \notin foll
      /\ foll' = foll \cup {p} /\ lastp' = p /\ code' = [code EXCEPT ![lastp].link = p]
      /\ UNCHANGED <<text, firstp>> /\ lastp \in 1..Len(code)
  BY <1>1, AtRound DEF IInv, LayOut, Following
<1>3. Plain(text) /\ FollowInv
  BY <1>2 DEF FInv
<1>4. /\ text \in Programs /\ Within(text) /\ Len(text) \in Nat /\ Len(text) >= 1
      /\ Anchor = Len(text) + 1 /\ Anchor \in 1..Len(code) /\ Len(code) \in Nat
      /\ code \in Seq(Node) /\ DOMAIN code = 1..Len(code)
      /\ \A i \in 1..Len(text) : i \in 1..Len(code)
      /\ \A i \in 1..Len(code) : code[i].cond \in 0..Len(code)
      /\ \A i : Laid(i) => i \in 1..Len(code) /\ i # Anchor
  BY <1>2, <1>3, FlowFacts
<1>5. /\ OfText /\ Added /\ Settled /\ Pointers
      /\ Chain /\ Connected
      /\ FallsRight /\ JumpsRight /\ Landed
  BY <1>3 DEF FollowInv
<1>6. p \in 1..Len(text) /\ p \in 1..Len(code) /\ p # Anchor
  <2>1. p \in 1..Len(text)
    BY <1>2, <1>4, <1>5 DEF Pointers, None
  <2> QED
    BY <1>4, <2>1
<1>7. ~Dropped(text, p)
  BY <1>2, <1>5, <1>6, DirectIs
<1>8. Laid(lastp) \/ lastp = Anchor
  BY <1>5 DEF Pointers
<1>9. p # lastp
  BY <1>2, <1>6, <1>8 DEF Laid
<1>10. /\ Len(code') = Len(code)
       /\ \A k \in 1..Len(code) : k # lastp => code'[k] = code[k]
       /\ \A k \in 1..Len(code) : /\ code'[k].as = code[k].as /\ code'[k].cond = code[k].cond
                                  /\ code'[k].original = code[k].original
       /\ code'[lastp].link = p
  <2>1. p \in Nat /\ lastp \in 1..Len(code) /\ code \in Seq(Node)
    BY <1>2, <1>4, <1>6
  <2>2. code' = [code EXCEPT ![lastp].link = p]
    BY <1>2
  <2> QED
    BY SMTT(30), <2>1, <2>2, Relinked
<1>11. \A i : Laid(i)' <=> Laid(i) \/ i = p
  BY <1>2, <1>7 DEF Laid
<1>12. ~Laid(p)
  BY <1>2 DEF Laid
<1>13. \A i \in 1..Len(code) : \A o : Means(text, code', i, o) <=> Means(text, code, i, o)
  <2>1. \A k \in 1..Len(code) : /\ code'[k].as = code[k].as /\ code'[k].cond = code[k].cond
                                /\ code'[k].original = code[k].original
                                /\ code[k].cond \in 0..Len(code)
    BY <1>4, <1>10
  <2> QED
    BY <1>4, <2>1, StillMeans
<1>14. \A i \in 1..Len(code) : /\ Falls(text, code'[i]) = Falls(text, code[i])
                               /\ Jumps(text, code'[i]) = Jumps(text, code[i])
  BY <1>10 DEF Falls, Jumps
<1>15. /\ code[p].as = text[p].as /\ code[p].original = p /\ code[p].cond = Resolved(text, p)
       /\ code[p].link = Successor(text, p) /\ code'[p] = code[p]
  BY <1>2, <1>5, <1>6, <1>9, <1>10 DEF OfText
<1>16. code[p].as \notin Leaves =>
         /\ p' = p + 1 /\ p + 1 \in 1..Len(text) /\ p + 1 # None /\ code[p].link # None
  <2> SUFFICES ASSUME code[p].as \notin Leaves
               PROVE  p' = p + 1 /\ p + 1 \in 1..Len(text) /\ p + 1 # None /\ code[p].link # None
    OBVIOUS
  <2>1. p # Len(text)
    BY <1>4, <1>15, TextShape
  <2>2. code[p].link = p + 1
    BY <1>15, <2>1 DEF Successor
  <2>3. p' = code'[p].link
    BY DEF LayLeaf, LayBranch, LayNext
  <2>4. p + 1 \in 1..Len(text) /\ p + 1 # None
    BY <1>4, <1>6, <2>1 DEF None
  <2> QED
    BY <1>15, <2>2, <2>3, <2>4
<1>17. code[p].as \in Leaves => p' = None /\ stack' = stack
  BY DEF LayLeaf, LayBranch, LayNext
<1>18. p' \in 0..Len(text) /\ (p' = None => code[p].as \in Leaves)
  BY <1>4, <1>16, <1>17 DEF None
<1> DEFINE f == [after |-> "branch", at |-> p]
<1>19. stack \in Seq(Frame) /\ f \in Frame /\ f.at = p /\ f.after = "branch"
  BY <1>2, <1>6 DEF TypeOK, Frame
<1>20. stack' = stack \/ (LayBranch /\ stack' = <<f>> \o stack)
  BY DEF LayLeaf, LayBranch, LayNext
<1> HIDE DEF f
<1>21. /\ \A k \in DOMAIN stack' : stack'[k] = f \/ \E j \in DOMAIN stack : stack'[k] = stack[j]
       /\ \A j \in DOMAIN stack : \E k \in DOMAIN stack' : stack'[k] = stack[j]
       /\ LayBranch => \E k \in DOMAIN stack' : stack'[k] = f
  <2>1. CASE stack' = <<f>> \o stack
    <3>1. Members(stack') = Members(stack) \cup {f}
      BY <1>19, <2>1, PushedAll
    <3> QED
      BY <3>1 DEF Members
  <2>2. CASE stack' # <<f>> \o stack
    <3>1. ~LayBranch
      BY <2>2 DEF LayBranch, f
    <3> QED
      BY <1>20, <2>2, <3>1
  <2> QED
    BY <2>1, <2>2
<1>22. OfText'
  <2> SUFFICES ASSUME NEW i \in 1..Len(text)
               PROVE  /\ code'[i].as = text[i].as /\ code'[i].original = i
                      /\ code'[i].cond = Resolved(text, i)
                      /\ i \notin foll' => code'[i].link = Successor(text, i)
    BY <1>2 DEF OfText
  <2>1. i \in 1..Len(code) /\ i # Anchor
    BY <1>4
  <2>2. i \notin foll' => i # lastp /\ i \notin foll
    BY <1>2, <1>8, <2>1 DEF Laid
  <2> QED
    BY <1>5, <1>10, <2>1, <2>2 DEF OfText
<1>23. Added'
  <2>1. Anchor' = Anchor
    BY <1>2 DEF Anchor
  <2>2. /\ firstp' = Anchor /\ Anchor \in 1..Len(code')
        /\ code'[Anchor].as = "GOK" /\ code'[Anchor].cond = None /\ code'[Anchor].original = None
        /\ Anchor \notin foll'
    BY <1>2, <1>4, <1>5, <1>6, <1>10 DEF Added
  <2>3. ASSUME NEW i \in Anchor + 1 .. Len(code)
        PROVE  i \in foll' /\ (JumpsBack(code'[i]) \/ Repeats(text, code'[i]))
    <3>1. i \in 1..Len(code)
      BY <1>4
    <3>2. i \in foll /\ (JumpsBack(code[i]) \/ Repeats(text, code[i]))
      BY <1>5 DEF Added
    <3> QED
      BY <1>2, <1>10, <3>1, <3>2 DEF JumpsBack, Repeats
  <2> QED
    BY <1>2, <1>10, <2>1, <2>2, <2>3 DEF Added
<1>24. Settled'
  BY <1>2, <1>5, <1>10 DEF Settled
<1>25. Pointers'
  <2>1. ASSUME NEW k \in DOMAIN stack', stack'[k].after = "branch",
               NEW a, a = stack'[k].at
        PROVE  a <= Len(text) /\ (Laid(a) \/ a = p)
    <3>1. CASE stack'[k] = f
      BY <1>6, <1>19, <2>1, <3>1
    <3>2. CASE stack'[k] # f
      <4>1. PICK j \in DOMAIN stack : stack'[k] = stack[j]
        BY <1>21, <3>2
      <4> QED
        BY <1>5, <2>1, <4>1 DEF Pointers
    <3> QED
      BY <3>1, <3>2
  <2>2. (Laid(lastp) /\ Laid(1))'
    BY <1>2, <1>5, <1>11 DEF Pointers
  <2> QED
    BY <1>2, <1>11, <1>15, <1>18, <2>1, <2>2 DEF Pointers
<1>26. Chain'
  <2> SUFFICES ASSUME NEW i \in 1..Len(code), i # p, i = Anchor \/ Laid(i)
               PROVE  Laid(code'[i].link) \/ code'[i].link = p
    BY <1>2, <1>10, <1>11 DEF Chain, Anchor
  <2>1. CASE i = lastp
    BY <1>10, <2>1
  <2>2. CASE i # lastp
    BY <1>5, <1>10, <2>2 DEF Chain
  <2> QED
    BY <2>1, <2>2
<1>27. Connected'
  <2> SUFFICES ASSUME NEW S \in SUBSET Nat, Anchor \in S, Closed(S)',
                      NEW i \in 1..Len(code), Laid(i) \/ i = p
               PROVE  i \in S
    BY <1>2, <1>10, <1>11 DEF Connected, Anchor
  <2>1. \A j \in S : j # p /\ (j = Anchor \/ Laid(j)) => code'[j].link \in S
    BY <1>2, <1>11 DEF Closed, Anchor
  <2>2. Closed(S)
    <3> SUFFICES ASSUME NEW j \in S, j # lastp, j = Anchor \/ Laid(j)
                 PROVE  code[j].link \in S
      BY DEF Closed
    <3>1. j # p /\ j \in 1..Len(code)
      BY <1>4, <1>6, <1>12
    <3> QED
      BY <1>10, <2>1, <3>1
  <2>3. \A j \in 1..Len(code) : Laid(j) => j \in S
    BY <1>5, <2>2 DEF Connected
  <2>4. lastp \in S
    BY <1>2, <1>8, <2>3
  <2>5. p \in S
    BY <1>8, <1>9, <1>10, <2>1, <2>4
  <2> QED
    BY <2>3, <2>5
<1>28. FallsRight'
  <2> SUFFICES ASSUME NEW i \in 1..Len(code), Laid(i) \/ i = p, code[i].as \notin Leaves
               PROVE  Means(text, code', IF i = p THEN p' ELSE code'[i].link,
                            Falls(text, code[i]))
    BY <1>2, <1>10, <1>11, <1>14 DEF FallsRight
  <2>1. CASE i = p
    <3>1. Falls(text, code[i]) = p + 1
      BY <1>15, <2>1 DEF Falls
    <3>2. Means(text, code, p + 1, p + 1)
      BY <1>3, <1>4, <1>5, <1>16, <2>1, TextMeans
    <3>3. p + 1 \in 1..Len(code) /\ p' = p + 1
      BY <1>4, <1>16, <2>1
    <3> QED
      BY <1>13, <2>1, <3>1, <3>2, <3>3
  <2>2. CASE i # p
    <3>1. Means(text, code, IF i = lastp THEN p ELSE code[i].link, Falls(text, code[i]))
      BY <1>5, <2>2 DEF FallsRight
    <3>2. CASE i = lastp
      <4>1. code'[i].link = p /\ Means(text, code, p, Falls(text, code[i]))
        BY <1>10, <3>1, <3>2
      <4> QED
        BY <1>6, <1>13, <2>2, <4>1
    <3>3. CASE i # lastp
      <4>1. code'[i].link = code[i].link /\ Means(text, code, code[i].link, Falls(text, code[i]))
        BY <1>10, <3>1, <3>3
      <4>2. code[i].link \in 1..Len(code)
        BY <1>4, <1>5, <2>2, <3>3 DEF Chain
      <4> QED
        BY <1>13, <2>2, <4>1, <4>2
    <3> QED
      BY <3>2, <3>3
  <2> QED
    BY <2>1, <2>2
<1>29. JumpsRight'
  <2> SUFFICES ASSUME NEW i \in 1..Len(code), Laid(i) \/ i = p,
                      code[i].as \in Conditional \cup {"JAL"}
               PROVE  Leads(text, code', code[i].cond, Jumps(text, code[i]))
    BY <1>2, <1>10, <1>11, <1>14 DEF JumpsRight
  <2>1. Leads(text, code, code[i].cond, Jumps(text, code[i]))
    <3>1. CASE i = p
      <4>1. Jumps(text, code[i]) = text[p].cond
        BY <1>15, <3>1 DEF Jumps
      <4> QED
        BY <1>3, <1>4, <1>5, <1>6, <1>15, <3>1, <4>1, TextJumps
    <3>2. CASE i # p
      BY <1>5, <3>2 DEF JumpsRight
    <3> QED
      BY <3>1, <3>2
  <2>2. code[i].cond # None => code[i].cond \in 1..Len(code)
    BY <1>4 DEF None
  <2> QED
    BY <1>13, <2>1, <2>2 DEF Leads
<1>30. Landed'
  <2> SUFFICES ASSUME NEW i \in 1..Len(code), Laid(i) \/ i = p,
                      code[i].cond # None, code[i].as # "JAL",
                      NEW t, t = code[i].cond
               PROVE  Laid(t) \/ t = p \/ Waits(t)'
    BY <1>2, <1>10, <1>11 DEF Landed
  <2>1. ASSUME NEW k \in DOMAIN stack, stack[k].after = "branch", code[stack[k].at].cond = t
        PROVE  Waits(t)'
    <3>1. PICK m \in DOMAIN stack' : stack'[m] = stack[k]
      BY <1>21
    <3>2. stack[k].at \in 1..Len(code)
      BY <1>2, <1>4 DEF TypeOK
    <3>3. stack'[m].after = "branch" /\ code'[stack'[m].at].cond = t
      BY <1>10, <2>1, <3>1, <3>2
    <3> QED
      BY <3>3 DEF Waits
  <2>2. CASE i = p
    <3>1. code[p].as \notin Leaves
      <4> SUFFICES ASSUME code[p].as \in Leaves  PROVE FALSE
        OBVIOUS
      <4>1. Resolved(text, p) # None
        BY <1>15, <2>2
      <4>2. text[p].as # "JMP"
        BY <1>6, <1>7, <4>1 DEF Dropped
      <4>3. text[p].cond = None
        BY <1>4, <1>6, <1>15, <4>2, TextShape DEF Leaves, Conditional
      <4> QED
        BY <4>1, <4>3 DEF Resolved
    <3>2. Branches(p)
      BY <1>16, <2>2, <3>1 DEF Branches
    <3>3. LayBranch
      BY <3>1, <3>2 DEF LayLeaf, LayNext
    <3>4. PICK k \in DOMAIN stack' : stack'[k] = f
      BY <1>21, <3>3
    <3>5. stack'[k].after = "branch" /\ code'[stack'[k].at].cond = t
      BY <1>15, <1>19, <2>2, <3>4
    <3> QED
      BY <3>5 DEF Waits
  <2>3. CASE i # p
    BY <1>5, <2>1, <2>3 DEF Landed, Waits
  <2> QED
    BY <2>2, <2>3
<1> QED
  BY <1>2, <1>22, <1>23, <1>24, <1>25, <1>26, <1>27, <1>28, <1>29, <1>30 DEF FollowInv

-----------------------------------------------------------------------------
(* Where xfol goes back to something laid out.                             *)
LEMMA AtBack ==
  ASSUME IInv, Plain(text), FollowInv, AtMarked
  PROVE  /\ p \in 1..Len(text) /\ (Laid(p) \/ Dropped(text, p))
         /\ Target \in 1..Len(text) /\ Laid(Target) /\ Laid(lastp) /\ Laid(1)
         /\ lastp # Anchor
         /\ \A i : i \in Marked /\ ~Dropped(text, i) <=> Laid(i)
         /\ Marked \subseteq foll \cup {p}
         /\ \A o : Means(text, code, p, o) => Means(text, code, Target, o)
         /\ code[Target].as = "JMP" => code[Target].cond = None
<1>1. TypeOK /\ p # None /\ Target \in Marked
  BY DEF IInv, AtMarked, Following
<1>2. /\ text \in Programs /\ Len(text) \in Nat /\ Len(text) >= 1
      /\ \A i : Laid(i) => i # Anchor
  BY <1>1, FlowFacts
<1>3. OfText /\ Pointers /\ Settled
  BY DEF FollowInv
<1>4. p \in 1..Len(text)
  BY <1>1, <1>2, <1>3 DEF Pointers, None
<1>5. DirectJump(p) <=> Dropped(text, p)
  BY <1>3, <1>4, DirectIs
<1>6. CASE DirectJump(p)
  <2>1. Marked = foll \cup {p} /\ Target = code[p].cond
    BY <1>6 DEF Marked, Target
  <2>2. /\ Target \in 1..Len(text) /\ ~Dropped(text, Target) /\ code[Target].as # "JMP"
        /\ \A o : Means(text, code, p, o) => Means(text, code, Target, o)
    BY <1>2, <1>3, <1>4, <1>5, <1>6, <2>1, DroppedTo
  <2>3. Laid(Target)
    BY <1>1, <1>5, <1>6, <2>1, <2>2 DEF Laid
  <2>4. p # 1
    BY <1>2, <1>5, <1>6, TextShape DEF Dropped
  <2>5. Laid(lastp) /\ Laid(1)
    BY <1>3, <2>4 DEF Pointers
  <2>6. \A i : i \in Marked /\ ~Dropped(text, i) <=> Laid(i)
    BY <1>5, <1>6, <2>1 DEF Laid
  <2> QED
    BY <1>2, <1>4, <1>5, <1>6, <2>1, <2>2, <2>3, <2>5, <2>6
<1>7. CASE ~DirectJump(p)
  <2>1. Marked = foll /\ Target = p
    BY <1>7 DEF Marked, Target
  <2>2. Laid(p) /\ foll # {}
    BY <1>1, <1>5, <1>7, <2>1 DEF Laid
  <2>3. Laid(lastp) /\ Laid(1)
    BY <1>3, <2>2 DEF Pointers
  <2>4. \A i : i \in Marked /\ ~Dropped(text, i) <=> Laid(i)
    BY <2>1 DEF Laid
  <2>5. code[p].as = "JMP" => code[p].cond = None
    BY <1>7 DEF DirectJump
  <2> QED
    BY <1>2, <1>4, <2>1, <2>2, <2>3, <2>4, <2>5
<1> QED
  BY <1>6, <1>7

(* Instructions are added behind lastp, up to r.                           *)
Extending(r) ==
  /\ r \in Nat /\ Len(code) < r /\ Len(code') = r
  /\ UNCHANGED <<text, firstp>> /\ lastp' = r
  /\ foll' = Marked \cup (Len(code) + 1 .. r)
  /\ \A k \in 1..Len(code) : k # lastp => code'[k] = code[k]
  /\ \A k \in 1..Len(code) : code'[k].as = code[k].as /\ code'[k].cond = code[k].cond
  /\ \A k \in 1..Len(code) : code'[k].original = code[k].original
  /\ code'[lastp].link = Len(code) + 1
  /\ \A k \in Len(code) + 1 .. r - 1 : code'[k].link = k + 1

(* They are what they have to be.                                          *)
Fitting(k, r) ==
  /\ JumpsBack(code'[k]) \/ Repeats(text, code'[k])
  /\ code'[k].cond # None =>
       /\ ~Dropped(text, code'[k].cond)
       /\ code'[k].as = "JMP" => code'[k].cond <= Len(text)
       /\ code'[k].as # "JAL" => Laid(code'[k].cond) \/ Waits(code'[k].cond)
  /\ code'[k].as \notin Leaves =>
       Means(text, code', IF k = r THEN p' ELSE k + 1, Falls(text, code'[k]))
  /\ code'[k].as \in Conditional \cup {"JAL"} =>
       Leads(text, code', code'[k].cond, Jumps(text, code'[k]))

LEMMA ExtendFlow ==
  ASSUME IInv, Plain(text), FollowInv, AtMarked, NEW r, Extending(r),
         \A k \in Len(code) + 1 .. r : Fitting(k, r),
         \A o : Means(text, code, Target, o) => Means(text, code', Len(code) + 1, o),
         Members(stack) \subseteq Members(stack'),
         \A x \in Members(stack') : x \in Members(stack) \/ x.after = "copy",
         p' \in 0..Len(text), p' = None => code'[r].as \in Leaves
  PROVE  FollowInv'
<1> DEFINE L == Len(code)
           N == Len(text)
<1>1. TypeOK /\ UNCHANGED <<text, firstp>>
  BY DEF IInv, Extending
<1>2. /\ text \in Programs /\ N \in Nat /\ N >= 1 /\ N < L
      /\ Anchor = N + 1 /\ Anchor \in 1..L /\ L \in Nat
      /\ \A i \in 1..N : i \in 1..L
      /\ \A i \in 1..L : code[i].cond \in 0..L
      /\ \A i : Laid(i) => i \in 1..L /\ i # Anchor
  BY <1>1, FlowFacts
<1>3. /\ OfText /\ Added /\ Settled /\ Pointers
      /\ Chain /\ Connected
      /\ FallsRight /\ JumpsRight /\ Landed
  BY DEF FollowInv
<1>4. /\ p \in 1..N /\ (Laid(p) \/ Dropped(text, p))
      /\ Laid(lastp) /\ Laid(1) /\ lastp # Anchor
      /\ \A i : i \in Marked /\ ~Dropped(text, i) <=> Laid(i)
      /\ Marked \subseteq foll \cup {p}
      /\ \A o : Means(text, code, p, o) => Means(text, code, Target, o)
  BY AtBack
<1>5. /\ r \in Nat /\ L < r /\ Len(code') = r /\ lastp' = r
      /\ foll' = Marked \cup (L + 1 .. r)
      /\ \A k \in 1..L : k # lastp => code'[k] = code[k]
      /\ \A k \in 1..L : code'[k].as = code[k].as /\ code'[k].cond = code[k].cond
      /\ \A k \in 1..L : code'[k].original = code[k].original
      /\ code'[lastp].link = L + 1
      /\ \A k \in L + 1 .. r - 1 : code'[k].link = k + 1
  BY DEF Extending
<1>6. \A k \in L + 1 .. r : Fitting(k, r)
  OBVIOUS
<1> HIDE DEF L, N
<1>7. /\ \A i \in 1..L : i \in 1..r /\ i # r /\ i \notin L + 1 .. r
      /\ \A i \in 1..r : i \in 1..L \/ i \in L + 1 .. r
      /\ \A i \in L + 1 .. r : /\ i \in 1..r /\ i \notin 1..N /\ i # Anchor /\ ~(i <= N)
                               /\ i # r => i \in L + 1 .. r - 1 /\ i + 1 \in L + 1 .. r
      /\ L + 1 \in L + 1 .. r /\ r \in L + 1 .. r /\ Anchor \in 1..r
  BY <1>2, <1>5
<1>8. \A i : Laid(i)' <=> Laid(i) \/ i \in L + 1 .. r
  <2>1. \A i \in L + 1 .. r : ~Dropped(text, i)
    BY <1>7 DEF Dropped, N
  <2> QED
    BY <1>1, <1>4, <1>5, <2>1 DEF Laid
<1>9. \A i \in 1..L : \A o : Means(text, code', i, o) <=> Means(text, code, i, o)
  <2>1. \A k \in 1..L : /\ code'[k].as = code[k].as /\ code'[k].cond = code[k].cond
                        /\ code'[k].original = code[k].original
                        /\ code[k].cond \in 0..L
    BY <1>2, <1>5
  <2> QED
    BY <1>2, <2>1, StillMeans
<1>10. \A i \in 1..L : /\ Falls(text, code'[i]) = Falls(text, code[i])
                       /\ Jumps(text, code'[i]) = Jumps(text, code[i])
  BY <1>5 DEF Falls, Jumps
<1>11. \A t : ~Dropped(text, t) /\ (Laid(t) \/ Waits(t)) => Laid(t)' \/ Waits(t)'
  <2> SUFFICES ASSUME NEW t, ~Dropped(text, t), Waits(t), ~Laid(t)
               PROVE  \E k \in DOMAIN stack' :
                        stack'[k].after = "branch" /\ code'[stack'[k].at].cond = t
    BY <1>8 DEF Waits
  <2>1. PICK k \in DOMAIN stack : stack[k].after = "branch" /\ code[stack[k].at].cond = t
    BY <1>4 DEF Waits
  <2>2. stack[k].at \in 1..L
    BY <1>1, FlowFacts DEF TypeOK, L
  <2>3. stack[k] \in Members(stack')
    BY DEF Members
  <2>4. PICK m \in DOMAIN stack' : stack'[m] = stack[k]
    BY <2>3 DEF Members
  <2> QED
    BY <1>5, <2>1, <2>2, <2>4
<1>12. OfText'
  <2> SUFFICES ASSUME NEW i \in 1..N
               PROVE  /\ code'[i].as = text[i].as /\ code'[i].original = i
                      /\ code'[i].cond = Resolved(text, i)
                      /\ i \notin foll' => code'[i].link = Successor(text, i)
    BY <1>1 DEF OfText, N
  <2>1. i \in 1..L
    BY <1>2
  <2>2. i \notin foll' => i \notin foll /\ i # lastp
    <3>1. foll \subseteq foll'
      BY <1>5 DEF Marked
    <3> QED
      BY <1>4, <3>1 DEF Laid
  <2> QED
    BY <1>3, <1>5, <2>1, <2>2 DEF OfText, N
<1>13. Added'
  <2>1. Anchor' = Anchor /\ p # Anchor
    BY <1>1, <1>2, <1>4 DEF Anchor
  <2>2. Anchor \notin foll'
    BY <1>3, <1>4, <1>5, <1>7, <2>1 DEF Added
  <2>3. /\ firstp' = Anchor /\ Anchor \in 1..Len(code')
        /\ code'[Anchor].as = "GOK" /\ code'[Anchor].cond = None /\ code'[Anchor].original = None
    BY <1>1, <1>2, <1>3, <1>5, <1>7 DEF Added
  <2>4. ASSUME NEW i \in Anchor + 1 .. r
        PROVE  i \in foll' /\ (JumpsBack(code'[i]) \/ Repeats(text, code'[i]))
    <3>1. CASE i \in L + 1 .. r
      BY <1>5, <1>6, <3>1 DEF Fitting
    <3>2. CASE i \notin L + 1 .. r
      <4>1. i \in Anchor + 1 .. L /\ i \in 1..L
        BY <1>2, <1>5, <3>2
      <4>2. i \in foll /\ (JumpsBack(code[i]) \/ Repeats(text, code[i]))
        BY <1>3, <4>1 DEF Added, L
      <4>3. i \in foll'
        BY <1>5, <4>2 DEF Marked
      <4> QED
        BY <1>5, <4>1, <4>2, <4>3 DEF JumpsBack, Repeats
    <3> QED
      BY <3>1, <3>2
  <2> QED
    BY <1>1, <1>5, <2>1, <2>2, <2>3, <2>4 DEF Added
<1>14. Settled'
  <2> SUFFICES ASSUME NEW i \in 1..r, code'[i].cond # None
               PROVE  /\ ~Dropped(text, code'[i].cond)
                      /\ code'[i].as = "JMP" => code'[i].cond <= N
    BY <1>1, <1>5 DEF Settled, N
  <2>1. CASE i \in 1..L
    BY <1>3, <1>5, <2>1 DEF Settled, N, L
  <2>2. CASE i \in L + 1 .. r
    BY <1>6, <2>2 DEF Fitting, N
  <2> QED
    BY <1>7, <2>1, <2>2
<1>15. Pointers'
  <2>1. ASSUME NEW k \in DOMAIN stack', stack'[k].after = "branch",
               NEW a, a = stack'[k].at
        PROVE  a <= Len(text) /\ Laid(a)
    <3>1. stack'[k] \in Members(stack')
      BY DEF Members
    <3>2. stack'[k] \in Members(stack)
      BY <2>1, <3>1
    <3>3. PICK j \in DOMAIN stack : stack'[k] = stack[j]
      BY <3>2 DEF Members
    <3> QED
      BY <1>3, <2>1, <3>3 DEF Pointers
  <2>2. (Laid(lastp) /\ Laid(1))'
    BY <1>4, <1>5, <1>7, <1>8
  <2> QED
    BY <1>1, <1>5, <1>8, <2>1, <2>2 DEF Pointers
<1>16. Chain'
  <2> SUFFICES ASSUME NEW i \in 1..r, i # r, i = Anchor \/ Laid(i) \/ i \in L + 1 .. r
               PROVE  Laid(code'[i].link) \/ code'[i].link \in L + 1 .. r
    BY <1>1, <1>5, <1>8 DEF Chain, Anchor
  <2>1. CASE i \in L + 1 .. r
    BY <1>5, <1>7, <2>1
  <2>2. CASE i = lastp
    BY <1>5, <1>7, <2>2
  <2>3. CASE i \notin L + 1 .. r /\ i # lastp
    <3>1. i \in 1..L
      BY <1>7, <2>3
    <3> QED
      BY <1>3, <1>5, <2>3, <3>1 DEF Chain, L
  <2> QED
    BY <2>1, <2>2, <2>3
<1>17. Connected'
  <2> SUFFICES ASSUME NEW S \in SUBSET Nat, Anchor \in S, Closed(S)',
                      NEW i \in 1..r, Laid(i) \/ i \in L + 1 .. r
               PROVE  i \in S
    BY <1>1, <1>5, <1>8 DEF Connected, Anchor
  <2>1. \A j \in S : j # r /\ (j = Anchor \/ Laid(j) \/ j \in L + 1 .. r) => code'[j].link \in S
    BY <1>1, <1>5, <1>8 DEF Closed, Anchor
  <2>2. Closed(S)
    <3> SUFFICES ASSUME NEW j \in S, j # lastp, j = Anchor \/ Laid(j)
                 PROVE  code[j].link \in S
      BY DEF Closed
    <3>1. j \in 1..L /\ j # r
      BY <1>2, <1>7
    <3> QED
      BY <1>5, <2>1, <3>1
  <2>3. \A j \in 1..L : Laid(j) => j \in S
    BY <1>3, <2>2 DEF Connected, L
  <2>4. lastp \in S /\ lastp \in 1..L /\ lastp # r
    BY <1>2, <1>4, <1>7, <2>3
  <2>5. L + 1 \in S
    BY <1>4, <1>5, <2>1, <2>4
  <2>6. PICK K \in Nat : r = L + 1 + K
    <3>1. r - L - 1 \in Nat /\ r = L + 1 + (r - L - 1)
      BY <1>2, <1>5
    <3> QED
      BY <3>1
  <2> DEFINE I == {n \in 0..K : L + 1 + n \in S}
  <2>7. 0 \in I
    <3>1. L + 1 + 0 = L + 1
      BY <1>2
    <3> QED
      BY <2>5, <3>1
  <2>8. ASSUME NEW n \in 1..K, n - 1 \in I  PROVE n \in I
    <3>1. PICK j : j = L + n
      OBVIOUS
    <3>2. j \in L + 1 .. r - 1 /\ j # r /\ j \in L + 1 .. r /\ j + 1 = L + 1 + n /\ j = L + 1 + (n - 1)
      BY <1>2, <2>6, <3>1
    <3>3. j \in S
      BY <2>8, <3>2
    <3>4. code'[j].link = j + 1
      BY <1>5, <3>2
    <3> QED
      BY <2>1, <3>2, <3>3, <3>4
  <2> HIDE DEF I
  <2>9. 0..K \subseteq I
    BY <2>7, <2>8, UpTo
  <2>10. CASE i \in L + 1 .. r
    <3>1. i - (L + 1) \in 0..K /\ i = L + 1 + (i - (L + 1))
      BY <1>2, <2>6, <2>10
    <3> QED
      BY <2>9, <3>1 DEF I
  <2> QED
    BY <1>2, <2>3, <2>10
<1>18. FallsRight'
  <2> SUFFICES ASSUME NEW i \in 1..r, Laid(i) \/ i \in L + 1 .. r, code'[i].as \notin Leaves
               PROVE  Means(text, code', IF i = r THEN p' ELSE code'[i].link,
                            Falls(text, code'[i]))
    BY <1>1, <1>5, <1>8 DEF FallsRight
  <2>1. CASE i \in L + 1 .. r
    <3>1. i # r => code'[i].link = i + 1
      BY <1>5, <1>7, <2>1
    <3>2. Means(text, code', IF i = r THEN p' ELSE i + 1, Falls(text, code'[i]))
      BY <1>6, <2>1 DEF Fitting
    <3> QED
      BY <3>1, <3>2
  <2>2. CASE i \notin L + 1 .. r
    <3>1. i \in 1..L /\ i # r /\ Laid(i)
      BY <1>2, <1>7, <2>2
    <3>2. Means(text, code, IF i = lastp THEN p ELSE code[i].link, Falls(text, code[i]))
      BY <1>3, <1>5, <3>1 DEF FallsRight, L
    <3>3. CASE i = lastp
      <4>1. Means(text, code, Target, Falls(text, code[i]))
        BY <1>4, <3>2, <3>3
      <4>2. Means(text, code', L + 1, Falls(text, code[i]))
        BY <4>1 DEF L
      <4> QED
        BY <1>5, <1>10, <3>1, <3>3, <4>2
    <3>4. CASE i # lastp
      <4>1. code'[i] = code[i] /\ Laid(code[i].link)
        BY <1>3, <1>5, <3>1, <3>4 DEF Chain, L
      <4>2. code[i].link \in 1..L
        BY <1>2, <4>1
      <4> QED
        BY <1>9, <1>10, <3>1, <3>2, <3>4, <4>1, <4>2
    <3> QED
      BY <3>3, <3>4
  <2> QED
    BY <2>1, <2>2
<1>19. JumpsRight'
  <2> SUFFICES ASSUME NEW i \in 1..r, Laid(i) \/ i \in L + 1 .. r,
                      code'[i].as \in Conditional \cup {"JAL"}
               PROVE  Leads(text, code', code'[i].cond, Jumps(text, code'[i]))
    BY <1>1, <1>5, <1>8 DEF JumpsRight
  <2>1. CASE i \in L + 1 .. r
    BY <1>6, <2>1 DEF Fitting
  <2>2. CASE i \notin L + 1 .. r
    <3>1. i \in 1..L /\ Laid(i)
      BY <1>7, <2>2
    <3>2. Leads(text, code, code[i].cond, Jumps(text, code[i]))
      BY <1>3, <1>5, <3>1 DEF JumpsRight, L
    <3>3. code[i].cond # None => code[i].cond \in 1..L
      BY <1>2, <3>1 DEF None
    <3> QED
      BY <1>5, <1>9, <1>10, <3>1, <3>2, <3>3 DEF Leads
  <2> QED
    BY <2>1, <2>2
<1>20. Landed'
  <2> SUFFICES ASSUME NEW i \in 1..r, Laid(i) \/ i \in L + 1 .. r,
                      NEW t, t = code'[i].cond, t # None, code'[i].as # "JAL"
               PROVE  Laid(t)' \/ Waits(t)'
    BY <1>5, <1>8 DEF Landed
  <2>1. CASE i \in L + 1 .. r
    BY <1>6, <1>11, <2>1 DEF Fitting
  <2>2. CASE i \notin L + 1 .. r
    <3>1. i \in 1..L /\ Laid(i) /\ t = code[i].cond /\ code[i].as # "JAL"
      BY <1>5, <1>7, <2>2
    <3>2. ~Dropped(text, t) /\ (Laid(t) \/ Waits(t))
      BY <1>3, <3>1 DEF Settled, Landed, L
    <3> QED
      BY <1>11, <3>2
  <2> QED
    BY <2>1, <2>2
<1> QED
  BY <1>12, <1>13, <1>14, <1>15, <1>16, <1>17, <1>18, <1>19, <1>20 DEF FollowInv

-----------------------------------------------------------------------------
LEMMA JumpBackFlow == IInv /\ FInv /\ JumpBack => FInv'
<1> SUFFICES ASSUME IInv, FInv, JumpBack, Plain(text)'
             PROVE  (phase = "follow" /\ FollowInv)'
  BY DEF FInv, FlowPreserved, JumpBack, AtMarked, Following
<1> DEFINE e == [as |-> "JMP", cond |-> Target, link |-> None, original |-> None]
           r == Len(code) + 1
           s == [code EXCEPT ![lastp].link = r]
<1>1. /\ AtMarked /\ phase = "follow"
      /\ code' = Append(s, e) /\ lastp' = r /\ foll' = MarkedJump /\ p' = None
      /\ UNCHANGED <<text, firstp, stack, phase>>
  BY DEF JumpBack, AtMarked, Following
<1>2. Plain(text) /\ FollowInv
  BY <1>1 DEF FInv
<1>3. /\ TypeOK /\ lastp \in 1..Len(code) /\ Target \in 1..Len(code) /\ Target \in Nat
  <2>1. TypeOK /\ lastp \in 1..Len(code) /\ Target \in 1..Len(code)
    BY <1>1, AtRound DEF AtMarked
  <2> QED
    BY <2>1
<1>4. code \in Seq(Node) /\ Len(code) \in Nat /\ r \in Nat /\ Len(text) \in Nat
  BY <1>3, Lens
<1>5. /\ s \in Seq(Node) /\ Len(s) = Len(code)
      /\ \A k \in 1..Len(code) : k # lastp => s[k] = code[k]
      /\ \A k \in 1..Len(code) : s[k].as = code[k].as /\ s[k].cond = code[k].cond
      /\ \A k \in 1..Len(code) : s[k].original = code[k].original
      /\ s[lastp].link = r
  <2> HIDE DEF r
  <2>1. s = [code EXCEPT ![lastp].link = r]
    OBVIOUS
  <2>2. code \in Seq(Node) /\ lastp \in 1..Len(code) /\ r \in Nat
    BY <1>3, <1>4
  <2> HIDE DEF s, e
  <2>3. PICK z \in Seq(Node) :
           /\ z = [code EXCEPT ![lastp].link = r] /\ Len(z) = Len(code)
           /\ \A k \in 1..Len(code) : k # lastp => z[k] = code[k]
           /\ \A k \in 1..Len(code) : z[k].as = code[k].as /\ z[k].cond = code[k].cond
           /\ \A k \in 1..Len(code) : z[k].original = code[k].original
           /\ z[lastp].link = r
    BY <2>2, Behind, Zenon
  <2> QED
    BY <2>1, <2>3
<1>6. e \in Node /\ e.as = "JMP" /\ e.cond = Target /\ e.link = None /\ e.original = None
  <2>1. Target \in Nat /\ None \in Nat /\ "JMP" \in Opcodes
    BY <1>3 DEF None, Opcodes, Leaves
  <2> HIDE DEF None, Target
  <2> QED
    BY <2>1 DEF Node
<1> HIDE DEF e, s
<1>7. /\ code' \in Seq(Node) /\ Len(code') = r
      /\ \A k \in 1..Len(code) : code'[k] = s[k]
      /\ code'[r] = e
  BY <1>1, <1>4, <1>5, <1>6
<1>8. /\ \A k \in 1..Len(code) : k # lastp => code'[k] = code[k]
      /\ \A k \in 1..Len(code) : code'[k].as = code[k].as /\ code'[k].cond = code[k].cond
      /\ \A k \in 1..Len(code) : code'[k].original = code[k].original
      /\ code'[lastp].link = Len(code) + 1
  BY <1>3, <1>5, <1>7
<1>9. Len(code) + 1 .. r = {r} /\ Len(code) < r /\ \A k \in Len(code) + 1 .. r - 1 : FALSE
  BY <1>4
<1>10. Extending(r)
  <2>1. foll' = Marked \cup (Len(code) + 1 .. r)
    BY <1>1, <1>9 DEF MarkedJump
  <2> QED
    BY <1>1, <1>4, <1>7, <1>8, <1>9, <2>1 DEF Extending
<1>11. /\ Target \in 1..Len(text) /\ Laid(Target)
       /\ code[Target].as = "JMP" => code[Target].cond = None
  BY <1>1, <1>2, AtBack
<1> HIDE DEF r
<1>12. Target # None /\ Target # Spin /\ Target <= Len(text)
  BY <1>4, <1>11 DEF None, Spin
<1>13. \A k \in Len(code) + 1 .. r : Fitting(k, r)
  <2>1. JumpsBack(code'[r])
    BY <1>6, <1>7, <1>12 DEF JumpsBack
  <2>2. ~Dropped(text, Target)
    BY <1>11 DEF Laid
  <2>3. "JMP" \in Leaves /\ "JMP" \notin Conditional \cup {"JAL"}
    BY DEF Leaves, Conditional
  <2> QED
    BY <1>6, <1>7, <1>9, <1>11, <1>12, <2>1, <2>2, <2>3 DEF Fitting
<1>14. ASSUME NEW o, Means(text, code, Target, o)
       PROVE  Means(text, code', Len(code) + 1, o)
  <2>1. code'[r].as = "JMP" /\ code'[r].cond = Target
    BY <1>6, <1>7
  <2>2. code'[Target].as = code[Target].as /\ code'[Target].original = code[Target].original
    BY <1>3, <1>8
  <2>3. CASE code[Target].as = "JMP"
    <3>1. Goes(code, Target) = Spin /\ Goes(code', r) = Spin
      BY <1>11, <2>1, <2>2, <2>3 DEF Goes
    <3> QED
      BY <1>14, <3>1 DEF Means, r
  <2>4. CASE code[Target].as # "JMP"
    <3>1. Goes(code, Target) = Target /\ Goes(code', r) = Target
      BY <1>12, <2>1, <2>2, <2>4 DEF Goes
    <3> QED
      BY <1>12, <1>14, <2>2, <3>1 DEF Means, r
  <2> QED
    BY <2>3, <2>4
<1>15. /\ p' \in 0..Len(text) /\ code'[r].as \in Leaves
       /\ Members(stack) = Members(stack')
  BY <1>1, <1>4, <1>6, <1>7 DEF None, Leaves
<1>16. FollowInv'
  BY <1>1, <1>2, <1>10, <1>13, <1>14, <1>15, ExtendFlow
<1> QED
  BY <1>1, <1>16

-----------------------------------------------------------------------------
(* The piece to be repeated is laid out, and linked up.                    *)
LEMMA PieceLaid ==
  ASSUME IInv, Plain(text), FollowInv, AtMarked,
         NEW n \in DOMAIN Piece(Target), FirstEnd(Piece(Target), n)
  PROVE  /\ n \in Nat /\ Piece(Target)[0] = Target
         /\ \A j \in 0..n : /\ Laid(Piece(Target)[j]) /\ Piece(Target)[j] \in 1..Len(code)
                            /\ Piece(Target)[j] # lastp
         /\ \A j \in 0 .. n - 1 : /\ code[Piece(Target)[j]].as \notin Leaves
                                  /\ code[Piece(Target)[j]].link = Piece(Target)[j + 1]
<1> DEFINE at == Piece(Target)
           S == {j \in 0..n : Laid(at[j])}
<1>1. TypeOK
  BY DEF IInv
<1>2. /\ Len(text) \in Nat /\ Len(code) \in Nat /\ Chain
      /\ \A i \in 1..Len(text) : i \in 1..Len(code)
      /\ \A i : Laid(i) => i \in 1..Len(code)
  BY <1>1, FlowFacts DEF FollowInv
<1>3. Laid(Target) /\ Target \in 0..Len(code)
  <2>1. Laid(Target)
    BY AtBack
  <2>2. Target \in 1..Len(code)
    BY <1>2, <2>1
  <2> QED
    BY <2>1, <2>2
<1>4. /\ DOMAIN at = 0 .. Len(code) + 1 /\ at[0] = Target
      /\ \A j \in 1 .. Len(code) + 1 :
           at[j] = IF at[j - 1] \in {None, lastp} THEN at[j - 1] ELSE code[at[j - 1]].link
  BY <1>1, <1>3, PieceIs
<1>5. n \in Nat /\ n <= Len(code) + 1
  BY <1>2, <1>4
<1>6. /\ \A j \in 0..n : at[j] # lastp
      /\ \A j \in 0 .. n - 1 : code[at[j]].as \notin Leaves
  BY DEF FirstEnd, Searched, Ends
<1> HIDE DEF at
<1>7. ASSUME NEW j \in 1..n, Laid(at[j - 1])
      PROVE  at[j] = code[at[j - 1]].link
  <2>1. j - 1 \in 0..n /\ j \in 1 .. Len(code) + 1
    BY <1>2, <1>5
  <2>2. at[j - 1] # lastp /\ at[j - 1] \in 1..Len(code)
    BY <1>2, <1>6, <1>7, <2>1
  <2>3. at[j - 1] # None
    BY <2>2 DEF None
  <2> QED
    BY <1>4, <2>1, <2>2, <2>3
<1>8. 0 \in S
  BY <1>3, <1>4, <1>5
<1>9. ASSUME NEW j \in 1..n, j - 1 \in S  PROVE j \in S
  <2>1. Laid(at[j - 1]) /\ j - 1 \in 0..n /\ j \in 0..n
    BY <1>5, <1>9
  <2>2. at[j] = code[at[j - 1]].link
    BY <1>7, <2>1
  <2>3. at[j - 1] # lastp /\ at[j - 1] \in 1..Len(code)
    BY <1>2, <1>6, <2>1
  <2>4. Laid(code[at[j - 1]].link)
    BY <1>2, <2>1, <2>3 DEF Chain
  <2> QED
    BY <2>1, <2>2, <2>4
<1> HIDE DEF S
<1>10. 0..n \subseteq S
  BY <1>5, <1>8, <1>9, UpTo
<1>11. \A j \in 0..n : Laid(at[j])
  BY <1>10 DEF S
<1>12. ASSUME NEW j \in 0 .. n - 1  PROVE code[at[j]].link = at[j + 1]
  <2>1. j + 1 \in 1..n /\ j + 1 - 1 = j /\ j \in 0..n
    BY <1>5
  <2> QED
    BY <1>7, <1>11, <2>1
<1> QED
  BY <1>2, <1>4, <1>5, <1>6, <1>11, <1>12 DEF at

(* A copy of something laid out fits in.                                   *)
LEMMA CopyFits ==
  ASSUME IInv, Plain(text), FollowInv, NEW r, Extending(r), NEW q, Laid(q), NEW k,
         code'[k].as = code[q].as, code'[k].cond = code[q].cond,
         code'[k].original = code[q].original,
         code[q].as \notin Leaves =>
           Means(text, code', IF k = r THEN p' ELSE k + 1, Falls(text, code[q]))
  PROVE  Fitting(k, r)
<1>1. TypeOK
  BY DEF IInv
<1>2. /\ Len(text) \in Nat /\ Len(code) \in Nat /\ q \in 1..Len(code) /\ q # Anchor
      /\ Anchor = Len(text) + 1
      /\ \A i \in 1..Len(code) : code[i].cond \in 0..Len(code)
  BY <1>1, FlowFacts
<1>3. OfText /\ Added /\ Settled /\ JumpsRight /\ Landed
  BY DEF FollowInv
<1>4. JumpsBack(code'[k]) \/ Repeats(text, code'[k])
  <2>1. CASE q \in 1..Len(text)
    <3>1. code[q].as = text[q].as /\ code[q].original = q /\ code[q].cond = Resolved(text, q)
      BY <1>3, <2>1 DEF OfText
    <3>2. code[q].as = "JMP" => Resolved(text, q) = None
      BY <2>1, <3>1 DEF Laid, Dropped
    <3> QED
      BY <2>1, <3>1, <3>2 DEF Repeats
  <2>2. CASE q \notin 1..Len(text)
    <3>1. q \in Anchor + 1 .. Len(code)
      BY <1>2, <2>2
    <3>2. JumpsBack(code[q]) \/ Repeats(text, code[q])
      BY <1>3, <3>1 DEF Added
    <3> QED
      BY <3>2 DEF JumpsBack, Repeats
  <2> QED
    BY <2>1, <2>2
<1>5. code[q].cond # None =>
        /\ ~Dropped(text, code[q].cond)
        /\ code[q].as = "JMP" => code[q].cond <= Len(text)
        /\ code[q].as # "JAL" => Laid(code[q].cond) \/ Waits(code[q].cond)
  BY <1>2, <1>3 DEF Settled, Landed
<1>6. /\ Falls(text, code'[k]) = Falls(text, code[q])
      /\ Jumps(text, code'[k]) = Jumps(text, code[q])
  BY DEF Falls, Jumps
<1>7. ASSUME code[q].as \in Conditional \cup {"JAL"}
      PROVE  Leads(text, code', code[q].cond, Jumps(text, code[q]))
  <2>1. Leads(text, code, code[q].cond, Jumps(text, code[q]))
    BY <1>2, <1>3, <1>7 DEF JumpsRight
  <2>2. \A i \in 1..Len(code) : \A o : Means(text, code', i, o) <=> Means(text, code, i, o)
    <3>1. \A i \in 1..Len(code) : /\ code'[i].as = code[i].as /\ code'[i].cond = code[i].cond
                                  /\ code'[i].original = code[i].original
                                  /\ code[i].cond \in 0..Len(code)
      BY <1>2 DEF Extending
    <3> QED
      BY <1>2, <3>1, StillMeans
  <2>3. code[q].cond # None => code[q].cond \in 1..Len(code)
    BY <1>2 DEF None
  <2> QED
    BY <2>1, <2>2, <2>3 DEF Leads
<1> QED
  BY <1>4, <1>5, <1>6, <1>7 DEF Fitting

(* The instructions of code' behind those of code repeat the piece; the    *)
(* last one may be inverted.                                               *)
Copying(at, n) ==
  /\ Extending(Len(code) + n + 1)
  /\ \A j \in 0 .. n - 1 : /\ code'[Len(code) + j + 1].as = code[at[j]].as
                           /\ code'[Len(code) + j + 1].cond = code[at[j]].cond
  /\ \A j \in 0..n : code'[Len(code) + j + 1].original = code[at[j]].original
  /\ LET r == code'[Len(code) + n + 1]
     IN \/ r.as = code[at[n]].as /\ r.cond = code[at[n]].cond
        \/ r.as # "JMP" /\ code[at[n]].as # "JMP"

LEMMA CopyingFits ==
  ASSUME IInv, Plain(text), FollowInv, AtMarked,
         NEW n \in DOMAIN Piece(Target), FirstEnd(Piece(Target), n), Copying(Piece(Target), n),
         NEW r, r = Len(code) + n + 1
  PROVE  /\ \A k \in Len(code) + 1 .. r : k # r => Fitting(k, r)
         /\ \A o : Means(text, code, Target, o) => Means(text, code', Len(code) + 1, o)
<1> DEFINE at == Piece(Target)
           L == Len(code)
<1>1. /\ n \in Nat /\ at[0] = Target
      /\ \A j \in 0..n : Laid(at[j]) /\ at[j] \in 1..L /\ at[j] # lastp
      /\ \A j \in 0 .. n - 1 : code[at[j]].as \notin Leaves /\ code[at[j]].link = at[j + 1]
  BY PieceLaid
<1>2. /\ Extending(r) /\ r = L + n + 1
      /\ \A j \in 0 .. n - 1 : /\ code'[L + j + 1].as = code[at[j]].as
                               /\ code'[L + j + 1].cond = code[at[j]].cond
      /\ \A j \in 0..n : code'[L + j + 1].original = code[at[j]].original
      /\ \/ code'[L + n + 1].as = code[at[n]].as /\ code'[L + n + 1].cond = code[at[n]].cond
         \/ code'[L + n + 1].as # "JMP" /\ code[at[n]].as # "JMP"
  BY DEF Copying
<1>3. /\ L \in Nat /\ FallsRight
      /\ \A i \in 1..L : code[i].cond \in 0..L
  <2>1. TypeOK /\ FallsRight
    BY DEF IInv, FollowInv
  <2> QED
    BY <2>1, FlowFacts
<1>4. \A i \in 1..L : /\ code'[i].as = code[i].as /\ code'[i].cond = code[i].cond
                      /\ code'[i].original = code[i].original
                      /\ code[i].cond \in 0..L
  BY <1>2, <1>3 DEF Extending
<1> HIDE DEF at
<1>5. ASSUME NEW j \in 0..n, NEW o, Means(text, code, at[j], o), NEW k, k = L + j + 1
      PROVE  Means(text, code', k, o)
  <2>1. PICK a, c : a = at[j] /\ c = code'
    OBVIOUS
  <2>2. a \in 1..L /\ k \in Nat /\ c[k].original = code[a].original
    BY <1>1, <1>2, <1>3, <1>5, <2>1
  <2>3. \/ code[a].as # "JMP" /\ c[k].as # "JMP"
        \/ c[k].as = code[a].as /\ c[k].cond = code[a].cond
    <3>1. CASE j = n
      BY <1>2, <1>5, <2>1, <3>1
    <3>2. CASE j # n
      <4>1. j \in 0 .. n - 1
        BY <1>1, <3>2
      <4> QED
        BY <1>2, <1>5, <2>1, <4>1
    <3> QED
      BY <3>1, <3>2
  <2> HIDE DEF L
  <2>4. L \in Nat /\ Means(text, code, a, o)
    BY <1>3, <1>5, <2>1
  <2>5. \A i \in 1..L : /\ c[i].as = code[i].as /\ c[i].cond = code[i].cond
                        /\ c[i].original = code[i].original
                        /\ code[i].cond \in 0..L
    BY <1>4, <2>1
  <2>6. Means(text, c, k, o)
    BY <2>2, <2>3, <2>4, <2>5, Mirrors
  <2> QED
    BY <2>1, <2>6
<1>6. ASSUME NEW k \in L + 1 .. r, k # r  PROVE Fitting(k, r)
  <2>1. PICK j \in 0 .. n - 1 : k = L + j + 1
    <3>1. k - L - 1 \in 0 .. n - 1 /\ k = L + (k - L - 1) + 1
      BY <1>1, <1>2, <1>3, <1>6
    <3> QED
      BY <3>1
  <2>2. j \in 0..n /\ j + 1 \in 0..n /\ k + 1 = L + (j + 1) + 1
    BY <1>1, <1>3, <2>1
  <2>3. PICK q : q = at[j]
    OBVIOUS
  <2>4. /\ Laid(q) /\ q \in 1..L /\ q # lastp /\ code[q].as \notin Leaves /\ code[q].link = at[j + 1]
        /\ code'[k].as = code[q].as /\ code'[k].cond = code[q].cond
        /\ code'[k].original = code[q].original
    BY <1>1, <1>2, <2>1, <2>2, <2>3
  <2>5. Means(text, code, at[j + 1], Falls(text, code[q]))
    BY <1>3, <2>4 DEF FallsRight
  <2>6. Means(text, code', k + 1, Falls(text, code[q]))
    BY <1>5, <2>2, <2>5
  <2> QED
    BY <1>2, <1>6, <2>4, <2>6, CopyFits
<1>7. ASSUME NEW o, Means(text, code, Target, o)  PROVE Means(text, code', L + 1, o)
  <2>1. 0 \in 0..n /\ L + 1 = L + 0 + 1
    BY <1>1, <1>3
  <2> QED
    BY <1>1, <1>5, <1>7, <2>1
<1> QED
  BY <1>6, <1>7

-----------------------------------------------------------------------------
(* c is the program with the copy of a piece.                              *)
IsCopy(c, at, n) ==
  /\ c \in Seq(Node) /\ Len(c) = Len(code) + n + 1
  /\ \A k \in 1..Len(code) : k # lastp => c[k] = code[k]
  /\ \A k \in 1..Len(code) : c[k].as = code[k].as /\ c[k].cond = code[k].cond
  /\ \A k \in 1..Len(code) : c[k].original = code[k].original
  /\ c[lastp].link = Len(code) + 1
  /\ \A j \in 0..n : /\ c[Len(code) + j + 1].as = code[at[j]].as
                     /\ c[Len(code) + j + 1].cond = code[at[j]].cond
                     /\ c[Len(code) + j + 1].original = code[at[j]].original
  /\ \A k \in Len(code) + 1 .. Len(code) + n : c[k].link = k + 1

LEMMA CopyIs ==
  ASSUME TypeOK, lastp \in 1..Len(code), NEW n \in Nat, NEW at,
         \A j \in 0..n : at[j] \in 1..Len(code), NEW c, c = WithCopy(at, n)
  PROVE  IsCopy(c, at, n)
<1> DEFINE L == Len(code)
<1>1. L \in Nat
  BY Lens
<1>2. /\ c \in Seq(Node) /\ Len(c) = L + n + 1
      /\ \A k \in 1..L : k # lastp => c[k] = code[k]
      /\ \A k \in 1..L : c[k].as = code[k].as /\ c[k].cond = code[k].cond
      /\ \A k \in 1..L : c[k].original = code[k].original
      /\ c[lastp].link = L + 1
  BY WithCopyIs
<1>3. \A k \in 1 .. n + 1 : /\ c[L + k].as = code[at[k - 1]].as
                            /\ c[L + k].cond = code[at[k - 1]].cond
  BY WithCopyIs
<1>4. \A k \in 1 .. n + 1 : c[L + k].original = code[at[k - 1]].original
  BY WithCopyIs
<1>5. \A k \in L + 1 .. L + n + 1 : k # L + n + 1 => c[k].link = k + 1
  BY CopyLinked
<1> HIDE DEF L
<1>6. ASSUME NEW j \in 0..n
      PROVE  /\ c[L + j + 1].as = code[at[j]].as /\ c[L + j + 1].cond = code[at[j]].cond
             /\ c[L + j + 1].original = code[at[j]].original
  <2>1. j + 1 \in 1 .. n + 1 /\ L + (j + 1) = L + j + 1 /\ j + 1 - 1 = j
    BY <1>1
  <2> QED
    BY <1>3, <1>4, <2>1
<1>7. \A k \in L + 1 .. L + n : k \in L + 1 .. L + n + 1 /\ k # L + n + 1
  BY <1>1
<1> QED
  BY <1>2, <1>5, <1>6, <1>7 DEF L, IsCopy

LEMMA CopyToEndFlow == IInv /\ FInv /\ CopyToEnd => FInv'
<1> SUFFICES ASSUME IInv, FInv, CopyToEnd, Plain(text)'
             PROVE  (phase = "follow" /\ FollowInv)'
  BY DEF FInv, FlowPreserved, CopyToEnd, AtMarked, Following
<1> DEFINE at == Piece(Target)
           L == Len(code)
<1>1. PICK n \in DOMAIN at :
         /\ FirstEnd(at, n) /\ code[at[n]].as \in Leaves
         /\ code' = WithCopy(at, n)
         /\ lastp' = L + n + 1
         /\ foll' = Marked \cup (L + 1 .. L + n + 1)
  BY DEF CopyToEnd
<1>2. /\ AtMarked /\ phase = "follow" /\ p' = None /\ UNCHANGED <<text, firstp, stack, phase>>
  BY DEF CopyToEnd, AtMarked, Following
<1>3. Plain(text) /\ FollowInv
  BY <1>2 DEF FInv
<1>4. TypeOK /\ lastp \in 1..L
  BY <1>2, AtRound DEF AtMarked
<1>5. L \in Nat /\ Len(text) \in Nat
  BY <1>4, Lens
<1>6. /\ n \in Nat
      /\ \A j \in 0..n : Laid(at[j]) /\ at[j] \in 1..L /\ at[j] # lastp
  BY <1>1, <1>2, <1>3, PieceLaid
<1> HIDE DEF at
<1>7. PICK c : c = WithCopy(at, n) /\ code' = c
  BY <1>1
<1>8. /\ c \in Seq(Node) /\ Len(c) = L + n + 1
      /\ \A k \in 1..L : k # lastp => c[k] = code[k]
      /\ \A k \in 1..L : c[k].as = code[k].as /\ c[k].cond = code[k].cond
      /\ \A k \in 1..L : c[k].original = code[k].original
      /\ c[lastp].link = L + 1
      /\ \A j \in 0..n : /\ c[L + j + 1].as = code[at[j]].as
                         /\ c[L + j + 1].cond = code[at[j]].cond
                         /\ c[L + j + 1].original = code[at[j]].original
      /\ \A k \in L + 1 .. L + n : c[k].link = k + 1
  <2>1. IsCopy(c, at, n)
    BY <1>4, <1>6, <1>7, CopyIs
  <2> QED
    BY <2>1 DEF IsCopy
<1>9. PICK r : r = L + n + 1
  OBVIOUS
<1>10. r \in Nat /\ L < r /\ r - 1 = L + n /\ r \in L + 1 .. r /\ n \in 0..n
       /\ \A j \in 0 .. n - 1 : j \in 0..n
  BY <1>5, <1>6, <1>9
<1>11. Extending(r)
  BY <1>1, <1>2, <1>7, <1>8, <1>9, <1>10 DEF Extending
<1>12. Copying(at, n)
  BY <1>7, <1>8, <1>9, <1>10, <1>11 DEF Copying
<1>13. /\ \A k \in L + 1 .. r : k # r => Fitting(k, r)
       /\ \A o : Means(text, code, Target, o) => Means(text, code', L + 1, o)
  BY <1>1, <1>2, <1>3, <1>9, <1>12, CopyingFits DEF at
<1>14. PICK q : q = at[n]
  OBVIOUS
<1>15. /\ Laid(q) /\ code[q].as \in Leaves
       /\ code'[r].as = code[q].as /\ code'[r].cond = code[q].cond
       /\ code'[r].original = code[q].original
  BY <1>1, <1>6, <1>7, <1>8, <1>9, <1>10, <1>14
<1>16. Fitting(r, r)
  BY <1>3, <1>11, <1>15, CopyFits
<1>17. p' \in 0..Len(text) /\ code'[r].as \in Leaves /\ Members(stack) = Members(stack')
  BY <1>2, <1>5, <1>15 DEF None
<1>18. FollowInv'
  BY <1>2, <1>3, <1>11, <1>13, <1>16, <1>17, ExtendFlow
<1> QED
  BY <1>2, <1>18

LEMMA CopyInvertedFlow == IInv /\ FInv /\ CopyInverted => FInv'
<1> SUFFICES ASSUME IInv, FInv, CopyInverted, Plain(text)'
             PROVE  (phase = "follow" /\ FollowInv)'
  BY DEF FInv, FlowPreserved, CopyInverted, AtMarked, Following
<1> DEFINE at == Piece(Target)
           L == Len(code)
<1>1. PICK n \in DOMAIN at :
         LET r      == L + n + 1
             copied == [WithCopy(at, n) EXCEPT ![r] = Inverted(@, code[at[n]])]
         IN /\ FirstEnd(at, n) /\ Invertible(at[n])
            /\ code' = copied
            /\ lastp' = r
            /\ foll' = Marked \cup (L + 1 .. r)
            /\ stack' = <<[after |-> "copy", at |-> r]>> \o stack
            /\ p' = IF copied[r].link \in Marked THEN None ELSE copied[r].link
  BY DEF CopyInverted
<1>2. /\ AtMarked /\ phase = "follow" /\ UNCHANGED <<text, firstp, phase>>
  BY DEF CopyInverted, AtMarked, Following
<1>3. Plain(text) /\ FollowInv
  BY <1>2 DEF FInv
<1>4. TypeOK /\ lastp \in 1..L /\ foll \subseteq Marked
  BY <1>2, AtRound DEF AtMarked
<1>5. /\ L \in Nat /\ Len(text) \in Nat /\ Anchor = Len(text) + 1
      /\ \A i \in 1..L : code[i].cond \in 0..L /\ code[i].link \in 0..L
      /\ \A i : Laid(i) => i \in 1..L /\ i # Anchor
      /\ stack \in Seq(Frame)
  BY <1>3, <1>4, FlowFacts DEF TypeOK
<1>6. /\ n \in Nat
      /\ \A j \in 0..n : Laid(at[j]) /\ at[j] \in 1..L /\ at[j] # lastp
  BY <1>1, <1>2, <1>3, PieceLaid
<1>7. PICK c : c = WithCopy(at, n)
  OBVIOUS
<1>8. PICK r : r = L + n + 1
  OBVIOUS
<1>9. PICK q : q = at[n]
  OBVIOUS
<1> DEFINE d == Inverted(c[r], code[q])
           f == [after |-> "copy", at |-> r]
<1>10. /\ code' = [c EXCEPT ![r] = d]
       /\ lastp' = r /\ foll' = Marked \cup (L + 1 .. r)
       /\ stack' = <<f>> \o stack
       /\ p' = IF code'[r].link \in Marked THEN None ELSE code'[r].link
       /\ Invertible(q)
  BY <1>1, <1>7, <1>8, <1>9
<1> HIDE DEF at, d, f
<1>11. /\ c \in Seq(Node) /\ Len(c) = L + n + 1
       /\ \A k \in 1..L : k # lastp => c[k] = code[k]
       /\ \A k \in 1..L : c[k].as = code[k].as /\ c[k].cond = code[k].cond
       /\ \A k \in 1..L : c[k].original = code[k].original
       /\ c[lastp].link = L + 1
       /\ \A j \in 0..n : /\ c[L + j + 1].as = code[at[j]].as
                          /\ c[L + j + 1].cond = code[at[j]].cond
                          /\ c[L + j + 1].original = code[at[j]].original
       /\ \A k \in L + 1 .. L + n : c[k].link = k + 1
  <2>1. IsCopy(c, at, n)
    BY <1>4, <1>6, <1>7, CopyIs
  <2> QED
    BY <2>1 DEF IsCopy
<1>12. /\ r \in Nat /\ L < r /\ r - 1 = L + n /\ r \in L + 1 .. r /\ r \in 1..r /\ n \in 0..n
       /\ \A j \in 0 .. n - 1 : j \in 0..n /\ L + j + 1 \in 1..r /\ L + j + 1 # r
       /\ \A k \in 1..L : k \in 1..r /\ k # r
       /\ \A k \in L + 1 .. L + n : k \in 1..r /\ k # r
       /\ L + n + 1 = r
  BY <1>5, <1>6, <1>8
<1>13. /\ Laid(q) /\ q \in 1..L /\ q # lastp
       /\ code[q].as \in Conditional /\ code[q].cond # None /\ code[q].cond \notin Marked
       /\ Laid(code[q].link) /\ code[q].link \in 1..L
  <2>1. Laid(q) /\ q \in 1..L /\ q # lastp
    BY <1>6, <1>9, <1>12
  <2>2. Laid(code[q].link)
    BY <1>3, <2>1 DEF FollowInv, Chain
  <2> QED
    BY <1>5, <1>10, <2>1, <2>2 DEF Invertible
<1>14. /\ d \in Node /\ d.as = relinv(code[q].as)
       /\ d.cond = code[q].link /\ d.link = code[q].cond /\ d.original = code[q].original
  <2>1. c[r] \in Node /\ c[r].original = code[q].original
    <3>1. c[r] \in Node
      BY <1>11, <1>12, ElementOfSeq
    <3>2. c[L + n + 1].original = code[at[n]].original
      BY <1>11, <1>12
    <3> QED
      BY <1>8, <1>9, <3>1, <3>2
  <2>2. code[q].link \in Nat /\ code[q].cond \in Nat
    BY <1>5, <1>13
  <2>3. relinv(code[q].as) \in Opcodes
    BY DEF relinv, Opcodes, Conditional
  <2> DEFINE a == relinv(code[q].as)
             l == code[q].cond
             t == code[q].link
             e == c[r]
  <2>4. d = [e EXCEPT !.as = a, !.cond = t, !.link = l]
    BY DEF Inverted, d
  <2>5. a \in Opcodes /\ l \in Nat /\ t \in Nat /\ e \in Node /\ e.original = code[q].original
    BY <2>1, <2>2, <2>3
  <2> HIDE DEF a, l, t, e
  <2>6. d \in Node /\ d.as = a /\ d.cond = t /\ d.link = l /\ d.original = e.original
    BY <2>4, <2>5 DEF Node
  <2> QED
    BY <2>5, <2>6 DEF a, t, l
<1>15. /\ code' \in Seq(Node) /\ Len(code') = r
       /\ \A k \in 1..r : code'[k] = IF k = r THEN d ELSE c[k]
  BY <1>8, <1>10, <1>11, <1>12, <1>14, ExceptSeq
<1>16. /\ \A k \in 1..L : code'[k] = c[k]
       /\ \A k \in L + 1 .. L + n : code'[k] = c[k]
       /\ \A j \in 0 .. n - 1 : code'[L + j + 1] = c[L + j + 1]
       /\ code'[r] = d
  BY <1>12, <1>15
<1>17. Extending(r)
  <2>1. /\ \A k \in 1..L : k # lastp => code'[k] = code[k]
        /\ \A k \in 1..L : code'[k].as = code[k].as /\ code'[k].cond = code[k].cond
        /\ \A k \in 1..L : code'[k].original = code[k].original
        /\ code'[lastp].link = L + 1
        /\ \A k \in L + 1 .. L + n : code'[k].link = k + 1
    BY <1>4, <1>11, <1>16
  <2> QED
    BY <1>2, <1>10, <1>12, <1>15, <2>1 DEF Extending
<1>18. /\ relinv(code[q].as) \in Conditional /\ relinv(code[q].as) # code[q].as
       /\ relinv(relinv(code[q].as)) = code[q].as
       /\ code[q].as \notin Leaves \cup {"JMP", "JAL"}
       /\ relinv(code[q].as) \notin Leaves \cup {"JMP", "JAL"}
  BY <1>13 DEF relinv, Conditional, Leaves
<1>19. Copying(at, n)
  <2>1. /\ \A j \in 0 .. n - 1 : /\ code'[L + j + 1].as = code[at[j]].as
                                 /\ code'[L + j + 1].cond = code[at[j]].cond
                                 /\ code'[L + j + 1].original = code[at[j]].original
    BY <1>11, <1>12, <1>16
  <2>2. \A j \in 0..n : j = n \/ j \in 0 .. n - 1
    BY <1>6
  <2>3. \A j \in 0..n : code'[L + j + 1].original = code[at[j]].original
    BY <1>8, <1>9, <1>14, <1>16, <2>1, <2>2
  <2>4. code'[L + n + 1].as # "JMP" /\ code[at[n]].as # "JMP"
    BY <1>8, <1>9, <1>14, <1>16, <1>18
  <2> QED
    BY <1>8, <1>17, <2>1, <2>3, <2>4 DEF Copying
<1>20. /\ \A k \in L + 1 .. r : k # r => Fitting(k, r)
       /\ \A o : Means(text, code, Target, o) => Means(text, code', L + 1, o)
  BY <1>1, <1>2, <1>3, <1>8, <1>19, CopyingFits DEF at
<1>21. /\ OfText /\ Added /\ Settled /\ Pointers /\ FallsRight /\ JumpsRight /\ Landed
  BY <1>3 DEF FollowInv
<1>22. \A i \in 1..L : \A o : Means(text, code', i, o) <=> Means(text, code, i, o)
  <2>1. \A i \in 1..L : /\ code'[i].as = code[i].as /\ code'[i].cond = code[i].cond
                        /\ code'[i].original = code[i].original
                        /\ code[i].cond \in 0..L
    BY <1>5, <1>17 DEF Extending
  <2> QED
    BY <1>5, <2>1, StillMeans
<1>23. Repeats(text, code[q])
  <2>1. CASE q \in 1..Len(text)
    <3>1. code[q].as = text[q].as /\ code[q].original = q
      BY <1>21, <2>1 DEF OfText
    <3> QED
      BY <1>18, <2>1, <3>1 DEF Repeats
  <2>2. CASE q \notin 1..Len(text)
    <3>1. q \in Anchor + 1 .. L
      BY <1>5, <1>13, <2>2
    <3>2. JumpsBack(code[q]) \/ Repeats(text, code[q])
      BY <1>21, <3>1 DEF Added
    <3> QED
      BY <1>18, <3>2 DEF JumpsBack
  <2> QED
    BY <2>1, <2>2
<1>24. /\ Repeats(text, code'[r])
       /\ Falls(text, code'[r]) = Jumps(text, code[q])
       /\ Jumps(text, code'[r]) = Falls(text, code[q])
  <2>1. CASE code[q].as = text[code[q].original].as
    <3>1. /\ text[d.original].as \in Conditional /\ d.as = relinv(text[d.original].as)
          /\ d.as # text[d.original].as /\ d.original \in 1..Len(text)
      BY <1>13, <1>14, <1>18, <1>23, <2>1 DEF Repeats
    <3> QED
      BY <1>14, <1>16, <1>18, <2>1, <3>1 DEF Repeats, Falls, Jumps
  <2>2. CASE code[q].as # text[code[q].original].as
    <3>1. /\ text[code[q].original].as \in Conditional
          /\ code[q].as = relinv(text[code[q].original].as)
          /\ d.original \in 1..Len(text)
      BY <1>14, <1>23, <2>2 DEF Repeats
    <3>2. relinv(relinv(text[code[q].original].as)) = text[code[q].original].as
      BY <3>1 DEF relinv, Conditional
    <3>3. d.as = text[d.original].as
      BY <1>14, <3>1, <3>2
    <3> QED
      BY <1>14, <1>16, <1>18, <2>2, <3>1, <3>3 DEF Repeats, Falls, Jumps
  <2> QED
    BY <2>1, <2>2
<1>25. code[q].cond \in 1..Len(text)
  <2>1. code[q].cond \notin foll /\ code[q].cond \in 1..L
    BY <1>4, <1>5, <1>13 DEF None
  <2>2. code[q].cond # Anchor
    <3>1. Waits(code[q].cond)
      BY <1>13, <1>18, <1>21, <2>1 DEF Landed, Laid
    <3>2. CASE code[q].cond = p
      BY <1>5, <1>21, <3>2 DEF Pointers
    <3>3. CASE code[q].cond # p
      <4>1. PICK k \in DOMAIN stack :
              stack[k].after = "branch" /\ code[stack[k].at].cond = code[q].cond
        BY <3>1, <3>3 DEF Waits
      <4>2. stack[k].at \in 1..Len(text)
        <5>1. stack[k].at <= Len(text) /\ stack[k].at \in 1..L
          BY <1>5, <1>21, <4>1 DEF Pointers
        <5> QED
          BY <1>5, <5>1
      <4>3. code[q].cond = Resolved(text, stack[k].at)
        BY <1>21, <4>1, <4>2 DEF OfText
      <4>4. Resolved(text, stack[k].at) \in 0..Len(text)
        BY <1>3, <1>4, <4>2, ResolvedIs DEF TypeOK
      <4> QED
        BY <1>5, <4>3, <4>4
    <3> QED
      BY <3>2, <3>3
  <2>3. code[q].cond \notin Anchor + 1 .. L
    BY <1>21, <2>1 DEF Added
  <2>4. PICK t, m : t = code[q].cond /\ m = Anchor
    OBVIOUS
  <2>5. t \in 1..L /\ t # m /\ t \notin m + 1 .. L /\ m = Len(text) + 1
    BY <1>5, <2>1, <2>2, <2>3, <2>4
  <2>6. t \in 1..Len(text)
    BY <1>5, <2>5
  <2> QED
    BY <2>4, <2>6
<1>26. p' = code[q].cond /\ p' # None /\ p' \in 0..Len(text)
  BY <1>10, <1>13, <1>14, <1>16, <1>25
<1>27. Fitting(r, r)
  <2>1. code[q].link # None /\ ~Dropped(text, code[q].link)
    BY <1>13 DEF None, Laid
  <2>2. Means(text, code', p', Falls(text, code'[r]))
    <3>1. Leads(text, code, code[q].cond, Jumps(text, code[q]))
      BY <1>13, <1>21 DEF JumpsRight
    <3>2. Means(text, code, code[q].cond, Jumps(text, code[q]))
      BY <1>13, <3>1 DEF Leads
    <3>3. code[q].cond \in 1..L
      BY <1>5, <1>13 DEF None
    <3> QED
      BY <1>22, <1>24, <1>26, <3>2, <3>3
  <2>3. Leads(text, code', code[q].link, Jumps(text, code'[r]))
    <3>1. Means(text, code, code[q].link, Falls(text, code[q]))
      BY <1>13, <1>18, <1>21 DEF FallsRight
    <3> QED
      BY <1>13, <1>22, <1>24, <2>1, <3>1 DEF Leads
  <2> QED
    BY <1>13, <1>14, <1>16, <1>18, <1>24, <2>1, <2>2, <2>3 DEF Fitting
<1>28. f \in Frame /\ f.after = "copy"
  BY <1>12 DEF f, Frame
<1>29. Members(stack') = Members(stack) \cup {f}
  BY <1>5, <1>10, <1>28, PushedAll
<1>30. FollowInv'
  <2>1. \A k \in L + 1 .. r : Fitting(k, r)
    BY <1>20, <1>27
  <2> QED
    BY <1>2, <1>3, <1>17, <1>20, <1>26, <1>28, <1>29, <2>1, ExtendFlow
<1> QED
  BY <1>2, <1>30

-----------------------------------------------------------------------------
(* What follow ends with.                                                  *)
LEMMA AtEnd ==
  ASSUME IInv, Plain(text), FollowInv, EndFollow
  PROVE  /\ UNCHANGED text /\ firstp' = code[Anchor].link
         /\ Len(code') = Len(code) /\ DOMAIN code' = 1..Len(code)
         /\ \A k \in 1..Len(code) : k # lastp => code'[k] = code[k]
         /\ \A k \in 1..Len(code) : code'[k].as = code[k].as /\ code'[k].cond = code[k].cond
         /\ \A k \in 1..Len(code) : code'[k].original = code[k].original
         /\ code'[lastp].link = None
         /\ Laid(lastp) /\ lastp \in 1..Len(code) /\ lastp # Anchor /\ Laid(1)
         /\ code[lastp].as \in Leaves
         /\ \A i : Laid(i) /\ code[i].cond # None /\ code[i].as # "JAL" => Laid(code[i].cond)
<1>1. /\ TypeOK /\ p = None /\ stack = <<>> /\ firstp' = code[firstp].link
      /\ code' = [code EXCEPT ![lastp].link = None] /\ UNCHANGED text
  BY DEF IInv, EndFollow
<1>2. /\ Added /\ Pointers /\ Landed
      /\ code \in Seq(Node) /\ \A i : Laid(i) => i \in 1..Len(code) /\ i # Anchor
  BY <1>1, FlowFacts DEF FollowInv
<1>3. /\ Laid(lastp) /\ lastp \in 1..Len(code) /\ lastp # Anchor /\ Laid(1)
      /\ code[lastp].as \in Leaves
  <2>1. p # 1
    BY <1>1 DEF None
  <2> QED
    BY <1>1, <1>2, <2>1 DEF Pointers
<1>4. /\ Len(code') = Len(code) /\ DOMAIN code' = 1..Len(code)
      /\ \A k \in 1..Len(code) : k # lastp => code'[k] = code[k]
      /\ \A k \in 1..Len(code) : code'[k].as = code[k].as /\ code'[k].cond = code[k].cond
      /\ \A k \in 1..Len(code) : code'[k].original = code[k].original
      /\ code'[lastp].link = None
  <2>1. None \in Nat /\ lastp \in 1..Len(code) /\ code \in Seq(Node)
    BY <1>2, <1>3 DEF None
  <2>2. code' = [code EXCEPT ![lastp].link = None]
    BY <1>1
  <2> HIDE DEF None
  <2> QED
    BY SMTT(30), <2>1, <2>2, Relinked
<1>5. ASSUME NEW i, Laid(i), code[i].cond # None, code[i].as # "JAL"
      PROVE  Laid(code[i].cond)
  <2>1. ~Waits(code[i].cond)
    <3>1. DOMAIN stack = {}
      BY <1>1
    <3> QED
      BY <1>1, <1>5, <3>1 DEF Waits
  <2> QED
    BY <1>2, <1>5, <2>1 DEF Landed
<1> QED
  BY <1>1, <1>2, <1>3, <1>4, <1>5 DEF Added

(* The new order holds what is laid out, and nothing else.                 *)
LEMMA EndOrder ==
  ASSUME IInv, Plain(text), FollowInv, EndFollow
  PROVE  \A i : i \in LaidOut' <=> Laid(i)
<1> DEFINE L == Len(code)
           D == DOMAIN code' \cup {None}
           next == [q \in D |-> IF q = None THEN None ELSE code'[q].link]
           order == Iterated(next, firstp')
           K == Cardinality(D)
<1>1. /\ firstp' = code[Anchor].link /\ DOMAIN code' = 1..L
      /\ \A k \in 1..L : k # lastp => code'[k] = code[k]
      /\ code'[lastp].link = None
      /\ Laid(lastp) /\ lastp \in 1..L /\ lastp # Anchor
  BY AtEnd
<1>2. TypeOK /\ Chain /\ Connected
  BY DEF IInv, FollowInv
<1>3. /\ L \in Nat /\ Anchor \in 1..L
      /\ \A i : Laid(i) => i \in 1..L /\ i # Anchor
      /\ \A i \in 1..L : code[i].link \in 0..L
  BY <1>2, FlowFacts
<1>4. LaidOut' = {order[n] : n \in DOMAIN order} \ {None}
  BY DEF LaidOut, Layout
<1>5. D = 0..L /\ IsFiniteSet(D) /\ K = L + 1
  BY <1>1, <1>3, Places
<1>6. /\ \A q \in D : next[q] = IF q = None THEN None ELSE code'[q].link
      /\ next = [q \in D |-> next[q]]
  OBVIOUS
<1>7. \A i : Laid(i) => i \in D /\ i # None
  BY <1>3, <1>5 DEF None
<1>8. Laid(firstp')
  BY <1>1, <1>2, <1>3 DEF Chain
<1>9. ASSUME NEW i, Laid(i)
      PROVE  next[i] = IF i = lastp THEN None ELSE code[i].link
  <2>1. next[i] = code'[i].link
    BY <1>6, <1>7, <1>9
  <2> QED
    BY <1>1, <1>3, <1>9, <2>1
<1>10. \A q \in D : next[q] \in D
  <2> SUFFICES ASSUME NEW q \in D, q # None  PROVE next[q] \in D
    BY <1>5, <1>6
  <2>1. q \in 1..L
    BY <1>1
  <2>2. code'[q].link \in 0..L
    <3>1. None \in 0..L
      BY <1>3 DEF None
    <3> QED
      BY <1>1, <1>3, <2>1, <3>1
  <2> QED
    BY <1>5, <1>6, <2>2
<1> HIDE DEF L, D, next, K
<1>11. next \in [D -> D]
  BY <1>6, <1>10
<1>12. DOMAIN order = 0..K
  BY <1>5, <1>7, <1>8, <1>11, Iterates DEF K
<1>13. /\ order[0] = firstp'
       /\ \A n \in 1..K : order[n] = next[order[n - 1]]
       /\ \A n \in 0..K : order[n] \in D
       /\ \E m \in 0 .. K - 1 : order[K] = order[m]
  <2>1. PICK d, f, a, o : d = D /\ f = next /\ a = order /\ o = firstp'
    OBVIOUS
  <2>2. IsFiniteSet(d) /\ f \in [d -> d] /\ o \in d /\ a = Iterated(f, o) /\ K = Cardinality(d)
    BY <1>5, <1>7, <1>8, <1>11, <2>1 DEF K
  <2>3. /\ a[0] = o
        /\ \A n \in 1..Cardinality(d) : a[n] = f[a[n - 1]]
        /\ \A n \in 0..Cardinality(d) : a[n] \in d
        /\ \E m \in 0 .. Cardinality(d) - 1 : a[Cardinality(d)] = a[m]
    BY <2>2, Recurring
  <2> QED
    BY <2>1, <2>2, <2>3
<1> HIDE DEF order
<1>14. K \in Nat /\ K >= 1
  BY <1>3, <1>5
<1>15. ASSUME NEW i, i \in LaidOut'  PROVE Laid(i)
  <2> DEFINE S == {n \in 0..K : order[n] = None \/ Laid(order[n])}
  <2>1. 0 \in S
    BY <1>8, <1>13, <1>14
  <2>2. ASSUME NEW n \in 1..K, n - 1 \in S  PROVE n \in S
    <3>1. PICK q : q = order[n - 1]
      OBVIOUS
    <3>2. order[n] = next[q] /\ (q = None \/ Laid(q)) /\ q \in D /\ n \in 0..K
      BY <1>13, <1>14, <2>2, <3>1
    <3>3. CASE q = None
      BY <1>6, <3>2, <3>3
    <3>4. CASE Laid(q)
      <4>1. q # lastp => Laid(code[q].link)
        BY <1>2, <1>3, <3>4 DEF Chain, L
      <4> QED
        BY <1>9, <3>2, <3>4, <4>1
    <3> QED
      BY <3>2, <3>3, <3>4
  <2> HIDE DEF S
  <2>3. 0..K \subseteq S
    BY <1>14, <2>1, <2>2, UpTo
  <2>4. PICK n \in 0..K : i = order[n] /\ i # None
    BY <1>4, <1>12, <1>15
  <2> QED
    BY <2>3, <2>4 DEF S
<1>16. ASSUME NEW i, Laid(i)  PROVE i \in LaidOut'
  <2> DEFINE R == {order[n] : n \in 0..K}
             S == R \cup {Anchor}
  <2>1. S \in SUBSET Nat
    <3>1. \A n \in 0..K : order[n] \in Nat
      BY <1>3, <1>5, <1>13
    <3> QED
      BY <1>3, <3>1
  <2>2. ASSUME NEW j \in R  PROVE next[j] \in R
    <3>1. PICK n \in 0..K : j = order[n]
      OBVIOUS
    <3>2. \E m \in 0 .. K - 1 : j = order[m]
      <4>1. CASE n = K
        BY <1>13, <3>1, <4>1
      <4>2. CASE n # K
        <5>1. n \in 0 .. K - 1
          BY <1>14, <4>2
        <5> QED
          BY <3>1, <5>1
      <4> QED
        BY <4>1, <4>2
    <3>3. PICK m \in 0 .. K - 1 : j = order[m]
      BY <3>2
    <3>4. m + 1 \in 1..K /\ m + 1 \in 0..K /\ m + 1 - 1 = m
      BY <1>14
    <3>5. next[j] = order[m + 1]
      BY <1>13, <3>3, <3>4
    <3> QED
      BY <3>4, <3>5
  <2>3. firstp' \in R
    <3>1. 0 \in 0..K
      BY <1>14
    <3> QED
      BY <1>13, <3>1
  <2> HIDE DEF R
  <2>4. Closed(S)
    <3> SUFFICES ASSUME NEW j \in S, j # lastp, j = Anchor \/ Laid(j)
                 PROVE  code[j].link \in S
      BY DEF Closed
    <3>1. CASE j = Anchor
      BY <1>1, <2>3, <3>1
    <3>2. CASE j # Anchor
      <4>1. j \in R /\ Laid(j)
        BY <3>2
      <4> QED
        BY <1>9, <2>2, <4>1
    <3> QED
      BY <3>1, <3>2
  <2>5. i \in S
    <3>1. Anchor \in S
      OBVIOUS
    <3> HIDE DEF S
    <3> QED
      BY <1>2, <1>3, <1>16, <2>1, <2>4, <3>1 DEF Connected, L
  <2>6. i \in R /\ i # None
    BY <1>3, <1>7, <1>16, <2>5
  <2>7. PICK n \in 0..K : i = order[n]
    BY <2>6 DEF R
  <2> QED
    BY <1>4, <1>12, <2>6, <2>7
<1> QED
  BY <1>15, <1>16

(* Jumps that are laid out lead to instructions that are no jumps, or      *)
(* nowhere.                                                                *)
LEMMA EndThrough ==
  ASSUME IInv, Plain(text), FollowInv, EndFollow, NEW i, Laid(i)
  PROVE  /\ Through(code', i) = Goes(code, i)
         /\ Goes(code, i) # Spin => Laid(Goes(code, i))
<1> DEFINE L == Len(code)
<1>1. /\ Len(code') = L /\ DOMAIN code' = 1..L
      /\ \A k \in 1..L : code'[k].as = code[k].as /\ code'[k].cond = code[k].cond
      /\ \A k : Laid(k) /\ code[k].cond # None /\ code[k].as # "JAL" => Laid(code[k].cond)
  BY AtEnd
<1>2. TypeOK /\ OfText /\ Settled
  BY DEF IInv, FollowInv
<1>3. /\ L \in Nat /\ L >= 1 /\ i \in 1..L /\ Len(text) \in Nat
      /\ \A k \in 1..L : code[k].cond \in 0..L
      /\ \A k \in 1..Len(text) : k \in 1..L
      /\ \A k : Laid(k) => k \in 1..L
  <2>1. /\ L \in Nat /\ i \in 1..L /\ Len(text) \in Nat
        /\ \A k \in 1..L : code[k].cond \in 0..L
        /\ \A k \in 1..Len(text) : k \in 1..L
        /\ \A k : Laid(k) => k \in 1..L
    BY <1>2, FlowFacts
  <2> QED
    BY <2>1
<1> HIDE DEF L
<1>4. Within(code')
  BY <1>1, <1>3 DEF Within
<1>5. \A k \in 1..L : k \in 0..L /\ k # None /\ k # Spin
  BY <1>3 DEF None, Spin
<1>6. \A k \in 1..L : ~Jumping(code', k) =>
        Through(code', k) = IF code[k].as = "JMP" THEN Spin ELSE k
  <2> TAKE k \in 1..L
  <2> SUFFICES ASSUME ~Jumping(code', k)
               PROVE  Through(code', k) = IF code[k].as = "JMP" THEN Spin ELSE k
    OBVIOUS
  <2>1. k \in 0..Len(code')
    BY <1>1, <1>5
  <2>2. Through(code', k) = IF k # None /\ code'[k].as = "JMP" THEN Spin ELSE k
    BY <1>4, <2>1, ThroughStays
  <2> QED
    BY <1>1, <1>5, <2>2
<1>7. CASE ~Jumping(code', i)
  <2>1. code[i].as # "JMP" \/ code[i].cond = None
    BY <1>1, <1>3, <1>5, <1>7 DEF Jumping
  <2>2. Through(code', i) = IF code[i].as = "JMP" THEN Spin ELSE i
    BY <1>3, <1>6, <1>7
  <2> QED
    BY <2>1, <2>2 DEF Goes
<1>8. CASE Jumping(code', i)
  <2>1. code[i].as = "JMP" /\ code[i].cond # None
    BY <1>1, <1>3, <1>8 DEF Jumping
  <2>2. PICK t : t = code[i].cond
    OBVIOUS
  <2>3. Laid(t) /\ t # None /\ t \in 1..L /\ ~Dropped(text, t) /\ t <= Len(text)
    BY <1>1, <1>2, <1>3, <2>1, <2>2 DEF Settled, L
  <2>4. t \in 1..Len(text)
    BY <1>3, <2>3
  <2>5. code[t].as = "JMP" => code[t].cond = None
    BY <1>2, <2>3, <2>4 DEF OfText, Dropped
  <2>6. Through(code', i) = Through(code', t)
    BY <1>1, <1>3, <1>4, <1>8, <2>2, ThroughJump
  <2>7. Through(code', t) = IF code[t].as = "JMP" THEN Spin ELSE t
    BY <1>1, <1>6, <2>3, <2>5 DEF Jumping
  <2> QED
    BY <2>1, <2>2, <2>3, <2>6, <2>7 DEF Goes
<1> QED
  BY <1>7, <1>8

LEMMA EndContinues ==
  ASSUME IInv, Plain(text), FollowInv, EndFollow,
         NEW i, Laid(i), NEW o, Means(text, code, i, o)
  PROVE  Continues(i, o)'
<1>1. /\ UNCHANGED text
      /\ \A k \in 1..Len(code) : code'[k].original = code[k].original
  BY AtEnd
<1>2. i \in LaidOut'
  BY EndOrder
<1>3. PICK g : g = Goes(code, i)
  OBVIOUS
<1>4. Through(code', i) = g
  BY <1>3, EndThrough
<1>5. CASE g = Spin
  <2>1. Through(text, o) = Spin
    BY <1>3, <1>5 DEF Means
  <2> QED
    BY <1>1, <1>2, <1>4, <1>5, <2>1 DEF Continues
<1>6. CASE g # Spin
  <2>1. Laid(g) /\ g \in LaidOut'
    BY <1>3, <1>6, EndThrough, EndOrder
  <2>2. TypeOK
    BY DEF IInv
  <2>3. g \in 1..Len(code)
    BY <2>1, <2>2, FlowFacts
  <2>4. code[g].original = Through(text, o)
    BY <1>3, <1>6 DEF Means
  <2>5. Through(text, o) # Spin
    <3>1. code[g] \in Node
      BY <2>2, <2>3, Lens
    <3>2. code[g].original \in Nat
      BY <3>1 DEF Node
    <3> QED
      BY <2>4, <3>2 DEF Spin
  <2> QED
    BY <1>1, <1>2, <1>4, <1>6, <2>1, <2>3, <2>4, <2>5 DEF Continues
<1> QED
  BY <1>5, <1>6

-----------------------------------------------------------------------------
(* Every function is laid out.                                             *)
LEMMA EndTexts ==
  ASSUME IInv, Plain(text), FollowInv, EndFollow, NEW o \in 1..Len(text), text[o].as = "TEXT"
  PROVE  Laid(o) /\ Through(text, o) = o
<1> DEFINE N == Len(text)
           Missing == {k \in 1..N : text[k].as = "TEXT" /\ ~Laid(k)}
<1>1. /\ text \in Programs /\ OfText /\ Within(text) /\ N \in Nat
  <2>1. TypeOK /\ OfText
    BY DEF IInv, FollowInv
  <2> QED
    BY <2>1, FlowFacts
<1>2. Laid(1) /\ \A i : Laid(i) /\ code[i].cond # None /\ code[i].as # "JAL" => Laid(code[i].cond)
  BY AtEnd
<1>3. ASSUME NEW k \in 1..N, text[k].as = "TEXT"
      PROVE  Through(text, k) = k /\ k # Spin /\ k # None
  <2>1. k \in 0..N /\ k # Spin /\ k # None
    BY <1>1 DEF Spin, None
  <2> QED
    BY <1>1, <1>3, <2>1, ThroughStays DEF Jumping
<1>4. Missing = {}
  <2> SUFFICES ASSUME Missing # {}  PROVE FALSE
    OBVIOUS
  <2>1. Missing \subseteq Nat
    BY <1>1
  <2> HIDE DEF Missing
  <2>2. PICK m \in Missing : \A k \in Missing : m <= k
    BY <2>1, Least
  <2>3. m \in 1..N /\ text[m].as = "TEXT" /\ ~Laid(m)
    BY DEF Missing
  <2>4. m \in 2..N
    BY <1>1, <1>2, <2>3
  <2>5. PICK i \in 1 .. m - 1 : text[i].as = "TEXT" /\ text[i].cond = m
    BY <1>1, <2>3, <2>4, TextShape
  <2>6. i \in 1..N /\ ~(m <= i)
    BY <1>1, <2>3
  <2>7. Laid(i)
    BY <2>2, <2>5, <2>6 DEF Missing
  <2>8. Resolved(text, i) = m /\ m # None
    BY <1>3, <2>3, <2>5 DEF Resolved
  <2>9. code[i].as = "TEXT" /\ code[i].cond = m
    BY <1>1, <2>5, <2>6, <2>8 DEF OfText
  <2> QED
    BY <1>2, <2>3, <2>7, <2>8, <2>9
<1> QED
  BY <1>3, <1>4

(* What is laid out goes on as what it is or repeats.                      *)
LEMMA EndSame ==
  ASSUME IInv, Plain(text), FollowInv, EndFollow,
         NEW i, Laid(i), code[i].original # None
  PROVE  SameFlow(i)'
<1>1. /\ TypeOK /\ OfText /\ Added /\ Settled /\ Chain /\ FallsRight /\ JumpsRight
  BY DEF IInv, FollowInv
<1>2. /\ text \in Programs /\ Within(text) /\ Len(text) \in Nat /\ Len(code) \in Nat
      /\ i \in 1..Len(code) /\ i # Anchor /\ Anchor = Len(text) + 1
      /\ \A k \in 1..Len(code) : code[k].cond \in 0..Len(code)
  BY <1>1, FlowFacts
<1>3. /\ UNCHANGED text
      /\ \A k \in 1..Len(code) : k # lastp => code'[k] = code[k]
      /\ \A k \in 1..Len(code) : code'[k].as = code[k].as /\ code'[k].cond = code[k].cond
      /\ \A k \in 1..Len(code) : code'[k].original = code[k].original
      /\ code[lastp].as \in Leaves
      /\ \A k : Laid(k) /\ code[k].cond # None /\ code[k].as # "JAL" => Laid(code[k].cond)
  BY AtEnd
<1>4. Repeats(text, code[i])
  <2>1. CASE i \in 1..Len(text)
    <3>1. code[i].as = text[i].as /\ code[i].original = i /\ code[i].cond = Resolved(text, i)
      BY <1>1, <2>1 DEF OfText
    <3>2. code[i].as = "JMP" => Resolved(text, i) = None
      BY <2>1, <3>1 DEF Laid, Dropped
    <3> QED
      BY <2>1, <3>1, <3>2 DEF Repeats
  <2>2. CASE i \notin 1..Len(text)
    <3>1. i \in Anchor + 1 .. Len(code)
      BY <1>2, <2>2
    <3>2. JumpsBack(code[i]) \/ Repeats(text, code[i])
      BY <1>1, <3>1 DEF Added
    <3> QED
      BY <3>2 DEF JumpsBack
  <2> QED
    BY <2>1, <2>2
<1>5. PICK o, a, b, t, l, f, j :
        /\ o = code[i].original /\ a = text[o].as /\ b = code[i].as
        /\ t = code[i].cond /\ l = code'[i].link
        /\ f = Falls(text, code[i]) /\ j = Jumps(text, code[i])
  OBVIOUS
<1>6. /\ code'[i].original = o /\ text'[o].as = a /\ code'[i].as = b /\ code'[i].cond = t
      /\ text' = text
  BY <1>2, <1>3, <1>5
<1>7. /\ o \in 1..Len(text)
      /\ \/ b = a /\ f = o + 1 /\ j = text[o].cond
         \/ /\ a \in Conditional /\ b = relinv(a) /\ b \in Conditional /\ b # a
            /\ f = text[o].cond /\ j = o + 1
      /\ b = "JMP" => t = None /\ Resolved(text, o) = None
  BY <1>4, <1>5 DEF Repeats, Falls, Jumps, relinv, Conditional
<1>8. a \in Opcodes \ {"GOK"}
  BY <1>2, <1>5, <1>7, TextShape
<1>9. b \notin Leaves => Continues(l, f)'
  <2> SUFFICES ASSUME b \notin Leaves  PROVE Continues(l, f)'
    OBVIOUS
  <2>1. i # lastp
    BY <1>3, <1>5
  <2>2. l = code[i].link /\ Laid(l)
    BY <1>1, <1>2, <1>3, <1>5, <2>1 DEF Chain
  <2>3. Means(text, code, l, f)
    BY <1>1, <1>2, <1>5, <2>1, <2>2 DEF FallsRight
  <2> QED
    BY <2>2, <2>3, EndContinues
<1>10. b \in Conditional \cup {"JAL"} => Leads(text, code, t, j)
  BY <1>1, <1>2, <1>5 DEF JumpsRight
<1>11. b \in Conditional \cup {"JAL"} /\ t # None => Laid(t)
  <2> SUFFICES ASSUME b \in Conditional \cup {"JAL"}, t # None  PROVE Laid(t)
    OBVIOUS
  <2>1. CASE b \in Conditional
    BY <1>3, <1>5, <2>1 DEF Conditional
  <2>2. CASE b = "JAL"
    <3>1. a = "JAL" /\ j = text[o].cond
      BY <1>7, <2>2 DEF Conditional
    <3>2. j \in 1..Len(text) /\ text[j].as = "TEXT"
      <4>1. text[o].as = "JAL" /\ o \in DOMAIN text
        BY <1>2, <1>5, <1>7, <3>1 DEF Within
      <4>2. text[text[o].cond].as = "TEXT"
        BY <4>1 DEF Plain
      <4>3. text[o].cond \in 1..Len(text)
        BY <1>2, <1>7, <4>1, TextShape
      <4> QED
        BY <3>1, <4>2, <4>3
    <3>3. Laid(j) /\ Through(text, j) = j
      BY <3>2, EndTexts
    <3>4. j # None /\ j # Spin
      BY <1>2, <3>2 DEF None, Spin
    <3>5. Means(text, code, t, j)
      BY <1>10, <2>2 DEF Leads
    <3>6. Goes(code, t) # Spin /\ code[Goes(code, t)].original = j
      BY <3>3, <3>4, <3>5 DEF Means
    <3>7. t \in 1..Len(code) /\ ~Dropped(text, t)
      BY <1>1, <1>2, <1>5 DEF Settled, None
    <3>8. CASE t \in 1..Len(text)
      <4>1. code[t].as = text[t].as /\ code[t].original = t /\ code[t].cond = Resolved(text, t)
        BY <1>1, <3>8 DEF OfText
      <4>2. code[t].as # "JMP"
        BY <3>6, <3>7, <3>8, <4>1 DEF Dropped, Goes
      <4>3. Goes(code, t) = t
        BY <4>2 DEF Goes
      <4> QED
        BY <3>3, <3>6, <4>1, <4>3
    <3>9. CASE t = Anchor
      <4>1. code[t].as # "JMP" /\ code[t].original = None
        BY <1>1, <3>9 DEF Added
      <4>2. Goes(code, t) = t
        BY <4>1 DEF Goes
      <4> QED
        BY <3>4, <3>6, <4>1, <4>2
    <3>10. CASE t \in Anchor + 1 .. Len(code)
      BY <1>1, <3>7, <3>10 DEF Added, Laid
    <3> QED
      BY <1>2, <3>7, <3>8, <3>9, <3>10
  <2> QED
    BY <2>1, <2>2
<1>12. b \in Conditional \cup {"JAL"} =>
         IF t = None THEN Through(text, j) = Spin ELSE Continues(t, j)'
  <2>1. CASE t = None
    BY <1>10, <2>1 DEF Leads
  <2>2. CASE t # None
    BY <1>10, <1>11, <2>2, EndContinues DEF Leads
  <2> QED
    BY <2>1, <2>2
<1>13. b \in Conditional \cup {"JAL"} => Takes(i, j)'
  BY <1>6, <1>12 DEF Takes, Continues
<1>14. CASE a \in {"RET", "IJMP"}
  <2>1. b = a
    BY <1>7, <1>14 DEF Conditional
  <2> QED
    BY <1>6, <1>14, <2>1 DEF SameFlow, Conditional
<1>15. CASE a = "JMP"
  <2>1. b = "JMP" /\ t = None /\ Resolved(text, o) = None
    BY <1>7, <1>15 DEF Conditional
  <2>2. text[o].cond # None /\ Jumping(text, o)
    <3>1. text[o].cond \in 1..Len(text) /\ o # None
      BY <1>2, <1>5, <1>7, <1>15, TextShape DEF None
    <3> QED
      BY <1>5, <1>15, <3>1 DEF Jumping, None
  <2>3. Through(text, o) = Spin
    BY <1>2, <1>7, <2>1, <2>2, ResolvedIs, ThroughJump
  <2>4. Goes(code, i) = Spin
    BY <1>5, <2>1 DEF Goes
  <2>5. Continues(i, o)'
    BY <2>3, <2>4, EndContinues DEF Means
  <2> QED
    BY <1>6, <1>15, <2>5, Zenon DEF SameFlow, Conditional
<1>16. CASE a \in Conditional
  <2>1. b \in Conditional /\ b \notin Leaves
    BY <1>7, <1>16 DEF Conditional, Leaves
  <2>2. Continues(l, f)' /\ Takes(i, j)'
    BY <1>9, <1>13, <2>1
  <2>3. a \notin {"RET", "IJMP", "JMP"}
    BY <1>16 DEF Conditional
  <2>4. CASE b = a
    <3>1. f = o + 1 /\ j = text[o].cond
      BY <1>7, <2>4
    <3> QED
      BY <1>5, <1>6, <1>16, <2>2, <2>3, <2>4, <3>1 DEF SameFlow, Takes, Continues
  <2>5. CASE b # a
    <3>1. b = relinv(a) /\ f = text[o].cond /\ j = o + 1
      BY <1>7, <2>5
    <3> QED
      BY <1>5, <1>6, <1>16, <2>2, <2>3, <2>5, <3>1 DEF SameFlow, Takes, Continues
  <2> QED
    BY <2>4, <2>5
<1>17. CASE a \notin {"RET", "IJMP", "JMP"} \cup Conditional
  <2>1. b = a /\ f = o + 1 /\ j = text[o].cond /\ b \notin Leaves
    BY <1>7, <1>17 DEF Leaves
  <2>2. Continues(l, o + 1)' /\ (a = "JAL" => Takes(i, j)')
    BY <1>9, <1>13, <2>1
  <2> QED
    BY <1>5, <1>6, <1>17, <2>1, <2>2 DEF SameFlow, Takes, Continues
<1> QED
  BY <1>14, <1>15, <1>16, <1>17

LEMMA EndFlow == IInv /\ FInv /\ EndFollow => FInv'
<1> SUFFICES ASSUME IInv, FInv, EndFollow, Plain(text)'
             PROVE  (phase = "done" /\ FlowPreserved)'
  BY DEF FInv, EndFollow
<1>1. phase = "follow" /\ phase' = "done" /\ UNCHANGED text /\ TypeOK
  BY DEF EndFollow, IInv
<1>2. Plain(text) /\ FollowInv
  BY <1>1 DEF FInv
<1>3. /\ OfText /\ Len(text) \in Nat /\ DOMAIN text = 1..Len(text)
      /\ \A i \in 1..Len(text) : i \in 1..Len(code)
      /\ \A i : Laid(i) => i \in 1..Len(code)
  BY <1>1, <1>2, FlowFacts DEF FollowInv
<1>4. /\ \A i : i \in LaidOut' <=> Laid(i)
      /\ \A k \in 1..Len(code) : code'[k].as = code[k].as /\ code'[k].original = code[k].original
  BY <1>2, AtEnd, EndOrder
<1>5. ASSUME NEW o \in DOMAIN text, text[o].as = "TEXT"
      PROVE  \E i \in LaidOut' : code'[i].as = "TEXT" /\ code'[i].original = o
  <2>1. Laid(o)
    BY <1>2, <1>3, <1>5, EndTexts
  <2>2. code'[o].as = "TEXT" /\ code'[o].original = o
    BY <1>3, <1>4, <1>5 DEF OfText
  <2> QED
    BY <1>4, <2>1, <2>2
<1>6. ASSUME NEW i \in LaidOut', code'[i].original # None
      PROVE  SameFlow(i)'
  <2>1. Laid(i) /\ code[i].original # None
    BY <1>3, <1>4, <1>6
  <2> QED
    BY <1>2, <2>1, EndSame
<1> QED
  BY <1>1, <1>5, <1>6 DEF FlowPreserved

LEMMA DoneFlow == FInv /\ UNCHANGED vars => FInv'
<1> SUFFICES ASSUME FInv, UNCHANGED vars, Plain(text)'
             PROVE  /\ (phase = "patch" => Patching)'
                    /\ (phase = "follow" => FollowInv)'
                    /\ FlowPreserved'
  BY DEF FInv
<1>1. UNCHANGED <<text, code, foll, firstp, lastp, p, stack, phase, cant>>
  BY DEF vars
<1>2. Plain(text)
  BY <1>1
<1>3. (phase = "patch" => Patching)'
  BY <1>1, <1>2 DEF FInv, Patching
<1>4. ASSUME phase = "follow"  PROVE FollowInv'
  <2>1. FollowInv
    BY <1>2, <1>4 DEF FInv
  <2>2. \A i : Laid(i)' <=> Laid(i)
    BY <1>1 DEF Laid
  <2>3. \A t : Waits(t)' <=> Waits(t)
    BY <1>1 DEF Waits
  <2>4. \A S : Closed(S)' <=> Closed(S)
    BY <1>1, <2>2 DEF Closed, Anchor
  <2>5. OfText' /\ Added' /\ Settled' /\ Pointers' /\ Chain' /\ Connected'
    BY <1>1, <2>1, <2>2, <2>4
    DEF FollowInv, OfText, Added, Settled, Pointers, Chain, Connected, Anchor
  <2>6. FallsRight' /\ JumpsRight' /\ Landed'
    BY <1>1, <2>1, <2>2, <2>3 DEF FollowInv, FallsRight, JumpsRight, Landed
  <2> QED
    BY <2>5, <2>6 DEF FollowInv
<1>5. FlowPreserved'
  <2>1. LaidOut' = LaidOut
    BY <1>1 DEF LaidOut, Layout
  <2>2. \A i : SameFlow(i)' <=> SameFlow(i)
    BY <1>1, <2>1 DEF SameFlow, Takes, Continues
  <2> QED
    BY <1>1, <1>2, <2>1, <2>2 DEF FInv, FlowPreserved
<1> QED
  BY <1>1, <1>3, <1>4, <1>5

LEMMA NextFlow == IInv /\ FInv /\ [Next]_vars => FInv'
<1> SUFFICES ASSUME IInv, FInv, [Next]_vars  PROVE FInv'
  OBVIOUS
<1>1. CASE Patch
  BY <1>1, PatchFlow
<1>2. CASE Follow
  BY <1>2, FollowFlow
<1>3. CASE Elide
  BY <1>3, ElideFlow
<1>4. CASE CopyToEnd
  BY <1>4, CopyToEndFlow
<1>5. CASE CopyInverted
  BY <1>5, CopyInvertedFlow
<1>6. CASE JumpBack
  BY <1>6, JumpBackFlow
<1>7. CASE LayLeaf \/ LayBranch \/ LayNext
  BY <1>7, LayOutFlow
<1>8. CASE ReturnToBranch \/ ReturnToCopy
  BY <1>8, ReturnFlow
<1>9. CASE EndFollow
  BY <1>9, EndFlow
<1>10. CASE Done \/ UNCHANGED vars
  BY <1>10, DoneFlow DEF Done
<1> QED
  BY <1>1, <1>2, <1>3, <1>4, <1>5, <1>6, <1>7, <1>8, <1>9, <1>10 DEF Next

(* The reordered program computes what the program computed, whatever the  *)
(* program and the bound on the copies, if no branch of it leads to a jump *)
(* through a register and its calls call functions: xfol's dropped jumps,  *)
(* copies, inverted branches and jumps back change no instruction's        *)
(* successors.                                                             *)
THEOREM FlowSurvives == Spec => [](Plain(text) => FlowPreserved)
<1>1. Init => IInv /\ FInv
  BY InitInv, InitFlow
<1>2. IInv /\ FInv /\ [Next]_vars => (IInv /\ FInv)'
  BY NextInv, NextFlow
<1>3. FInv => (Plain(text) => FlowPreserved)
  BY DEF FInv
<1> QED
  BY <1>1, <1>2, <1>3, PTL DEF Spec
=============================================================================
