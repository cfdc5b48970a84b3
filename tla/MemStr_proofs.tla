--------------------------- MODULE MemStr_proofs ----------------------------
(***************************************************************************)
(* For every size of memory, every length, alignment, distance and byte:   *)
(* the memory and string routines return what the C library says, leave    *)
(* memory as it says, and touch no byte outside their operands.            *)
(***************************************************************************)
EXTENDS MemStr, TLAPS

Addr == Lowest..Highest
Labels == {"entry", "align", "aligned", "quad", "byte", "done", "block", "half", "word", "tail",
           "out", "four", "pair", "null", "bytes", "ret"}
Regs == [at : Labels, p : Int, q : Int, n : Int, back : BOOLEAN, v : Int]

(* What every state of every routine has.                                  *)
Base ==
  /\ r \in Regs /\ mem \in [Addr -> Int]
  /\ DOMAIN io = {"reads", "writes"}

(* How far a walking register is.                                          *)
Walked == r.p - op.p

USE DEF Fn, At

-----------------------------------------------------------------------------
(* Registers, spans and copies                                             *)

(* A record with one field changed.                                        *)
LEMMA PutAt == ASSUME NEW s \in Regs, NEW x \in Labels PROVE [s EXCEPT !.at = x] \in Regs
BY DEF Regs
LEMMA PutP == ASSUME NEW s \in Regs, NEW x \in Int PROVE [s EXCEPT !.p = x] \in Regs
BY DEF Regs
LEMMA PutQ == ASSUME NEW s \in Regs, NEW x \in Int PROVE [s EXCEPT !.q = x] \in Regs
BY DEF Regs
LEMMA PutN == ASSUME NEW s \in Regs, NEW x \in Int PROVE [s EXCEPT !.n = x] \in Regs
BY DEF Regs
LEMMA PutBack == ASSUME NEW s \in Regs, NEW x \in BOOLEAN PROVE [s EXCEPT !.back = x] \in Regs
BY DEF Regs
LEMMA PutV == ASSUME NEW s \in Regs, NEW x \in Int PROVE [s EXCEPT !.v = x] \in Regs
BY DEF Regs

LEMMA RegsAre ==
  ASSUME NEW s \in Regs
  PROVE  s.at \in Labels /\ s.p \in Int /\ s.q \in Int /\ s.n \in Int /\ s.back \in BOOLEAN /\ s.v \in Int
BY DEF Regs

LEMMA GotoIs ==
  ASSUME r \in Regs, NEW label \in Labels, Goto(label)
  PROVE  /\ r' \in Regs /\ r'.at = label /\ r'.p = r.p /\ r'.q = r.q /\ r'.n = r.n
         /\ r'.back = r.back /\ r'.v = r.v
<1>1. r' \in Regs
  BY PutAt, Zenon DEF Goto
<1> QED
  BY <1>1 DEF Goto, Regs

LEMMA ReturnIs ==
  ASSUME r \in Regs, NEW v \in Int, Return(v)
  PROVE  /\ r' \in Regs /\ r'.at = "ret" /\ r'.v = v /\ r'.p = r.p /\ r'.q = r.q
         /\ r'.n = r.n /\ r'.back = r.back
<1>1. "ret" \in Labels
  BY DEF Labels
<1>2. r' \in Regs
  BY <1>1, PutAt, PutV, Zenon DEF Return
<1> QED
  BY <1>2 DEF Return, Regs

LEMMA PassIs ==
  ASSUME r \in Regs, NEW k \in Int, NEW label \in Labels, Pass(k, label)
  PROVE  /\ r' \in Regs /\ r'.at = label /\ r'.p = r.p + k /\ r'.q = r.q + k /\ r'.n = r.n - k
         /\ r'.back = r.back /\ r'.v = r.v
<1>1. r.p + k \in Int /\ r.q + k \in Int /\ r.n - k \in Int
  BY RegsAre
<1>2. r' \in Regs
  BY <1>1, PutAt, PutP, PutQ, PutN, Zenon DEF Pass
<1> QED
  BY <1>2 DEF Pass, Regs

LEMMA TouchIs ==
  ASSUME NEW R, NEW W, Touch(R, W)
  PROVE  DOMAIN io' = {"reads", "writes"} /\ io'.reads = R /\ io'.writes = W
BY DEF Touch

LEMMA QuietIs ==
  ASSUME Quiet
  PROVE  /\ mem' = mem /\ DOMAIN io' = {"reads", "writes"} /\ io'.reads = {} /\ io'.writes = {}
BY DEF Quiet, Touch

LEMMA SpanIn ==
  ASSUME NEW a \in Int, NEW k \in Int, NEW b \in Int, NEW n \in Int, a >= b, a + k <= b + n
  PROVE  Span(a, k) \subseteq Span(b, n)
BY DEF Span

LEMMA CopiedIs ==
  ASSUME NEW m \in [Addr -> Int], NEW t \in Int, NEW s \in Int, NEW k \in Int,
         \A a \in Span(t, k) : s + a - t \in Addr
  PROVE  /\ Copied(m, t, s, k) \in [Addr -> Int]
         /\ \A a \in Addr : Copied(m, t, s, k)[a] = IF a \in Span(t, k) THEN m[s + a - t] ELSE m[a]
BY DEF Copied

LEMMA FilledIs ==
  ASSUME NEW m \in [Addr -> Int], NEW t \in Int, NEW c \in Int, NEW k \in Int
  PROVE  /\ Filled(m, t, c, k) \in [Addr -> Int]
         /\ \A a \in Addr : Filled(m, t, c, k)[a] = IF a \in Span(t, k) THEN c ELSE m[a]
BY DEF Filled

LEMMA FreshIs == Fresh \in [Addr -> Int]
<1>1. Lowest \in Int /\ Highest \in Int
  BY LaneAssumption, RoomAssumption
<1> QED
  BY <1>1 DEF Fresh, Addr

-----------------------------------------------------------------------------
(* memmove                                                                 *)

MoveFns == {"memmove4", "memmove8"}
Count == IF op.n < 0 THEN 0 ELSE op.n

(* Memory with k bytes moved: the first, or the last if it goes backwards. *)
Part(k) ==
  IF Backward THEN Copied(Fresh, op.p + Count - k, op.q + Count - k, k)
  ELSE Copied(Fresh, op.p, op.q, k)
Moved == IF Backward THEN op.p + Count - r.p ELSE r.p - op.p

MoveOp ==
  /\ op.fn \in MoveFns /\ op.p \in Int /\ op.q \in Int /\ op.n \in Int
  /\ op.n < 0 => op.fn = "memmove4" /\ op.n = -1
  /\ Lowest <= op.p /\ op.p + Count - 1 <= Highest
  /\ Lowest <= op.q /\ op.q + Count - 1 <= Highest

Moving ==
  /\ r.back = Backward /\ Moved \in 0..Count /\ r.q - op.q = r.p - op.p /\ mem = Part(Moved)
  /\ r.at \in {"align", "aligned", "quad"} => r.n = Count - Moved
  /\ r.at = "byte" => r.n = Count - Moved - 1 /\ r.n >= 0
  /\ r.at = "done" => Moved = Count
  /\ r.at = "half" => Moved + 16 <= Count

MoveInv ==
  /\ Base /\ MoveOp
  /\ r.at = "entry" => mem = Fresh
  /\ r.at \notin {"entry", "ret"} => Moving
  /\ r.at = "ret" => r.v = op.p /\ mem = Copied(Fresh, op.p, op.q, op.n)
  /\ io.writes \subseteq Span(op.p, op.n) /\ io.reads \subseteq Span(op.q, op.n)

LEMMA PartIs ==
  ASSUME MoveOp, NEW k \in 0..Count
  PROVE  /\ Part(k) \in [Addr -> Int]
         /\ \A a \in Addr :
              Part(k)[a] = IF (IF Backward THEN a \in Span(op.p + Count - k, k) ELSE a \in Span(op.p, k))
                           THEN a - op.p + op.q ELSE a
<1>1. Fresh \in [Addr -> Int] /\ \A a \in Addr : Fresh[a] = a
  BY FreshIs DEF Fresh, Addr
<1>2. Lowest \in Int /\ Highest \in Int /\ Count \in Int /\ op.p \in Int /\ op.q \in Int
  BY LaneAssumption, RoomAssumption DEF MoveOp, Count
<1>3. CASE Backward
  <2>1. \A a \in Span(op.p + Count - k, k) : (op.q + Count - k) + a - (op.p + Count - k) \in Addr
    BY <1>2 DEF Span, Addr, MoveOp
  <2>2. Part(k) = Copied(Fresh, op.p + Count - k, op.q + Count - k, k)
    BY <1>3 DEF Part
  <2>3. /\ Part(k) \in [Addr -> Int]
        /\ \A a \in Addr : Part(k)[a] = IF a \in Span(op.p + Count - k, k)
                                        THEN Fresh[(op.q + Count - k) + a - (op.p + Count - k)] ELSE Fresh[a]
    BY <1>1, <1>2, <2>1, <2>2, CopiedIs
  <2>4. \A a \in Addr : (op.q + Count - k) + a - (op.p + Count - k) = a - op.p + op.q
    BY <1>2 DEF Addr
  <2> QED
    BY <1>1, <1>3, <2>1, <2>3, <2>4
<1>4. CASE ~Backward
  <2>1. \A a \in Span(op.p, k) : op.q + a - op.p \in Addr
    BY <1>2 DEF Span, Addr, MoveOp
  <2>2. Part(k) = Copied(Fresh, op.p, op.q, k)
    BY <1>4 DEF Part
  <2>3. /\ Part(k) \in [Addr -> Int]
        /\ \A a \in Addr : Part(k)[a] = IF a \in Span(op.p, k) THEN Fresh[op.q + a - op.p] ELSE Fresh[a]
    BY <1>1, <1>2, <2>1, <2>2, CopiedIs
  <2>4. \A a \in Addr : op.q + a - op.p = a - op.p + op.q
    BY <1>2 DEF Addr
  <2> QED
    BY <1>1, <1>4, <2>1, <2>3, <2>4
<1> QED
  BY <1>3, <1>4

(* A copy of what is next, over memory with j bytes moved, reads bytes     *)
(* that the j have not written.                                            *)
LEMMA PartNext ==
  ASSUME MoveOp, NEW j \in 0..Count, NEW k \in Nat, j + k <= Count
  PROVE  IF Backward
         THEN Copied(Part(j), op.p + Count - j - k, op.q + Count - j - k, k) = Part(j + k)
         ELSE Copied(Part(j), op.p + j, op.q + j, k) = Part(j + k)
<1>1. Lowest \in Int /\ Highest \in Int /\ Count \in Int /\ op.p \in Int /\ op.q \in Int
  BY LaneAssumption, RoomAssumption DEF MoveOp, Count
<1>2. j + k \in 0..Count
  BY <1>1
<1>3. CASE Backward
  <2> DEFINE t == op.p + Count - j - k
             s == op.q + Count - j - k
             m == Copied(Part(j), t, s, k)
  <2>1. op.q < op.p
    BY <1>3 DEF Backward
  <2>2. \A a \in Span(t, k) : s + a - t \in Addr /\ s + a - t = a - op.p + op.q
                              /\ s + a - t \notin Span(op.p + Count - j, j)
    BY <1>1, <2>1 DEF Span, Addr, MoveOp
  <2>3. t \in Int /\ s \in Int
    BY <1>1
  <2>4. m \in [Addr -> Int] /\ \A a \in Addr : m[a] = IF a \in Span(t, k) THEN Part(j)[s + a - t] ELSE Part(j)[a]
    BY <2>2, <2>3, PartIs, CopiedIs
  <2>5. \A a \in Addr : m[a] = Part(j + k)[a]
    <3> TAKE a \in Addr
    <3>1. Part(j + k)[a] = IF a \in Span(op.p + Count - (j + k), j + k) THEN a - op.p + op.q ELSE a
      BY <1>2, <1>3, PartIs
    <3>2. CASE a \in Span(t, k)
      <4>1. m[a] = a - op.p + op.q
        BY <1>3, <2>2, <2>4, <3>2, PartIs
      <4>2. a \in Span(op.p + Count - (j + k), j + k)
        BY <1>1, <3>2 DEF Span
      <4> QED
        BY <3>1, <4>1, <4>2
    <3>3. CASE a \notin Span(t, k)
      <4>1. m[a] = IF a \in Span(op.p + Count - j, j) THEN a - op.p + op.q ELSE a
        BY <1>3, <2>4, <3>3, PartIs
      <4>2. a \in Span(op.p + Count - (j + k), j + k) <=> a \in Span(op.p + Count - j, j)
        BY <1>1, <3>3 DEF Span, Addr
      <4> QED
        BY <3>1, <4>1, <4>2
    <3> QED
      BY <3>2, <3>3
  <2>6. Part(j + k) \in [Addr -> Int]
    BY <1>2, PartIs
  <2> HIDE DEF m
  <2>7. m = Part(j + k)
    BY <2>4, <2>5, <2>6
  <2> QED
    BY <1>3, <2>7 DEF m
<1>4. CASE ~Backward
  <2> DEFINE t == op.p + j
             s == op.q + j
             m == Copied(Part(j), t, s, k)
  <2>1. op.q >= op.p
    BY <1>1, <1>4 DEF Backward
  <2>2. \A a \in Span(t, k) : s + a - t \in Addr /\ s + a - t = a - op.p + op.q
                              /\ s + a - t \notin Span(op.p, j)
    BY <1>1, <2>1 DEF Span, Addr, MoveOp
  <2>3. t \in Int /\ s \in Int
    BY <1>1
  <2>4. m \in [Addr -> Int] /\ \A a \in Addr : m[a] = IF a \in Span(t, k) THEN Part(j)[s + a - t] ELSE Part(j)[a]
    BY <2>2, <2>3, PartIs, CopiedIs
  <2>5. \A a \in Addr : m[a] = Part(j + k)[a]
    <3> TAKE a \in Addr
    <3>1. Part(j + k)[a] = IF a \in Span(op.p, j + k) THEN a - op.p + op.q ELSE a
      BY <1>2, <1>4, PartIs
    <3>2. CASE a \in Span(t, k)
      <4>1. m[a] = a - op.p + op.q
        BY <1>4, <2>2, <2>4, <3>2, PartIs
      <4>2. a \in Span(op.p, j + k)
        BY <1>1, <3>2 DEF Span
      <4> QED
        BY <3>1, <4>1, <4>2
    <3>3. CASE a \notin Span(t, k)
      <4>1. m[a] = IF a \in Span(op.p, j) THEN a - op.p + op.q ELSE a
        BY <1>4, <2>4, <3>3, PartIs
      <4>2. a \in Span(op.p, j + k) <=> a \in Span(op.p, j)
        BY <1>1, <3>3 DEF Span, Addr
      <4> QED
        BY <3>1, <4>1, <4>2
    <3> QED
      BY <3>2, <3>3
  <2>6. Part(j + k) \in [Addr -> Int]
    BY <1>2, PartIs
  <2> HIDE DEF m
  <2>7. m = Part(j + k)
    BY <2>4, <2>5, <2>6
  <2> QED
    BY <1>4, <2>7 DEF m
<1> QED
  BY <1>3, <1>4

(* One step of a loop.                                                     *)
LEMMA AdvanceIs ==
  ASSUME MoveInv, r.at \notin {"entry", "ret"}, UNCHANGED op,
         NEW k \in Nat, k > 0, Moved + k <= Count,
         NEW n \in Int, NEW label \in Labels, Advance(k, n, label)
  PROVE  /\ Base' /\ MoveOp' /\ r'.at = label /\ r'.n = n
         /\ (r.back = Backward)' /\ Moved' = Moved + k /\ (r.q - op.q = r.p - op.p)'
         /\ mem' = Part(Moved + k) /\ Moved' \in 0..Count
         /\ io'.writes \subseteq Span(op.p, op.n) /\ io'.reads \subseteq Span(op.q, op.n)
<1>1. /\ Lowest \in Int /\ Highest \in Int /\ Count \in Int /\ op.p \in Int /\ op.q \in Int /\ op.n = Count
      /\ r \in Regs /\ r.p \in Int /\ r.q \in Int /\ Moved \in 0..Count /\ r.back = Backward
      /\ r.q - op.q = r.p - op.p /\ mem = Part(Moved) /\ Backward \in BOOLEAN
  BY LaneAssumption, RoomAssumption, RegsAre DEF MoveInv, MoveOp, Count, Base, Moving, Moved, Backward
<1> DEFINE d == IF r.back THEN -k ELSE k
<1>2. d \in Int /\ r.p + d \in Int /\ r.q + d \in Int
  BY <1>1
<1>3. r' = [r EXCEPT !.p = r.p + d, !.q = r.q + d, !.n = n, !.at = label]
  BY DEF Advance
<1>4. r' \in Regs
  BY <1>1, <1>2, <1>3, PutAt, PutP, PutQ, PutN, Zenon
<1>5. r'.p = r.p + d /\ r'.q = r.q + d /\ r'.n = n /\ r'.at = label /\ r'.back = r.back
  BY <1>1, <1>3 DEF Regs
<1>6. MoveOp' /\ (r.back = Backward)' /\ Count' = Count
  BY <1>1, <1>5 DEF MoveInv, MoveOp, Count, Backward
<1>7. Moved' = Moved + k /\ (r.q - op.q = r.p - op.p)' /\ Moved' \in 0..Count
  <2>1. Moved' = IF Backward THEN op.p + Count - r'.p ELSE r'.p - op.p
    BY <1>6 DEF Moved, Backward
  <2>2. Moved' = Moved + k
    BY <1>1, <1>5, <2>1 DEF Moved
  <2> QED
    BY <1>1, <1>2, <1>5, <2>2
<1>8. /\ mem' = Part(Moved + k)
      /\ DOMAIN io' = {"reads", "writes"}
      /\ io'.writes \subseteq Span(op.p, op.n) /\ io'.reads \subseteq Span(op.q, op.n)
  <2>1. CASE r.back
    <3>1. Move(r.p - k, r.q - k, k)
      BY <2>1 DEF Advance
    <3>2. r.p - k = op.p + Count - Moved - k /\ r.q - k = op.q + Count - Moved - k
      BY <1>1, <2>1 DEF Moved
    <3>3. mem' = Part(Moved + k)
      BY <1>1, <2>1, <3>1, <3>2, PartNext DEF Move, MoveInv
    <3>4. DOMAIN io' = {"reads", "writes"} /\ io'.writes = Span(r.p - k, k) /\ io'.reads = Span(r.q - k, k)
      BY <3>1, TouchIs DEF Move
    <3>5. Span(r.p - k, k) \subseteq Span(op.p, op.n) /\ Span(r.q - k, k) \subseteq Span(op.q, op.n)
      BY <1>1, <3>2 DEF Span
    <3> QED
      BY <3>3, <3>4, <3>5
  <2>2. CASE ~r.back
    <3>1. Move(r.p, r.q, k)
      BY <2>2 DEF Advance
    <3>2. r.p = op.p + Moved /\ r.q = op.q + Moved
      BY <1>1, <2>2 DEF Moved
    <3>3. mem' = Part(Moved + k)
      BY <1>1, <2>2, <3>1, <3>2, PartNext DEF Move, MoveInv
    <3>4. DOMAIN io' = {"reads", "writes"} /\ io'.writes = Span(r.p, k) /\ io'.reads = Span(r.q, k)
      BY <3>1, TouchIs DEF Move
    <3>5. Span(r.p, k) \subseteq Span(op.p, op.n) /\ Span(r.q, k) \subseteq Span(op.q, op.n)
      BY <1>1, <3>2 DEF Span
    <3> QED
      BY <3>3, <3>4, <3>5
  <2> QED
    BY <2>1, <2>2
<1>9. Moved + k \in 0..Count
  BY <1>1
<1>10. mem' \in [Addr -> Int]
  BY <1>8, <1>9, PartIs DEF MoveInv
<1> QED
  BY <1>4, <1>5, <1>6, <1>7, <1>8, <1>10 DEF Base

(* What a step that only moves the label leaves.                           *)
LEMMA MoveQuiet ==
  ASSUME MoveInv, UNCHANGED op, Quiet, r' \in Regs, r'.p = r.p, r'.q = r.q, r'.back = r.back
  PROVE  /\ Base' /\ MoveOp' /\ Moved' = Moved /\ Count' = Count
         /\ (r.back = Backward)' <=> (r.back = Backward)
         /\ (r.q - op.q = r.p - op.p)' <=> (r.q - op.q = r.p - op.p)
         /\ (mem = Part(Moved))' <=> (mem = Part(Moved))
         /\ (io.writes \subseteq Span(op.p, op.n))' /\ (io.reads \subseteq Span(op.q, op.n))'
<1>1. mem' = mem /\ DOMAIN io' = {"reads", "writes"} /\ io'.reads = {} /\ io'.writes = {}
  BY QuietIs
<1>2. Moved' = Moved /\ Count' = Count /\ (Backward <=> Backward')
  BY DEF Moved, Count, Backward
<1>3. Part(Moved)' = Part(Moved)
  BY <1>2 DEF Part
<1> QED
  BY <1>1, <1>2, <1>3 DEF MoveInv, MoveOp, Base, Count

LEMMA MoveGoto ==
  ASSUME MoveInv, UNCHANGED op, Quiet, r.at \notin {"entry", "ret"},
         NEW n \in Int, NEW label \in Labels \ {"entry", "ret"}, r' = [r EXCEPT !.n = n, !.at = label],
         label \in {"align", "aligned", "quad"} => n = Count - Moved,
         label = "byte" => n = Count - Moved - 1 /\ n >= 0,
         label = "done" => Moved = Count,
         label = "half" => Moved + 16 <= Count
  PROVE  MoveInv'
<1>1. r \in Regs
  BY DEF MoveInv, Base
<1>2. r' \in Regs
  BY <1>1, PutN, PutAt, Zenon
<1>3. r'.at = label /\ r'.n = n /\ r'.p = r.p /\ r'.q = r.q /\ r'.back = r.back
  BY <1>1 DEF Regs
<1>4. Moving
  BY DEF MoveInv
<1>5. Moving'
  BY <1>2, <1>3, <1>4, MoveQuiet DEF Moving
<1> QED
  BY <1>2, <1>3, <1>5, MoveQuiet DEF MoveInv

LEMMA MoveGotoOnly ==
  ASSUME MoveInv, UNCHANGED op, Quiet, r.at \notin {"entry", "ret"},
         NEW label \in Labels \ {"entry", "ret"}, Goto(label),
         label \in {"align", "aligned", "quad"} => r.n = Count - Moved,
         label \notin {"byte", "done", "half"}
  PROVE  MoveInv'
<1>1. r \in Regs
  BY DEF MoveInv, Base
<1>2. /\ r' \in Regs /\ r'.at = label /\ r'.n = r.n /\ r'.p = r.p /\ r'.q = r.q /\ r'.back = r.back
  BY <1>1, GotoIs
<1>3. Moving
  BY DEF MoveInv
<1>4. Moving'
  BY <1>2, <1>3, MoveQuiet DEF Moving
<1> QED
  BY <1>2, <1>4, MoveQuiet DEF MoveInv

(* All is moved.                                                           *)
LEMMA PartAll == ASSUME MoveOp PROVE Part(Count) = Copied(Fresh, op.p, op.q, op.n)
<1>1. Count \in Int /\ op.p \in Int /\ op.q \in Int /\ op.n \in Int
  BY DEF MoveOp, Count
<1>2. CASE op.n >= 0
  <2>1. Count = op.n
    BY <1>1, <1>2 DEF Count
  <2>2. op.p + Count - Count = op.p /\ op.q + Count - Count = op.q
    BY <1>1
  <2> QED
    BY <2>1, <2>2 DEF Part
<1>3. CASE op.n < 0
  <2>1. Count = 0
    BY <1>3 DEF Count
  <2>2. Part(0) = Copied(Fresh, op.p, op.q, 0)
    <3>1. op.p + 0 - 0 = op.p /\ op.q + 0 - 0 = op.q
      BY <1>1
    <3> QED
      BY <2>1, <3>1 DEF Part
  <2>3. \A k \in {0, op.n} : Span(op.p, k) = {}
    BY <1>1, <1>3 DEF Span
  <2>4. Copied(Fresh, op.p, op.q, 0) = Copied(Fresh, op.p, op.q, op.n)
    BY <2>3 DEF Copied
  <2> QED
    BY <2>1, <2>2, <2>4
<1> QED
  BY <1>1, <1>2, <1>3

LEMMA MoveReturn ==
  ASSUME MoveInv, UNCHANGED op, Quiet, r.at \notin {"entry", "ret"}, Moved = Count, Return(op.p)
  PROVE  MoveInv'
<1>1. r \in Regs /\ op.p \in Int
  BY DEF MoveInv, Base, MoveOp
<1>2. r' \in Regs /\ r'.at = "ret" /\ r'.v = op.p /\ r'.p = r.p /\ r'.q = r.q /\ r'.back = r.back
  BY <1>1, ReturnIs
<1>3. mem = Part(Count)
  BY DEF MoveInv, Moving
<1>4. mem' = Copied(Fresh, op.p, op.q, op.n)
  BY <1>3, QuietIs, PartAll DEF MoveInv
<1> QED
  BY <1>2, <1>4, MoveQuiet DEF MoveInv

(* A turn of a loop.                                                       *)
LEMMA MoveOn ==
  ASSUME MoveInv, UNCHANGED op, r.at \notin {"entry", "ret"},
         NEW k \in Nat, k > 0, Moved + k <= Count,
         NEW n \in Int, NEW label \in Labels \ {"entry", "ret"}, Advance(k, n, label),
         label \in {"align", "aligned", "quad"} => n = Count - Moved - k,
         label = "byte" => n = Count - Moved - k - 1 /\ n >= 0,
         label = "done" => Moved + k = Count,
         label = "half" => Moved + k + 16 <= Count
  PROVE  MoveInv'
<1>1. /\ Base' /\ MoveOp' /\ r'.at = label /\ r'.n = n
      /\ (r.back = Backward)' /\ Moved' = Moved + k /\ (r.q - op.q = r.p - op.p)'
      /\ mem' = Part(Moved + k) /\ Moved' \in 0..Count
      /\ io'.writes \subseteq Span(op.p, op.n) /\ io'.reads \subseteq Span(op.q, op.n)
  BY AdvanceIs
<1>2. Count' = Count /\ Part(Moved)' = Part(Moved + k) /\ Moved \in Int /\ Count \in Int
  BY <1>1 DEF Count, Part, Backward, MoveInv, Moving, MoveOp
<1>3. Moving'
  BY <1>1, <1>2 DEF Moving
<1> QED
  BY <1>1, <1>3 DEF MoveInv

LEMMA MoveStep ==
  ASSUME MoveInv, MemNext
  PROVE  MoveInv'
<1>1. op.fn \in MoveFns /\ UNCHANGED op
  BY DEF MoveInv, MoveOp, MemNext
<1>2. /\ Count \in Int /\ op.p \in Int /\ op.q \in Int /\ op.n \in Int /\ r \in Regs /\ MoveOp
      /\ r.at \in Labels /\ r.p \in Int /\ r.q \in Int /\ r.n \in Int /\ Backward \in BOOLEAN
      /\ r.at \notin {"entry", "ret"} =>
           /\ Moved \in Int /\ Moved >= 0 /\ Moved <= Count /\ r.back = Backward
  BY RegsAre DEF MoveInv, MoveOp, Base, Count, Moving, Backward
<1>3. CASE MoveStart
  <2> DEFINE n == IF op.n < 0 THEN 0 ELSE op.n
             far == IF Backward THEN n ELSE 0
             walk == [r EXCEPT !.back = Backward, !.n = n, !.p = op.p + far, !.q = op.q + far]
             label == IF op.fn = "memmove4" THEN "align" ELSE "block"
  <2>1. r.at = "entry" /\ Quiet /\ mem = Fresh
    BY <1>3 DEF MoveStart, MoveInv
  <2>2. mem' = mem /\ DOMAIN io' = {"reads", "writes"} /\ io'.reads = {} /\ io'.writes = {}
    BY <2>1, QuietIs
  <2>3. \A k \in {0} : Part(k) = Fresh
    <3>1. Part(0) \in [Addr -> Int] /\ \A a \in Addr : Part(0)[a] = a
      <4>1. 0 \in 0..Count
        BY <1>2 DEF Count
      <4>2. \A a \in Addr : a \notin Span(op.p + Count - 0, 0) /\ a \notin Span(op.p, 0)
        BY <1>2 DEF Span
      <4> QED
        BY <1>2, <4>1, <4>2, PartIs
    <3> QED
      BY <3>1, FreshIs DEF Fresh, Addr
  <2>4. CASE op.n = 0 \/ (op.fn = "memmove8" /\ op.p = op.q)
    <3>1. Return(op.p)
      BY <1>3, <2>4 DEF MoveStart
    <3>2. r' \in Regs /\ r'.at = "ret" /\ r'.v = op.p
      BY <1>2, <3>1, ReturnIs
    <3>3. Copied(Fresh, op.p, op.q, op.n) = Fresh
      <4>1. CASE op.n = 0
        <5>1. Span(op.p, 0) = {}
          BY <1>2 DEF Span
        <5> QED
          BY <4>1, <5>1, FreshIs DEF Copied
      <4>2. CASE op.p = op.q
        <5>1. \A a \in Addr : op.q + a - op.p = a
          BY <1>2, <4>2 DEF Addr
        <5> QED
          BY <5>1, FreshIs DEF Copied
      <4> QED
        BY <2>4, <4>1, <4>2
    <3> QED
      BY <1>1, <1>2, <2>1, <2>2, <3>2, <3>3 DEF MoveInv, MoveOp, Base, Count
  <2>5. CASE ~(op.n = 0 \/ (op.fn = "memmove8" /\ op.p = op.q))
    <3>1. r' = [walk EXCEPT !.at = label]
      BY <1>3, <2>5 DEF MoveStart
    <3>2. n \in Int /\ far \in Int /\ op.p + far \in Int /\ op.q + far \in Int /\ n = Count
          /\ label \in {"align", "block"}
      BY <1>2 DEF Count
    <3>3. label \in Labels
      BY <3>2 DEF Labels
    <3>4. walk \in Regs
      BY <1>2, <3>2, PutBack, PutN, PutP, PutQ, Zenon
    <3>5. r' \in Regs
      BY <3>1, <3>3, <3>4, PutAt, Zenon
    <3>6. /\ r'.at = label /\ r'.back = Backward /\ r'.n = n /\ r'.p = op.p + far /\ r'.q = op.q + far
      BY <1>2, <3>1 DEF Regs
    <3>7. Moved' = 0 /\ Count' = Count /\ Backward' = Backward
      BY <1>1, <1>2, <3>2, <3>6 DEF Moved, Backward, Count
    <3>8. Part(0)' = Part(0)
      BY <1>1, <3>7 DEF Part
    <3> HIDE DEF n, far, walk, label
    <3>9. Moving'
      BY <1>1, <1>2, <2>1, <2>2, <2>3, <3>2, <3>6, <3>7, <3>8 DEF Moving, Count
    <3> QED
      BY <1>1, <1>2, <2>1, <2>2, <3>2, <3>5, <3>6, <3>9 DEF MoveInv, MoveOp, Base, Count
  <2> QED
    BY <2>4, <2>5
<1>4. CASE MoveAlign
  <2>1. r.at = "align" /\ r.n = Count - Moved
    BY <1>4 DEF MoveAlign, MoveInv, Moving
  <2>2. CASE r.q % 4 = 0
    BY <1>1, <1>2, <1>4, <2>1, <2>2, MoveGotoOnly DEF MoveAlign, Labels
  <2>3. CASE r.q % 4 # 0 /\ r.n - 1 < 0
    BY <1>1, <1>2, <1>4, <2>1, <2>3, MoveReturn DEF MoveAlign
  <2>4. CASE r.q % 4 # 0 /\ ~(r.n - 1 < 0)
    <3>1. Advance(1, r.n - 1, "align")
      BY <1>4, <2>4 DEF MoveAlign
    <3>2. "align" \in Labels \ {"entry", "ret"} /\ r.n - 1 \in Int /\ Moved + 1 <= Count
      BY <1>2, <2>1, <2>4 DEF Labels
    <3> QED
      BY <1>1, <1>2, <2>1, <3>1, <3>2, MoveOn
  <2> QED
    BY <2>2, <2>3, <2>4
<1>5. CASE MoveAligned
  <2>1. r.at = "aligned" /\ r.n = Count - Moved /\ Quiet
    BY <1>5 DEF MoveAligned, MoveInv, Moving
  <2>2. CASE r.p % 4 = 0
    BY <1>1, <1>2, <1>5, <2>1, <2>2, MoveGotoOnly DEF MoveAligned, Labels
  <2>3. CASE r.p % 4 # 0 /\ r.n - 1 < 0
    BY <1>1, <1>2, <1>5, <2>1, <2>3, MoveReturn DEF MoveAligned
  <2>4. CASE r.p % 4 # 0 /\ ~(r.n - 1 < 0)
    <3>1. r' = [r EXCEPT !.n = r.n - 1, !.at = "byte"]
      BY <1>5, <2>4 DEF MoveAligned
    <3>2. /\ "byte" \in Labels \ {"entry", "ret"} /\ r.n - 1 \in Int
          /\ r.n - 1 = Count - Moved - 1 /\ r.n - 1 >= 0
      BY <1>2, <2>1, <2>4 DEF Labels
    <3>3. r.at \notin {"entry", "ret"} /\ "byte" \notin {"align", "aligned", "quad", "done", "half"}
      BY <2>1
    <3> QED
      BY <1>1, <2>1, <3>1, <3>2, <3>3, MoveGoto, Zenon
  <2> QED
    BY <2>2, <2>3, <2>4
<1>6. CASE MoveQuad
  <2>1. r.at = "quad" /\ r.n = Count - Moved
    BY <1>6 DEF MoveQuad, MoveInv, Moving
  <2>2. CASE r.n - 16 >= 0
    <3>1. Advance(16, r.n - 16, "quad")
      BY <1>6, <2>2 DEF MoveQuad
    <3>2. "quad" \in Labels \ {"entry", "ret"} /\ r.n - 16 \in Int /\ Moved + 16 <= Count
      BY <1>2, <2>1, <2>2 DEF Labels
    <3> QED
      BY <1>1, <1>2, <2>1, <3>1, <3>2, MoveOn
  <2>3. CASE ~(r.n - 16 >= 0) /\ r.n - 16 + 15 < 0
    BY <1>1, <1>2, <1>6, <2>1, <2>3, MoveReturn DEF MoveQuad
  <2>4. CASE ~(r.n - 16 >= 0) /\ ~(r.n - 16 + 15 < 0)
    <3>1. r' = [r EXCEPT !.n = r.n - 1, !.at = "byte"] /\ Quiet
      BY <1>6, <2>4 DEF MoveQuad
    <3>2. /\ "byte" \in Labels \ {"entry", "ret"} /\ r.n - 1 \in Int
          /\ r.n - 1 = Count - Moved - 1 /\ r.n - 1 >= 0
      BY <1>2, <2>1, <2>4 DEF Labels
    <3>3. r.at \notin {"entry", "ret"} /\ "byte" \notin {"align", "aligned", "quad", "done", "half"}
      BY <2>1
    <3> QED
      BY <1>1, <2>1, <3>1, <3>2, <3>3, MoveGoto, Zenon
  <2> QED
    BY <2>2, <2>3, <2>4
<1>7. CASE MoveByte
  <2> DEFINE label == IF r.n - 1 >= 0 THEN "byte" ELSE "done"
  <2>1. r.at = "byte" /\ r.n = Count - Moved - 1 /\ r.n >= 0 /\ Advance(1, r.n - 1, label)
    BY <1>7 DEF MoveByte, MoveInv, Moving
  <2>2. /\ label \in Labels \ {"entry", "ret"} /\ r.n - 1 \in Int /\ Moved + 1 <= Count
        /\ label \notin {"align", "aligned", "quad", "half"}
        /\ label = "byte" => r.n - 1 = Count - Moved - 1 - 1 /\ r.n - 1 >= 0
        /\ label = "done" => Moved + 1 = Count
    BY <1>2, <2>1 DEF Labels
  <2> HIDE DEF label
  <2> QED
    BY <1>1, <2>1, <2>2, MoveOn
<1>8. CASE MoveDone
  <2>1. r.at = "done" /\ Moved = Count /\ Return(op.p) /\ Quiet
    BY <1>8 DEF MoveDone, MoveInv, Moving
  <2> QED
    BY <1>1, <2>1, MoveReturn
<1>9. CASE MoveBlock
  <2> DEFINE left(k) == IF r.back THEN r.p > op.p + (k - 1) ELSE r.p < op.p + op.n - (k - 1)
  <2>1. op.fn = "memmove8" /\ Count = op.n
    BY <1>2, <1>9 DEF MoveBlock, MoveOp, Count
  <2>2. ASSUME r.at \notin {"entry", "ret"}
        PROVE  \A k \in Nat : left(k) <=> Moved + k <= Count
    BY <1>2, <2>1, <2>2 DEF Moved
  <2>3. \/ r.at = "block" /\ left(32) /\ Advance(16, r.n, "half")
        \/ r.at = "half" /\ Advance(16, r.n, "block")
        \/ r.at = "block" /\ ~left(32) /\ Goto("word") /\ Quiet
        \/ r.at = "word" /\ left(8) /\ Advance(8, r.n, "word")
        \/ r.at = "word" /\ ~left(8) /\ Goto("tail") /\ Quiet
        \/ r.at = "tail" /\ left(1) /\ Advance(1, r.n, "tail")
        \/ r.at = "tail" /\ ~left(1) /\ Return(op.p) /\ Quiet
    BY <1>9 DEF MoveBlock
  <2> HIDE DEF left
  <2>4. {"half", "block", "word", "tail"} \subseteq Labels \ {"entry", "ret"}
    BY DEF Labels
  <2>5. CASE r.at = "block" /\ left(32) /\ Advance(16, r.n, "half")
    <3>1. Moved + 32 <= Count
      BY <2>2, <2>5
    <3> QED
      BY <1>1, <1>2, <2>4, <2>5, <3>1, MoveOn
  <2>6. CASE r.at = "half" /\ Advance(16, r.n, "block")
    <3>1. Moved + 16 <= Count
      BY <2>6 DEF MoveInv, Moving
    <3> QED
      BY <1>1, <1>2, <2>4, <2>6, <3>1, MoveOn
  <2>7. CASE r.at = "block" /\ ~left(32) /\ Goto("word") /\ Quiet
    BY <1>1, <1>2, <2>4, <2>7, MoveGotoOnly
  <2>8. CASE r.at = "word" /\ left(8) /\ Advance(8, r.n, "word")
    <3>1. Moved + 8 <= Count
      BY <2>2, <2>8
    <3> QED
      BY <1>1, <1>2, <2>4, <2>8, <3>1, MoveOn
  <2>9. CASE r.at = "word" /\ ~left(8) /\ Goto("tail") /\ Quiet
    BY <1>1, <1>2, <2>4, <2>9, MoveGotoOnly
  <2>10. CASE r.at = "tail" /\ left(1) /\ Advance(1, r.n, "tail")
    <3>1. Moved + 1 <= Count
      BY <2>2, <2>10
    <3> QED
      BY <1>1, <1>2, <2>4, <2>10, <3>1, MoveOn
  <2>11. CASE r.at = "tail" /\ ~left(1) /\ Return(op.p) /\ Quiet
    <3>1. ~(Moved + 1 <= Count)
      BY <2>2, <2>11
    <3>2. Moved = Count
      BY <1>2, <2>11, <3>1
    <3> QED
      BY <1>1, <2>11, <3>2, MoveReturn
  <2> QED
    BY <2>3, <2>5, <2>6, <2>7, <2>8, <2>9, <2>10, <2>11
<1> QED
  BY <1>1, <1>3, <1>4, <1>5, <1>6, <1>7, <1>8, <1>9
     DEF MemNext, MoveFns, SetFns, ChrFns, SetStart, SetLoop, CmpStart, CmpBytes, CmpWords4, CmpWords8,
         ChrStart, ChrPair, ChrWord, ChrByte, StrChr, StrCmp, StrCpy

LEMMA MoveInit == ASSUME MoveCalls, MemQuiet PROVE MoveInv
<1>1. PICK fn \in MoveFns, a \in 0..3, g \in MoveGaps, n \in MoveLengths \cup {-1} :
        /\ n < 0 => fn = "memmove4"
        /\ LET q == Lowest + a - (IF g < 0 THEN g ELSE 0)
           IN op = MemCall(fn, q + g, q, n, 0, 0) /\ mem = Fresh
  BY DEF MoveCalls, MoveFns
<1> DEFINE q == Lowest + a - (IF g < 0 THEN g ELSE 0)
<1>2. op.fn = fn /\ op.p = q + g /\ op.q = q /\ op.n = n /\ mem = Fresh
  BY <1>1 DEF MemCall
<1>3. Lowest \in Int /\ Highest \in Int /\ g \in Int /\ n \in Int /\ (n < 0 => n = -1) /\ q \in Int
  BY LaneAssumption, RoomAssumption
<1>4. Lowest + 3 + (IF n < 0 THEN 0 ELSE n) + (IF g < 0 THEN -g ELSE g) <= Highest
  BY <1>3, RoomAssumption
<1>5. MoveOp
  BY <1>1, <1>2, <1>3, <1>4 DEF MoveOp, Count
<1>6. r \in Regs /\ r.at = "entry" /\ DOMAIN io = {"reads", "writes"} /\ io.reads = {} /\ io.writes = {}
  BY DEF MemQuiet, Regs, Labels
<1> QED
  BY <1>2, <1>5, <1>6, FreshIs DEF MoveInv, Base

LEMMA MoveRight == ASSUME MoveInv PROVE MemExact /\ OwnBytes
<1>1. op.fn \in MoveFns
  BY DEF MoveInv, MoveOp
<1>2. Written = Span(op.p, op.n) /\ Readable = Span(op.q, op.n) /\ Result(mem) = op.p
  BY <1>1 DEF MoveFns, SetFns, ChrFns, Written, Readable, Result
<1>3. OwnBytes
  BY <1>2 DEF MoveInv, OwnBytes
<1>4. r.at = "ret" => r.v = op.p /\ mem = Copied(Fresh, op.p, op.q, op.n)
  BY DEF MoveInv
<1> QED
  BY <1>1, <1>2, <1>3, <1>4 DEF MemExact, MoveFns, SetFns

-----------------------------------------------------------------------------
(* memset                                                                  *)

SetOp ==
  /\ op.fn \in SetFns /\ op.p \in Int /\ op.c \in Int /\ op.n \in Nat
  /\ Lowest <= op.p /\ op.p + op.n - 1 <= Highest

(* An aligned address ahead, before which the byte loop stops.             *)
Ahead(word) == \E e \in op.p..(op.p + word - 1) : e % word = 0 /\ r.p <= e

SetInv ==
  /\ Base /\ SetOp
  /\ r.at \in {"entry", "align", "quad", "word", "out", "ret"}
  /\ r.at = "entry" => mem = Fresh
  /\ r.at \notin {"entry", "ret"} => Walked \in 0..op.n /\ mem = Filled(Fresh, op.p, op.c, Walked)
  /\ r.at = "align" => op.n >= SetWord /\ Ahead(SetWord)
  /\ r.at = "ret" => r.v = op.p /\ mem = Filled(Fresh, op.p, op.c, op.n)
  /\ io.writes \subseteq Span(op.p, op.n) /\ io.reads = {}

LEMMA FilledNext ==
  ASSUME NEW m \in [Addr -> Int], NEW a \in Int, NEW c \in Int, NEW j \in Nat, NEW k \in Nat
  PROVE  Filled(Filled(m, a, c, j), a + j, c, k) = Filled(m, a, c, j + k)
<1> DEFINE one == Filled(m, a, c, j)
           two == Filled(one, a + j, c, k)
           both == Filled(m, a, c, j + k)
<1>1. one \in [Addr -> Int] /\ \A x \in Addr : one[x] = IF x \in Span(a, j) THEN c ELSE m[x]
  BY FilledIs
<1>2. both \in [Addr -> Int] /\ \A x \in Addr : both[x] = IF x \in Span(a, j + k) THEN c ELSE m[x]
  BY FilledIs
<1>3. a + j \in Int /\ k \in Int
  OBVIOUS
<1> HIDE DEF one
<1>4. two \in [Addr -> Int] /\ \A x \in Addr : two[x] = IF x \in Span(a + j, k) THEN c ELSE one[x]
  BY <1>1, <1>3, FilledIs
<1> HIDE DEF two, both
<1>5. \A x \in Addr : x \in Span(a, j + k) <=> x \in Span(a, j) \/ x \in Span(a + j, k)
  BY DEF Span, Addr
<1>6. two = both
  BY <1>1, <1>2, <1>4, <1>5
<1> QED
  BY <1>6 DEF one, two, both

LEMMA AheadIs ==
  ASSUME NEW a \in Int, NEW word \in {4, 8}
  PROVE  \E e \in a..(a + word - 1) : e % word = 0
<1>1. CASE word = 4
  <2>1. PICK i \in 0..3 : (a + i) % 4 = 0
    OBVIOUS
  <2>2. a + i \in a..(a + 4 - 1)
    OBVIOUS
  <2> QED
    BY <1>1, <2>1, <2>2
<1>2. CASE word = 8
  <2>1. PICK i \in 0..7 : (a + i) % 8 = 0
    OBVIOUS
  <2>2. a + i \in a..(a + 8 - 1)
    OBVIOUS
  <2> QED
    BY <1>2, <2>1, <2>2
<1> QED
  BY <1>1, <1>2

LEMMA SetQuiet ==
  ASSUME SetInv, UNCHANGED op, Quiet
  PROVE  /\ SetOp' /\ mem' = mem /\ SetWord' = SetWord /\ (mem \in [Addr -> Int])'
         /\ (DOMAIN io = {"reads", "writes"})' /\ (io.writes \subseteq Span(op.p, op.n))' /\ io'.reads = {}
BY QuietIs DEF SetInv, SetOp, SetWord, Base

LEMMA SetGoto ==
  ASSUME SetInv, UNCHANGED op, Quiet, r.at \notin {"entry", "ret"},
         NEW label \in {"quad", "word", "out"}, Goto(label)
  PROVE  SetInv'
<1>1. r \in Regs /\ label \in Labels
  BY DEF SetInv, Base, Labels
<1>2. r' \in Regs /\ r'.at = label /\ r'.p = r.p
  BY <1>1, GotoIs
<1>3. Walked' = Walked /\ (Walked \in 0..op.n) /\ mem = Filled(Fresh, op.p, op.c, Walked)
  BY <1>2 DEF Walked, SetInv
<1> QED
  BY <1>2, <1>3, SetQuiet DEF SetInv, Base

LEMMA SetFill ==
  ASSUME SetInv, UNCHANGED op, r.at \notin {"entry", "ret"},
         NEW k \in Nat, Walked + k <= op.n, NEW label \in {"align", "quad", "word", "out"}, Fill(k, label),
         label = "align" => r.at = "align" /\ k = 1 /\ r.p % SetWord # 0
  PROVE  SetInv'
<1>1. /\ r \in Regs /\ r.p \in Int /\ op.p \in Int /\ op.c \in Int /\ op.n \in Nat /\ label \in Labels
      /\ Walked \in 0..op.n /\ mem = Filled(Fresh, op.p, op.c, Walked)
  BY RegsAre DEF SetInv, SetOp, Base, Labels
<1>2. r' = [r EXCEPT !.p = r.p + k, !.at = label]
  BY DEF Fill
<1>3. r.p + k \in Int
  BY <1>1
<1>4. r' \in Regs
  BY <1>1, <1>2, <1>3, PutP, PutAt, Zenon
<1>5. r'.p = r.p + k /\ r'.at = label
  BY <1>1, <1>2 DEF Regs
<1>6. Walked' = Walked + k /\ Walked' \in 0..op.n /\ r.p = op.p + Walked
  BY <1>1, <1>5 DEF Walked
<1>7. mem' = Filled(Fresh, op.p, op.c, Walked + k)
  <2>1. mem' = Filled(Filled(Fresh, op.p, op.c, Walked), op.p + Walked, op.c, k)
    BY <1>1, <1>6 DEF Fill
  <2>2. Walked \in Nat
    BY <1>1
  <2> QED
    BY <1>1, <2>1, <2>2, FilledNext, FreshIs
<1>8. mem' \in [Addr -> Int]
  <2>1. Walked + k \in Int
    BY <1>1
  <2> QED
    BY <1>1, <1>7, <2>1, FilledIs, FreshIs
<1>9. DOMAIN io' = {"reads", "writes"} /\ io'.reads = {} /\ io'.writes = Span(r.p, k)
  BY TouchIs DEF Fill
<1>10. Span(r.p, k) \subseteq Span(op.p, op.n)
  BY <1>1, <1>6 DEF Span
<1>11. label = "align" => op.n >= SetWord /\ Ahead(SetWord)'
  <2>1. SUFFICES ASSUME label = "align" PROVE op.n >= SetWord /\ Ahead(SetWord)'
    OBVIOUS
  <2>2. op.n >= SetWord /\ Ahead(SetWord) /\ SetWord' = SetWord /\ SetWord \in Int
    BY <2>1 DEF SetInv, SetWord
  <2>3. PICK e \in op.p..(op.p + SetWord - 1) : e % SetWord = 0 /\ r.p <= e
    BY <2>2 DEF Ahead
  <2>4. e \in Int /\ r.p # e
    BY <1>1, <2>1, <2>2, <2>3
  <2>5. r.p + 1 <= e
    BY <1>1, <2>3, <2>4
  <2> QED
    BY <1>5, <2>1, <2>2, <2>3, <2>5 DEF Ahead
<1>12. SetOp' /\ SetWord' = SetWord
  BY DEF SetInv, SetOp, SetWord
<1> QED
  BY <1>4, <1>5, <1>6, <1>7, <1>8, <1>9, <1>10, <1>11, <1>12 DEF SetInv, Base

LEMMA SetStep ==
  ASSUME SetInv, MemNext
  PROVE  SetInv'
<1>1. op.fn \in SetFns /\ UNCHANGED op
  BY DEF SetInv, SetOp, MemNext
<1>2. /\ r \in Regs /\ r.p \in Int /\ op.p \in Int /\ op.c \in Int /\ op.n \in Nat
      /\ SetWord \in {4, 8} /\ SetOp
  BY RegsAre DEF SetInv, SetOp, Base, SetWord
<1>3. CASE SetStart
  <2> DEFINE label == IF op.n < SetWord THEN "out" ELSE "align"
  <2>1. r.at = "entry" /\ Quiet /\ mem = Fresh /\ r' = [r EXCEPT !.p = op.p, !.at = label]
    BY <1>3 DEF SetStart, SetInv
  <2>2. label \in Labels /\ label \in {"out", "align"} /\ (label = "align" => op.n >= SetWord)
    BY <1>2 DEF Labels
  <2> HIDE DEF label
  <2>3. r' \in Regs
    BY <1>2, <2>1, <2>2, PutP, PutAt, Zenon
  <2>4. r'.p = op.p /\ r'.at = label
    BY <1>2, <2>1 DEF Regs
  <2>5. Walked' = 0
    BY <1>1, <1>2, <2>4 DEF Walked
  <2>6. Filled(Fresh, op.p, op.c, 0) = Fresh
    <3>1. Span(op.p, 0) = {}
      BY <1>2 DEF Span
    <3> QED
      BY <3>1, FreshIs DEF Filled
  <2>7. Ahead(SetWord)'
    <3>1. PICK e \in op.p..(op.p + SetWord - 1) : e % SetWord = 0
      BY <1>2, AheadIs
    <3> QED
      BY <1>1, <1>2, <2>1, <2>4, <3>1, SetQuiet DEF Ahead
  <2>8. 0 \in 0..op.n
    BY <1>2
  <2> QED
    BY <1>1, <2>1, <2>2, <2>3, <2>4, <2>5, <2>6, <2>7, <2>8, SetQuiet DEF SetInv, Base
<1>4. CASE SetLoop
  <2> DEFINE end == op.p + op.n
             quad == r.p < end - (4 * SetWord - 1)
             word == r.p < end - (SetWord - 1)
  <2>1. \/ r.at = "align" /\ r.p % SetWord # 0 /\ Fill(1, "align")
        \/ r.at = "align" /\ r.p % SetWord = 0 /\ Goto("quad") /\ Quiet
        \/ r.at = "quad" /\ quad /\ Fill(4 * SetWord, "quad")
        \/ r.at = "quad" /\ ~quad /\ Goto("word") /\ Quiet
        \/ r.at = "word" /\ word /\ Fill(SetWord, "word")
        \/ r.at = "word" /\ ~word /\ Goto("out") /\ Quiet
        \/ r.at = "out" /\ r.p < end /\ Fill(1, "out")
        \/ r.at = "out" /\ ~(r.p < end) /\ Return(op.p) /\ Quiet
    BY <1>4 DEF SetLoop
  <2>2. r.at \notin {"entry", "ret"} => Walked \in 0..op.n /\ Walked = r.p - op.p
    BY DEF SetInv, Walked
  <2>3. CASE r.at = "align" /\ r.p % SetWord # 0 /\ Fill(1, "align")
    <3>1. op.n >= SetWord /\ Ahead(SetWord)
      BY <2>3 DEF SetInv
    <3>2. PICK e \in op.p..(op.p + SetWord - 1) : e % SetWord = 0 /\ r.p <= e
      BY <3>1 DEF Ahead
    <3>3. r.p # e
      BY <1>2, <2>3, <3>2
    <3>4. Walked + 1 <= op.n
      BY <1>2, <2>2, <2>3, <3>1, <3>2, <3>3
    <3> QED
      BY <1>1, <2>3, <3>4, SetFill
  <2>4. CASE r.at = "quad" /\ quad /\ Fill(4 * SetWord, "quad")
    <3>1. 4 * SetWord \in Nat /\ Walked + 4 * SetWord <= op.n
      BY <1>2, <2>2, <2>4
    <3> QED
      BY <1>1, <2>4, <3>1, SetFill
  <2>5. CASE r.at = "word" /\ word /\ Fill(SetWord, "word")
    <3>1. SetWord \in Nat /\ Walked + SetWord <= op.n
      BY <1>2, <2>2, <2>5
    <3> QED
      BY <1>1, <2>5, <3>1, SetFill
  <2>6. CASE r.at = "out" /\ r.p < end /\ Fill(1, "out")
    <3>1. Walked + 1 <= op.n
      BY <1>2, <2>2, <2>6
    <3> QED
      BY <1>1, <2>6, <3>1, SetFill
  <2>7. CASE r.at = "align" /\ r.p % SetWord = 0 /\ Goto("quad") /\ Quiet
    BY <1>1, <2>7, SetGoto
  <2>8. CASE r.at = "quad" /\ ~quad /\ Goto("word") /\ Quiet
    BY <1>1, <2>8, SetGoto
  <2>9. CASE r.at = "word" /\ ~word /\ Goto("out") /\ Quiet
    BY <1>1, <2>9, SetGoto
  <2>10. CASE r.at = "out" /\ ~(r.p < end) /\ Return(op.p) /\ Quiet
    <3>1. Walked = op.n
      BY <1>2, <2>2, <2>10
    <3>2. mem = Filled(Fresh, op.p, op.c, op.n)
      BY <2>10, <3>1 DEF SetInv
    <3>3. r' \in Regs /\ r'.at = "ret" /\ r'.v = op.p
      BY <1>2, <2>10, ReturnIs
    <3> QED
      BY <1>1, <2>10, <3>2, <3>3, SetQuiet DEF SetInv, Base
  <2> QED
    BY <2>1, <2>3, <2>4, <2>5, <2>6, <2>7, <2>8, <2>9, <2>10
<1> QED
  BY <1>1, <1>3, <1>4
     DEF MemNext, SetFns, ChrFns, MoveStart, MoveAlign, MoveAligned, MoveQuad, MoveByte, MoveDone, MoveBlock,
         CmpStart, CmpBytes, CmpWords4, CmpWords8, ChrStart, ChrPair, ChrWord, ChrByte, StrChr, StrCmp, StrCpy

LEMMA SetInit == ASSUME SetCalls, MemQuiet PROVE SetInv
<1>1. PICK fn \in SetFns, a \in 0..7, n \in MoveLengths :
        op = MemCall(fn, Lowest + a, 0, n, 1, 0) /\ mem = Fresh
  BY DEF SetCalls
<1>2. op.fn = fn /\ op.p = Lowest + a /\ op.n = n /\ op.c = 1 /\ mem = Fresh
  BY <1>1 DEF MemCall
<1>3. Lowest \in Int /\ Highest \in Int /\ n \in Nat /\ Lowest + 7 + n <= Highest
  BY LaneAssumption, RoomAssumption
<1>4. SetOp
  BY <1>2, <1>3 DEF SetOp
<1>5. r \in Regs /\ r.at = "entry" /\ DOMAIN io = {"reads", "writes"} /\ io.reads = {} /\ io.writes = {}
  BY DEF MemQuiet, Regs, Labels
<1> QED
  BY <1>2, <1>4, <1>5, FreshIs DEF SetInv, Base

LEMMA SetRight == ASSUME SetInv PROVE MemExact /\ OwnBytes
<1>1. op.fn \in SetFns
  BY DEF SetInv, SetOp
<1>2. Written = Span(op.p, op.n) /\ Result(mem) = op.p
  BY <1>1 DEF SetFns, Written, Result
<1>3. OwnBytes
  BY <1>2 DEF SetInv, OwnBytes
<1>4. r.at = "ret" => r.v = op.p /\ mem = Filled(Fresh, op.p, op.c, op.n)
  BY DEF SetInv
<1> QED
  BY <1>1, <1>2, <1>3, <1>4 DEF MemExact, SetFns

-----------------------------------------------------------------------------
(* memcmp                                                                  *)

CmpFns == {"memcmp4", "memcmp8"}

(* The operands, which no step changes: equal up to d.                     *)
CmpOp ==
  /\ op.fn \in CmpFns /\ op.p \in Int /\ op.q \in Int /\ op.n \in Nat /\ op.d \in 0..op.n
  /\ \A i \in 0..(op.d - 1) : mem[op.p + i] = mem[op.q + i]
  /\ op.d < op.n => mem[op.p + op.d] # mem[op.q + op.d]

CmpResult == IF Found THEN Order(mem[op.p + op.d], mem[op.q + op.d]) ELSE 0
CmpReads == Span(op.p, op.n) \cup Span(op.q, op.n)

CmpInv ==
  /\ Base /\ CmpOp
  /\ r.at \in {"entry", "align", "quad", "four", "word", "out", "ret"}
  /\ r.at \notin {"entry", "ret"} => Walked \in 0..op.d /\ r.q = op.q + Walked /\ r.n = op.n - Walked
  /\ r.at = "align" => op.n >= 4 /\ Ahead(4)
  /\ r.at = "ret" => r.v = CmpResult
  /\ io.writes = {} /\ io.reads \subseteq CmpReads

LEMMA OrderIs == \A x, y : Order(x, y) \in {1, -1}
BY DEF Order

LEMMA CmpFacts ==
  ASSUME CmpInv
  PROVE  /\ r \in Regs /\ r.p \in Int /\ r.q \in Int /\ r.n \in Int /\ r.at \in Labels
         /\ op.p \in Int /\ op.q \in Int /\ op.n \in Nat /\ op.d \in Nat /\ op.d <= op.n /\ op.fn \in CmpFns
         /\ r.at \notin {"entry", "ret"} =>
              /\ Walked \in Nat /\ Walked <= op.d /\ r.p = op.p + Walked /\ r.q = op.q + Walked
              /\ r.n = op.n - Walked
BY RegsAre DEF CmpInv, CmpOp, Base, Walked

(* Words are the same until the one with the difference.                   *)
LEMMA CmpSame ==
  ASSUME CmpInv, r.at \notin {"entry", "ret"}, NEW k \in Nat, Walked + k <= op.n
  PROVE  Same(mem, r.p, r.q, k) <=> Walked + k <= op.d
<1>1. /\ Walked \in Nat /\ Walked <= op.d /\ r.p = op.p + Walked /\ r.q = op.q + Walked
      /\ op.p \in Int /\ op.q \in Int /\ op.n \in Nat /\ op.d \in Nat /\ op.d <= op.n
  BY CmpFacts
<1>2. CmpOp
  BY DEF CmpInv
<1>3. ASSUME Walked + k <= op.d PROVE Same(mem, r.p, r.q, k)
  <2>1. \A i \in 0..(k - 1) : Walked + i \in 0..(op.d - 1)
    BY <1>1, <1>3
  <2>2. \A i \in 0..(k - 1) : r.p + i = op.p + (Walked + i) /\ r.q + i = op.q + (Walked + i)
    BY <1>1
  <2> QED
    BY <1>2, <2>1, <2>2 DEF CmpOp, Same
<1>4. ASSUME ~(Walked + k <= op.d) PROVE ~Same(mem, r.p, r.q, k)
  <2> DEFINE i == op.d - Walked
  <2>1. i \in 0..(k - 1) /\ r.p + i = op.p + op.d /\ r.q + i = op.q + op.d /\ op.d < op.n
    BY <1>1, <1>4
  <2> QED
    BY <1>2, <2>1 DEF CmpOp, Same
<1> QED
  BY <1>3, <1>4

LEMMA CmpDifference ==
  ASSUME CmpInv, r.at \notin {"entry", "ret"}, NEW k \in Nat, Walked + k <= op.n, ~Same(mem, r.p, r.q, k)
  PROVE  FirstDifference(k) = CmpResult
<1>1. /\ Walked \in Nat /\ Walked <= op.d /\ r.p = op.p + Walked /\ r.q = op.q + Walked
      /\ op.p \in Int /\ op.q \in Int /\ op.n \in Nat /\ op.d \in Nat /\ op.d <= op.n
  BY CmpFacts
<1>2. op.d < Walked + k
  BY <1>1, CmpSame
<1> DEFINE P(i) == mem[r.p + i] # mem[r.q + i] /\ Same(mem, r.p, r.q, i)
           j == op.d - Walked
           i == CHOOSE i \in 0..(k - 1) : P(i)
<1>3. j \in 0..(k - 1) /\ r.p + j = op.p + op.d /\ r.q + j = op.q + op.d /\ op.d < op.n
  BY <1>1, <1>2
<1>4. P(j)
  <2>1. Same(mem, r.p, r.q, j)
    <3>1. j \in Nat /\ Walked + j <= op.n /\ Walked + j <= op.d
      BY <1>1, <1>3
    <3> QED
      BY <3>1, CmpSame
  <2>2. mem[op.p + op.d] # mem[op.q + op.d]
    BY <1>3 DEF CmpInv, CmpOp
  <2> QED
    BY <1>3, <2>1, <2>2
<1>5. \A x \in 0..(k - 1) : P(x) => x = j
  <2> SUFFICES ASSUME NEW x \in 0..(k - 1), P(x) PROVE x = j
    OBVIOUS
  <2>1. x \in Nat /\ Walked + x <= op.n
    BY <1>1
  <2>2. Walked + x <= op.d
    BY <2>1, CmpSame
  <2>3. ~(Walked + (x + 1) <= op.d)
    <3>1. ~Same(mem, r.p, r.q, x + 1)
      <4>1. x \in 0..((x + 1) - 1)
        BY <2>1
      <4> QED
        BY <4>1 DEF Same
    <3>2. x + 1 \in Nat /\ Walked + (x + 1) <= op.n
      BY <1>1
    <3> QED
      BY <3>1, <3>2, CmpSame
  <2> QED
    BY <1>1, <2>1, <2>2, <2>3
<1>6. i \in 0..(k - 1) /\ P(i)
  BY <1>3, <1>4
<1>7. i = j
  BY <1>5, <1>6
<1>8. FirstDifference(k) = Order(mem[r.p + j], mem[r.q + j])
  BY <1>7 DEF FirstDifference
<1> QED
  BY <1>3, <1>8 DEF CmpResult, Found

(* What looking at k bytes, or at none, leaves.                            *)
LEMMA CmpKept ==
  ASSUME CmpInv, UNCHANGED op,
         Quiet \/ (r.at \notin {"entry", "ret"} /\ \E k \in Nat : Walked + k <= op.n /\ Both(k))
  PROVE  /\ CmpOp' /\ (mem \in [Addr -> Int])' /\ (DOMAIN io = {"reads", "writes"})' /\ CmpResult' = CmpResult
         /\ io'.writes = {} /\ (io.reads \subseteq CmpReads)'
<1>1. CASE Quiet
  BY <1>1, QuietIs DEF CmpInv, CmpOp, Base, CmpResult, Found, CmpReads
<1>2. CASE r.at \notin {"entry", "ret"} /\ \E k \in Nat : Walked + k <= op.n /\ Both(k)
  <2>1. PICK k \in Nat : Walked + k <= op.n /\ Both(k)
    BY <1>2
  <2>2. mem' = mem /\ DOMAIN io' = {"reads", "writes"} /\ io'.writes = {}
        /\ io'.reads = Span(r.p, k) \cup Span(r.q, k)
    BY <2>1, TouchIs DEF Both
  <2>3. Span(r.p, k) \subseteq Span(op.p, op.n) /\ Span(r.q, k) \subseteq Span(op.q, op.n)
    BY <1>2, <2>1, CmpFacts DEF Span
  <2>4. io'.reads \subseteq CmpReads /\ CmpReads' = CmpReads
    BY <2>2, <2>3 DEF CmpReads
  <2> QED
    BY <2>2, <2>4 DEF CmpInv, CmpOp, Base, CmpResult, Found
<1> QED
  BY <1>1, <1>2

LEMMA CmpGoto ==
  ASSUME CmpInv, UNCHANGED op, r.at \notin {"entry", "ret"}, NEW label \in {"quad", "four", "out"}, Goto(label),
         Quiet \/ (\E k \in Nat : Walked + k <= op.n /\ Both(k))
  PROVE  CmpInv'
<1>1. r \in Regs /\ label \in Labels
  BY DEF CmpInv, Base, Labels
<1>2. r' \in Regs /\ r'.at = label /\ r'.p = r.p /\ r'.q = r.q /\ r'.n = r.n
  BY <1>1, GotoIs
<1>3. Walked' = Walked
  BY <1>2 DEF Walked
<1> QED
  BY <1>2, <1>3, CmpKept DEF CmpInv, Base

LEMMA CmpPass ==
  ASSUME CmpInv, UNCHANGED op, r.at \notin {"entry", "ret"}, NEW k \in Nat, Walked + k <= op.d, Both(k),
         Pass(k, r.at), r.at = "align" => k = 1 /\ r.p % 4 # 0
  PROVE  CmpInv'
<1>1. /\ r \in Regs /\ r.at \in Labels /\ r.p \in Int /\ op.p \in Int /\ op.n \in Nat /\ op.d \in Nat
      /\ op.d <= op.n /\ Walked \in Nat /\ r.q = op.q + Walked /\ r.n = op.n - Walked /\ op.q \in Int
  BY CmpFacts
<1>2. r' \in Regs /\ r'.at = r.at /\ r'.p = r.p + k /\ r'.q = r.q + k /\ r'.n = r.n - k
  BY <1>1, PassIs
<1>3. Walked' = Walked + k /\ Walked + k <= op.n
  BY <1>1, <1>2 DEF Walked
<1>4. r.at = "align" => op.n >= 4 /\ Ahead(4)'
  <2>1. SUFFICES ASSUME r.at = "align" PROVE op.n >= 4 /\ Ahead(4)'
    OBVIOUS
  <2>2. op.n >= 4 /\ Ahead(4)
    BY <2>1 DEF CmpInv
  <2>3. PICK e \in op.p..(op.p + 4 - 1) : e % 4 = 0 /\ r.p <= e
    BY <2>2 DEF Ahead
  <2>4. e \in Int /\ r.p # e
    BY <1>1, <2>1, <2>3
  <2>5. r.p + 1 <= e
    BY <1>1, <2>3, <2>4
  <2> QED
    BY <1>2, <2>1, <2>2, <2>3, <2>5 DEF Ahead
<1>5. (Walked \in 0..op.d /\ r.q = op.q + Walked /\ r.n = op.n - Walked)'
  BY <1>1, <1>2, <1>3
<1> QED
  BY <1>2, <1>3, <1>4, <1>5, CmpKept DEF CmpInv, Base

LEMMA CmpReturn ==
  ASSUME CmpInv, UNCHANGED op, r.at \notin {"entry", "ret"}, Return(CmpResult),
         Quiet \/ (\E k \in Nat : Walked + k <= op.n /\ Both(k))
  PROVE  CmpInv'
<1>1. r \in Regs /\ CmpResult \in Int
  BY OrderIs DEF CmpInv, Base, CmpResult
<1>2. r' \in Regs /\ r'.at = "ret" /\ r'.v = CmpResult
  BY <1>1, ReturnIs
<1> QED
  BY <1>2, CmpKept DEF CmpInv, Base

LEMMA CmpStep ==
  ASSUME CmpInv, MemNext
  PROVE  CmpInv'
<1>1. op.fn \in CmpFns /\ UNCHANGED op
  BY DEF CmpInv, CmpOp, MemNext
<1>2. /\ r \in Regs /\ r.p \in Int /\ r.q \in Int /\ r.n \in Int /\ r.at \in Labels
      /\ op.p \in Int /\ op.q \in Int /\ op.n \in Nat /\ op.d \in Nat /\ op.d <= op.n
      /\ r.at \notin {"entry", "ret"} =>
           /\ Walked \in Nat /\ Walked <= op.d /\ r.p = op.p + Walked /\ r.q = op.q + Walked
           /\ r.n = op.n - Walked
  BY CmpFacts
<1>3. CASE CmpStart
  <2> DEFINE far == op.n < 4 \/ op.p % 4 # op.q % 4
             label == CASE op.fn = "memcmp8" -> "word" [] far -> "out" [] OTHER -> "align"
  <2>1. /\ r.at = "entry" /\ Quiet
        /\ r' = [r EXCEPT !.p = op.p, !.q = op.q, !.n = op.n, !.at = label]
    BY <1>3 DEF CmpStart
  <2>2. label \in {"word", "out", "align"} /\ (label = "align" => op.n >= 4)
    BY <1>2
  <2>3. label \in Labels
    BY <2>2 DEF Labels
  <2> HIDE DEF label
  <2>4. op.n \in Int
    BY <1>2
  <2>5. r' \in Regs
    BY <1>2, <2>1, <2>3, <2>4, PutP, PutQ, PutN, PutAt, Zenon
  <2>6. r'.p = op.p /\ r'.q = op.q /\ r'.n = op.n /\ r'.at = label
    BY <1>2, <2>1 DEF Regs
  <2>7. (Walked = 0 /\ r.q = op.q + Walked /\ r.n = op.n - Walked /\ Walked \in 0..op.d)'
    BY <1>1, <1>2, <2>6 DEF Walked
  <2>8. Ahead(4)'
    <3>1. PICK e \in op.p..(op.p + 4 - 1) : e % 4 = 0
      BY <1>2, AheadIs
    <3> QED
      BY <1>1, <1>2, <2>6, <3>1 DEF Ahead
  <2> QED
    BY <1>1, <2>1, <2>2, <2>5, <2>6, <2>7, <2>8, CmpKept DEF CmpInv, Base
<1>4. CASE CmpBytes
  <2>1. CASE r.at = "align" /\ r.p % 4 = 0 /\ Goto("quad") /\ Quiet
    BY <1>1, <2>1, CmpGoto
  <2>2. CASE r.at = "out" /\ r.n = 0 /\ Return(0) /\ Quiet
    <3>1. CmpResult = 0
      BY <1>2, <2>2 DEF CmpResult, Found
    <3> QED
      BY <1>1, <2>2, <3>1, CmpReturn
  <2>3. CASE /\ r.at = "out" \/ (r.at = "align" /\ r.p % 4 # 0)
             /\ r.at = "out" => r.n > 0
             /\ Both(1)
             /\ IF mem[r.p] # mem[r.q] THEN Return(Order(mem[r.p], mem[r.q])) ELSE Pass(1, r.at)
    <3>1. r.at \notin {"entry", "ret"}
      BY <2>3
    <3>2. Walked + 1 <= op.n
      <4>1. CASE r.at = "out"
        BY <1>2, <2>3, <4>1
      <4>2. CASE r.at = "align" /\ r.p % 4 # 0
        <5>1. op.n >= 4 /\ Ahead(4)
          BY <4>2 DEF CmpInv
        <5>2. PICK e \in op.p..(op.p + 4 - 1) : e % 4 = 0 /\ r.p <= e
          BY <5>1 DEF Ahead
        <5>3. r.p # e
          BY <4>2, <5>2
        <5> QED
          BY <1>2, <3>1, <5>1, <5>2, <5>3
      <4> QED
        BY <2>3, <4>1, <4>2
    <3>3. Same(mem, r.p, r.q, 1) <=> mem[r.p] = mem[r.q]
      <4>1. 0..(1 - 1) = {0} /\ r.p + 0 = r.p /\ r.q + 0 = r.q
        BY <1>2
      <4> QED
        BY <4>1 DEF Same
    <3>4. CASE mem[r.p] = mem[r.q]
      <4>1. Pass(1, r.at)
        BY <2>3, <3>4
      <4>2. Walked + 1 <= op.d
        BY <3>1, <3>2, <3>3, <3>4, CmpSame
      <4> QED
        BY <1>1, <2>3, <3>1, <4>1, <4>2, CmpPass
    <3>5. CASE mem[r.p] # mem[r.q]
      <4>1. Return(Order(mem[r.p], mem[r.q]))
        BY <2>3, <3>5
      <4>2. ~(Walked + 1 <= op.d)
        BY <3>1, <3>2, <3>3, <3>5, CmpSame
      <4>3. Walked = op.d /\ op.d < op.n
        BY <1>2, <3>1, <3>2, <4>2
      <4>4. CmpResult = Order(mem[r.p], mem[r.q])
        BY <1>2, <3>1, <4>3 DEF CmpResult, Found
      <4> QED
        BY <1>1, <2>3, <3>1, <3>2, <4>1, <4>4, CmpReturn
    <3> QED
      BY <3>4, <3>5
  <2> QED
    BY <1>4, <2>1, <2>2, <2>3 DEF CmpBytes
<1>5. CASE CmpWords4
  <2>1. PICK s \in {[at |-> "quad", k |-> 16, next |-> "four"], [at |-> "four", k |-> 4, next |-> "out"]} :
          /\ r.at = s.at
          /\ IF r.p < op.p + op.n - (s.k - 1)
             THEN Both(s.k) /\ IF Same(mem, r.p, r.q, s.k) THEN Pass(s.k, s.at)
                               ELSE Return(FirstDifference(s.k))
             ELSE Goto(s.next) /\ Quiet
    BY <1>5 DEF CmpWords4
  <2> DEFINE k == s.k
  <2>2. k \in {4, 16} /\ s.next \in {"four", "out"} /\ s.at = r.at /\ r.at \notin {"entry", "ret", "align"}
    BY <2>1
  <2>3. CASE r.p < op.p + op.n - (s.k - 1)
    <3>1. Both(k) /\ IF Same(mem, r.p, r.q, k) THEN Pass(k, r.at) ELSE Return(FirstDifference(k))
      BY <2>1, <2>2, <2>3
    <3>2. k \in Nat /\ Walked + k <= op.n
      BY <1>2, <2>2, <2>3
    <3> HIDE DEF k
    <3>3. CASE Same(mem, r.p, r.q, k)
      <4>1. Walked + k <= op.d
        BY <2>2, <3>2, <3>3, CmpSame
      <4> QED
        BY <1>1, <2>2, <3>1, <3>2, <3>3, <4>1, CmpPass
    <3>4. CASE ~Same(mem, r.p, r.q, k)
      <4>1. FirstDifference(k) = CmpResult
        BY <2>2, <3>2, <3>4, CmpDifference
      <4> QED
        BY <1>1, <2>2, <3>1, <3>2, <3>4, <4>1, CmpReturn
    <3> QED
      BY <3>3, <3>4
  <2>4. CASE ~(r.p < op.p + op.n - (s.k - 1))
    BY <1>1, <2>1, <2>2, <2>4, CmpGoto
  <2> QED
    BY <2>3, <2>4
<1>6. CASE CmpWords8
  <2>1. r.at = "word"
    BY <1>6 DEF CmpWords8
  <2>2. CASE r.n < 8
    BY <1>1, <1>6, <2>1, <2>2, CmpGoto DEF CmpWords8
  <2>3. CASE ~(r.n < 8)
    <3>1. Both(8) /\ IF Same(mem, r.p, r.q, 8) THEN Pass(8, "word") ELSE Goto("out")
      BY <1>6, <2>3 DEF CmpWords8
    <3>2. Walked + 8 <= op.n
      BY <1>2, <2>1, <2>3
    <3>3. CASE Same(mem, r.p, r.q, 8)
      <4>1. Walked + 8 <= op.d
        BY <2>1, <3>2, <3>3, CmpSame
      <4> QED
        BY <1>1, <2>1, <3>1, <3>3, <4>1, CmpPass
    <3>4. CASE ~Same(mem, r.p, r.q, 8)
      BY <1>1, <2>1, <3>1, <3>2, <3>4, CmpGoto
    <3> QED
      BY <3>3, <3>4
  <2> QED
    BY <2>2, <2>3
<1> QED
  BY <1>1, <1>3, <1>4, <1>5, <1>6
     DEF MemNext, CmpFns, SetFns, ChrFns, MoveStart, MoveAlign, MoveAligned, MoveQuad, MoveByte, MoveDone,
         MoveBlock, SetStart, SetLoop, ChrStart, ChrPair, ChrWord, ChrByte, StrChr, StrCmp, StrCpy

LEMMA CmpInit == ASSUME CmpCalls, MemQuiet PROVE CmpInv
<1>1. PICK fn \in CmpFns, a \in 0..3, b \in 0..3, n \in Lengths : \E d \in 0..n, s \in {1, 2} :
        /\ op = MemCall(fn, Lowest + a, Middle + b, n, 0, d)
        /\ mem = [x \in Lowest..Highest |->
                    CASE x = Lowest + a + d -> s [] x = Middle + b + d -> 3 - s
                      [] x > Lowest + a + d /\ x < Middle -> 3 - s [] x > Middle + b + d -> s
                      [] OTHER -> 0]
  BY DEF CmpCalls, CmpFns
<1>2. PICK d \in 0..n, s \in {1, 2} :
        /\ op = MemCall(fn, Lowest + a, Middle + b, n, 0, d)
        /\ mem = [x \in Lowest..Highest |->
                    CASE x = Lowest + a + d -> s [] x = Middle + b + d -> 3 - s
                      [] x > Lowest + a + d /\ x < Middle -> 3 - s [] x > Middle + b + d -> s
                      [] OTHER -> 0]
  BY <1>1
<1>3. op.fn = fn /\ op.p = Lowest + a /\ op.q = Middle + b /\ op.n = n /\ op.d = d
  BY <1>2 DEF MemCall
<1>4. /\ Lowest \in Int /\ Highest \in Int /\ n \in Nat /\ Middle \in Int /\ Lowest + 3 + n < Middle
      /\ Middle + 3 + n <= Highest
  BY RoomAssumption, LaneAssumption DEF Middle, Half
<1>5. mem \in [Addr -> Int]
  BY <1>2, <1>4 DEF Addr
<1>6. \A x \in Addr :
        mem[x] = CASE x = Lowest + a + d -> s [] x = Middle + b + d -> 3 - s
                   [] x > Lowest + a + d /\ x < Middle -> 3 - s [] x > Middle + b + d -> s
                   [] OTHER -> 0
  BY <1>2 DEF Addr
<1>7. /\ \A i \in 0..(d - 1) : mem[op.p + i] = 0 /\ mem[op.q + i] = 0
      /\ d < n => mem[op.p + d] = s /\ mem[op.q + d] = 3 - s
  <2>1. ASSUME NEW i \in 0..(d - 1) PROVE mem[op.p + i] = 0
    <3>1. Lowest + a + i \in Addr /\ Lowest + a + i < Lowest + a + d /\ Lowest + a + i < Middle
      BY <1>4 DEF Addr
    <3> QED
      BY <1>3, <1>4, <1>6, <3>1
  <2>2. ASSUME NEW i \in 0..(d - 1) PROVE mem[op.q + i] = 0
    <3>1. Middle + b + i \in Addr /\ Middle + b + i >= Middle /\ Middle + b + i < Middle + b + d
          /\ Middle + b + i > Lowest + a + d
      BY <1>4 DEF Addr
    <3> QED
      BY <1>3, <1>4, <1>6, <3>1
  <2>3. Lowest + a + d \in Addr /\ Middle + b + d \in Addr /\ Middle + b + d # Lowest + a + d
    BY <1>4 DEF Addr
  <2>4. mem[op.p + d] = s /\ mem[op.q + d] = 3 - s
    BY <1>3, <1>4, <1>6, <2>3
  <2> QED
    BY <2>1, <2>2, <2>4
<1>8. CmpOp
  BY <1>3, <1>4, <1>7 DEF CmpOp
<1>9. r \in Regs /\ r.at = "entry" /\ DOMAIN io = {"reads", "writes"} /\ io.reads = {} /\ io.writes = {}
  BY DEF MemQuiet, Regs, Labels
<1> QED
  BY <1>5, <1>8, <1>9 DEF CmpInv, Base

LEMMA CmpRight == ASSUME CmpInv PROVE MemExact /\ OwnBytes
<1>1. op.fn \in CmpFns
  BY DEF CmpInv, CmpOp
<1>2. Written = {} /\ Readable = CmpReads /\ Result(mem) = CmpResult
  BY <1>1 DEF CmpFns, SetFns, ChrFns, Written, Readable, CmpReads, Result, CmpResult
<1>3. OwnBytes
  BY <1>2 DEF CmpInv, OwnBytes
<1>4. r.at = "ret" => r.v = CmpResult
  BY DEF CmpInv
<1> QED
  BY <1>1, <1>2, <1>3, <1>4 DEF MemExact, CmpFns, SetFns

-----------------------------------------------------------------------------
(* memchr and memccpy                                                      *)

(* c is not before d of the operand, and at d unless d is the operand's    *)
(* end; a copy lies apart from it.                                         *)
ChrOp ==
  /\ op.fn \in ChrFns /\ op.p \in Int /\ op.q \in Int /\ op.n \in Nat /\ op.d \in 0..op.n /\ op.c \in Bytes
  /\ Lowest <= op.p /\ op.p + op.n <= Highest + 1
  /\ Copies => /\ Lowest <= op.q /\ op.q + op.n <= Highest + 1
               /\ op.p + op.n <= op.q \/ op.q + op.n <= op.p
  /\ \A i \in 0..(op.n - 1) : mem[op.p + i] \in Bytes
  /\ \A i \in 0..(op.d - 1) : mem[op.p + i] # op.c
  /\ op.d < op.n => mem[op.p + op.d] = op.c

ChrResult == IF Found THEN (IF Copies THEN op.q + op.d + 1 ELSE op.p + op.d) ELSE 0
Enough == Least(op.n, op.d + 1)
ChrWrites == IF Copies THEN Span(op.q, Enough) ELSE {}

ChrInv ==
  /\ Base /\ ChrOp
  /\ r.at \in {"entry", "pair", "word", "byte", "ret"}
  /\ r.at \notin {"entry", "ret"} =>
       /\ Walked \in 0..op.d /\ r.n = op.n - Walked
       /\ Copies => r.q = op.q + Walked /\ Same(mem, op.p, op.q, Walked)
  /\ r.at = "ret" => r.v = ChrResult /\ (Copies => Same(mem, op.p, op.q, Enough))
  /\ io.writes \subseteq ChrWrites /\ io.reads \subseteq Span(op.p, op.n)

LEMMA ChrFacts ==
  ASSUME ChrInv
  PROVE  /\ r \in Regs /\ r.p \in Int /\ r.q \in Int /\ r.n \in Int /\ r.at \in Labels
         /\ op.p \in Int /\ op.q \in Int /\ op.n \in Nat /\ op.d \in Nat /\ op.d <= op.n /\ op.fn \in ChrFns
         /\ Enough \in Nat /\ Enough <= op.n /\ Enough <= op.d + 1
         /\ r.at \notin {"entry", "ret"} =>
              /\ Walked \in Nat /\ Walked <= op.d /\ r.p = op.p + Walked /\ r.n = op.n - Walked
              /\ Copies => r.q = op.q + Walked
BY RegsAre DEF ChrInv, ChrOp, Base, Walked, Enough, Least

(* The walk has not passed c, so the first one met is the one at d.        *)
LEMMA ChrFirst ==
  ASSUME ChrInv, r.at \notin {"entry", "ret"}, NEW k \in Nat, Walked + k < op.n
  PROVE  /\ mem[r.p + k] = op.c => Walked + k >= op.d
         /\ Walked + k = op.d => mem[r.p + k] = op.c
<1>1. /\ Walked \in Nat /\ Walked <= op.d /\ r.p = op.p + Walked /\ op.p \in Int /\ op.d \in Nat
  BY ChrFacts
<1>2. r.p + k = op.p + (Walked + k) /\ Walked + k \in Nat
  BY <1>1
<1>3. Walked + k < op.d => Walked + k \in 0..(op.d - 1)
  BY <1>1
<1> QED
  BY <1>1, <1>2, <1>3 DEF ChrInv, ChrOp

(* k bytes looked at and, by memccpy, copied.                              *)
ChrTouch(k) == IF Copies THEN Move(r.q, r.p, k) ELSE Reads(r.p, k)

LEMMA ChrTouched ==
  ASSUME ChrInv, UNCHANGED op, r.at \notin {"entry", "ret"}, NEW k \in Nat, Walked + k <= op.n,
         Copies => Walked + k <= op.d + 1,
         ChrTouch(k)
  PROVE  /\ ChrOp' /\ (mem \in [Addr -> Int])' /\ (DOMAIN io = {"reads", "writes"})'
         /\ ChrResult' = ChrResult /\ Enough' = Enough /\ (Copies' <=> Copies)
         /\ Copies => Same(mem', op.p, op.q, Walked + k)
         /\ (io.writes \subseteq ChrWrites)' /\ (io.reads \subseteq Span(op.p, op.n))'
<1>0. /\ Lowest <= op.p /\ op.p + op.n <= Highest + 1
      /\ Copies => /\ Lowest <= op.q /\ op.q + op.n <= Highest + 1
                   /\ op.p + op.n <= op.q \/ op.q + op.n <= op.p
  BY DEF ChrInv, ChrOp
<1>1. /\ Walked \in Nat /\ Walked <= op.d /\ r.p = op.p + Walked /\ op.p \in Int /\ op.q \in Int
      /\ op.n \in Nat /\ op.d \in Nat /\ op.d <= op.n /\ Enough \in Nat
      /\ Copies => r.q = op.q + Walked
  BY ChrFacts
<1>2. Lowest \in Int /\ Highest \in Int
  BY LaneAssumption, RoomAssumption
<1>3. ChrOp /\ mem \in [Addr -> Int]
  BY DEF ChrInv, Base
<1>4. ChrResult' = ChrResult /\ Enough' = Enough /\ (Copies' <=> Copies) /\ ChrWrites' = ChrWrites
  BY DEF ChrResult, Enough, Copies, Found, ChrWrites
<1>5. CASE ~Copies
  <2>1. mem' = mem /\ DOMAIN io' = {"reads", "writes"} /\ io'.writes = {} /\ io'.reads = Span(r.p, k)
    BY <1>5, TouchIs DEF ChrTouch, Reads
  <2>2. Span(r.p, k) \subseteq Span(op.p, op.n)
    BY <1>1 DEF Span
  <2> QED
    BY <1>3, <1>4, <1>5, <2>1, <2>2 DEF ChrOp
<1>6. CASE Copies
  <2>1. Move(r.q, r.p, k)
    BY <1>6 DEF ChrTouch
  <2>2. r.q = op.q + Walked /\ r.q \in Int /\ r.p \in Int /\ Walked + k <= Enough
    BY <1>1, <1>6 DEF Enough, Least
  <2>3. \A a \in Span(r.q, k) : r.p + a - r.q \in Addr
    BY <1>0, <1>1, <1>2, <2>2 DEF Span, Addr
  <2>4. /\ mem' \in [Addr -> Int]
        /\ \A a \in Addr : mem'[a] = IF a \in Span(r.q, k) THEN mem[r.p + a - r.q] ELSE mem[a]
    BY <1>3, <2>1, <2>2, <2>3, CopiedIs DEF Move
  <2>5. \A i \in 0..(op.n - 1) : mem'[op.p + i] = mem[op.p + i]
    <3> TAKE i \in 0..(op.n - 1)
    <3>1. op.p + i \in Addr /\ op.p + i \notin Span(r.q, k)
      BY <1>0, <1>1, <1>2, <1>6, <2>2 DEF Addr, Span
    <3> QED
      BY <2>4, <3>1
  <2>6. ChrOp'
    <3>1. (op.d < op.n => op.d \in 0..(op.n - 1)) /\ \A i \in 0..(op.d - 1) : i \in 0..(op.n - 1)
      BY <1>1
    <3> QED
      BY <1>3, <2>5, <3>1 DEF ChrOp, Copies
  <2>7. Same(mem', op.p, op.q, Walked + k)
    <3> DEFINE last == (Walked + k) - 1
    <3> SUFFICES ASSUME NEW i \in 0..last PROVE mem'[op.p + i] = mem'[op.q + i]
      BY DEF Same
    <3>0. last \in Int /\ last = Walked + k - 1 /\ last < op.n
      BY <1>1
    <3> HIDE DEF last
    <3>1. i \in 0..(op.n - 1) /\ op.q + i \in Addr
      BY <1>0, <1>1, <1>2, <1>6, <2>2, <3>0 DEF Addr
    <3>2. CASE i < Walked
      <4>1. op.q + i \notin Span(r.q, k) /\ i \in 0..(Walked - 1)
        BY <1>1, <2>2, <3>2 DEF Span
      <4>2. mem[op.p + i] = mem[op.q + i]
        BY <1>6, <4>1 DEF ChrInv, Same
      <4> QED
        BY <2>4, <2>5, <3>1, <4>1, <4>2
    <3>3. CASE i >= Walked
      <4>1. op.q + i \in Span(r.q, k) /\ r.p + (op.q + i) - r.q = op.p + i
        BY <1>1, <2>2, <3>0, <3>3 DEF Span
      <4> QED
        BY <2>4, <2>5, <3>1, <4>1
    <3> QED
      BY <1>1, <3>2, <3>3
  <2>8. DOMAIN io' = {"reads", "writes"} /\ io'.writes = Span(r.q, k) /\ io'.reads = Span(r.p, k)
    BY <2>1, TouchIs DEF Move
  <2>9. Span(r.p, k) \subseteq Span(op.p, op.n) /\ Span(r.q, k) \subseteq Span(op.q, Enough)
    BY <1>1, <2>2 DEF Span
  <2>10. io'.writes \subseteq ChrWrites /\ io'.reads \subseteq Span(op.p, op.n)
    BY <1>6, <2>8, <2>9 DEF ChrWrites
  <2> QED
    BY <1>4, <2>4, <2>6, <2>7, <2>8, <2>10
<1> QED
  BY <1>5, <1>6

LEMMA ChrKept ==
  ASSUME ChrInv, UNCHANGED op, Quiet
  PROVE  /\ ChrOp' /\ mem' = mem /\ (mem \in [Addr -> Int])' /\ (DOMAIN io = {"reads", "writes"})'
         /\ ChrResult' = ChrResult /\ Enough' = Enough /\ (Copies' <=> Copies)
         /\ (io.writes \subseteq ChrWrites)' /\ (io.reads \subseteq Span(op.p, op.n))'
<1>1. mem' = mem /\ DOMAIN io' = {"reads", "writes"} /\ io'.reads = {} /\ io'.writes = {}
  BY QuietIs
<1>2. ChrResult' = ChrResult /\ Enough' = Enough /\ (Copies' <=> Copies)
  BY DEF ChrResult, Enough, Copies, Found
<1>3. ChrOp'
  BY <1>1 DEF ChrInv, ChrOp, Copies
<1> QED
  BY <1>1, <1>2, <1>3 DEF ChrInv, Base

LEMMA ChrGoto ==
  ASSUME ChrInv, UNCHANGED op, r.at \notin {"entry", "ret"}, Goto("byte"),
         Quiet \/ (\E k \in Nat : Walked + k <= op.n /\ Reads(r.p, k))
  PROVE  ChrInv'
<1>1. r \in Regs /\ "byte" \in Labels
  BY DEF ChrInv, Base, Labels
<1>2. r' \in Regs /\ r'.at = "byte" /\ r'.p = r.p /\ r'.q = r.q /\ r'.n = r.n
  BY <1>1, GotoIs
<1>3. Walked' = Walked /\ (Copies' <=> Copies)
  BY <1>2 DEF Walked, Copies
<1>4. /\ ChrOp' /\ mem' = mem /\ (mem \in [Addr -> Int])' /\ (DOMAIN io = {"reads", "writes"})'
      /\ (io.writes \subseteq ChrWrites)' /\ (io.reads \subseteq Span(op.p, op.n))'
  <2>1. CASE Quiet
    BY <2>1, ChrKept
  <2>2. CASE \E k \in Nat : Walked + k <= op.n /\ Reads(r.p, k)
    <3>1. PICK k \in Nat : Walked + k <= op.n /\ Reads(r.p, k)
      BY <2>2
    <3>2. mem' = mem /\ DOMAIN io' = {"reads", "writes"} /\ io'.writes = {} /\ io'.reads = Span(r.p, k)
      BY <3>1, TouchIs DEF Reads
    <3>3. Span(r.p, k) \subseteq Span(op.p, op.n)
      BY <3>1, ChrFacts DEF Span
    <3>4. ChrOp'
      BY <3>2 DEF ChrInv, ChrOp, Copies
    <3> QED
      BY <3>2, <3>3, <3>4 DEF ChrInv, Base
  <2> QED
    BY <2>1, <2>2
<1>5. /\ Walked \in 0..op.d /\ r.n = op.n - Walked
      /\ Copies => r.q = op.q + Walked /\ Same(mem, op.p, op.q, Walked)
  BY DEF ChrInv
<1>6. (/\ Walked \in 0..op.d /\ r.n = op.n - Walked
       /\ Copies => r.q = op.q + Walked /\ Same(mem, op.p, op.q, Walked))'
  BY <1>2, <1>3, <1>4, <1>5 DEF Same
<1> QED
  BY <1>2, <1>4, <1>6 DEF ChrInv, Base

LEMMA ChrPass ==
  ASSUME ChrInv, UNCHANGED op, r.at \notin {"entry", "ret"}, NEW k \in Nat, Walked + k <= op.d, ChrTouch(k),
         Pass(k, r.at)
  PROVE  ChrInv'
<1>1. /\ r \in Regs /\ r.at \in Labels /\ r.p \in Int /\ op.p \in Int /\ op.n \in Nat /\ op.d \in Nat
      /\ op.d <= op.n /\ Walked \in Nat /\ r.n = op.n - Walked /\ op.q \in Int /\ r.q \in Int
      /\ Copies => r.q = op.q + Walked
  BY ChrFacts
<1>2. r' \in Regs /\ r'.at = r.at /\ r'.p = r.p + k /\ r'.q = r.q + k /\ r'.n = r.n - k
  BY <1>1, PassIs
<1>3. Walked' = Walked + k /\ Walked + k <= op.n /\ Walked + k <= op.d + 1
  BY <1>1, <1>2 DEF Walked
<1>4. /\ ChrOp' /\ (mem \in [Addr -> Int])' /\ (DOMAIN io = {"reads", "writes"})'
      /\ (Copies' <=> Copies) /\ (Copies => Same(mem', op.p, op.q, Walked + k))
      /\ (io.writes \subseteq ChrWrites)' /\ (io.reads \subseteq Span(op.p, op.n))'
  BY <1>3, ChrTouched
<1>5. (Walked \in 0..op.d /\ r.n = op.n - Walked)'
  BY <1>1, <1>2, <1>3
<1>6. Copies => r'.q = op.q + (Walked + k)
  BY <1>1, <1>2
<1>7. (Copies => r.q = op.q + Walked /\ Same(mem, op.p, op.q, Walked))'
  BY <1>3, <1>4, <1>6 DEF Same
<1> QED
  BY <1>2, <1>4, <1>5, <1>7 DEF ChrInv, Base

(* c is not among the n bytes.                                             *)
LEMMA ChrNone ==
  ASSUME ChrInv, UNCHANGED op, r.at \notin {"entry", "ret"}, r.n = 0, Return(0), Quiet
  PROVE  ChrInv'
<1>1. Walked = op.n /\ op.d = op.n /\ r \in Regs /\ op.n \in Nat
  BY ChrFacts
<1>2. r' \in Regs /\ r'.at = "ret" /\ r'.v = 0
  BY <1>1, ReturnIs
<1>3. ChrResult = 0 /\ Enough = op.n
  BY <1>1 DEF ChrResult, Found, Enough, Least
<1>4. Copies => Same(mem, op.p, op.q, Enough)
  BY <1>1, <1>3 DEF ChrInv
<1>5. (Copies => Same(mem, op.p, op.q, Enough))'
  BY <1>4, ChrKept DEF Same
<1> QED
  BY <1>2, <1>3, <1>5, ChrKept DEF ChrInv, Base

(* c is found at the byte looked at.                                       *)
LEMMA ChrMet ==
  ASSUME ChrInv, UNCHANGED op, r.at \notin {"entry", "ret"}, NEW i \in {0, 1}, NEW k \in {1, 2}, i < k,
         Copies => i = 0 /\ k = 1,
         Walked + k <= op.n, Walked + i = op.d, ChrTouch(k),
         Return(IF Copies THEN r.q + 1 ELSE r.p + i)
  PROVE  ChrInv'
<1>1. /\ r \in Regs /\ r.p \in Int /\ r.q \in Int /\ op.n \in Nat /\ op.d \in Nat /\ op.d < op.n
      /\ r.p = op.p + Walked /\ op.p \in Int /\ op.q \in Int /\ Walked \in Nat
      /\ Copies => r.q = op.q + Walked
  BY ChrFacts
<1>2. ChrResult = IF Copies THEN r.q + 1 ELSE r.p + i
  <2>1. Found
    BY <1>1 DEF Found
  <2>2. Copies => op.q + op.d + 1 = r.q + 1
    BY <1>1
  <2>3. op.p + op.d = r.p + i
    BY <1>1
  <2> QED
    BY <2>1, <2>2, <2>3 DEF ChrResult
<1>3. ChrResult \in Int
  BY <1>1, <1>2
<1>4. r' \in Regs /\ r'.at = "ret" /\ r'.v = ChrResult
  BY <1>1, <1>2, <1>3, ReturnIs
<1>5. k \in Nat /\ (Copies => Walked + k <= op.d + 1 /\ Walked + k = Enough)
  BY <1>1 DEF Enough, Least
<1>6. /\ ChrOp' /\ (mem \in [Addr -> Int])' /\ (DOMAIN io = {"reads", "writes"})'
      /\ ChrResult' = ChrResult /\ Enough' = Enough /\ (Copies' <=> Copies)
      /\ Copies => Same(mem', op.p, op.q, Walked + k)
      /\ (io.writes \subseteq ChrWrites)' /\ (io.reads \subseteq Span(op.p, op.n))'
  BY <1>5, ChrTouched
<1>7. (Copies => Same(mem, op.p, op.q, Enough))'
  BY <1>5, <1>6 DEF Same
<1> QED
  BY <1>4, <1>6, <1>7 DEF ChrInv, Base

(* The test of a word, by ByteAssumption.                                  *)
LEMMA HitIs ==
  ASSUME ChrInv, r.at \notin {"entry", "ret"}, Walked + 8 <= op.n
  PROVE  Hit <=> ~(Walked + 8 <= op.d)
<1>1. /\ Walked \in Nat /\ Walked <= op.d /\ r.p = op.p + Walked /\ op.p \in Int /\ op.n \in Nat /\ op.d \in Nat
  BY ChrFacts
<1> DEFINE b == [i \in 0..7 |-> mem[r.p + i]]
<1>2. \A i \in 0..7 : r.p + i = op.p + (Walked + i) /\ Walked + i \in 0..(op.n - 1)
  BY <1>1
<1>3. b \in [0..7 -> Bytes] /\ op.c \in Bytes
  <2>1. \A i \in 0..7 : mem[r.p + i] \in Bytes
    BY <1>2 DEF ChrInv, ChrOp
  <2> QED
    BY <2>1 DEF ChrInv, ChrOp
<1>4. Hit <=> \E i \in 0..7 : b[i] = op.c
  <2>1. HasByte(Lanes(b), op.c) <=> \E i \in 0..7 : b[i] = op.c
    <3> HIDE DEF b
    <3> QED
      BY <1>3, ByteAssumption
  <2> QED
    BY <2>1 DEF Hit
<1>5. ASSUME Walked + 8 <= op.d, NEW i \in 0..7 PROVE mem[r.p + i] # op.c
  <2>1. i \in Nat /\ ~(Walked + i >= op.d) /\ Walked + i < op.n
    BY <1>1, <1>5
  <2> QED
    BY <2>1, ChrFirst
<1>6. ASSUME ~(Walked + 8 <= op.d) PROVE \E i \in 0..7 : mem[r.p + i] = op.c
  <2> DEFINE j == op.d - Walked
  <2>1. j \in 0..7 /\ j \in Nat /\ Walked + j = op.d /\ Walked + j < op.n
    BY <1>1, <1>6
  <2>2. mem[r.p + j] = op.c
    BY <2>1, ChrFirst
  <2> QED
    BY <2>1, <2>2
<1> QED
  BY <1>4, <1>5, <1>6

LEMMA ChrStep ==
  ASSUME ChrInv, MemNext
  PROVE  ChrInv'
<1>1. op.fn \in ChrFns /\ UNCHANGED op
  BY DEF ChrInv, ChrOp, MemNext
<1>2. /\ r \in Regs /\ r.p \in Int /\ r.q \in Int /\ r.n \in Int /\ r.at \in Labels
      /\ op.p \in Int /\ op.q \in Int /\ op.n \in Nat /\ op.d \in Nat /\ op.d <= op.n
      /\ r.at \notin {"entry", "ret"} =>
           /\ Walked \in Nat /\ Walked <= op.d /\ r.p = op.p + Walked /\ r.n = op.n - Walked
           /\ Copies => r.q = op.q + Walked
  BY ChrFacts
<1>3. CASE ChrStart
  <2> DEFINE label == CASE op.fn = "memchr4" -> "pair"
                        [] op.fn = "memccpy4" -> "byte"
                        [] OTHER -> IF op.n < 16 THEN "byte" ELSE "word"
  <2>1. /\ r.at = "entry" /\ Quiet
        /\ IF op.n = 0 THEN Return(0)
           ELSE r' = [r EXCEPT !.p = op.p, !.q = op.q, !.n = op.n, !.at = label]
    BY <1>3 DEF ChrStart
  <2>2. \A k \in {0} : Same(mem, op.p, op.q, k)
    BY DEF Same
  <2>3. CASE op.n = 0
    <3>1. r' \in Regs /\ r'.at = "ret" /\ r'.v = 0
      BY <1>2, <2>1, <2>3, ReturnIs
    <3>2. ChrResult = 0 /\ Enough = 0
      BY <1>2, <2>3 DEF ChrResult, Found, Enough, Least
    <3>3. (Copies => Same(mem, op.p, op.q, Enough))'
      BY <1>1, <2>1, <2>2, <3>2, ChrKept DEF Same
    <3> QED
      BY <1>1, <2>1, <3>1, <3>2, <3>3, ChrKept DEF ChrInv, Base
  <2>4. CASE op.n # 0
    <3>1. label \in {"pair", "byte", "word"}
      OBVIOUS
    <3>2. label \in Labels
      BY <3>1 DEF Labels
    <3> HIDE DEF label
    <3>3. op.n \in Int
      BY <1>2
    <3>4. r' = [r EXCEPT !.p = op.p, !.q = op.q, !.n = op.n, !.at = label]
      BY <2>1, <2>4
    <3>5. r' \in Regs
      BY <1>2, <3>2, <3>3, <3>4, PutP, PutQ, PutN, PutAt, Zenon
    <3>6. r'.p = op.p /\ r'.q = op.q /\ r'.n = op.n /\ r'.at = label
      BY <1>2, <3>4 DEF Regs
    <3>7. Walked' = 0
      BY <1>1, <1>2, <3>6 DEF Walked
    <3>8. (Walked \in 0..op.d /\ r.n = op.n - Walked /\ r.q = op.q + Walked)'
      BY <1>1, <1>2, <3>6, <3>7
    <3>9. Same(mem, op.p, op.q, Walked)'
      BY <1>1, <2>1, <2>2, <3>7, ChrKept DEF Same
    <3> QED
      BY <1>1, <2>1, <3>1, <3>5, <3>6, <3>8, <3>9, ChrKept DEF ChrInv, Base
  <2> QED
    BY <2>3, <2>4
<1>4. CASE ChrPair
  <2>1. r.at = "pair" /\ op.fn = "memchr4" /\ ~Copies
    BY <1>4 DEF ChrPair, Copies
  <2>2. CASE r.n < 2
    BY <1>1, <1>4, <2>1, <2>2, ChrGoto DEF ChrPair
  <2>3. CASE ~(r.n < 2)
    <3>1. /\ Reads(r.p, 2)
          /\ IF mem[r.p] = op.c THEN Return(r.p)
             ELSE IF mem[r.p + 1] = op.c THEN Return(r.p + 1)
             ELSE r' = [r EXCEPT !.p = r.p + 2, !.n = r.n - 2]
      BY <1>4, <2>3 DEF ChrPair
    <3>2. /\ Walked + 2 <= op.n /\ r.p + 0 = r.p /\ Walked \in Nat /\ Walked <= op.d /\ r.at \notin {"entry", "ret"}
          /\ Walked + 0 < op.n /\ Walked + 1 < op.n
      BY <1>2, <2>1, <2>3
    <3>3. ChrTouch(2)
      BY <2>1, <3>1 DEF ChrTouch
    <3>4. /\ mem[r.p] = op.c <=> Walked = op.d
          /\ mem[r.p + 1] = op.c => Walked + 1 >= op.d
          /\ Walked + 1 = op.d => mem[r.p + 1] = op.c
      <4>1. /\ mem[r.p + 0] = op.c => Walked + 0 >= op.d
            /\ Walked + 0 = op.d => mem[r.p + 0] = op.c
        BY <3>2, ChrFirst
      <4>2. /\ mem[r.p + 1] = op.c => Walked + 1 >= op.d
            /\ Walked + 1 = op.d => mem[r.p + 1] = op.c
        BY <3>2, ChrFirst
      <4> QED
        BY <1>2, <3>2, <4>1, <4>2
    <3>5. CASE mem[r.p] = op.c
      <4>1. Return(IF Copies THEN r.q + 1 ELSE r.p + 0)
        BY <2>1, <3>1, <3>2, <3>5
      <4>2. Walked + 0 = op.d
        BY <1>2, <3>2, <3>4, <3>5
      <4> QED
        BY <1>1, <2>1, <3>2, <3>3, <4>1, <4>2, ChrMet
    <3>6. CASE mem[r.p] # op.c /\ mem[r.p + 1] = op.c
      <4>1. Return(IF Copies THEN r.q + 1 ELSE r.p + 1)
        BY <2>1, <3>1, <3>6
      <4>2. Walked # op.d /\ Walked + 1 >= op.d
        BY <3>4, <3>6
      <4>3. Walked + 1 = op.d
        BY <1>2, <3>2, <4>2
      <4> QED
        BY <1>1, <2>1, <3>2, <3>3, <4>1, <4>3, ChrMet
    <3>7. CASE mem[r.p] # op.c /\ mem[r.p + 1] # op.c
      <4>1. r' = [r EXCEPT !.p = r.p + 2, !.n = r.n - 2]
        BY <3>1, <3>7
      <4>2. r.p + 2 \in Int /\ r.n - 2 \in Int
        BY <1>2
      <4>3. r' \in Regs
        BY <1>2, <4>1, <4>2, PutP, PutN, Zenon
      <4>4. r'.p = r.p + 2 /\ r'.n = r.n - 2 /\ r'.at = "pair"
        BY <1>2, <2>1, <4>1 DEF Regs
      <4>5. Walked + 2 <= op.d
        BY <1>2, <3>2, <3>4, <3>7
      <4>6. (Walked \in 0..op.d /\ r.n = op.n - Walked)'
        <5>1. Walked' = Walked + 2
          BY <1>1, <1>2, <4>4 DEF Walked
        <5> QED
          BY <1>1, <1>2, <2>1, <4>4, <4>5, <5>1
      <4>7. /\ ChrOp' /\ (mem \in [Addr -> Int])' /\ (DOMAIN io = {"reads", "writes"})' /\ ~Copies'
            /\ (io.writes \subseteq ChrWrites)' /\ (io.reads \subseteq Span(op.p, op.n))'
        BY <1>1, <2>1, <3>2, <3>3, ChrTouched
      <4> QED
        BY <4>3, <4>4, <4>6, <4>7 DEF ChrInv, Base
    <3> QED
      BY <3>5, <3>6, <3>7
  <2> QED
    BY <2>2, <2>3
<1>5. CASE ChrWord
  <2>1. r.at = "word"
    BY <1>5 DEF ChrWord
  <2>2. CASE r.n < 8
    BY <1>1, <1>5, <2>1, <2>2, ChrGoto DEF ChrWord
  <2>3. CASE ~(r.n < 8)
    <3>1. Walked + 8 <= op.n
      BY <1>2, <2>1, <2>3
    <3>2. CASE Hit
      <4>1. Reads(r.p, 8) /\ Goto("byte")
        BY <1>5, <2>3, <3>2 DEF ChrWord
      <4> QED
        BY <1>1, <2>1, <3>1, <4>1, ChrGoto
    <3>3. CASE ~Hit
      <4>1. ChrTouch(8) /\ Pass(8, "word")
        BY <1>5, <2>3, <3>3 DEF ChrWord, ChrTouch
      <4>2. Walked + 8 <= op.d
        BY <2>1, <3>1, <3>3, HitIs
      <4> QED
        BY <1>1, <2>1, <4>1, <4>2, ChrPass
    <3> QED
      BY <3>2, <3>3
  <2> QED
    BY <2>2, <2>3
<1>6. CASE ChrByte
  <2>1. r.at = "byte"
    BY <1>6 DEF ChrByte
  <2>2. CASE r.n = 0
    BY <1>1, <1>6, <2>1, <2>2, ChrNone DEF ChrByte
  <2>3. CASE r.n # 0
    <3>1. /\ ChrTouch(1)
          /\ IF mem[r.p] = op.c THEN Return(IF Copies THEN r.q + 1 ELSE r.p) ELSE Pass(1, "byte")
      BY <1>6, <2>3 DEF ChrByte, ChrTouch
    <3>2. /\ Walked + 1 <= op.n /\ r.p + 0 = r.p /\ Walked \in Nat /\ Walked <= op.d /\ r.at \notin {"entry", "ret"}
          /\ Walked + 0 < op.n
      BY <1>2, <2>1, <2>3
    <3>3. mem[r.p] = op.c <=> Walked = op.d
      <4>1. /\ mem[r.p + 0] = op.c => Walked + 0 >= op.d
            /\ Walked + 0 = op.d => mem[r.p + 0] = op.c
        BY <3>2, ChrFirst
      <4> QED
        BY <1>2, <3>2, <4>1
    <3>4. CASE mem[r.p] = op.c
      <4>1. Return(IF Copies THEN r.q + 1 ELSE r.p + 0)
        BY <3>1, <3>2, <3>4
      <4>2. Walked + 0 = op.d
        BY <1>2, <3>2, <3>3, <3>4
      <4> QED
        BY <1>1, <3>1, <3>2, <4>1, <4>2, ChrMet
    <3>5. CASE mem[r.p] # op.c
      <4>1. Walked + 1 <= op.d
        BY <1>2, <3>2, <3>3, <3>5
      <4> QED
        BY <1>1, <2>1, <3>1, <3>2, <3>5, <4>1, ChrPass
    <3> QED
      BY <3>4, <3>5
  <2> QED
    BY <2>2, <2>3
<1> QED
  BY <1>1, <1>3, <1>4, <1>5, <1>6
     DEF MemNext, SetFns, ChrFns, MoveStart, MoveAlign, MoveAligned, MoveQuad, MoveByte, MoveDone,
         MoveBlock, SetStart, SetLoop, CmpStart, CmpBytes, CmpWords4, CmpWords8, StrChr, StrCmp, StrCpy

LEMMA ChrInit == ASSUME ChrCalls, MemQuiet PROVE ChrInv
<1>1. PICK fn \in ChrFns, n \in Lengths, c \in Bytes : \E d \in 0..n, f \in Bytes \ {c}, g \in {0, c} :
        /\ op = MemCall(fn, Lowest, Middle, n, c, d)
        /\ mem = [x \in Lowest..Highest |->
                    CASE x < Lowest + d -> f [] x = Lowest + d -> c
                      [] x > Lowest + d /\ x < Middle -> g [] OTHER -> 0]
  BY DEF ChrCalls
<1>2. PICK d \in 0..n, f \in Bytes \ {c}, g \in {0, c} :
        /\ op = MemCall(fn, Lowest, Middle, n, c, d)
        /\ mem = [x \in Lowest..Highest |->
                    CASE x < Lowest + d -> f [] x = Lowest + d -> c
                      [] x > Lowest + d /\ x < Middle -> g [] OTHER -> 0]
  BY <1>1
<1>3. op.fn = fn /\ op.p = Lowest /\ op.q = Middle /\ op.n = n /\ op.c = c /\ op.d = d
  BY <1>2 DEF MemCall
<1>4. /\ Lowest \in Int /\ Highest \in Int /\ n \in Nat /\ Middle \in Int /\ Lowest + 3 + n < Middle
      /\ Middle + 3 + n <= Highest
  BY RoomAssumption, LaneAssumption DEF Middle, Half
<1>5. \A x \in Addr :
        mem[x] = CASE x < Lowest + d -> f [] x = Lowest + d -> c
                   [] x > Lowest + d /\ x < Middle -> g [] OTHER -> 0
  BY <1>2 DEF Addr
<1>6. Bytes \subseteq Int /\ 0 \in Bytes
  <2>1. 2^LANE - 1 \in Int
    BY LaneAssumption
  <2>2. c \in 0..(2^LANE - 1)
    BY DEF Bytes
  <2> QED
    BY <2>1, <2>2 DEF Bytes
<1>7. f \in Bytes /\ f # c /\ g \in Bytes /\ c \in Bytes
  BY <1>6
<1>8. mem \in [Addr -> Int]
  <2>1. \A x \in Addr : mem[x] \in Int
    BY <1>4, <1>5, <1>6, <1>7 DEF Addr
  <2> QED
    BY <1>2, <2>1 DEF Addr
<1>9. /\ \A i \in 0..(d - 1) : mem[op.p + i] = f
      /\ mem[op.p + d] = c
      /\ \A i \in 0..n : mem[op.p + i] \in Bytes
  <2>1. \A i \in 0..n : Lowest + i \in Addr /\ Lowest + i < Middle
    BY <1>4 DEF Addr
  <2>2. ASSUME NEW i \in 0..n, i < d PROVE mem[Lowest + i] = f
    BY <1>4, <1>5, <2>1, <2>2
  <2>3. mem[Lowest + d] = c
    BY <1>4, <1>5, <2>1
  <2>4. ASSUME NEW i \in 0..n, i > d PROVE mem[Lowest + i] = g
    BY <1>4, <1>5, <2>1, <2>4
  <2>5. \A i \in 0..(d - 1) : i \in 0..n /\ i < d
    BY <1>4
  <2> QED
    BY <1>3, <1>4, <1>7, <2>2, <2>3, <2>4, <2>5
<1>10. ChrOp
  <2>1. /\ op.fn \in ChrFns /\ op.p \in Int /\ op.q \in Int /\ op.n \in Nat /\ op.d \in 0..op.n
        /\ op.c \in Bytes /\ Lowest <= op.p /\ op.p + op.n <= op.q /\ op.q + op.n <= Highest
    BY <1>3, <1>4, <1>7
  <2>2. /\ \A i \in 0..(op.n - 1) : mem[op.p + i] \in Bytes
        /\ \A i \in 0..(op.d - 1) : mem[op.p + i] # op.c
        /\ mem[op.p + op.d] = op.c
    <3>1. \A i \in 0..(n - 1) : i \in 0..n
      BY <1>4
    <3> QED
      BY <1>3, <1>7, <1>9, <3>1
  <2> QED
    BY <2>1, <2>2, <1>4 DEF ChrOp
<1>11. r \in Regs /\ r.at = "entry" /\ DOMAIN io = {"reads", "writes"} /\ io.reads = {} /\ io.writes = {}
  BY DEF MemQuiet, Regs, Labels
<1> QED
  BY <1>8, <1>10, <1>11 DEF ChrInv, Base

LEMMA ChrRight == ASSUME ChrInv PROVE MemExact /\ OwnBytes
<1>1. op.fn \in ChrFns
  BY DEF ChrInv, ChrOp
<1>2. Written = ChrWrites /\ Readable = Span(op.p, op.n) /\ Result(mem) = ChrResult
  BY <1>1 DEF SetFns, ChrFns, Written, Readable, ChrWrites, Enough, Copies, Result, ChrResult
<1>3. OwnBytes
  BY <1>2 DEF ChrInv, OwnBytes
<1>4. r.at = "ret" => r.v = ChrResult /\ (Copies => Same(mem, op.p, op.q, Enough))
  BY DEF ChrInv
<1> QED
  BY <1>1, <1>2, <1>3, <1>4 DEF MemExact, ChrFns, SetFns, Copies, Enough

-----------------------------------------------------------------------------
(* strchr                                                                  *)

(* The string has c, or its end, at d, and neither before.                 *)
SchrOp ==
  /\ op.fn = "strchr4" /\ op.p \in Int /\ op.d \in Nat
  /\ \A i \in 0..(op.d - 1) : mem[op.p + i] # 0 /\ mem[op.p + i] # op.c
  /\ mem[op.p + op.d] \in {0, op.c}

SchrResult == IF mem[op.p + op.d] = op.c THEN op.p + op.d ELSE 0

SchrInv ==
  /\ Base /\ SchrOp
  /\ r.at \in {"entry", "byte", "null", "word", "ret"}
  /\ r.at \notin {"entry", "ret"} => Walked \in 0..op.d /\ (r.at = "byte" <=> op.c # 0)
  /\ r.at = "word" => r.p % 4 = 0
  /\ r.at = "ret" => r.v = SchrResult
  /\ io.writes = {} /\ io.reads \subseteq Aligned(op.p, op.d + 1)

LEMMA AlignedHas ==
  ASSUME NEW a \in Int, NEW n \in Nat, NEW i \in 0..n
  PROVE  /\ Span(a + i, 1) \subseteq Aligned(a, n + 1)
         /\ (a + i) % 4 = 0 => Span(a + i, 4) \subseteq Aligned(a, n + 1)
<1> DEFINE w == 4 * ((a + i) \div 4)
<1>1. i \in 0..((n + 1) - 1)
  OBVIOUS
<1>2. Span(w, 4) \subseteq Aligned(a, n + 1)
  BY <1>1 DEF Aligned
<1>3. w \in Int /\ w <= a + i /\ a + i <= w + 3 /\ ((a + i) % 4 = 0 => w = a + i)
  OBVIOUS
<1> HIDE DEF w
<1>4. Span(a + i, 1) \subseteq Span(w, 4)
  BY <1>3 DEF Span
<1> QED
  BY <1>2, <1>3, <1>4

LEMMA SchrFacts ==
  ASSUME SchrInv
  PROVE  /\ r \in Regs /\ r.p \in Int /\ r.at \in Labels /\ op.p \in Int /\ op.d \in Nat
         /\ r.at \notin {"entry", "ret"} =>
              Walked \in Nat /\ Walked <= op.d /\ r.p = op.p + Walked /\ (r.at = "byte" <=> op.c # 0)
BY RegsAre DEF SchrInv, SchrOp, Base, Walked

LEMMA SchrByte ==
  ASSUME SchrInv, r.at \notin {"entry", "ret"}, NEW k \in Nat, Walked + k <= op.d
  PROVE  /\ Walked + k < op.d => mem[r.p + k] # 0 /\ mem[r.p + k] # op.c
         /\ Walked + k = op.d => mem[r.p + k] = mem[op.p + op.d] /\ mem[r.p + k] \in {0, op.c}
<1>1. Walked \in Nat /\ Walked <= op.d /\ r.p = op.p + Walked /\ op.p \in Int /\ op.d \in Nat
  BY SchrFacts
<1>2. r.p + k = op.p + (Walked + k)
  BY <1>1
<1>3. Walked + k < op.d => Walked + k \in 0..(op.d - 1)
  BY <1>1
<1> QED
  BY <1>2, <1>3 DEF SchrInv, SchrOp

LEMMA SchrKept ==
  ASSUME SchrInv, UNCHANGED op,
         Quiet \/ (r.at \notin {"entry", "ret"} /\ \E k \in {1, 4} : (k = 4 => r.p % 4 = 0) /\ Reads(r.p, k))
  PROVE  /\ SchrOp' /\ SchrResult' = SchrResult /\ (mem \in [Addr -> Int])' /\ (DOMAIN io = {"reads", "writes"})'
         /\ io'.writes = {} /\ (io.reads \subseteq Aligned(op.p, op.d + 1))'
<1>1. CASE Quiet
  BY <1>1, QuietIs DEF SchrInv, SchrOp, SchrResult, Base
<1>2. CASE r.at \notin {"entry", "ret"} /\ \E k \in {1, 4} : (k = 4 => r.p % 4 = 0) /\ Reads(r.p, k)
  <2>1. PICK k \in {1, 4} : (k = 4 => r.p % 4 = 0) /\ Reads(r.p, k)
    BY <1>2
  <2>2. mem' = mem /\ DOMAIN io' = {"reads", "writes"} /\ io'.writes = {} /\ io'.reads = Span(r.p, k)
    BY <2>1, TouchIs DEF Reads
  <2>3. Walked \in 0..op.d /\ r.p = op.p + Walked /\ op.p \in Int /\ op.d \in Nat
    BY <1>2, SchrFacts
  <2>4. Span(r.p, k) \subseteq Aligned(op.p, op.d + 1)
    BY <2>1, <2>3, AlignedHas
  <2> QED
    BY <2>2, <2>4 DEF SchrInv, SchrOp, SchrResult, Base
<1> QED
  BY <1>1, <1>2

LEMMA SchrOn ==
  ASSUME SchrInv, UNCHANGED op, r.at \notin {"entry", "ret"}, NEW k \in {1, 4}, Walked + k <= op.d,
         k = 4 <=> r.at = "word", Reads(r.p, k), r' = [r EXCEPT !.p = @ + k]
  PROVE  SchrInv'
<1>1. r \in Regs /\ r.p \in Int /\ op.p \in Int /\ op.d \in Nat /\ Walked \in Nat /\ r.p + k \in Int
  BY SchrFacts
<1>2. r' \in Regs
  BY <1>1, PutP, Zenon
<1>3. r'.p = r.p + k /\ r'.at = r.at
  BY <1>1 DEF Regs
<1>4. Walked' = Walked + k
  BY <1>1, <1>3 DEF Walked
<1>5. r.at = "word" => r.p % 4 = 0
  BY DEF SchrInv
<1>6. r.at = "word" => (r.p + 4) % 4 = 0
  BY <1>1, <1>5
<1>7. (Walked \in 0..op.d)'
  BY <1>1, <1>4
<1> QED
  BY <1>2, <1>3, <1>5, <1>6, <1>7, SchrKept DEF SchrInv, Base

LEMMA SchrReturn ==
  ASSUME SchrInv, UNCHANGED op, r.at \notin {"entry", "ret"}, NEW k \in {1, 4}, k = 4 => r.at = "word",
         Reads(r.p, k), Return(SchrResult)
  PROVE  SchrInv'
<1>1. r \in Regs /\ op.p \in Int /\ op.d \in Nat
  BY SchrFacts
<1>2. SchrResult \in Int
  BY <1>1 DEF SchrResult
<1>3. r' \in Regs /\ r'.at = "ret" /\ r'.v = SchrResult
  BY <1>1, <1>2, ReturnIs
<1>4. k = 4 => r.p % 4 = 0
  BY DEF SchrInv
<1> QED
  BY <1>3, <1>4, SchrKept DEF SchrInv, Base

LEMMA SchrStep ==
  ASSUME SchrInv, MemNext
  PROVE  SchrInv'
<1>1. op.fn = "strchr4" /\ UNCHANGED op
  BY DEF SchrInv, SchrOp, MemNext
<1>2. /\ r \in Regs /\ r.p \in Int /\ r.at \in Labels /\ op.p \in Int /\ op.d \in Nat
      /\ r.at \notin {"entry", "ret"} =>
           Walked \in Nat /\ Walked <= op.d /\ r.p = op.p + Walked /\ (r.at = "byte" <=> op.c # 0)
  BY SchrFacts
<1> DEFINE first == CHOOSE i \in 0..3 : mem[r.p + i] = 0 /\ \A j \in 0..(i - 1) : mem[r.p + j] # 0
           label == IF op.c = 0 THEN "null" ELSE "byte"
<1>3. StrChr
  BY <1>1 DEF MemNext, SetFns, ChrFns, MoveStart, MoveAlign, MoveAligned, MoveQuad, MoveByte, MoveDone,
              MoveBlock, SetStart, SetLoop, CmpStart, CmpBytes, CmpWords4, CmpWords8,
              ChrStart, ChrPair, ChrWord, ChrByte, StrCmp, StrCpy
<1>4. \/ r.at = "entry" /\ r' = [r EXCEPT !.p = op.p, !.at = label] /\ Quiet
      \/ /\ r.at = "byte" /\ Reads(r.p, 1)
         /\ IF mem[r.p] = 0 THEN Return(0)
            ELSE IF mem[r.p] = op.c THEN Return(r.p)
            ELSE r' = [r EXCEPT !.p = @ + 1]
      \/ r.at = "null" /\ r.p % 4 = 0 /\ Goto("word") /\ Quiet
      \/ /\ r.at = "null" /\ r.p % 4 # 0 /\ Reads(r.p, 1)
         /\ IF mem[r.p] = 0 THEN Return(r.p) ELSE r' = [r EXCEPT !.p = @ + 1]
      \/ /\ r.at = "word" /\ Reads(r.p, 4)
         /\ IF \E i \in 0..3 : mem[r.p + i] = 0 THEN Return(r.p + first) ELSE r' = [r EXCEPT !.p = @ + 4]
  BY <1>3 DEF StrChr
<1>5. ASSUME r.at \notin {"entry", "ret"}
      PROVE  /\ mem[r.p] \in {0, op.c} <=> Walked = op.d
             /\ mem[r.p] = op.c => SchrResult = r.p
             /\ mem[r.p] \in {0, op.c} /\ mem[r.p] # op.c => SchrResult = 0
  <2>1. r.p + 0 = r.p /\ Walked + 0 = Walked /\ (Walked = op.d => r.p = op.p + op.d)
    BY <1>2, <1>5
  <2>2. mem[r.p] \in {0, op.c} <=> Walked = op.d
    BY <1>2, <1>5, <2>1, SchrByte
  <2> QED
    BY <2>1, <2>2 DEF SchrResult
<1>6. CASE r.at = "entry" /\ r' = [r EXCEPT !.p = op.p, !.at = label] /\ Quiet
  <2>1. label \in Labels /\ label \in {"null", "byte"} /\ (label = "byte" <=> op.c # 0)
    BY DEF Labels
  <2> HIDE DEF label
  <2>2. r' \in Regs
    BY <1>2, <1>6, <2>1, PutP, PutAt, Zenon
  <2>3. r'.p = op.p /\ r'.at = label
    BY <1>2, <1>6 DEF Regs
  <2>4. (Walked \in 0..op.d)'
    BY <1>1, <1>2, <2>3 DEF Walked
  <2> QED
    BY <1>1, <1>6, <2>1, <2>2, <2>3, <2>4, SchrKept DEF SchrInv, Base
<1>7. CASE /\ r.at = "byte" /\ Reads(r.p, 1)
           /\ IF mem[r.p] = 0 THEN Return(0)
              ELSE IF mem[r.p] = op.c THEN Return(r.p)
              ELSE r' = [r EXCEPT !.p = @ + 1]
  <2>1. op.c # 0
    BY <1>2, <1>7
  <2>2. CASE mem[r.p] \in {0, op.c}
    <3>1. Return(SchrResult)
      BY <1>5, <1>7, <2>1, <2>2
    <3> QED
      BY <1>1, <1>7, <3>1, SchrReturn
  <2>3. CASE mem[r.p] \notin {0, op.c}
    <3>1. Walked + 1 <= op.d
      BY <1>2, <1>5, <1>7, <2>3
    <3>2. r' = [r EXCEPT !.p = @ + 1]
      BY <1>7, <2>3
    <3> QED
      BY <1>1, <1>7, <3>1, <3>2, SchrOn
  <2> QED
    BY <2>2, <2>3
<1>8. CASE r.at = "null" /\ r.p % 4 = 0 /\ Goto("word") /\ Quiet
  <2>1. "word" \in Labels
    BY DEF Labels
  <2>2. r' \in Regs /\ r'.at = "word" /\ r'.p = r.p
    BY <1>2, <1>8, <2>1, GotoIs
  <2>3. (Walked \in 0..op.d)'
    BY <1>1, <1>2, <1>8, <2>2 DEF Walked
  <2> QED
    BY <1>1, <1>2, <1>8, <2>2, <2>3, SchrKept DEF SchrInv, Base
<1>9. CASE /\ r.at = "null" /\ r.p % 4 # 0 /\ Reads(r.p, 1)
           /\ IF mem[r.p] = 0 THEN Return(r.p) ELSE r' = [r EXCEPT !.p = @ + 1]
  <2>1. op.c = 0
    BY <1>2, <1>9
  <2>2. CASE mem[r.p] = 0
    <3>1. Return(SchrResult)
      BY <1>5, <1>9, <2>1, <2>2
    <3> QED
      BY <1>1, <1>9, <3>1, SchrReturn
  <2>3. CASE mem[r.p] # 0
    <3>1. Walked + 1 <= op.d
      BY <1>2, <1>5, <1>9, <2>1, <2>3
    <3> QED
      BY <1>1, <1>9, <2>3, <3>1, SchrOn
  <2> QED
    BY <2>2, <2>3
<1>10. CASE /\ r.at = "word" /\ Reads(r.p, 4)
            /\ IF \E i \in 0..3 : mem[r.p + i] = 0 THEN Return(r.p + first) ELSE r' = [r EXCEPT !.p = @ + 4]
  <2>1. op.c = 0 /\ Walked \in Nat /\ Walked <= op.d /\ r.p = op.p + Walked /\ r.at \notin {"entry", "ret"}
    BY <1>2, <1>10
  <2>2. \A i \in Nat : /\ Walked + i < op.d => mem[r.p + i] # 0
                       /\ Walked + i = op.d => mem[r.p + i] = 0
    <3> TAKE i \in Nat
    <3>1. CASE Walked + i <= op.d
      BY <2>1, <3>1, SchrByte
    <3> QED
      BY <1>2, <2>1, <3>1
  <2> DEFINE j == op.d - Walked
  <2>3. CASE j <= 3
    <3>1. j \in 0..3 /\ j \in Nat /\ Walked + j = op.d /\ r.p + j = op.p + op.d
      BY <1>2, <2>1, <2>3
    <3>2. mem[r.p + j] = 0 /\ \A x \in 0..(j - 1) : mem[r.p + x] # 0
      <4>1. \A x \in 0..(j - 1) : x \in Nat /\ Walked + x < op.d
        BY <1>2, <2>1, <3>1
      <4> QED
        BY <2>2, <3>1, <4>1
    <3>3. \A i \in 0..3 : (mem[r.p + i] = 0 /\ \A x \in 0..(i - 1) : mem[r.p + x] # 0) => i = j
      <4> SUFFICES ASSUME NEW i \in 0..3, mem[r.p + i] = 0, \A x \in 0..(i - 1) : mem[r.p + x] # 0
                   PROVE  i = j
        OBVIOUS
      <4>1. ~(i < j)
        BY <3>1, <3>2
      <4>2. ~(j < i)
        BY <3>1, <3>2
      <4> QED
        BY <3>1, <4>1, <4>2
    <3> HIDE DEF j
    <3>4. first = j
      BY <3>1, <3>2, <3>3
    <3>5. Return(SchrResult)
      BY <1>10, <2>1, <3>1, <3>2, <3>4 DEF SchrResult
    <3> QED
      BY <1>1, <1>10, <3>5, SchrReturn
  <2>4. CASE ~(j <= 3)
    <3>1. \A i \in 0..3 : mem[r.p + i] # 0
      <4>1. \A i \in 0..3 : i \in Nat /\ Walked + i < op.d
        BY <1>2, <2>1, <2>4
      <4> QED
        BY <2>2, <4>1
    <3>2. Walked + 4 <= op.d /\ r' = [r EXCEPT !.p = @ + 4]
      BY <1>2, <1>10, <2>4, <3>1
    <3> QED
      BY <1>1, <1>10, <3>2, SchrOn
  <2> QED
    BY <2>3, <2>4
<1> QED
  BY <1>4, <1>6, <1>7, <1>8, <1>9, <1>10

-----------------------------------------------------------------------------
(* strcmp                                                                  *)

(* Strings that are the same before d, where they differ or both end.      *)
ScmpOp ==
  /\ op.fn = "strcmp4" /\ op.p \in Int /\ op.q \in Int /\ op.d \in Nat
  /\ \A i \in 0..(op.d - 1) : mem[op.p + i] = mem[op.q + i] /\ mem[op.q + i] # 0
  /\ mem[op.p + op.d] \in Nat /\ mem[op.q + op.d] \in Nat
  /\ mem[op.p + op.d] = mem[op.q + op.d] => mem[op.q + op.d] = 0

ScmpResult ==
  IF mem[op.p + op.d] = mem[op.q + op.d] THEN 0 ELSE Order(mem[op.p + op.d], mem[op.q + op.d])
ScmpReads == Span(op.p, op.d + 1) \cup Span(op.q, op.d + 1)

ScmpInv ==
  /\ Base /\ ScmpOp
  /\ r.at \in {"entry", "byte", "ret"}
  /\ r.at = "byte" => Walked \in 0..op.d /\ r.q = op.q + Walked
  /\ r.at = "ret" => r.v = ScmpResult
  /\ io.writes = {} /\ io.reads \subseteq ScmpReads

LEMMA ScmpStep ==
  ASSUME ScmpInv, MemNext
  PROVE  ScmpInv'
<1>1. op.fn = "strcmp4" /\ UNCHANGED op
  BY DEF ScmpInv, ScmpOp, MemNext
<1>2. /\ r \in Regs /\ r.p \in Int /\ r.q \in Int /\ r.n \in Int /\ op.p \in Int /\ op.q \in Int /\ op.d \in Nat
      /\ r.at = "byte" => Walked \in Nat /\ Walked <= op.d /\ r.p = op.p + Walked /\ r.q = op.q + Walked
  BY RegsAre DEF ScmpInv, ScmpOp, Base, Walked
<1>3. StrCmp
  BY <1>1 DEF MemNext, SetFns, ChrFns, MoveStart, MoveAlign, MoveAligned, MoveQuad, MoveByte, MoveDone,
              MoveBlock, SetStart, SetLoop, CmpStart, CmpBytes, CmpWords4, CmpWords8,
              ChrStart, ChrPair, ChrWord, ChrByte, StrChr, StrCpy
<1>4. ASSUME mem' = mem PROVE ScmpOp' /\ ScmpResult' = ScmpResult /\ ScmpReads' = ScmpReads /\ mem' \in [Addr -> Int]
  BY <1>1, <1>4 DEF ScmpInv, ScmpOp, ScmpResult, ScmpReads, Base
<1>5. CASE r.at = "entry" /\ r' = [r EXCEPT !.p = op.p, !.q = op.q, !.at = "byte"] /\ Quiet
  <2>1. "byte" \in Labels
    BY DEF Labels
  <2>2. r' \in Regs
    BY <1>2, <1>5, <2>1, PutP, PutQ, PutAt, Zenon
  <2>3. r'.p = op.p /\ r'.q = op.q /\ r'.at = "byte"
    BY <1>2, <1>5 DEF Regs
  <2>4. (Walked \in 0..op.d /\ r.q = op.q + Walked)'
    BY <1>1, <1>2, <2>3 DEF Walked
  <2>5. mem' = mem /\ DOMAIN io' = {"reads", "writes"} /\ io'.reads = {} /\ io'.writes = {}
    BY <1>5, QuietIs
  <2> QED
    BY <1>4, <2>2, <2>3, <2>4, <2>5 DEF ScmpInv, Base
<1>6. CASE /\ r.at = "byte" /\ Both(1)
           /\ CASE mem[r.q] = 0 -> Return(IF 0 < mem[r.p] THEN 1 ELSE 0)
                [] mem[r.q] # 0 /\ mem[r.p] = mem[r.q] -> Pass(1, "byte")
                [] OTHER -> Return(Order(mem[r.p], mem[r.q]))
  <2>1. mem' = mem /\ DOMAIN io' = {"reads", "writes"} /\ io'.writes = {} /\ io'.reads = Span(r.p, 1) \cup Span(r.q, 1)
    BY <1>6, TouchIs DEF Both
  <2>2. Span(r.p, 1) \subseteq Span(op.p, op.d + 1) /\ Span(r.q, 1) \subseteq Span(op.q, op.d + 1)
    BY <1>2, <1>6 DEF Span
  <2>3. io'.reads \subseteq ScmpReads'
    BY <1>4, <2>1, <2>2 DEF ScmpReads
  <2>4. Walked < op.d => mem[r.p] = mem[r.q] /\ mem[r.q] # 0
    <3>1. Walked < op.d => Walked \in 0..(op.d - 1)
      BY <1>2, <1>6
    <3> QED
      BY <1>2, <1>6, <3>1 DEF ScmpInv, ScmpOp
  <2>5. CASE mem[r.q] # 0 /\ mem[r.p] = mem[r.q]
    <3>1. Pass(1, "byte") /\ "byte" \in Labels
      BY <1>6, <2>5 DEF Labels
    <3>2. r' \in Regs /\ r'.at = "byte" /\ r'.p = r.p + 1 /\ r'.q = r.q + 1
      BY <1>2, <3>1, PassIs
    <3>3. Walked # op.d
      BY <1>2, <1>6, <2>5 DEF ScmpInv, ScmpOp
    <3>4. (Walked \in 0..op.d /\ r.q = op.q + Walked)'
      <4>1. Walked' = Walked + 1
        BY <1>1, <1>2, <3>2 DEF Walked
      <4> QED
        BY <1>1, <1>2, <1>6, <3>2, <3>3, <4>1
    <3> QED
      BY <1>4, <2>1, <2>3, <3>2, <3>4 DEF ScmpInv, Base
  <2>6. CASE ~(mem[r.q] # 0 /\ mem[r.p] = mem[r.q])
    <3>1. Walked = op.d /\ r.p = op.p + op.d /\ r.q = op.q + op.d
      BY <1>2, <1>6, <2>4, <2>6
    <3>2. Return(ScmpResult)
      <4>1. CASE mem[r.q] = 0
        <5>1. Return(IF 0 < mem[r.p] THEN 1 ELSE 0)
          BY <1>6, <4>1
        <5>2. mem[r.p] \in Nat
          BY <3>1 DEF ScmpInv, ScmpOp
        <5>3. ScmpResult = IF 0 < mem[r.p] THEN 1 ELSE 0
          BY <3>1, <4>1, <5>2 DEF ScmpResult, Order
        <5> QED
          BY <5>1, <5>3
      <4>2. CASE mem[r.q] # 0
        <5>1. mem[r.p] # mem[r.q]
          BY <2>6, <4>2
        <5>2. Return(Order(mem[r.p], mem[r.q]))
          BY <1>6, <4>2, <5>1
        <5> QED
          BY <3>1, <5>1, <5>2 DEF ScmpResult
      <4> QED
        BY <4>1, <4>2
    <3>3. ScmpResult \in Int
      BY OrderIs DEF ScmpResult
    <3>4. r' \in Regs /\ r'.at = "ret" /\ r'.v = ScmpResult
      BY <1>2, <3>2, <3>3, ReturnIs
    <3> QED
      BY <1>4, <2>1, <2>3, <3>4 DEF ScmpInv, Base
  <2> QED
    BY <2>5, <2>6
<1> QED
  BY <1>3, <1>5, <1>6 DEF StrCmp

-----------------------------------------------------------------------------
(* strcpy                                                                  *)

End == StrLength(mem, op.q)

(* The string ends at End; the copy lies apart from it.                    *)
ScpyOp ==
  /\ op.fn = "strcpy4" /\ op.p \in Int /\ op.q \in Int /\ End \in Nat
  /\ Lowest <= op.p /\ op.p + End <= Highest /\ Lowest <= op.q /\ op.q + End <= Highest
  /\ op.p + End < op.q \/ op.q + End < op.p
  /\ mem[op.q + End] = 0 /\ \A i \in 0..(End - 1) : mem[op.q + i] # 0

ScpyInv ==
  /\ Base /\ ScpyOp
  /\ r.at \in {"entry", "align", "word", "bytes", "ret"}
  /\ r.at \notin {"entry", "ret"} =>
       Walked \in 0..End /\ r.q = op.q + Walked /\ Same(mem, op.p, op.q, Walked)
  /\ r.at \in {"word", "bytes"} => r.q % 4 = 0
  /\ r.at = "ret" => r.v = op.p /\ Same(mem, op.p, op.q, End + 1)
  /\ io.writes \subseteq Span(op.p, End + 1) /\ io.reads \subseteq Aligned(op.q, End + 1)

LEMMA StrLengthIs ==
  ASSUME NEW m, NEW a \in Int, NEW k \in Nat, a + k <= Highest, m[a + k] = 0, \A i \in 0..(k - 1) : m[a + i] # 0
  PROVE  StrLength(m, a) = k
<1> DEFINE P(x) == m[a + x] = 0 /\ \A i \in 0..(x - 1) : m[a + i] # 0
<1>1. Highest \in Int
  BY RoomAssumption
<1>2. k \in 0..(Highest - a) /\ P(k)
  BY <1>1
<1>3. \A x \in 0..(Highest - a) : P(x) => x = k
  <2> SUFFICES ASSUME NEW x \in 0..(Highest - a), P(x) PROVE x = k
    OBVIOUS
  <2>1. x \in Int
    BY <1>1
  <2>2. ~(x < k)
    BY <1>1, <1>2, <2>1
  <2>3. ~(k < x)
    BY <1>1, <1>2, <2>1
  <2> QED
    BY <2>1, <2>2, <2>3
<1> QED
  BY <1>2, <1>3 DEF StrLength

LEMMA ScpyFacts ==
  ASSUME ScpyInv
  PROVE  /\ r \in Regs /\ r.p \in Int /\ r.q \in Int /\ r.at \in Labels
         /\ op.p \in Int /\ op.q \in Int /\ End \in Nat /\ Lowest \in Int /\ Highest \in Int
         /\ Lowest <= op.p /\ op.p + End <= Highest /\ Lowest <= op.q /\ op.q + End <= Highest
         /\ op.p + End < op.q \/ op.q + End < op.p
         /\ r.at \notin {"entry", "ret"} =>
              Walked \in Nat /\ Walked <= End /\ r.p = op.p + Walked /\ r.q = op.q + Walked
BY RegsAre, LaneAssumption, RoomAssumption DEF ScpyInv, ScpyOp, Base, Walked

(* The string is not written to.                                           *)
LEMMA ScpyCopied ==
  ASSUME ScpyInv, UNCHANGED op, r.at \notin {"entry", "ret"}, NEW k \in Nat, Walked + k <= End + 1,
         mem' = Copied(mem, r.p, r.q, k)
  PROVE  /\ ScpyOp' /\ (mem \in [Addr -> Int])' /\ End' = End /\ Same(mem', op.p, op.q, Walked + k)
<1>1. /\ r.p \in Int /\ r.q \in Int /\ op.p \in Int /\ op.q \in Int /\ End \in Nat
      /\ Lowest \in Int /\ Highest \in Int
      /\ Lowest <= op.p /\ op.p + End <= Highest /\ Lowest <= op.q /\ op.q + End <= Highest
      /\ op.p + End < op.q \/ op.q + End < op.p
      /\ Walked \in Nat /\ Walked <= End /\ r.p = op.p + Walked /\ r.q = op.q + Walked
  BY ScpyFacts
<1>2. mem \in [Addr -> Int] /\ ScpyOp
  BY DEF ScpyInv, Base
<1>3. \A a \in Span(r.p, k) : r.q + a - r.p \in Addr
  BY <1>1 DEF Span, Addr
<1>4. /\ mem' \in [Addr -> Int]
      /\ \A a \in Addr : mem'[a] = IF a \in Span(r.p, k) THEN mem[r.q + a - r.p] ELSE mem[a]
  BY <1>1, <1>2, <1>3, CopiedIs
<1>5. \A i \in 0..End : mem'[op.q + i] = mem[op.q + i]
  <2> TAKE i \in 0..End
  <2>1. op.q + i \in Addr /\ op.q + i \notin Span(r.p, k)
    BY <1>1 DEF Addr, Span
  <2> QED
    BY <1>4, <2>1
<1>6. mem'[op.q + End] = 0 /\ \A i \in 0..(End - 1) : mem'[op.q + i] # 0
  <2>1. End \in 0..End /\ \A i \in 0..(End - 1) : i \in 0..End
    BY <1>1
  <2> QED
    BY <1>2, <1>5, <2>1 DEF ScpyOp
<1>7. End' = End
  <2> DEFINE m == mem'
             k0 == End
  <2>1. /\ op.q \in Int /\ k0 \in Nat /\ op.q + k0 <= Highest
        /\ m[op.q + k0] = 0 /\ \A i \in 0..(k0 - 1) : m[op.q + i] # 0
    BY <1>1, <1>6
  <2> HIDE DEF m, k0
  <2>2. StrLength(m, op.q) = k0
    BY <2>1, StrLengthIs
  <2>3. StrLength(mem', op.q) = End
    BY <2>2 DEF m, k0
  <2> QED
    BY <2>3 DEF End
<1>8. ScpyOp'
  BY <1>2, <1>6, <1>7 DEF ScpyOp
<1>9. Same(mem', op.p, op.q, Walked + k)
  <2> DEFINE last == (Walked + k) - 1
  <2> SUFFICES ASSUME NEW i \in 0..last PROVE mem'[op.p + i] = mem'[op.q + i]
    BY DEF Same
  <2>1. last \in Int /\ last = Walked + k - 1 /\ last <= End
    BY <1>1
  <2> HIDE DEF last
  <2>2. i \in 0..End /\ op.p + i \in Addr
    BY <1>1, <2>1 DEF Addr
  <2>3. CASE i < Walked
    <3>1. op.p + i \notin Span(r.p, k) /\ i \in 0..(Walked - 1)
      BY <1>1, <2>1, <2>3 DEF Span
    <3>2. mem[op.p + i] = mem[op.q + i]
      BY <3>1 DEF ScpyInv, Same
    <3> QED
      BY <1>4, <1>5, <2>2, <3>1, <3>2
  <2>4. CASE i >= Walked
    <3>1. op.p + i \in Span(r.p, k) /\ r.q + (op.p + i) - r.p = op.q + i
      BY <1>1, <2>1, <2>4 DEF Span
    <3> QED
      BY <1>4, <1>5, <2>2, <3>1
  <2> QED
    BY <1>1, <2>1, <2>3, <2>4
<1> QED
  BY <1>4, <1>7, <1>8, <1>9

LEMMA ScpyKept ==
  ASSUME ScpyInv, UNCHANGED op, Quiet
  PROVE  /\ ScpyOp' /\ (mem \in [Addr -> Int])' /\ End' = End /\ mem' = mem
         /\ DOMAIN io' = {"reads", "writes"}
         /\ (io.writes \subseteq Span(op.p, End + 1))' /\ (io.reads \subseteq Aligned(op.q, End + 1))'
<1>1. mem' = mem /\ DOMAIN io' = {"reads", "writes"} /\ io'.reads = {} /\ io'.writes = {}
  BY QuietIs
<1>2. End' = End
  BY <1>1 DEF End
<1>3. ScpyOp'
  BY <1>1, <1>2 DEF ScpyInv, ScpyOp
<1> QED
  BY <1>1, <1>2, <1>3 DEF ScpyInv, Base

(* k bytes read, j of them stored.                                         *)
LEMMA ScpyTouched ==
  ASSUME ScpyInv, UNCHANGED op, r.at \notin {"entry", "ret"}, NEW k \in {1, 4}, k = 4 => r.q % 4 = 0,
         NEW j \in Nat, Walked + j <= End + 1, End' = End, Touch(Span(r.q, k), Span(r.p, j))
  PROVE  /\ DOMAIN io' = {"reads", "writes"}
         /\ (io.writes \subseteq Span(op.p, End + 1))' /\ (io.reads \subseteq Aligned(op.q, End + 1))'
<1>1. /\ r.p \in Int /\ r.q \in Int /\ op.p \in Int /\ op.q \in Int /\ End \in Nat
      /\ Walked \in 0..End /\ r.p = op.p + Walked /\ r.q = op.q + Walked
  BY ScpyFacts
<1>2. DOMAIN io' = {"reads", "writes"} /\ io'.writes = Span(r.p, j) /\ io'.reads = Span(r.q, k)
  BY TouchIs
<1>3. Span(r.p, j) \subseteq Span(op.p, End + 1)
  BY <1>1 DEF Span
<1>4. Span(r.q, k) \subseteq Aligned(op.q, End + 1)
  BY <1>1, AlignedHas
<1> QED
  BY <1>2, <1>3, <1>4

LEMMA ScpyPass ==
  ASSUME ScpyInv, UNCHANGED op, r.at \notin {"entry", "ret"}, NEW k \in {1, 4}, k = 4 <=> r.at # "align",
         Walked + k <= End, mem' = Copied(mem, r.p, r.q, k), Touch(Span(r.q, k), Span(r.p, k)), Pass(k, r.at)
  PROVE  ScpyInv'
<1>1. /\ r \in Regs /\ r.p \in Int /\ r.q \in Int /\ op.p \in Int /\ op.q \in Int /\ End \in Nat
      /\ r.at \in Labels
      /\ Walked \in Nat /\ Walked <= End /\ r.p = op.p + Walked /\ r.q = op.q + Walked
  BY ScpyFacts
<1>2. r' \in Regs /\ r'.at = r.at /\ r'.p = r.p + k /\ r'.q = r.q + k
  BY <1>1, PassIs
<1>3. r.at \in {"align", "word", "bytes"} /\ (r.at # "align" => r.q % 4 = 0)
  BY DEF ScpyInv
<1>4. r.at # "align" => (r.q + k) % 4 = 0
  BY <1>1, <1>3
<1>5. k \in Nat /\ Walked + k <= End + 1
  BY <1>1
<1>6. ScpyOp' /\ (mem \in [Addr -> Int])' /\ End' = End /\ Same(mem', op.p, op.q, Walked + k)
  BY <1>5, ScpyCopied
<1>7. /\ DOMAIN io' = {"reads", "writes"}
      /\ (io.writes \subseteq Span(op.p, End + 1))' /\ (io.reads \subseteq Aligned(op.q, End + 1))'
  BY <1>3, <1>5, <1>6, ScpyTouched
<1>8. Walked' = Walked + k
  BY <1>1, <1>2 DEF Walked
<1>9. (Walked \in 0..End /\ r.q = op.q + Walked /\ Same(mem, op.p, op.q, Walked))'
  <2>1. (Walked \in 0..End /\ r.q = op.q + Walked)'
    BY <1>1, <1>2, <1>6, <1>8
  <2>2. Same(mem, op.p, op.q, Walked)'
    BY <1>6, <1>8 DEF Same
  <2> QED
    BY <2>1, <2>2
<1> QED
  BY <1>2, <1>3, <1>4, <1>6, <1>7, <1>9 DEF ScpyInv, Base

(* The end is among the bytes read, and is the last one stored.            *)
LEMMA ScpyReturn ==
  ASSUME ScpyInv, UNCHANGED op, r.at \notin {"entry", "ret"}, NEW k \in {1, 4}, k = 4 <=> r.at # "align",
         NEW j \in Nat, Walked + j = End + 1,
         mem' = Copied(mem, r.p, r.q, j), Touch(Span(r.q, k), Span(r.p, j)), Return(op.p)
  PROVE  ScpyInv'
<1>1. /\ r \in Regs /\ op.p \in Int /\ End \in Nat /\ Walked \in Nat
  BY ScpyFacts
<1>2. r' \in Regs /\ r'.at = "ret" /\ r'.v = op.p
  BY <1>1, ReturnIs
<1>3. r.at # "align" => r.q % 4 = 0
  BY DEF ScpyInv
<1>4. Walked + j <= End + 1
  BY <1>1
<1>5. ScpyOp' /\ (mem \in [Addr -> Int])' /\ End' = End /\ Same(mem', op.p, op.q, End + 1)
  BY <1>4, ScpyCopied
<1>6. /\ DOMAIN io' = {"reads", "writes"}
      /\ (io.writes \subseteq Span(op.p, End + 1))' /\ (io.reads \subseteq Aligned(op.q, End + 1))'
  BY <1>3, <1>4, <1>5, ScpyTouched
<1>7. Same(mem, op.p, op.q, End + 1)'
  BY <1>5 DEF Same
<1> QED
  BY <1>2, <1>5, <1>6, <1>7 DEF ScpyInv, Base

LEMMA ScpyByte ==
  ASSUME ScpyInv, r.at \notin {"entry", "ret"}, NEW k \in Nat
  PROVE  /\ Walked + k < End => mem[r.q + k] # 0
         /\ Walked + k = End => mem[r.q + k] = 0
<1>1. Walked \in Nat /\ r.q = op.q + Walked /\ op.q \in Int /\ End \in Nat
  BY ScpyFacts
<1>2. r.q + k = op.q + (Walked + k)
  BY <1>1
<1>3. Walked + k < End => Walked + k \in 0..(End - 1)
  BY <1>1
<1> QED
  BY <1>2, <1>3 DEF ScpyInv, ScpyOp

LEMMA ScpyStep ==
  ASSUME ScpyInv, MemNext
  PROVE  ScpyInv'
<1>1. op.fn = "strcpy4" /\ UNCHANGED op
  BY DEF ScpyInv, ScpyOp, MemNext
<1>2. /\ r \in Regs /\ r.p \in Int /\ r.q \in Int /\ r.at \in Labels
      /\ op.p \in Int /\ op.q \in Int /\ End \in Nat
      /\ r.at \notin {"entry", "ret"} =>
           Walked \in Nat /\ Walked <= End /\ r.p = op.p + Walked /\ r.q = op.q + Walked
  BY ScpyFacts
<1> DEFINE i == CHOOSE i \in 0..4 : (i < 4 => mem[r.q + i] = 0) /\ \A j \in 0..(i - 1) : mem[r.q + j] # 0
           words == r.p % 4 = 0
           stored == IF i < 4 THEN i + 1 ELSE 4
<1>3. StrCpy
  BY <1>1 DEF MemNext, SetFns, ChrFns, MoveStart, MoveAlign, MoveAligned, MoveQuad, MoveByte, MoveDone,
              MoveBlock, SetStart, SetLoop, CmpStart, CmpBytes, CmpWords4, CmpWords8,
              ChrStart, ChrPair, ChrWord, ChrByte, StrChr, StrCmp
<1>4. \/ r.at = "entry" /\ r' = [r EXCEPT !.p = op.p, !.q = op.q, !.at = "align"] /\ Quiet
      \/ r.at = "align" /\ r.q % 4 = 0 /\ Goto(IF words THEN "word" ELSE "bytes") /\ Quiet
      \/ /\ r.at = "align" /\ r.q % 4 # 0 /\ Move(r.p, r.q, 1)
         /\ IF mem[r.q] = 0 THEN Return(op.p) ELSE Pass(1, "align")
      \/ /\ r.at = "word" \/ r.at = "bytes"
         /\ mem' = Copied(mem, r.p, r.q, stored)
         /\ Touch(Span(r.q, 4), Span(r.p, stored))
         /\ IF i < 4 THEN Return(op.p) ELSE Pass(4, r.at)
  BY <1>3 DEF StrCpy
<1> HIDE DEF stored, words
<1>5. CASE r.at = "entry" /\ r' = [r EXCEPT !.p = op.p, !.q = op.q, !.at = "align"] /\ Quiet
  <2>1. "align" \in Labels
    BY DEF Labels
  <2>2. r' \in Regs
    BY <1>2, <1>5, <2>1, PutP, PutQ, PutAt, Zenon
  <2>3. r'.p = op.p /\ r'.q = op.q /\ r'.at = "align"
    BY <1>2, <1>5 DEF Regs
  <2>4. Walked' = 0
    BY <1>1, <1>2, <2>3 DEF Walked
  <2>5. (Walked \in 0..End /\ r.q = op.q + Walked)'
    BY <1>1, <1>2, <1>5, <2>3, <2>4, ScpyKept
  <2>6. Same(mem, op.p, op.q, Walked)'
    BY <2>4 DEF Same
  <2> QED
    BY <1>1, <1>5, <2>2, <2>3, <2>5, <2>6, ScpyKept DEF ScpyInv, Base
<1>6. CASE r.at = "align" /\ r.q % 4 = 0 /\ Goto(IF words THEN "word" ELSE "bytes") /\ Quiet
  <2>1. PICK label \in {"word", "bytes"} : Goto(label)
    BY <1>6
  <2>2. label \in Labels
    BY DEF Labels
  <2>3. r' \in Regs /\ r'.at = label /\ r'.p = r.p /\ r'.q = r.q
    BY <1>2, <2>1, <2>2, GotoIs
  <2>4. Walked' = Walked /\ Walked \in 0..End /\ r.q = op.q + Walked /\ Same(mem, op.p, op.q, Walked)
    BY <1>1, <1>6, <2>3 DEF Walked, ScpyInv
  <2>5. (Walked \in 0..End /\ r.q = op.q + Walked)'
    BY <1>1, <1>6, <2>3, <2>4, ScpyKept
  <2>6. Same(mem, op.p, op.q, Walked)'
    BY <1>1, <1>6, <2>4, ScpyKept DEF Same
  <2> QED
    BY <1>1, <1>6, <2>3, <2>5, <2>6, ScpyKept DEF ScpyInv, Base
<1>7. CASE /\ r.at = "align" /\ r.q % 4 # 0 /\ Move(r.p, r.q, 1)
           /\ IF mem[r.q] = 0 THEN Return(op.p) ELSE Pass(1, "align")
  <2>1. mem' = Copied(mem, r.p, r.q, 1) /\ Touch(Span(r.q, 1), Span(r.p, 1))
    BY <1>7 DEF Move
  <2>2. (Walked < End => mem[r.q] # 0) /\ (Walked = End => mem[r.q] = 0)
    <3>1. r.q + 0 = r.q /\ (r.at \notin {"entry", "ret"} => Walked + 0 = Walked)
      BY <1>2
    <3> QED
      BY <1>7, <3>1, ScpyByte
  <2>3. CASE mem[r.q] = 0
    <3>1. Walked + 1 = End + 1
      BY <1>2, <1>7, <2>2, <2>3
    <3> QED
      BY <1>1, <1>7, <2>1, <2>3, <3>1, ScpyReturn
  <2>4. CASE mem[r.q] # 0
    <3>1. Walked + 1 <= End
      BY <1>2, <1>7, <2>2, <2>4
    <3> QED
      BY <1>1, <1>7, <2>1, <2>4, <3>1, ScpyPass
  <2> QED
    BY <2>3, <2>4
<1>8. CASE /\ r.at = "word" \/ r.at = "bytes"
           /\ mem' = Copied(mem, r.p, r.q, stored)
           /\ Touch(Span(r.q, 4), Span(r.p, stored))
           /\ IF i < 4 THEN Return(op.p) ELSE Pass(4, r.at)
  <2>1. r.at \notin {"entry", "ret", "align"} /\ Walked \in Nat /\ Walked <= End /\ End \in Nat
    BY <1>2, <1>8
  <2>2. \A x \in Nat : /\ Walked + x < End => mem[r.q + x] # 0
                       /\ Walked + x = End => mem[r.q + x] = 0
    BY <2>1, ScpyByte
  <2> DEFINE P(x) == (x < 4 => mem[r.q + x] = 0) /\ \A j \in 0..(x - 1) : mem[r.q + j] # 0
             e == IF End - Walked < 4 THEN End - Walked ELSE 4
  <2>3. e \in 0..4 /\ e \in Nat /\ (e < 4 => Walked + e = End) /\ Walked + e <= End
    BY <2>1
  <2> HIDE DEF e
  <2>4. P(e)
    <3>1. \A j \in 0..(e - 1) : j \in Nat /\ Walked + j < End
      BY <2>1, <2>3
    <3> QED
      BY <2>2, <2>3, <3>1
  <2>5. \A x \in 0..4 : P(x) => x = e
    <3> SUFFICES ASSUME NEW x \in 0..4, P(x) PROVE x = e
      OBVIOUS
    <3>1. ~(x < e)
      <4>1. x < e => x \in 0..(e - 1) /\ x < 4
        BY <2>3
      <4> QED
        BY <2>4, <4>1
    <3>2. ~(e < x)
      <4>1. e < x => e \in 0..(x - 1) /\ e < 4
        BY <2>3
      <4> QED
        BY <2>4, <4>1
    <3> QED
      BY <2>3, <3>1, <3>2
  <2>6. i = e
    BY <2>3, <2>4, <2>5
  <2> HIDE DEF i
  <2>7. CASE i < 4
    <3>1. stored = e + 1 /\ Return(op.p)
      BY <1>8, <2>6, <2>7 DEF stored
    <3>2. e + 1 \in Nat /\ Walked + (e + 1) = End + 1
      BY <2>1, <2>3, <2>6, <2>7
    <3> QED
      BY <1>1, <1>8, <2>1, <3>1, <3>2, ScpyReturn
  <2>8. CASE ~(i < 4)
    <3>1. stored = 4 /\ Pass(4, r.at)
      BY <1>8, <2>8 DEF stored
    <3>2. Walked + 4 <= End
      BY <2>1, <2>3, <2>6, <2>8
    <3> QED
      BY <1>1, <1>8, <2>1, <3>1, <3>2, ScpyPass
  <2> QED
    BY <2>7, <2>8
<1> QED
  BY <1>4, <1>5, <1>6, <1>7, <1>8

-----------------------------------------------------------------------------
(* The strings of the calls, and the theorems                              *)

LEMMA QuietInit ==
  ASSUME MemQuiet
  PROVE  r \in Regs /\ r.at = "entry" /\ DOMAIN io = {"reads", "writes"} /\ io.reads = {} /\ io.writes = {}
BY DEF MemQuiet, Regs, Labels

LEMMA StrInit == ASSUME StrCalls, MemQuiet PROVE SchrInv \/ ScmpInv \/ ScpyInv
<1>1. /\ Lowest \in Int /\ Highest \in Int /\ Middle \in Int /\ Lowest + 20 < Middle /\ Middle + 20 <= Highest
  BY RoomAssumption, LaneAssumption DEF Middle, Half
<1>2. CASE \E a \in 0..3, b \in 0..3, d \in 0..9, c \in {0, 2, 3}, fn \in {"strchr4", "strcpy4"} :
             /\ op = MemCall(fn, Lowest + a, Middle + b, 0, c, d)
             /\ LET s == IF fn = "strcpy4" THEN Middle + b ELSE Lowest + a IN
                mem = [x \in Lowest..Highest |->
                         IF x = s + d THEN c % 3 ELSE IF x < s \/ x = s + d + 2 THEN 0 ELSE 1]
  <2>1. PICK a \in 0..3, b \in 0..3, d \in 0..9, c \in {0, 2, 3}, fn \in {"strchr4", "strcpy4"} :
             /\ op = MemCall(fn, Lowest + a, Middle + b, 0, c, d)
             /\ LET s == IF fn = "strcpy4" THEN Middle + b ELSE Lowest + a IN
                mem = [x \in Lowest..Highest |->
                         IF x = s + d THEN c % 3 ELSE IF x < s \/ x = s + d + 2 THEN 0 ELSE 1]
    BY <1>2
  <2> DEFINE s == IF fn = "strcpy4" THEN Middle + b ELSE Lowest + a
  <2>2. op.fn = fn /\ op.p = Lowest + a /\ op.q = Middle + b /\ op.c = c /\ op.d = d
    BY <2>1 DEF MemCall
  <2>3. \A x \in Addr : mem[x] = IF x = s + d THEN c % 3 ELSE IF x < s \/ x = s + d + 2 THEN 0 ELSE 1
    BY <2>1 DEF Addr
  <2>4. mem \in [Addr -> Int]
    BY <2>1 DEF Addr
  <2>5. s \in Int /\ Lowest <= s /\ s + 11 <= Highest
    BY <1>1
  <2>6. CASE fn = "strchr4"
    <3>1. s = Lowest + a
      BY <2>6
    <3> HIDE DEF s
    <3>2. \A i \in 0..(d - 1) : mem[op.p + i] # 0 /\ mem[op.p + i] # op.c
      <4> TAKE i \in 0..(d - 1)
      <4>1. s + i \in Addr /\ s + i # s + d /\ ~(s + i < s) /\ s + i # s + d + 2
        BY <1>1, <2>5 DEF Addr
      <4> QED
        BY <2>2, <2>3, <3>1, <4>1
    <3>3. mem[op.p + d] \in {0, op.c}
      <4>1. s + d \in Addr
        BY <1>1, <2>5 DEF Addr
      <4> QED
        BY <2>2, <2>3, <3>1, <4>1
    <3>4. op.p \in Int /\ op.d \in Nat
      BY <1>1, <2>2
    <3> QED
      BY <2>2, <2>4, <2>6, <3>2, <3>3, <3>4, QuietInit DEF SchrInv, SchrOp, Base
  <2>7. CASE fn = "strcpy4"
    <3> DEFINE e == IF c = 2 THEN d + 2 ELSE d
    <3>1. s = Middle + b
      BY <2>7
    <3>2. e \in Nat /\ e <= 11 /\ (c # 2 => e = d) /\ (c = 2 => e = d + 2) /\ c \in {0, 2, 3}
      OBVIOUS
    <3> HIDE DEF s, e
    <3>3. mem[s + e] = 0
      <4>1. s + e \in Addr /\ (c # 2 => s + e = s + d) /\ (c = 2 => s + e = s + d + 2 /\ s + e # s + d)
        BY <1>1, <2>5, <3>2 DEF Addr
      <4> QED
        BY <2>3, <3>2, <4>1
    <3>4. \A i \in 0..(e - 1) : mem[s + i] # 0
      <4> TAKE i \in 0..(e - 1)
      <4>1. s + i \in Addr /\ ~(s + i < s) /\ s + i # s + d + 2 /\ (c # 2 => s + i # s + d)
        BY <1>1, <2>5, <3>2 DEF Addr
      <4> QED
        BY <2>3, <3>2, <4>1
    <3>5. s + e <= Highest
      BY <1>1, <2>5, <3>2
    <3>6. StrLength(mem, s) = e
      BY <2>5, <3>2, <3>3, <3>4, <3>5, StrLengthIs
    <3>7. End = e /\ op.q = s
      BY <2>2, <3>1, <3>6 DEF End
    <3>8. op.p \in Int /\ op.q \in Int /\ Lowest <= op.p /\ op.p + e < op.q /\ op.q + e <= Highest
      BY <1>1, <2>2, <3>1, <3>2, <3>5
    <3>9. op.p + End <= Highest /\ Lowest <= op.q
      BY <1>1, <3>2, <3>7, <3>8
    <3>10. ScpyOp
      BY <2>2, <2>7, <3>2, <3>3, <3>4, <3>7, <3>8, <3>9 DEF ScpyOp
    <3> QED
      BY <2>4, <3>10, QuietInit DEF ScpyInv, Base
  <2> QED
    BY <2>6, <2>7
<1>3. CASE \E d \in 0..5, x \in Bytes, y \in Bytes :
             /\ x = y => x = 0
             /\ op = MemCall("strcmp4", Lowest, Middle, 0, 0, d)
             /\ mem = [a \in Lowest..Highest |->
                         CASE a = Lowest + d -> x [] a = Middle + d -> y
                           [] a > Lowest + d /\ a < Middle -> 2 [] OTHER -> 1]
  <2>1. PICK d \in 0..5, x \in Bytes, y \in Bytes :
             /\ x = y => x = 0
             /\ op = MemCall("strcmp4", Lowest, Middle, 0, 0, d)
             /\ mem = [a \in Lowest..Highest |->
                         CASE a = Lowest + d -> x [] a = Middle + d -> y
                           [] a > Lowest + d /\ a < Middle -> 2 [] OTHER -> 1]
    BY <1>3
  <2>2. op.fn = "strcmp4" /\ op.p = Lowest /\ op.q = Middle /\ op.d = d
    BY <2>1 DEF MemCall
  <2>3. \A a \in Addr : mem[a] = CASE a = Lowest + d -> x [] a = Middle + d -> y
                                   [] a > Lowest + d /\ a < Middle -> 2 [] OTHER -> 1
    BY <2>1 DEF Addr
  <2>4. x \in Nat /\ y \in Nat
    <3>1. 2^LANE - 1 \in Int
      BY LaneAssumption
    <3> QED
      BY <3>1 DEF Bytes
  <2>5. mem \in [Addr -> Int]
    <3>1. \A a \in Addr : mem[a] \in Int
      BY <1>1, <2>3, <2>4 DEF Addr
    <3> QED
      BY <2>1, <3>1 DEF Addr
  <2>6. mem[Lowest + d] = x /\ mem[Middle + d] = y
    <3>1. Lowest + d \in Addr /\ Middle + d \in Addr /\ Lowest + d # Middle + d
      BY <1>1 DEF Addr
    <3> QED
      BY <1>1, <2>3, <3>1
  <2>7. ASSUME NEW i \in 0..(d - 1) PROVE mem[Lowest + i] = 1
    <3>1. Lowest + i \in Addr /\ Lowest + i < Lowest + d /\ Lowest + i < Middle
      BY <1>1 DEF Addr
    <3> QED
      BY <1>1, <2>3, <3>1
  <2>8. ASSUME NEW i \in 0..(d - 1) PROVE mem[Middle + i] = 1
    <3>1. Middle + i \in Addr /\ Middle + i < Middle + d /\ Middle + i # Lowest + d /\ ~(Middle + i < Middle)
      BY <1>1 DEF Addr
    <3> QED
      BY <1>1, <2>3, <3>1
  <2>9. \A i \in 0..(op.d - 1) : mem[op.p + i] = mem[op.q + i] /\ mem[op.q + i] # 0
    BY <2>2, <2>7, <2>8
  <2>10. ScmpOp
    <3>1. op.p \in Int /\ op.q \in Int /\ op.d \in Nat
      BY <1>1, <2>2
    <3>2. mem[op.p + op.d] = x /\ mem[op.q + op.d] = y
      BY <2>2, <2>6
    <3> QED
      BY <2>1, <2>2, <2>4, <2>9, <3>1, <3>2 DEF ScmpOp
  <2> QED
    BY <2>5, <2>10, QuietInit DEF ScmpInv, Base
<1> QED
  BY <1>2, <1>3 DEF StrCalls

LEMMA StrRight ==
  ASSUME SchrInv \/ ScmpInv \/ ScpyInv
  PROVE  MemExact /\ OwnBytes
<1>1. CASE SchrInv
  <2>1. op.fn = "strchr4"
    BY <1>1 DEF SchrInv, SchrOp
  <2>2. Written = {} /\ Readable = Aligned(op.p, op.d + 1) /\ Result(mem) = SchrResult
    BY <2>1 DEF SetFns, ChrFns, Written, Readable, Result, SchrResult
  <2>3. OwnBytes /\ (r.at = "ret" => r.v = SchrResult)
    BY <1>1, <2>2 DEF SchrInv, OwnBytes
  <2> QED
    BY <2>1, <2>2, <2>3 DEF MemExact, SetFns
<1>2. CASE ScmpInv
  <2>1. op.fn = "strcmp4"
    BY <1>2 DEF ScmpInv, ScmpOp
  <2>2. Written = {} /\ Readable = ScmpReads /\ Result(mem) = ScmpResult
    BY <2>1 DEF SetFns, ChrFns, Written, Readable, Result, ScmpReads, ScmpResult
  <2>3. OwnBytes /\ (r.at = "ret" => r.v = ScmpResult)
    BY <1>2, <2>2 DEF ScmpInv, OwnBytes
  <2> QED
    BY <2>1, <2>2, <2>3 DEF MemExact, SetFns
<1>3. CASE ScpyInv
  <2>1. op.fn = "strcpy4"
    BY <1>3 DEF ScpyInv, ScpyOp
  <2>2. Written = Span(op.p, End + 1) /\ Readable = Aligned(op.q, End + 1) /\ Result(mem) = op.p
    BY <2>1 DEF SetFns, ChrFns, Written, Readable, Result, End
  <2>3. OwnBytes /\ (r.at = "ret" => r.v = op.p /\ Same(mem, op.p, op.q, End + 1))
    BY <1>3, <2>2 DEF ScpyInv, OwnBytes
  <2> QED
    BY <2>1, <2>2, <2>3 DEF MemExact, SetFns, End
<1> QED
  BY <1>1, <1>2, <1>3

(* What every state of a call has: its routine's invariant.                *)
RoutineInv == MoveInv \/ SetInv \/ CmpInv \/ ChrInv \/ SchrInv \/ ScmpInv \/ ScpyInv

(* A routine that rests stays as it is.                                    *)
LEMMA StutterStep == ASSUME RoutineInv, UNCHANGED memVars PROVE RoutineInv'
<1>1. op' = op /\ mem' = mem /\ r' = r /\ io' = io
  BY DEF memVars
<1>2. Base => Base'
  BY <1>1 DEF Base
<1>3. Walked' = Walked /\ (\A w : Ahead(w)' <=> Ahead(w))
  BY <1>1 DEF Walked, Ahead
<1>4. MoveInv => MoveInv'
  BY <1>1, <1>2 DEF MoveInv, MoveOp, Moving, Moved, Part, Count, Backward
<1>5. SetInv => SetInv'
  BY <1>1, <1>2, <1>3 DEF SetInv, SetOp, SetWord, Ahead
<1>6. CmpInv => CmpInv'
  BY <1>1, <1>2, <1>3 DEF CmpInv, CmpOp, CmpResult, CmpReads, Found, Ahead
<1>7. ChrInv => ChrInv'
  BY <1>1, <1>2, <1>3 DEF ChrInv, ChrOp, ChrResult, Copies, Enough, ChrWrites, Found
<1>8. SchrInv => SchrInv'
  BY <1>1, <1>2, <1>3 DEF SchrInv, SchrOp, SchrResult
<1>9. ScmpInv => ScmpInv'
  BY <1>1, <1>2, <1>3 DEF ScmpInv, ScmpOp, ScmpResult, ScmpReads
<1>10. ScpyInv => ScpyInv'
  BY <1>1, <1>2, <1>3 DEF ScpyInv, ScpyOp, End
<1> QED
  BY <1>4, <1>5, <1>6, <1>7, <1>8, <1>9, <1>10 DEF RoutineInv

LEMMA RoutineStep == RoutineInv /\ [MemNext]_memVars => RoutineInv'
<1> SUFFICES ASSUME RoutineInv, [MemNext]_memVars PROVE RoutineInv'
  OBVIOUS
<1>1. CASE MemNext
  BY <1>1, MoveStep, SetStep, CmpStep, ChrStep, SchrStep, ScmpStep, ScpyStep DEF RoutineInv
<1>2. CASE UNCHANGED memVars
  BY <1>2, StutterStep
<1> QED
  BY <1>1, <1>2

LEMMA RoutineRight == RoutineInv => MemExact /\ OwnBytes
BY MoveRight, SetRight, CmpRight, ChrRight, StrRight DEF RoutineInv

(* The invariant of the routine called holds from its entry to its return. *)
THEOREM RoutinesKept == MemSpec => []RoutineInv
<1>1. MemInit => RoutineInv
  BY MoveInit, SetInit, CmpInit, ChrInit, StrInit DEF MemInit, RoutineInv
<1> QED
  BY <1>1, RoutineStep, PTL DEF MemSpec

(* mem*.s, str*.s: for every length, alignment and overlap of the calls,   *)
(* and every byte, the routine returns what C says and memory holds it.    *)
THEOREM Exact == MemSpec => []MemExact
<1>1. RoutineInv => MemExact
  BY RoutineRight
<1> QED
  BY <1>1, RoutinesKept, PTL

(* riscv64/mem*.s, "a word is only touched while 8 bytes remain": a word   *)
(* at a time, no step reads or writes outside the operands.                *)
THEOREM NothingElseTouched == MemSpec => []OwnBytes
<1>1. RoutineInv => OwnBytes
  BY RoutineRight
<1> QED
  BY <1>1, RoutinesKept, PTL

-----------------------------------------------------------------------------
(* Calls anywhere in a memory that holds anything.  For memmove and memset *)
(* the bytes are named by where they come from, which tells most.          *)
AnyCall ==
  /\ MemQuiet /\ mem \in [Addr -> Int]
  /\ MoveOp \/ SetOp => mem = Fresh
  /\ MoveOp \/ SetOp \/ CmpOp \/ ChrOp \/ SchrOp \/ ScmpOp \/ ScpyOp

LEMMA AnyInit == AnyCall => RoutineInv
<1> SUFFICES ASSUME AnyCall PROVE RoutineInv
  OBVIOUS
<1>1. Base /\ r.at = "entry" /\ io.reads = {} /\ io.writes = {}
  BY QuietInit DEF AnyCall, Base
<1>2. MoveOp => MoveInv
  BY <1>1 DEF AnyCall, MoveInv
<1>3. SetOp => SetInv
  BY <1>1 DEF AnyCall, SetInv
<1>4. CmpOp => CmpInv
  BY <1>1 DEF CmpInv
<1>5. ChrOp => ChrInv
  BY <1>1 DEF ChrInv
<1>6. SchrOp => SchrInv
  BY <1>1 DEF SchrInv
<1>7. ScmpOp => ScmpInv
  BY <1>1 DEF ScmpInv
<1>8. ScpyOp => ScpyInv
  BY <1>1 DEF ScpyInv
<1> QED
  BY <1>2, <1>3, <1>4, <1>5, <1>6, <1>7, <1>8 DEF AnyCall, RoutineInv

(* Whatever memory holds and wherever in it the operands lie, the copies   *)
(* of memccpy and strcpy apart from what is copied: the routines return    *)
(* what C says, memory holds it, and nothing else is touched.              *)
THEOREM AnywhereExact == AnyCall /\ [][MemNext]_memVars => [](MemExact /\ OwnBytes)
<1>1. RoutineInv => MemExact /\ OwnBytes
  BY RoutineRight
<1> QED
  BY <1>1, AnyInit, RoutineStep, PTL
=============================================================================
