---------------------------- MODULE Malloc_proofs ----------------------------
(***************************************************************************)
(* The allocator keeps what it gave out apart, for every size of the word, *)
(* every CUTOFF and both layouts of a Bucket, whatever is asked for and    *)
(* given back, in any order and however often.                             *)
(***************************************************************************)
EXTENDS Malloc, SequenceTheorems, WellFoundedInduction, TLAPS

Pows == 1..(MAX2SIZE - 1)
Node == [size : Pows, magic : BOOLEAN, next : Int]
Pieces == [at : Int, n : Nat, malloced : BOOLEAN]

IsHeap(h) ==
  /\ h = [bloc |-> h.bloc, btab |-> h.btab, bucket |-> h.bucket, aborted |-> h.aborted]
  /\ h.bloc \in Int /\ h.bloc % 8 = 0 /\ End <= h.bloc
  /\ h.btab \in [Pows -> Int]
  /\ DOMAIN h.bucket \subseteq Int
  /\ h.bucket \in [DOMAIN h.bucket -> Node]
  /\ h.aborted = FALSE

(* From a Bucket to the end of its block.                                  *)
Extent(h, b) == Chunk(h.bucket[b].size)

BucketsApart(h) ==
  \A b \in DOMAIN h.bucket :
    /\ b % 8 = 0 /\ End <= b /\ b + Extent(h, b) <= h.bloc
    /\ \A c \in DOMAIN h.bucket : c # b => Apart(b, Extent(h, b), c, Extent(h, c))

FreeOf(h, pow) == {b \in DOMAIN h.bucket : h.bucket[b].size = pow /\ ~h.bucket[b].magic}

(* A list holds free blocks of its own size, and at most one pointer leads *)
(* to each: what malloc takes off is not on the list any more.             *)
ListsSound(h) ==
  \A pow \in Pows :
    /\ h.btab[pow] \in FreeOf(h, pow) \cup {nil}
    /\ \A b \in FreeOf(h, pow) :
         /\ h.bucket[b].next \in FreeOf(h, pow) \cup {nil}
         /\ h.bucket[b].next # nil =>
              /\ h.bucket[b].next # h.btab[pow]
              /\ \A c \in FreeOf(h, pow) : c # b => h.bucket[c].next # h.bucket[b].next

HeapSound(h) == IsHeap(h) /\ BucketsApart(h) /\ ListsSound(h)

(* What the program holds: a block whose Bucket says so, or what sbrk gave *)
(* it, where no block is.                                                  *)
Held(h, p, off) ==
  /\ p.at % 8 = 0 /\ End <= p.at /\ p.at + p.n <= h.bloc
  /\ p.malloced =>
       /\ p.at - off \in DOMAIN h.bucket
       /\ h.bucket[p.at - off].magic
       /\ p.n <= Power(h.bucket[p.at - off].size)
  /\ ~p.malloced => \A b \in DOMAIN h.bucket : Apart(p.at, p.n, b, Extent(h, b))

Distinct(p, q) ==
  /\ p.malloced /\ q.malloced => p.at # q.at
  /\ ~p.malloced /\ ~q.malloced => Apart(p.at, p.n, q.at, q.n)

AllHeld(h, l, off) ==
  /\ l \in Seq(Pieces)
  /\ \A i \in DOMAIN l : Held(h, l[i], off)
  /\ \A i, j \in DOMAIN l : i # j => Distinct(l[i], l[j])

IInv ==
  /\ datoff \in {16, 24}
  /\ HeapSound(heap)
  /\ AllHeld(heap, live, datoff)
  /\ moved \in [had : Nat, copied : Nat, room : Nat]
  /\ moved.had <= moved.copied /\ moved.copied <= moved.room

-----------------------------------------------------------------------------
(* Arithmetic of sizes.                                                    *)
LEMMA Times ==
  ASSUME NEW a \in Nat, NEW b \in Nat, NEW c \in Nat, a < b
  PROVE  a * c \in Nat /\ b * c \in Nat /\ a * c + c <= b * c
<1>1. a * c \in Nat /\ b * c \in Nat /\ (b - a) * c \in Nat /\ (b - a - 1) * c \in Nat
  OBVIOUS
<1>2. b * c = a * c + c + (b - a - 1) * c
  OBVIOUS
<1> QED
  BY <1>1, <1>2

LEMMA Eights ==
  ASSUME NEW a \in Int, a % 8 = 0, NEW q \in Int
  PROVE  (a + 8 * q) % 8 = 0
  OBVIOUS

LEMMA Rounded ==
  ASSUME NEW n \in Nat, n + 7 < 2^MAX2SIZE
  PROVE  /\ Round8(n) \in Nat /\ Round8(n) % 8 = 0
         /\ n <= Round8(n) /\ Round8(n) <= n + 7
         /\ n % 8 = 0 => Round8(n) = n
  BY WordAssumption DEF Round8, Ulong32

LEMMA Powers ==
  ASSUME NEW pow \in Pows
  PROVE  Power(pow) \in Nat /\ Power(pow) = 2^pow
  BY MallocAssumption, WordAssumption DEF Power, Ulong32, Pows

LEMMA Chunks ==
  ASSUME NEW pow \in Pows
  PROVE  /\ Chunk(pow) \in Nat /\ Chunk(pow) % 8 = 0
         /\ Power(pow) + 24 <= Chunk(pow) /\ Chunk(pow) <= Power(pow) + 31
  BY Powers, Rounded, MallocAssumption, WordAssumption DEF Chunk, SizeofBucket, Pows

(* All that malloc asks of sbrk at once is what it goes on to use.         *)
LEMMA Asked ==
  ASSUME NEW pow \in Pows
  PROVE  /\ Count(pow) \in Nat \ {0}
         /\ Chunk(pow) * Count(pow) \in Nat
         /\ (Chunk(pow) * Count(pow)) % 8 = 0
         /\ Chunk(pow) * Count(pow) + 7 < 2^MAX2SIZE
         /\ Ulong32(Chunk(pow) * Count(pow)) = Chunk(pow) * Count(pow)
         /\ Round8(Chunk(pow) * Count(pow)) = Chunk(pow) * Count(pow)
<1>1. Count(pow) \in Nat \ {0}
  BY MallocAssumption DEF Count, Pows
<1>2. Chunk(pow) * Count(pow) \in Nat
  BY <1>1, Chunks
<1>3. (Chunk(pow) * Count(pow)) % 8 = 0
  <2>1. PICK k \in Nat : Chunk(pow) = 8 * k
    BY Chunks
  <2>2. Chunk(pow) * Count(pow) = 8 * (k * Count(pow)) /\ k * Count(pow) \in Nat
    BY <1>1, <2>1
  <2> QED
    BY <2>2
<1>4. Chunk(pow) * Count(pow) + 7 < 2^MAX2SIZE
  <2>1. CASE pow < CUTOFF
    <3>1. pow \in 1..(CUTOFF - 1) /\ Count(pow) = (CUTOFF - pow) + 2
      BY <2>1, MallocAssumption DEF Count, Pows
    <3>2. Chunk(pow) * Count(pow) <= ((CUTOFF - pow) + 2) * (2^pow + 31)
      BY <1>1, <3>1, Chunks, Powers
    <3> QED
      BY <1>2, <3>1, <3>2, Powers, MallocAssumption, WordAssumption
  <2>2. CASE ~(pow < CUTOFF)
    BY <2>2, Chunks, Powers, WordAssumption DEF Count, Pows
  <2> QED
    BY <2>1, <2>2
<1>5. Ulong32(Chunk(pow) * Count(pow)) = Chunk(pow) * Count(pow)
  BY <1>2, <1>4, WordAssumption DEF Ulong32
<1>6. \A n \in Nat : n % 8 = 0 /\ n + 7 < 2^MAX2SIZE => Round8(n) = n
  BY Rounded
<1>7. Round8(Chunk(pow) * Count(pow)) = Chunk(pow) * Count(pow)
  BY <1>2, <1>3, <1>4, <1>6
<1> QED
  BY <1>1, <1>2, <1>3, <1>4, <1>5, <1>7

LEMMA NatLess == IsWellFoundedOn({ss \in Nat \X Nat : ss[1] < ss[2]}, Nat)
  BY NatLessThanWellFounded DEF OpToRel

LEMMA Least ==
  ASSUME NEW S, S # {}, S \subseteq Nat
  PROVE  \E p \in S : \A q \in S : p <= q
<1> DEFINE Less == {ss \in Nat \X Nat : ss[1] < ss[2]}
<1>1. IsWellFoundedOn(Less, Nat)
  BY NatLess
<1> HIDE DEF Less
<1>2. PICK p \in S : \A q \in S : ~(<<q, p>> \in Less)
  BY <1>1, WFMin
<1>3. \A q \in S : ~(q < p)
  <2> TAKE q \in S
  <2>1. ~(<<q, p>> \in Less)
    BY <1>2
  <2>2. <<q, p>> \in Nat \X Nat
    OBVIOUS
  <2> QED
    BY <2>1, <2>2 DEF Less
<1> QED
  BY <1>3

(* malloc's search ends at a block that is large enough, or at none.       *)
LEMMA PowFits ==
  ASSUME NEW size \in Nat, Pow(size) # 0
  PROVE  Pow(size) \in Pows /\ size <= Power(Pow(size))
<1>1. Fits(size) # {} /\ Fits(size) \subseteq Nat
  BY MallocAssumption DEF Pow, Fits
<1>2. \E p \in Fits(size) : \A q \in Fits(size) : p <= q
  BY <1>1, Least
<1>3. Pow(size) \in Fits(size)
  BY <1>1, <1>2 DEF Pow
<1> QED
  BY <1>3 DEF Fits, Pows

-----------------------------------------------------------------------------
(* The blocks cut from one answer of sbrk lie side by side in it.          *)
LEMMA CarvedBlocks ==
  ASSUME NEW pow \in Pows, NEW at \in Int, at % 8 = 0
  PROVE  /\ DOMAIN Carved(pow, at) \subseteq Int
         /\ Carved(pow, at) \in [DOMAIN Carved(pow, at) -> Node]
         /\ at \in DOMAIN Carved(pow, at)
         /\ \A a \in DOMAIN Carved(pow, at) :
              /\ a % 8 = 0 /\ at <= a
              /\ a + Chunk(pow) <= at + Chunk(pow) * Count(pow)
              /\ Carved(pow, at)[a].size = pow
              /\ Carved(pow, at)[a].magic <=> a = at
              /\ \A b \in DOMAIN Carved(pow, at) : a # b => Apart(a, Chunk(pow), b, Chunk(pow))
              /\ \/ Carved(pow, at)[a].next = nil
                 \/ /\ Carved(pow, at)[a].next = a + Chunk(pow)
                    /\ a + Chunk(pow) \in DOMAIN Carved(pow, at)
         /\ pow < CUTOFF => at + Chunk(pow) \in DOMAIN Carved(pow, at)
<1> DEFINE C == Chunk(pow)
           n == Count(pow)
           Block(k) == at + k * C
           D == {Block(k) : k \in 0..(n - 1)}
<1>1. n \in Nat \ {0} /\ C \in Nat /\ C % 8 = 0 /\ C >= 24
  BY Asked, Chunks, Powers
<1>2. Carved(pow, at) = [a \in D |-> [size |-> pow, magic |-> a = at,
                           next |-> IF a \in {at, Block(n - 1)} THEN nil ELSE a + C]]
  BY DEF Carved, Count
<1> HIDE DEF n, C
<1>3. \A k \in 0..(n - 1) : Block(k) \in Int /\ Block(k) % 8 = 0 /\ at <= Block(k)
  <2> TAKE k \in 0..(n - 1)
  <2>1. PICK m \in Nat : C = 8 * m
    BY <1>1
  <2>2. PICK q \in Nat : q = k * m
    BY <1>1
  <2>3. Block(k) = at + 8 * q
    BY <1>1, <2>1, <2>2
  <2>4. (at + 8 * q) % 8 = 0
    BY Eights
  <2> QED
    BY <2>3, <2>4
<1>4. \A k \in 0..(n - 1) : Block(k) + C <= at + C * n
  <2> TAKE k \in 0..(n - 1)
  <2>1. k \in Nat /\ n \in Nat /\ k < n
    BY <1>1
  <2>2. k * C + C <= n * C
    BY <1>1, <2>1, Times
  <2> QED
    BY <1>1, <2>1, <2>2
<1>5. \A j, k \in 0..(n - 1) : j < k => Block(j) + C <= Block(k)
  <2> TAKE j, k \in 0..(n - 1)
  <2>1. j \in Nat /\ k \in Nat
    BY <1>1
  <2>2. j < k => j * C + C <= k * C /\ j * C \in Nat /\ k * C \in Nat
    BY <1>1, <2>1, Times
  <2> QED
    BY <1>1, <2>1, <2>2
<1>6. \A a, b \in D : a # b => Apart(a, C, b, C)
  <2> SUFFICES ASSUME NEW j \in 0..(n - 1), NEW k \in 0..(n - 1), Block(j) # Block(k)
               PROVE  Apart(Block(j), C, Block(k), C)
    OBVIOUS
  <2>1. j # k
    OBVIOUS
  <2>2. j < k \/ k < j
    BY <1>1, <2>1
  <2> QED
    BY <1>5, <2>2 DEF Apart
<1>7. at \in D
  <2>1. 0 \in 0..(n - 1) /\ Block(0) = at
    BY <1>1
  <2> QED
    BY <2>1
<1>8. \A k \in 0..(n - 1) : Block(k) # Block(n - 1) => Block(k) + C \in D
  <2> TAKE k \in 0..(n - 1)
  <2> HAVE Block(k) # Block(n - 1)
  <2>1. k + 1 \in 0..(n - 1)
    BY <1>1
  <2>2. Block(k + 1) = Block(k) + C
    BY <1>1
  <2> QED
    BY <2>1, <2>2
<1>9. pow < CUTOFF => at + C \in D
  <2> HAVE pow < CUTOFF
  <2>1. 1 \in 0..(n - 1)
    BY MallocAssumption DEF n, Count, Pows
  <2>2. Block(1) = at + C
    BY <1>1
  <2> QED
    BY <2>1, <2>2
<1>10. D \subseteq Int
  BY <1>3
<1>11. Carved(pow, at) \in [D -> Node]
  BY <1>1, <1>2, <1>10 DEF Node, nil
<1>12. \A a \in D : a % 8 = 0 /\ at <= a /\ a + C <= at + C * n
  BY <1>3, <1>4
<1>13. \A a \in D : a # Block(n - 1) => a + C \in D
  BY <1>8
<1> HIDE DEF Block, D
<1>14. DOMAIN Carved(pow, at) = D
  BY <1>2
<1>15. \A a \in D : /\ Carved(pow, at)[a].size = pow
                    /\ Carved(pow, at)[a].magic <=> a = at
                    /\ \/ Carved(pow, at)[a].next = nil
                       \/ Carved(pow, at)[a].next = a + C /\ a # Block(n - 1)
  <2> TAKE a \in D
  <2>1. Carved(pow, at)[a] = [size |-> pow, magic |-> a = at,
                              next |-> IF a \in {at, Block(n - 1)} THEN nil ELSE a + C]
    BY <1>2, Zenon
  <2>2. PICK m \in BOOLEAN : m = (a = at)
    OBVIOUS
  <2>3. Carved(pow, at)[a] = [size |-> pow, magic |-> m,
                              next |-> IF a \in {at, Block(n - 1)} THEN nil ELSE a + C]
    BY <2>1, <2>2, Zenon
  <2>4. /\ Carved(pow, at)[a].size = pow
        /\ Carved(pow, at)[a].next = IF a \in {at, Block(n - 1)} THEN nil ELSE a + C
    BY <2>3
  <2>5. Carved(pow, at)[a].magic = m
    BY <2>3
  <2>6. Carved(pow, at)[a].magic <=> a = at
    BY <2>2, <2>5, Zenon
  <2> QED
    BY <2>4, <2>6
<1> QED
  BY <1>6, <1>7, <1>9, <1>10, <1>11, <1>12, <1>13, <1>14, <1>15 DEF C, n

-----------------------------------------------------------------------------
(* What malloc may do to the heap it is given.                             *)
Grown(h, h2) ==
  /\ h.bloc <= h2.bloc
  /\ \A b \in DOMAIN h.bucket :
       /\ b \in DOMAIN h2.bucket
       /\ h2.bucket[b].size = h.bucket[b].size
       /\ h.bucket[b].magic => h2.bucket[b].magic
  /\ \A b \in DOMAIN h2.bucket : b \notin DOMAIN h.bucket => h.bloc <= b

(* A heap that differs in what its Buckets say, not in where they are.     *)
Alike(h, h2) ==
  /\ h2.bloc = h.bloc
  /\ DOMAIN h2.bucket = DOMAIN h.bucket
  /\ \A b \in DOMAIN h.bucket : h2.bucket[b].size = h.bucket[b].size

LEMMA AlikeApart ==
  ASSUME NEW h, NEW h2, BucketsApart(h), Alike(h, h2)
  PROVE  BucketsApart(h2)
  BY DEF BucketsApart, Alike, Extent

(* Off the list: the head is the answer, and the next one the head.        *)
LEMMA TakenOff ==
  ASSUME NEW h, HeapSound(h), NEW pow \in Pows, h.btab[pow] # nil
  PROVE  LET h2 == FromList(h, pow).heap
             bp == h.btab[pow]
         IN /\ HeapSound(h2) /\ Alike(h, h2) /\ Grown(h, h2)
            /\ bp \in DOMAIN h.bucket /\ ~h.bucket[bp].magic
            /\ h2.bucket[bp].magic /\ h2.bucket[bp].size = pow
<1> DEFINE h2 == FromList(h, pow).heap
           bp == h.btab[pow]
<1>1. /\ bp \in DOMAIN h.bucket /\ bp \in Int
      /\ h.bucket[bp].size = pow /\ h.bucket[bp].magic = FALSE
      /\ h.bucket[bp] \in Node
  BY DEF HeapSound, ListsSound, IsHeap, FreeOf, Node
<1>2. h2.bloc = h.bloc /\ h2.aborted = FALSE
  BY <1>1 DEF FromList, HeapSound, IsHeap
<1>3. h2.btab = [h.btab EXCEPT ![pow] = h.bucket[bp].next]
  BY <1>1 DEF FromList, HeapSound, IsHeap
<1>4. h2.bucket = [h.bucket EXCEPT ![bp].magic = TRUE]
  BY <1>1 DEF FromList, HeapSound, IsHeap
<1>5. h2 = [bloc |-> h2.bloc, btab |-> h2.btab, bucket |-> h2.bucket, aborted |-> h2.aborted]
  BY DEF FromList, HeapSound, IsHeap
<1> HIDE DEF h2
<1>6. /\ DOMAIN h2.bucket = DOMAIN h.bucket
      /\ h2.bucket[bp] = [size |-> pow, magic |-> TRUE, next |-> h.bucket[bp].next]
      /\ \A b \in DOMAIN h.bucket : b # bp => h2.bucket[b] = h.bucket[b]
  BY <1>1, <1>4 DEF Node
<1>7. IsHeap(h2)
  <2>1. h2.btab \in [Pows -> Int]
    BY <1>1, <1>3 DEF HeapSound, IsHeap, Node
  <2>2. h2.bucket \in [DOMAIN h2.bucket -> Node]
    <3>1. h.bucket[bp].next \in Int
      BY <1>1 DEF Node
    <3>2. h2.bucket[bp] \in Node
      BY <1>6, <3>1 DEF Node
    <3>3. \A b \in DOMAIN h.bucket : b # bp => h2.bucket[b] \in Node
      BY <1>6 DEF HeapSound, IsHeap
    <3>4. h2.bucket = [b \in DOMAIN h.bucket |-> h2.bucket[b]]
      BY <1>4, <1>6
    <3> QED
      BY <1>6, <3>2, <3>3, <3>4
  <2> QED
    BY <1>2, <1>5, <1>6, <2>1, <2>2 DEF HeapSound, IsHeap
<1>8. Alike(h, h2)
  BY <1>1, <1>2, <1>6 DEF Alike
<1>9. BucketsApart(h2)
  BY <1>8, AlikeApart DEF HeapSound
<1>10. \A q \in Pows : FreeOf(h2, q) = FreeOf(h, q) \ {bp}
  BY <1>1, <1>6 DEF FreeOf
<1>11. bp \in FreeOf(h, pow) /\ \A q \in Pows \ {pow} : bp \notin FreeOf(h, q)
  BY <1>1 DEF FreeOf
<1>12. ListsSound(h2)
  <2> SUFFICES ASSUME NEW q \in Pows
               PROVE  /\ h2.btab[q] \in FreeOf(h2, q) \cup {nil}
                      /\ \A b \in FreeOf(h2, q) :
                         /\ h2.bucket[b].next \in FreeOf(h2, q) \cup {nil}
                         /\ h2.bucket[b].next # nil =>
                            /\ h2.bucket[b].next # h2.btab[q]
                            /\ \A c \in FreeOf(h2, q) : c # b => h2.bucket[c].next # h2.bucket[b].next
    BY DEF ListsSound
  <2>1. \A b \in FreeOf(h2, q) : b \in FreeOf(h, q) /\ h2.bucket[b] = h.bucket[b]
    BY <1>6, <1>10 DEF FreeOf
  <2>2. CASE q = pow
    <3>1. h2.btab[q] = h.bucket[bp].next
      BY <1>3, <2>2 DEF HeapSound, IsHeap
    <3> QED
      BY <1>10, <1>11, <2>1, <2>2, <3>1 DEF HeapSound, ListsSound
  <2>3. CASE q # pow
    <3>1. h2.btab[q] = h.btab[q] /\ FreeOf(h2, q) = FreeOf(h, q)
      BY <1>3, <1>10, <1>11, <2>3 DEF HeapSound, IsHeap
    <3> QED
      BY <2>1, <3>1 DEF HeapSound, ListsSound
  <2> QED
    BY <2>2, <2>3
<1>13. Grown(h, h2)
  BY <1>1, <1>2, <1>6 DEF Grown, HeapSound, IsHeap
<1> QED
  BY <1>1, <1>6, <1>7, <1>8, <1>9, <1>12, <1>13 DEF HeapSound, h2

(* Back on the list: free makes it the head, before what was the head.     *)
LEMMA PutBack ==
  ASSUME NEW h, HeapSound(h), NEW ptr,
         ptr - datoff \in DOMAIN h.bucket, h.bucket[ptr - datoff].magic
  PROVE  LET h2 == free(h, ptr)
         IN /\ HeapSound(h2) /\ Alike(h, h2)
            /\ \A b \in DOMAIN h.bucket : b # ptr - datoff => h2.bucket[b] = h.bucket[b]
<1> DEFINE h2 == free(h, ptr)
           bp == ptr - datoff
           s == h.bucket[bp].size
           N == [size |-> s, magic |-> FALSE, next |-> h.btab[s]]
<1>1. /\ bp \in DOMAIN h.bucket /\ bp \in Int /\ bp # nil
      /\ s \in Pows /\ h.bucket[bp].magic = TRUE
      /\ h.bucket[bp] \in Node
      /\ h.btab[s] \in Int
  BY MallocAssumption DEF HeapSound, BucketsApart, IsHeap, Node, nil
<1>3. h2 = [bloc |-> h.bloc, btab |-> [h.btab EXCEPT ![s] = bp],
            bucket |-> [h.bucket EXCEPT ![bp] = N], aborted |-> FALSE]
  BY <1>1 DEF free, HeapSound, IsHeap
<1> HIDE DEF h2
<1>4. /\ h2.bloc = h.bloc /\ h2.aborted = FALSE
      /\ h2.btab = [h.btab EXCEPT ![s] = bp]
      /\ h2.bucket = [h.bucket EXCEPT ![bp] = N]
  BY <1>3
<1>5. h2 = [bloc |-> h2.bloc, btab |-> h2.btab, bucket |-> h2.bucket, aborted |-> h2.aborted]
  BY <1>3, <1>4
<1>6. /\ DOMAIN h2.bucket = DOMAIN h.bucket
      /\ h2.bucket[bp] = N
      /\ \A b \in DOMAIN h.bucket : b # bp => h2.bucket[b] = h.bucket[b]
  BY <1>1, <1>4
<1>7. IsHeap(h2)
  <2>1. h2.btab \in [Pows -> Int]
    BY <1>1, <1>4 DEF HeapSound, IsHeap
  <2>2. N \in Node
    BY <1>1 DEF Node
  <2>3. h2.bucket \in [DOMAIN h2.bucket -> Node]
    BY <1>4, <1>6, <2>2 DEF HeapSound, IsHeap
  <2> QED
    BY <1>4, <1>5, <1>6, <2>1, <2>3 DEF HeapSound, IsHeap
<1>8. Alike(h, h2)
  BY <1>1, <1>4, <1>6 DEF Alike
<1>9. BucketsApart(h2)
  BY <1>8, AlikeApart DEF HeapSound
<1>10. bp \in FreeOf(h2, s) /\ \A q \in Pows : FreeOf(h, q) = FreeOf(h2, q) \ {bp}
  BY <1>1, <1>6 DEF FreeOf
<1>11. \A q \in Pows \ {s} : bp \notin FreeOf(h2, q)
  BY <1>1, <1>6 DEF FreeOf
<1>12. ListsSound(h2)
  <2> SUFFICES ASSUME NEW q \in Pows
               PROVE  /\ h2.btab[q] \in FreeOf(h2, q) \cup {nil}
                      /\ \A b \in FreeOf(h2, q) :
                         /\ h2.bucket[b].next \in FreeOf(h2, q) \cup {nil}
                         /\ h2.bucket[b].next # nil =>
                            /\ h2.bucket[b].next # h2.btab[q]
                            /\ \A c \in FreeOf(h2, q) : c # b => h2.bucket[c].next # h2.bucket[b].next
    BY DEF ListsSound
  <2>1. \A b \in FreeOf(h, q) : h2.bucket[b] = h.bucket[b] /\ b \in FreeOf(h2, q) /\ b # bp
    BY <1>6, <1>10 DEF FreeOf
  <2>2. CASE q = s
    <3>1. h2.btab[q] = bp /\ h2.bucket[bp].next = h.btab[q]
      BY <1>1, <1>4, <1>6, <2>2 DEF HeapSound, IsHeap
    <3>2. FreeOf(h2, q) = FreeOf(h, q) \cup {bp}
      BY <1>10, <2>2
    <3>3. /\ h.btab[q] \in FreeOf(h, q) \cup {nil}
          /\ \A b \in FreeOf(h, q) :
               /\ h.bucket[b].next \in FreeOf(h, q) \cup {nil}
               /\ h.bucket[b].next # nil =>
                    /\ h.bucket[b].next # h.btab[q]
                    /\ \A c \in FreeOf(h, q) : c # b => h.bucket[c].next # h.bucket[b].next
      BY DEF HeapSound, ListsSound
    <3> QED
      BY <1>1, <2>1, <3>1, <3>2, <3>3
  <2>3. CASE q # s
    <3>1. h2.btab[q] = h.btab[q]
      BY <1>1, <1>4, <2>3 DEF HeapSound, IsHeap
    <3>2. bp \notin FreeOf(h2, q)
      BY <1>11, <2>3
    <3>3. FreeOf(h2, q) = FreeOf(h, q)
      BY <1>10, <3>2
    <3> QED
      BY <2>1, <3>1, <3>3 DEF HeapSound, ListsSound
  <2> QED
    BY <2>2, <2>3
<1> QED
  BY <1>6, <1>7, <1>8, <1>9, <1>12 DEF HeapSound, h2

(* sbrk raises bloc and touches nothing else, or gives nothing.            *)
LEMMA Broken ==
  ASSUME NEW h, IsHeap(h), NEW n \in Nat, NEW granted \in BOOLEAN
  PROVE  \/ sbrk(h, n, granted) = [at |-> Failed, heap |-> h]
         \/ sbrk(h, n, granted) =
              [at |-> h.bloc, heap |-> [bloc |-> h.bloc + Round8(n), btab |-> h.btab,
                                        bucket |-> h.bucket, aborted |-> FALSE]]
<1>1. PICK bloc, btab, bucket, aborted, new :
        /\ bloc = h.bloc /\ btab = h.btab /\ bucket = h.bucket /\ aborted = h.aborted
        /\ new = h.bloc + Round8(n)
  OBVIOUS
<1>2. h = [bloc |-> bloc, btab |-> btab, bucket |-> bucket, aborted |-> aborted]
  BY <1>1, Zenon DEF IsHeap
<1>3. [h EXCEPT !.bloc = new] =
        [bloc |-> new, btab |-> btab, bucket |-> bucket, aborted |-> aborted]
  BY <1>2
<1>4. aborted = FALSE
  BY <1>1 DEF IsHeap
<1> QED
  BY <1>1, <1>3, <1>4, Zenon DEF sbrk

(* sbrk gives what malloc asked for, or nothing.                           *)
LEMMA Answered ==
  ASSUME NEW h, HeapSound(h), NEW pow \in Pows, h.btab[pow] = nil,
         NEW granted \in BOOLEAN, NEW m, m = FromKernel(h, pow, granted)
  PROVE  \/ m = [at |-> nil, heap |-> h]
         \/ m = [at |-> h.bloc + datoff,
                 heap |-> [bloc |-> h.bloc + Chunk(pow) * Count(pow),
                           btab |-> [h.btab EXCEPT ![pow] =
                                       IF pow < CUTOFF THEN h.bloc + Chunk(pow) ELSE nil],
                           bucket |-> [a \in DOMAIN h.bucket \cup DOMAIN Carved(pow, h.bloc) |->
                                         IF a \in DOMAIN Carved(pow, h.bloc)
                                         THEN Carved(pow, h.bloc)[a] ELSE h.bucket[a]],
                           aborted |-> FALSE]]
<1> DEFINE all == Chunk(pow) * Count(pow)
           got == sbrk(h, all, granted)
<1>1. all \in Nat /\ Ulong32(all) = all /\ Round8(all) = all
  BY Asked
<1>2. h.bloc \in Int /\ h.bloc > 0 /\ h.aborted = FALSE
  BY MallocAssumption DEF HeapSound, IsHeap
<1>3. CASE got = [at |-> Failed, heap |-> h]
  BY <1>1, <1>3 DEF FromKernel
<1>4. CASE got = [at |-> h.bloc, heap |-> [bloc |-> h.bloc + Round8(all), btab |-> h.btab,
                                           bucket |-> h.bucket, aborted |-> FALSE]]
  <2>1. got.at = h.bloc /\ got.at # Failed /\ got.heap.bloc = h.bloc + all
    BY <1>1, <1>2, <1>4 DEF Failed
  <2> HIDE DEF all
  <2> QED
    BY <1>1, <1>2, <2>1 DEF FromKernel, all
<1> QED
  BY <1>1, <1>3, <1>4, Broken DEF HeapSound

(* A run of new blocks: above all that was there, the first for the caller *)
(* and the others on the list, which was empty.                            *)
LEMMA NewBlocks ==
  ASSUME NEW h, HeapSound(h), NEW pow \in Pows, h.btab[pow] = nil,
         NEW granted \in BOOLEAN, NEW m, m = FromKernel(h, pow, granted), m.at # nil
  PROVE  /\ m.at = h.bloc + datoff
         /\ HeapSound(m.heap) /\ Grown(h, m.heap)
         /\ h.bloc \in DOMAIN m.heap.bucket /\ h.bloc \notin DOMAIN h.bucket
         /\ m.heap.bucket[h.bloc].magic /\ m.heap.bucket[h.bloc].size = pow
<1> DEFINE C == Chunk(pow)
           all == C * Count(pow)
           new == Carved(pow, h.bloc)
<1>1. /\ C \in Nat /\ C >= 24 /\ all \in Nat /\ all % 8 = 0
  BY Chunks, Powers, Asked
<1>2. h.bloc \in Int /\ h.bloc % 8 = 0 /\ h.bloc > 0 /\ End <= h.bloc
  BY MallocAssumption DEF HeapSound, IsHeap
<1>3. PICK D, carved, tab, h2 :
        /\ carved = new /\ D = DOMAIN new /\ h2 = m.heap
        /\ tab = IF pow < CUTOFF THEN h.bloc + C ELSE nil
  OBVIOUS
<1>a. m # [at |-> nil, heap |-> h]
  OBVIOUS
<1> DEFINE answer == [at |-> h.bloc + datoff,
                      heap |-> [bloc |-> h.bloc + all,
                                btab |-> [h.btab EXCEPT ![pow] =
                                            IF pow < CUTOFF THEN h.bloc + C ELSE nil],
                                bucket |-> [a \in DOMAIN h.bucket \cup DOMAIN new |->
                                              IF a \in DOMAIN new THEN new[a] ELSE h.bucket[a]],
                                aborted |-> FALSE]]
<1>b. m = [at |-> nil, heap |-> h] \/ m = answer
  BY SMTT(30), Answered
<1>c. m = answer
  BY <1>a, <1>b
<1>4. m.at = h.bloc + datoff
  BY <1>c
<1>5. h2 = [bloc |-> h.bloc + all, btab |-> [h.btab EXCEPT ![pow] = tab],
            bucket |-> [a \in DOMAIN h.bucket \cup D |->
                          IF a \in D THEN carved[a] ELSE h.bucket[a]],
            aborted |-> FALSE]
  BY <1>3, <1>c
<1>6. /\ D \subseteq Int /\ h.bloc \in D
      /\ DOMAIN carved = D /\ carved \in [D -> Node]
      /\ \A a \in D :
           /\ a % 8 = 0 /\ h.bloc <= a /\ a + C <= h.bloc + all
           /\ carved[a].size = pow
           /\ carved[a].magic <=> a = h.bloc
           /\ \A b \in D : a # b => Apart(a, C, b, C)
           /\ carved[a].next = nil \/ (carved[a].next = a + C /\ a + C \in D)
      /\ pow < CUTOFF => h.bloc + C \in D
  BY <1>2, <1>3, CarvedBlocks
<1> HIDE DEF C, all, new
<1>7. /\ h2.bloc = h.bloc + all /\ h2.aborted = FALSE
      /\ h2.btab = [h.btab EXCEPT ![pow] = tab]
      /\ h2.bucket = [a \in DOMAIN h.bucket \cup D |->
                        IF a \in D THEN carved[a] ELSE h.bucket[a]]
  BY <1>5
<1>8. h2 = [bloc |-> h2.bloc, btab |-> h2.btab, bucket |-> h2.bucket, aborted |-> h2.aborted]
  BY <1>5, <1>7
<1>9. \A b \in DOMAIN h.bucket : /\ b \in Int /\ b \notin D /\ b # nil
                                 /\ Extent(h, b) \in Nat /\ b + Extent(h, b) <= h.bloc
                                 /\ b < h.bloc
  <2> TAKE b \in DOMAIN h.bucket
  <2>1. b \in Int /\ h.bucket[b].size \in Pows /\ End <= b /\ b + Extent(h, b) <= h.bloc
    BY DEF HeapSound, IsHeap, BucketsApart, Node
  <2>2. Extent(h, b) \in Nat /\ Extent(h, b) >= 24
    BY <2>1, Chunks, Powers DEF Extent
  <2> QED
    BY <1>2, <1>6, <2>1, <2>2, MallocAssumption DEF nil
<1>10. /\ DOMAIN h2.bucket = DOMAIN h.bucket \cup D
       /\ \A b \in DOMAIN h.bucket : h2.bucket[b] = h.bucket[b] /\ Extent(h2, b) = Extent(h, b)
       /\ \A b \in D : h2.bucket[b] = carved[b] /\ Extent(h2, b) = C
  BY <1>6, <1>7, <1>9 DEF Extent, C
<1>11. IsHeap(h2)
  <2>1. tab \in Int /\ h2.btab \in [Pows -> Int]
    BY <1>1, <1>2, <1>3, <1>7 DEF HeapSound, IsHeap, nil
  <2>2. h2.bucket \in [DOMAIN h2.bucket -> Node]
    BY <1>6, <1>7, <1>10 DEF HeapSound, IsHeap
  <2>3. h2.bloc \in Int /\ h2.bloc % 8 = 0 /\ End <= h2.bloc
    BY <1>1, <1>2, <1>7, MallocAssumption
  <2>4. DOMAIN h2.bucket \subseteq Int
    BY <1>6, <1>10 DEF HeapSound, IsHeap
  <2> QED
    BY <1>7, <1>8, <2>1, <2>2, <2>3, <2>4 DEF IsHeap
<1>12. BucketsApart(h2)
  <2>1. \A b \in DOMAIN h2.bucket : b % 8 = 0 /\ End <= b /\ b + Extent(h2, b) <= h2.bloc
    <3>1. \A b \in DOMAIN h.bucket : b % 8 = 0 /\ End <= b
      BY DEF HeapSound, BucketsApart
    <3>2. \A b \in DOMAIN h.bucket : b + Extent(h2, b) <= h2.bloc
      <4> TAKE b \in DOMAIN h.bucket
      <4>1. b \in Int /\ Extent(h, b) \in Nat /\ b + Extent(h, b) <= h.bloc
        BY <1>9
      <4>2. Extent(h2, b) = Extent(h, b)
        BY <1>10
      <4> QED
        BY <1>1, <1>2, <1>7, <4>1, <4>2
    <3>3. \A b \in D : b % 8 = 0 /\ End <= b /\ b + Extent(h2, b) <= h2.bloc
      BY <1>1, <1>2, <1>6, <1>7, <1>10, MallocAssumption
    <3> QED
      BY <1>10, <3>1, <3>2, <3>3
  <2>2. \A b, c \in DOMAIN h.bucket : c # b => Apart(b, Extent(h2, b), c, Extent(h2, c))
    BY <1>10 DEF HeapSound, BucketsApart
  <2>3. \A b \in DOMAIN h.bucket, c \in D :
          Apart(b, Extent(h2, b), c, Extent(h2, c)) /\ Apart(c, Extent(h2, c), b, Extent(h2, b))
    <3> TAKE b \in DOMAIN h.bucket, c \in D
    <3>1. b + Extent(h2, b) <= h.bloc /\ b + Extent(h2, b) \in Int
      <4>1. b \in Int /\ Extent(h, b) \in Nat /\ b + Extent(h, b) <= h.bloc
        BY <1>9
      <4>2. Extent(h2, b) = Extent(h, b)
        BY <1>10
      <4> QED
        BY <4>1, <4>2
    <3>2. c \in Int /\ h.bloc <= c /\ h.bloc \in Int
      BY <1>1, <1>6
    <3>3. b + Extent(h2, b) <= c
      BY <3>1, <3>2
    <3> QED
      BY <3>3 DEF Apart
  <2>4. \A b, c \in D : c # b => Apart(b, Extent(h2, b), c, Extent(h2, c))
    BY <1>6, <1>10
  <2> QED
    BY <1>10, <2>1, <2>2, <2>3, <2>4 DEF BucketsApart
<1>13. Grown(h, h2)
  <2>1. h.bloc <= h2.bloc
    BY <1>1, <1>2, <1>7
  <2>2. \A b \in DOMAIN h2.bucket : b \notin DOMAIN h.bucket => h.bloc <= b
    BY <1>6, <1>10
  <2> QED
    BY <1>10, <2>1, <2>2 DEF Grown
<1>14. /\ FreeOf(h2, pow) = FreeOf(h, pow) \cup (D \ {h.bloc})
       /\ \A q \in Pows \ {pow} : FreeOf(h2, q) = FreeOf(h, q)
  <2>1. \A q \in Pows, b \in DOMAIN h.bucket : b \in FreeOf(h2, q) <=> b \in FreeOf(h, q)
    BY <1>10 DEF FreeOf
  <2>2. \A q \in Pows, b \in D : b \in FreeOf(h2, q) <=> q = pow /\ b # h.bloc
    BY <1>6, <1>10 DEF FreeOf
  <2>3. \A q \in Pows : FreeOf(h2, q) \subseteq DOMAIN h.bucket \cup D
    BY <1>10 DEF FreeOf
  <2>4. \A q \in Pows : FreeOf(h, q) \subseteq DOMAIN h.bucket
    BY DEF FreeOf
  <2> QED
    BY <1>9, <2>1, <2>2, <2>3, <2>4
<1>15. ListsSound(h2)
  <2> SUFFICES ASSUME NEW q \in Pows
               PROVE  /\ h2.btab[q] \in FreeOf(h2, q) \cup {nil}
                      /\ \A b \in FreeOf(h2, q) :
                         /\ h2.bucket[b].next \in FreeOf(h2, q) \cup {nil}
                         /\ h2.bucket[b].next # nil =>
                            /\ h2.bucket[b].next # h2.btab[q]
                            /\ \A c \in FreeOf(h2, q) : c # b => h2.bucket[c].next # h2.bucket[b].next
    BY DEF ListsSound
  <2>1. \A b \in FreeOf(h, q) : b \in DOMAIN h.bucket /\ h2.bucket[b] = h.bucket[b]
    BY <1>10 DEF FreeOf
  <2>2. /\ h.btab[q] \in FreeOf(h, q) \cup {nil}
        /\ \A b \in FreeOf(h, q) :
             /\ h.bucket[b].next \in FreeOf(h, q) \cup {nil}
             /\ h.bucket[b].next # nil =>
                  /\ h.bucket[b].next # h.btab[q]
                  /\ \A c \in FreeOf(h, q) : c # b => h.bucket[c].next # h.bucket[b].next
    BY DEF HeapSound, ListsSound
  <2>3. CASE q # pow
    <3>1. h2.btab[q] = h.btab[q] /\ FreeOf(h2, q) = FreeOf(h, q)
      BY <1>7, <1>14, <2>3 DEF HeapSound, IsHeap
    <3> QED
      BY <2>1, <2>2, <3>1
  <2>4. CASE q = pow
    <3>1. h2.btab[q] = tab
      BY <1>7, <2>4 DEF HeapSound, IsHeap
    <3>2. tab = nil \/ (tab = h.bloc + C /\ tab \in D \ {h.bloc})
      BY <1>1, <1>2, <1>3, <1>6 DEF C
    <3>3. \A b \in D \ {h.bloc} :
            \/ h2.bucket[b].next = nil
            \/ h2.bucket[b].next = b + C /\ b + C \in D \ {h.bloc}
      BY <1>1, <1>2, <1>6, <1>10
    <3>4. \A b \in FreeOf(h2, q) : h2.bucket[b].next \in FreeOf(h2, q) \cup {nil}
      BY <1>14, <2>1, <2>2, <2>4, <3>3
    <3>5. \A b \in FreeOf(h2, q) : h2.bucket[b].next # nil => h2.bucket[b].next # tab
      <4>1. \A b \in FreeOf(h, q) : h2.bucket[b].next # nil => h2.bucket[b].next # tab
        BY <1>9, <2>1, <2>2, <3>2
      <4>2. \A b \in D \ {h.bloc} : b \in Int
        BY <1>6
      <4>3. \A b \in D \ {h.bloc} : b + C # h.bloc + C
        BY <1>1, <1>2, <4>2
      <4>4. \A b \in D \ {h.bloc} : h2.bucket[b].next # nil => h2.bucket[b].next # tab
        BY <3>2, <3>3, <4>3
      <4> QED
        BY <1>14, <2>4, <4>1, <4>4
    <3>6. \A b, c \in D \ {h.bloc} :
            h2.bucket[b].next # nil /\ c # b => h2.bucket[c].next # h2.bucket[b].next
      <4>1. \A b, c \in D \ {h.bloc} : c # b => b + C # c + C
        BY <1>1, <1>6
      <4> QED
        BY <3>3, <4>1
    <3>7. \A b \in FreeOf(h, q), c \in D \ {h.bloc} :
            h2.bucket[b].next # nil \/ h2.bucket[c].next # nil
              => h2.bucket[c].next # h2.bucket[b].next
      BY <1>9, <2>1, <2>2, <3>3
    <3> QED
      BY <1>14, <2>1, <2>2, <2>4, <3>1, <3>2, <3>4, <3>5, <3>6, <3>7
  <2> QED
    BY <2>3, <2>4
<1> QED
  BY <1>3, <1>4, <1>6, <1>9, <1>10, <1>11, <1>12, <1>13, <1>15 DEF HeapSound

(* What sbrk refuses leaves the heap as it was.                            *)
LEMMA Refused ==
  ASSUME NEW h, HeapSound(h), NEW pow \in Pows, h.btab[pow] = nil, datoff \in {16, 24},
         NEW granted \in BOOLEAN, NEW m, m = FromKernel(h, pow, granted), m.at = nil
  PROVE  m.heap = h
<1> DEFINE answer == [at |-> h.bloc + datoff,
                      heap |-> [bloc |-> h.bloc + Chunk(pow) * Count(pow),
                                btab |-> [h.btab EXCEPT ![pow] =
                                            IF pow < CUTOFF THEN h.bloc + Chunk(pow) ELSE nil],
                                bucket |-> [a \in DOMAIN h.bucket \cup DOMAIN Carved(pow, h.bloc) |->
                                              IF a \in DOMAIN Carved(pow, h.bloc)
                                              THEN Carved(pow, h.bloc)[a] ELSE h.bucket[a]],
                                aborted |-> FALSE]]
<1>1. m = [at |-> nil, heap |-> h] \/ m = answer
  BY Answered, Zenon
<1>2. answer.at = h.bloc + datoff
  OBVIOUS
<1>3. h.bloc \in Int /\ h.bloc > 0
  BY MallocAssumption DEF HeapSound, IsHeap
<1> HIDE DEF answer
<1> QED
  BY <1>1, <1>2, <1>3 DEF nil

-----------------------------------------------------------------------------
(* What is held.                                                           *)
LEMMA BlockHeld ==
  ASSUME NEW h, HeapSound(h), datoff \in {16, 24}, NEW b \in DOMAIN h.bucket,
         h.bucket[b].magic, NEW n \in Nat, n <= Power(h.bucket[b].size)
  PROVE  /\ Piece(b + datoff, n, TRUE) \in Pieces
         /\ Held(h, Piece(b + datoff, n, TRUE), datoff)
<1> DEFINE s == h.bucket[b].size
<1>1. /\ b \in Int /\ b % 8 = 0 /\ End <= b /\ s \in Pows
      /\ b + Chunk(s) <= h.bloc /\ h.bloc \in Int
  BY DEF HeapSound, IsHeap, BucketsApart, Extent, Node
<1>2. Power(s) \in Nat /\ Chunk(s) \in Nat /\ Power(s) + 24 <= Chunk(s)
  BY <1>1, Powers, Chunks
<1>3. /\ (b + datoff) - datoff = b /\ b + datoff \in Int
      /\ (b + datoff) % 8 = 0 /\ End <= b + datoff /\ b + datoff + n <= h.bloc
  BY <1>1, <1>2, MallocAssumption
<1> QED
  BY <1>3 DEF Held, Piece, Pieces

LEMMA StillHeld ==
  ASSUME NEW h, NEW h2, HeapSound(h), HeapSound(h2), Grown(h, h2),
         NEW p \in Pieces, Held(h, p, datoff)
  PROVE  Held(h2, p, datoff)
<1>1. /\ p.at \in Int /\ p.n \in Nat /\ h.bloc \in Int /\ h2.bloc \in Int
      /\ h.bloc <= h2.bloc
  BY DEF Pieces, HeapSound, IsHeap, Grown
<1>2. p.at % 8 = 0 /\ End <= p.at /\ p.at + p.n <= h2.bloc
  BY <1>1, MallocAssumption DEF Held
<1>3. p.malloced => /\ p.at - datoff \in DOMAIN h2.bucket
                    /\ h2.bucket[p.at - datoff].magic
                    /\ p.n <= Power(h2.bucket[p.at - datoff].size)
  BY DEF Held, Grown
<1>4. ASSUME ~p.malloced, NEW b \in DOMAIN h2.bucket
      PROVE  Apart(p.at, p.n, b, Extent(h2, b))
  <2>1. CASE b \in DOMAIN h.bucket
    BY <1>4, <2>1 DEF Held, Grown, Extent
  <2>2. CASE b \notin DOMAIN h.bucket
    <3>1. h.bloc <= b /\ b \in Int
      BY <2>2 DEF Grown, HeapSound, IsHeap
    <3>2. p.at + p.n <= h.bloc
      BY DEF Held
    <3> QED
      BY <1>1, <3>1, <3>2 DEF Apart
  <2> QED
    BY <2>1, <2>2
<1> QED
  BY <1>2, <1>3, <1>4 DEF Held

LEMMA HeldElsewhere ==
  ASSUME NEW h, NEW h2, Alike(h, h2), NEW p, Held(h, p, datoff),
         p.malloced => h2.bucket[p.at - datoff] = h.bucket[p.at - datoff]
  PROVE  Held(h2, p, datoff)
  BY DEF Held, Alike, Extent

(* malloc gives nothing and changes nothing, or gives a block that nobody  *)
(* held.                                                                   *)
LEMMA GivesOut ==
  ASSUME NEW h, HeapSound(h), datoff \in {16, 24}, NEW size \in Nat,
         NEW granted \in BOOLEAN, NEW m, m = malloc(h, size, granted)
  PROVE  \/ m.at = nil /\ m.heap = h
         \/ /\ m.at # nil /\ m.at \in Int
            /\ HeapSound(m.heap) /\ Grown(h, m.heap)
            /\ Piece(m.at, size, TRUE) \in Pieces
            /\ Held(m.heap, Piece(m.at, size, TRUE), datoff)
            /\ m.at - datoff \in DOMAIN h.bucket => ~h.bucket[m.at - datoff].magic
<1> DEFINE pow == Pow(size)
<1>1. CASE pow = 0
  BY <1>1 DEF malloc
<1>2. CASE pow # 0 /\ h.btab[pow] # nil
  <2>1. pow \in Pows /\ size <= Power(pow)
    BY <1>2, PowFits
  <2>2. PICK bp, h2 : bp = h.btab[pow] /\ h2 = m.heap
    OBVIOUS
  <2>3. m = FromList(h, pow) /\ m.at = bp + datoff
    BY <1>2, <2>2 DEF malloc, FromList
  <2>4. /\ HeapSound(h2) /\ Alike(h, h2) /\ Grown(h, h2)
        /\ bp \in DOMAIN h.bucket /\ ~h.bucket[bp].magic
        /\ h2.bucket[bp].magic /\ h2.bucket[bp].size = pow
    BY <1>2, <2>1, <2>2, <2>3, TakenOff
  <2>5. bp \in DOMAIN h2.bucket /\ bp \in Int /\ End <= bp
    BY <2>4 DEF Alike, HeapSound, IsHeap, BucketsApart
  <2>6. m.at - datoff = bp /\ m.at \in Int /\ m.at # nil
    BY <2>3, <2>5, MallocAssumption DEF nil
  <2>7. Held(h2, Piece(bp + datoff, size, TRUE), datoff) /\ Piece(bp + datoff, size, TRUE) \in Pieces
    BY <2>1, <2>4, <2>5, BlockHeld
  <2> QED
    BY <2>2, <2>3, <2>4, <2>6, <2>7
<1>3. CASE pow # 0 /\ h.btab[pow] = nil
  <2>1. pow \in Pows /\ size <= Power(pow)
    BY <1>3, PowFits
  <2>2. m = FromKernel(h, pow, granted)
    BY <1>3 DEF malloc
  <2>3. CASE m.at = nil
    <3>1. m.heap = h
      BY <1>3, <2>1, <2>2, <2>3, Refused
    <3> QED
      BY <2>3, <3>1
  <2>4. CASE m.at # nil
    <3>1. /\ m.at = h.bloc + datoff
          /\ HeapSound(m.heap) /\ Grown(h, m.heap)
          /\ h.bloc \in DOMAIN m.heap.bucket /\ h.bloc \notin DOMAIN h.bucket
          /\ m.heap.bucket[h.bloc].magic /\ m.heap.bucket[h.bloc].size = pow
      BY <1>3, <2>1, <2>2, <2>4, NewBlocks
    <3>2. h.bloc \in Int
      BY DEF HeapSound, IsHeap
    <3>3. m.at - datoff = h.bloc /\ m.at \in Int
      BY <3>1, <3>2
    <3>4. Held(m.heap, Piece(m.at, size, TRUE), datoff) /\ Piece(m.at, size, TRUE) \in Pieces
      BY <2>1, <3>1, BlockHeld
    <3> QED
      BY <2>4, <3>1, <3>3, <3>4
  <2> QED
    BY <2>3, <2>4
<1> QED
  BY <1>1, <1>2, <1>3

-----------------------------------------------------------------------------
(* The list of what is held, as pieces come and go.                        *)
LEMMA OneMore ==
  ASSUME NEW h, NEW l, AllHeld(h, l, datoff), NEW p \in Pieces, Held(h, p, datoff),
         \A i \in DOMAIN l : Distinct(l[i], p)
  PROVE  AllHeld(h, Append(l, p), datoff)
<1>1. l \in Seq(Pieces)
  BY DEF AllHeld
<1>2. /\ Append(l, p) \in Seq(Pieces)
      /\ DOMAIN Append(l, p) = DOMAIN l \cup {Len(l) + 1}
      /\ Append(l, p)[Len(l) + 1] = p
      /\ \A i \in DOMAIN l : i # Len(l) + 1 /\ Append(l, p)[i] = l[i]
  BY <1>1
<1>3. \A i \in DOMAIN l : Distinct(p, l[i])
  BY DEF Distinct, Apart
<1> QED
  BY <1>2, <1>3 DEF AllHeld

LEMMA Removed ==
  ASSUME NEW l \in Seq(Pieces), NEW k \in DOMAIN l
  PROVE  /\ RemoveAt(l, k) \in Seq(Pieces)
         /\ Len(RemoveAt(l, k)) = Len(l) - 1
         /\ \A j \in 1..(Len(l) - 1) : RemoveAt(l, k)[j] = l[IF j < k THEN j ELSE j + 1]
<1>1. k \in 1..Len(l) /\ Len(l) \in Nat /\ \A i \in 1..Len(l) : l[i] \in Pieces
  OBVIOUS
<1>2. PICK before, after : before = SubSeq(l, 1, k - 1) /\ after = SubSeq(l, k + 1, Len(l))
  OBVIOUS
<1>3. /\ before \in Seq(Pieces) /\ Len(before) = k - 1
      /\ \A j \in 1..(k - 1) : before[j] = l[j]
  BY <1>1, <1>2
<1>4. /\ after \in Seq(Pieces) /\ Len(after) = Len(l) - k
      /\ \A j \in 1..(Len(l) - k) : after[j] = l[k + j]
  BY <1>1, <1>2
<1>5. /\ before \o after \in Seq(Pieces)
      /\ Len(before \o after) = Len(before) + Len(after)
      /\ \A i \in 1..(Len(before) + Len(after)) :
           (before \o after)[i] = IF i <= Len(before) THEN before[i] ELSE after[i - Len(before)]
  BY <1>3, <1>4, ConcatProperties
<1>6. RemoveAt(l, k) = before \o after
  BY <1>2 DEF RemoveAt
<1>7. Len(before) + Len(after) = Len(l) - 1
  BY <1>1, <1>3, <1>4
<1>8. \A j \in 1..(Len(l) - 1) : (before \o after)[j] = l[IF j < k THEN j ELSE j + 1]
  <2> TAKE j \in 1..(Len(l) - 1)
  <2>1. CASE j < k
    BY <1>1, <1>3, <1>5, <1>7, <2>1
  <2>2. CASE ~(j < k)
    <3>1. j - (k - 1) \in 1..(Len(l) - k) /\ k + (j - (k - 1)) = j + 1
      BY <1>1, <2>2
    <3>2. (before \o after)[j] = after[j - (k - 1)]
      BY SMTT(30), <1>1, <1>3, <1>5, <1>7, <2>2
    <3> QED
      BY <1>4, <2>2, <3>1, <3>2
  <2> QED
    BY <2>1, <2>2
<1> QED
  BY <1>5, <1>6, <1>7, <1>8

LEMMA OneLess ==
  ASSUME NEW h, NEW l, AllHeld(h, l, datoff), NEW k \in DOMAIN l, NEW h2,
         \A i \in DOMAIN l : i # k => Held(h2, l[i], datoff)
  PROVE  AllHeld(h2, RemoveAt(l, k), datoff)
<1>1. l \in Seq(Pieces) /\ Len(l) \in Nat /\ k \in 1..Len(l)
  BY DEF AllHeld
<1>2. PICK r, from : /\ r = RemoveAt(l, k)
                     /\ from = [j \in 1..(Len(l) - 1) |-> IF j < k THEN j ELSE j + 1]
  OBVIOUS
<1>3. /\ r \in Seq(Pieces) /\ Len(r) = Len(l) - 1
      /\ \A j \in 1..(Len(l) - 1) : r[j] = l[IF j < k THEN j ELSE j + 1]
  BY <1>1, <1>2, Removed
<1>4. \A j \in DOMAIN r : from[j] \in DOMAIN l /\ from[j] # k /\ r[j] = l[from[j]]
  BY SMTT(30), <1>1, <1>2, <1>3
<1>5. \A i, j \in DOMAIN r : i # j => from[i] # from[j]
  BY <1>1, <1>2, <1>3
<1>6. \A j \in DOMAIN r : Held(h2, r[j], datoff)
  BY <1>4
<1>7. \A i, j \in DOMAIN r : i # j => Distinct(r[i], r[j])
  BY <1>4, <1>5 DEF AllHeld
<1> QED
  BY <1>2, <1>3, <1>6, <1>7 DEF AllHeld

LEMMA OneChanged ==
  ASSUME NEW h, NEW l, AllHeld(h, l, datoff), NEW k \in DOMAIN l, NEW p \in Pieces, NEW h2,
         Held(h2, p, datoff),
         \A i \in DOMAIN l : i # k => Held(h2, l[i], datoff) /\ Distinct(l[i], p)
  PROVE  AllHeld(h2, [l EXCEPT ![k] = p], datoff)
<1> DEFINE r == [l EXCEPT ![k] = p]
<1>1. /\ r \in Seq(Pieces) /\ DOMAIN r = DOMAIN l
      /\ r[k] = p /\ \A i \in DOMAIN l : i # k => r[i] = l[i]
  BY DEF AllHeld
<1> HIDE DEF r
<1>2. \A i \in DOMAIN l : i # k => Distinct(p, l[i])
  BY DEF Distinct, Apart
<1> QED
  BY <1>1, <1>2 DEF AllHeld, r

-----------------------------------------------------------------------------
(* One step of each kind.                                                  *)
LEMMA MallocStep ==
  ASSUME IInv, NEW size \in Sizes, NEW granted \in BOOLEAN, Malloc(size, granted)
  PROVE  IInv'
<1> DEFINE m == malloc(heap, size, granted)
           p == Piece(m.at, size, TRUE)
<1>1. size \in Nat /\ datoff \in {16, 24} /\ HeapSound(heap)
  BY MallocAssumption, WordAssumption DEF IInv
<1>2. /\ heap' = m.heap
      /\ live' = IF m.at = nil THEN live ELSE Append(live, p)
      /\ moved' = moved /\ datoff' = datoff
  BY DEF Malloc, Calls
<1> HIDE DEF m, p
<1>3. CASE m.at = nil /\ m.heap = heap
  BY <1>2, <1>3 DEF IInv
<1>4. CASE /\ m.at # nil /\ m.at \in Int
           /\ HeapSound(m.heap) /\ Grown(heap, m.heap)
           /\ p \in Pieces /\ Held(m.heap, p, datoff)
           /\ m.at - datoff \in DOMAIN heap.bucket => ~heap.bucket[m.at - datoff].magic
  <2>1. \A i \in DOMAIN live : live[i] \in Pieces /\ Held(heap, live[i], datoff)
    BY DEF IInv, AllHeld
  <2>2. \A i \in DOMAIN live : Held(m.heap, live[i], datoff)
    BY <1>1, <1>4, <2>1, StillHeld
  <2>3. \A i \in DOMAIN live : Distinct(live[i], p)
    BY <1>4, <2>1 DEF Distinct, Held, p, Piece
  <2>4. AllHeld(m.heap, live, datoff)
    BY <2>2 DEF IInv, AllHeld
  <2>5. AllHeld(m.heap, Append(live, p), datoff)
    BY <1>4, <2>3, <2>4, OneMore
  <2> QED
    BY <1>2, <1>4, <2>5 DEF IInv
<1> QED
  BY ZenonT(60), <1>1, <1>3, <1>4, GivesOut DEF m, p

LEMMA FreeStep ==
  ASSUME IInv, NEW k \in DOMAIN live, Free(k)
  PROVE  IInv'
<1> DEFINE ptr == live[k].at
           h2 == free(heap, ptr)
<1>1. heap' = h2 /\ live' = RemoveAt(live, k) /\ moved' = moved /\ datoff' = datoff
  BY DEF Free, Calls
<1>2. /\ live[k].malloced
      /\ \A i \in DOMAIN live : live[i] \in Pieces /\ Held(heap, live[i], datoff)
  BY DEF Free, IInv, AllHeld
<1>3. ptr - datoff \in DOMAIN heap.bucket /\ heap.bucket[ptr - datoff].magic
  BY <1>2 DEF Held
<1>4. /\ HeapSound(h2) /\ Alike(heap, h2)
      /\ \A b \in DOMAIN heap.bucket : b # ptr - datoff => h2.bucket[b] = heap.bucket[b]
  BY <1>3, PutBack DEF IInv
<1> HIDE DEF h2
<1>5. \A i \in DOMAIN live : i # k => Held(h2, live[i], datoff)
  <2> TAKE i \in DOMAIN live
  <2> HAVE i # k
  <2>1. live[i].malloced => live[i].at # ptr
    BY <1>2 DEF IInv, AllHeld, Distinct
  <2>2. live[i].malloced => /\ live[i].at - datoff \in DOMAIN heap.bucket
                            /\ live[i].at - datoff # ptr - datoff
    BY <1>2, <2>1 DEF Held, IInv, Pieces
  <2> QED
    BY <1>2, <1>4, <2>2, HeldElsewhere
<1>6. AllHeld(h2, RemoveAt(live, k), datoff)
  BY <1>5, OneLess DEF IInv
<1> QED
  BY <1>1, <1>4, <1>6 DEF IInv

LEMMA ReallocInPlaceStep ==
  ASSUME IInv, NEW k \in DOMAIN live, NEW n \in Sizes, ReallocInPlace(k, n)
  PROVE  IInv'
<1> DEFINE p == Piece(live[k].at, n, TRUE)
           b == live[k].at - datoff
<1>1. /\ live' = [live EXCEPT ![k].n = n]
      /\ heap' = heap /\ moved' = moved /\ datoff' = datoff
      /\ n <= Power(heap.bucket[b].size)
      /\ live[k].malloced
  BY DEF ReallocInPlace, Calls, osize
<1>2. /\ live \in Seq(Pieces) /\ n \in Nat
      /\ \A i \in DOMAIN live : live[i] \in Pieces /\ Held(heap, live[i], datoff)
  BY MallocAssumption, WordAssumption DEF IInv, AllHeld
<1>3. b \in DOMAIN heap.bucket /\ heap.bucket[b].magic /\ b + datoff = live[k].at
  BY SMTT(30), <1>1, <1>2 DEF Held, IInv, Pieces
<1>4. p \in Pieces /\ Held(heap, p, datoff)
  <2> HIDE DEF b
  <2> QED
    BY <1>1, <1>2, <1>3, BlockHeld DEF IInv
<1>5. live' = [live EXCEPT ![k] = p]
  <2>1. PICK q, at, room, own : q = live[k] /\ q = [at |-> at, n |-> room, malloced |-> own]
    BY <1>2 DEF Pieces
  <2>2. at = live[k].at /\ own = live[k].malloced
    BY <2>1
  <2>3. [q EXCEPT !.n = n] = [at |-> at, n |-> n, malloced |-> own]
    <3>1. q = [at |-> at, n |-> room, malloced |-> own]
      BY <2>1
    <3> QED
      BY <3>1
  <2>4. own = TRUE
    BY <1>1, <1>2, <2>2 DEF Pieces
  <2>5. [live[k] EXCEPT !.n = n] = p
    BY <2>1, <2>2, <2>3, <2>4, Zenon DEF Piece
  <2> QED
    BY <1>1, <2>5, Zenon
<1>6. \A i \in DOMAIN live : i # k => Distinct(live[i], p)
  BY <1>1, <1>2 DEF IInv, AllHeld, Distinct, Piece
<1> HIDE DEF p
<1>7. AllHeld(heap, [live EXCEPT ![k] = p], datoff)
  BY <1>2, <1>4, <1>6, OneChanged DEF IInv
<1> QED
  BY <1>1, <1>5, <1>7 DEF IInv

(* What realloc copies is all that the old block held, and no more than    *)
(* the new one has room for; the new one is not the old one.               *)
LEMMA ReallocMovesStep ==
  ASSUME IInv, NEW k \in DOMAIN live, NEW n \in Sizes, NEW granted \in BOOLEAN,
         ReallocMoves(k, n, granted)
  PROVE  IInv'
<1> DEFINE old == live[k]
           m == malloc(heap, n, granted)
           p == Piece(m.at, n, TRUE)
           h2 == free(m.heap, old.at)
           size == osize(heap, old.at)
<1>1. /\ datoff' = datoff /\ old.malloced /\ size < n
      /\ IF m.at = nil THEN heap' = heap /\ live' = live /\ moved' = moved
         ELSE /\ heap' = h2 /\ live' = [live EXCEPT ![k] = p]
              /\ moved' = [had |-> old.n, copied |-> size, room |-> n]
  BY DEF ReallocMoves, Calls
<1>2. /\ live \in Seq(Pieces) /\ n \in Nat /\ datoff \in {16, 24} /\ HeapSound(heap)
      /\ \A i \in DOMAIN live : live[i] \in Pieces /\ Held(heap, live[i], datoff)
  BY MallocAssumption, WordAssumption DEF IInv, AllHeld
<1>3. /\ old.at - datoff \in DOMAIN heap.bucket /\ heap.bucket[old.at - datoff].magic
      /\ old.n \in Nat /\ size \in Nat /\ old.n <= size
  <2>1. /\ old.at - datoff \in DOMAIN heap.bucket /\ heap.bucket[old.at - datoff].magic
        /\ old.n \in Nat /\ old.n <= size
    BY <1>1, <1>2 DEF Held, Pieces, osize
  <2>2. heap.bucket[old.at - datoff].size \in Pows
    BY <1>2, <2>1 DEF HeapSound, IsHeap, Node
  <2> QED
    BY <2>1, <2>2, Powers DEF osize
<1> HIDE DEF size
<1>4. CASE m.at = nil
  BY <1>1, <1>4 DEF IInv
<1>5. CASE m.at # nil
  <2>1. /\ m.at \in Int /\ HeapSound(m.heap) /\ Grown(heap, m.heap)
        /\ p \in Pieces /\ Held(m.heap, p, datoff)
        /\ m.at - datoff \in DOMAIN heap.bucket => ~heap.bucket[m.at - datoff].magic
    BY <1>2, <1>5, GivesOut
  <2>2. p.malloced /\ p.at = m.at /\ p.at - datoff \in DOMAIN m.heap.bucket
    BY <2>1 DEF Held, Piece
  <2>3. old.at - datoff \in DOMAIN m.heap.bucket /\ m.heap.bucket[old.at - datoff].magic
    BY <1>3, <2>1 DEF Grown
  <2>4. /\ HeapSound(h2) /\ Alike(m.heap, h2)
        /\ \A b \in DOMAIN m.heap.bucket :
             b # old.at - datoff => h2.bucket[b] = m.heap.bucket[b]
    BY <2>1, <2>3, PutBack
  <2>5. old.at \in Int /\ old \in Pieces
    BY <1>2 DEF Pieces
  <2> HIDE DEF m, p, h2
  <2>6. p.at - datoff # old.at - datoff
    BY <1>3, <2>1, <2>2
  <2>7. Held(h2, p, datoff)
    BY <2>1, <2>2, <2>4, <2>6, HeldElsewhere
  <2>8. \A i \in DOMAIN live : Held(m.heap, live[i], datoff)
    BY <1>2, <2>1, StillHeld
  <2>9. \A i \in DOMAIN live : i # k => Held(h2, live[i], datoff)
    <3> TAKE i \in DOMAIN live
    <3> HAVE i # k
    <3>1. live[i].malloced => live[i].at # old.at
      BY <1>1 DEF IInv, AllHeld, Distinct
    <3>2. live[i].malloced => /\ live[i].at - datoff \in DOMAIN m.heap.bucket
                              /\ live[i].at - datoff # old.at - datoff
      BY SMTT(30), <1>2, <2>5, <2>8, <3>1 DEF Held, Pieces
    <3> QED
      BY <2>4, <2>8, <3>2, HeldElsewhere
  <2>10. \A i \in DOMAIN live : Distinct(live[i], p)
    BY <1>2, <2>1, <2>2 DEF Distinct, Held
  <2>11. AllHeld(h2, [live EXCEPT ![k] = p], datoff)
    BY <2>1, <2>7, <2>9, <2>10, OneChanged DEF IInv
  <2>12. moved' = [had |-> old.n, copied |-> size, room |-> n]
    BY <1>1, <1>5
  <2>13. /\ moved' \in [had : Nat, copied : Nat, room : Nat]
         /\ moved'.had <= moved'.copied /\ moved'.copied <= moved'.room
    BY <1>1, <1>2, <1>3, <2>12
  <2> QED
    BY <1>1, <1>2, <1>5, <2>4, <2>11, <2>13 DEF IInv
<1> QED
  BY <1>4, <1>5

(* Between the old bloc and the new one there is no block: the program may *)
(* have the bytes.                                                         *)
LEMMA AboveAll ==
  ASSUME IInv, NEW h2, NEW n \in Nat,
         h2.bloc \in Int, h2.bloc % 8 = 0, heap.bloc + n <= h2.bloc,
         h2 = [bloc |-> h2.bloc, btab |-> heap.btab, bucket |-> heap.bucket, aborted |-> FALSE]
  PROVE  /\ HeapSound(h2)
         /\ AllHeld(h2, Append(live, Piece(heap.bloc, n, FALSE)), datoff)
<1> DEFINE p == Piece(heap.bloc, n, FALSE)
<1>1. heap.bloc \in Int /\ heap.bloc % 8 = 0 /\ End <= heap.bloc /\ HeapSound(heap)
  BY DEF IInv, HeapSound, IsHeap
<1>2. PICK btab, bucket : btab = heap.btab /\ bucket = heap.bucket
  OBVIOUS
<1>3. /\ h2.btab = btab /\ h2.bucket = bucket /\ h2.aborted = FALSE
      /\ h2 = [bloc |-> h2.bloc, btab |-> h2.btab, bucket |-> h2.bucket, aborted |-> h2.aborted]
  BY <1>2
<1>4. h2.btab = heap.btab /\ h2.bucket = heap.bucket
  BY <1>2, <1>3
<1>5. \A b \in DOMAIN heap.bucket :
        b \in Int /\ Extent(heap, b) \in Nat /\ b + Extent(heap, b) <= heap.bloc
  <2> TAKE b \in DOMAIN heap.bucket
  <2>1. b \in Int /\ heap.bucket[b].size \in Pows /\ b + Extent(heap, b) <= heap.bloc
    BY <1>1 DEF HeapSound, IsHeap, BucketsApart, Node
  <2> QED
    BY <2>1, Chunks DEF Extent
<1>6. IsHeap(h2)
  BY <1>1, <1>3, <1>4, MallocAssumption DEF HeapSound, IsHeap
<1>7. BucketsApart(h2)
  <2>1. \A b \in DOMAIN heap.bucket : b + Extent(h2, b) <= h2.bloc
    BY <1>1, <1>4, <1>5 DEF Extent
  <2> QED
    BY <1>1, <1>4, <2>1 DEF HeapSound, BucketsApart, Extent
<1>8. ListsSound(h2)
  BY <1>1, <1>4 DEF HeapSound, ListsSound, FreeOf
<1>9. HeapSound(h2) /\ Grown(heap, h2)
  BY <1>1, <1>4, <1>6, <1>7, <1>8 DEF HeapSound, Grown
<1>10. \A i \in DOMAIN live : live[i] \in Pieces /\ Held(heap, live[i], datoff)
  BY DEF IInv, AllHeld
<1>11. \A i \in DOMAIN live : Held(h2, live[i], datoff)
  BY <1>1, <1>9, <1>10, StillHeld
<1>12. p \in Pieces /\ p.at = heap.bloc /\ p.n = n /\ p.malloced = FALSE
  BY <1>1 DEF Piece, Pieces
<1> HIDE DEF p
<1>13. Held(h2, p, datoff)
  <2>1. \A b \in DOMAIN h2.bucket : Apart(p.at, p.n, b, Extent(h2, b))
    BY <1>1, <1>4, <1>5, <1>12 DEF Apart, Extent
  <2> QED
    BY <1>1, <1>12, <2>1 DEF Held
<1>14. \A i \in DOMAIN live : Distinct(live[i], p)
  <2> TAKE i \in DOMAIN live
  <2>1. live[i].at + live[i].n <= heap.bloc
    BY <1>10 DEF Held
  <2> QED
    BY <1>12, <2>1 DEF Distinct, Apart
<1>15. AllHeld(h2, live, datoff)
  BY <1>11 DEF IInv, AllHeld
<1> QED
  BY <1>9, <1>12, <1>13, <1>14, <1>15, OneMore DEF p

LEMMA SbrkStep ==
  ASSUME IInv, NEW n \in {1, 8}, NEW granted \in BOOLEAN, Sbrk(n, granted)
  PROVE  IInv'
<1> DEFINE got == sbrk(heap, n, granted)
<1>1. /\ heap' = got.heap
      /\ live' = IF got.at = Failed THEN live ELSE Append(live, Piece(got.at, n, FALSE))
      /\ moved' = moved /\ datoff' = datoff
  BY DEF Sbrk, Calls
<1>2. IsHeap(heap) /\ n \in Nat /\ heap.bloc \in Int /\ heap.bloc > 0 /\ heap.bloc % 8 = 0
  BY MallocAssumption DEF IInv, HeapSound, IsHeap
<1>3. n + 7 < 2^MAX2SIZE
  <2>1. 1 \in 1..(MAX2SIZE - 1)
    BY MallocAssumption
  <2> QED
    BY <2>1, WordAssumption
<1>4. Round8(n) \in Nat /\ Round8(n) % 8 = 0 /\ n <= Round8(n)
  BY <1>2, <1>3, Rounded
<1>5. CASE got = [at |-> Failed, heap |-> heap]
  <2>1. got.at = Failed /\ got.heap = heap
    BY <1>5
  <2> QED
    BY <1>1, <2>1 DEF IInv
<1>6. CASE got = [at |-> heap.bloc, heap |-> [bloc |-> heap.bloc + Round8(n), btab |-> heap.btab,
                                              bucket |-> heap.bucket, aborted |-> FALSE]]
  <2>1. PICK h2 : h2 = [bloc |-> heap.bloc + Round8(n), btab |-> heap.btab,
                        bucket |-> heap.bucket, aborted |-> FALSE]
    OBVIOUS
  <2>2. got.at = heap.bloc /\ got.heap = h2 /\ got.at # Failed
    BY <1>2, <1>6, <2>1 DEF Failed
  <2>3. h2.bloc = heap.bloc + Round8(n)
    BY <2>1
  <2>4. /\ h2.bloc \in Int /\ h2.bloc % 8 = 0 /\ heap.bloc + n <= h2.bloc
    BY <1>2, <1>4, <2>3
  <2>5. h2 = [bloc |-> h2.bloc, btab |-> heap.btab, bucket |-> heap.bucket, aborted |-> FALSE]
    BY <2>1, <2>3
  <2>6. HeapSound(h2) /\ AllHeld(h2, Append(live, Piece(heap.bloc, n, FALSE)), datoff)
    BY <1>2, <2>4, <2>5, AboveAll
  <2> QED
    BY <1>1, <2>2, <2>6 DEF IInv
<1> QED
  BY <1>2, <1>5, <1>6, Broken, Zenon

LEMMA BrkStep ==
  ASSUME IInv, NEW n \in {1, 8}, NEW granted \in BOOLEAN, Brk(n, granted)
  PROVE  IInv'
<1> DEFINE top == Round8(heap.bloc + n)
<1>1. heap.bloc + n + 7 < 2^MAX2SIZE /\ moved' = moved /\ datoff' = datoff
  BY DEF Brk, Calls
<1>2. IsHeap(heap) /\ n \in Nat /\ heap.bloc \in Nat
  BY MallocAssumption DEF IInv, HeapSound, IsHeap
<1>3. top \in Int /\ top % 8 = 0 /\ heap.bloc + n <= top
  BY <1>1, <1>2, Rounded
<1> HIDE DEF top
<1>4. CASE heap' = heap /\ live' = live
  BY <1>1, <1>4 DEF IInv
<1>5. CASE heap' = [heap EXCEPT !.bloc = top] /\ live' = Append(live, Piece(heap.bloc, n, FALSE))
  <2>1. PICK h, bloc, btab, bucket, aborted :
          /\ h = heap /\ btab = heap.btab /\ bucket = heap.bucket /\ aborted = heap.aborted
          /\ h = [bloc |-> bloc, btab |-> btab, bucket |-> bucket, aborted |-> aborted]
    BY <1>2, Zenon DEF IsHeap
  <2>2. [h EXCEPT !.bloc = top] =
          [bloc |-> top, btab |-> btab, bucket |-> bucket, aborted |-> aborted]
    <3>1. h = [bloc |-> bloc, btab |-> btab, bucket |-> bucket, aborted |-> aborted]
      BY <2>1
    <3> QED
      BY <3>1
  <2>3. aborted = FALSE
    BY <1>2, <2>1 DEF IsHeap
  <2>4. heap' = [bloc |-> top, btab |-> heap.btab, bucket |-> heap.bucket, aborted |-> FALSE]
    BY <1>5, <2>1, <2>2, <2>3, Zenon
  <2>5. PICK h2 : h2 = [bloc |-> top, btab |-> heap.btab, bucket |-> heap.bucket, aborted |-> FALSE]
    OBVIOUS
  <2>6. h2.bloc = top
    BY <2>5
  <2>7. h2 = [bloc |-> h2.bloc, btab |-> heap.btab, bucket |-> heap.bucket, aborted |-> FALSE]
    BY <2>5, <2>6
  <2>8. HeapSound(h2) /\ AllHeld(h2, Append(live, Piece(heap.bloc, n, FALSE)), datoff)
    BY <1>2, <1>3, <2>6, <2>7, AboveAll
  <2> QED
    BY <1>1, <1>5, <2>4, <2>5, <2>8 DEF IInv
<1> QED
  BY <1>4, <1>5 DEF Brk, top

LEMMA HeldApart ==
  ASSUME IInv, NEW i \in DOMAIN live, NEW j \in DOMAIN live, i # j
  PROVE  Apart(live[i].at, live[i].n, live[j].at, live[j].n)
<1> DEFINE p == live[i]
           q == live[j]
           bp == p.at - datoff
           bq == q.at - datoff
<1>1. /\ p \in Pieces /\ q \in Pieces /\ datoff \in {16, 24}
      /\ Held(heap, p, datoff) /\ Held(heap, q, datoff) /\ Distinct(p, q)
  BY DEF IInv, AllHeld
<1>2. p.at \in Int /\ p.n \in Nat /\ q.at \in Int /\ q.n \in Nat
  BY <1>1 DEF Pieces
<1>3. \A r \in Pieces : r.malloced /\ Held(heap, r, datoff) =>
        LET b == r.at - datoff
        IN /\ b \in DOMAIN heap.bucket /\ b \in Int /\ Extent(heap, b) \in Nat
           /\ b + 16 <= r.at /\ r.at + r.n <= b + Extent(heap, b)
  <2> TAKE r \in Pieces
  <2> HAVE r.malloced /\ Held(heap, r, datoff)
  <2> DEFINE b == r.at - datoff
  <2>1. b \in DOMAIN heap.bucket /\ r.n <= Power(heap.bucket[b].size)
    BY DEF Held
  <2>2. heap.bucket[b].size \in Pows
    BY <2>1 DEF IInv, HeapSound, IsHeap, Node
  <2>3. /\ Extent(heap, b) \in Nat /\ Power(heap.bucket[b].size) \in Nat
        /\ Power(heap.bucket[b].size) + 24 <= Extent(heap, b)
    BY <2>2, Chunks, Powers DEF Extent
  <2>4. r.at \in Int /\ r.n \in Nat
    BY DEF Pieces
  <2> QED
    BY <1>1, <2>1, <2>3, <2>4
<1>4. CASE p.malloced /\ q.malloced
  <2>1. bp # bq
    BY <1>1, <1>2, <1>4 DEF Distinct
  <2>2. Apart(bp, Extent(heap, bp), bq, Extent(heap, bq))
    BY <1>1, <1>3, <1>4, <2>1 DEF IInv, HeapSound, BucketsApart
  <2> QED
    BY <1>1, <1>2, <1>3, <1>4, <2>2 DEF Apart
<1>5. CASE p.malloced /\ ~q.malloced
  <2>1. Apart(q.at, q.n, bp, Extent(heap, bp))
    BY <1>1, <1>3, <1>5 DEF Held
  <2> QED
    BY <1>1, <1>2, <1>3, <1>5, <2>1 DEF Apart
<1>6. CASE ~p.malloced /\ q.malloced
  <2>1. Apart(p.at, p.n, bq, Extent(heap, bq))
    BY <1>1, <1>3, <1>6 DEF Held
  <2> QED
    BY <1>1, <1>2, <1>3, <1>6, <2>1 DEF Apart
<1>7. CASE ~p.malloced /\ ~q.malloced
  BY <1>1, <1>7 DEF Distinct
<1> QED
  BY <1>4, <1>5, <1>6, <1>7

LEMMA HeldOffBuckets ==
  ASSUME IInv, NEW i \in DOMAIN live, NEW b \in DOMAIN heap.bucket
  PROVE  Apart(live[i].at, live[i].n, b, Used)
<1> DEFINE p == live[i]
           bp == p.at - datoff
<1>1. p \in Pieces /\ datoff \in {16, 24} /\ Held(heap, p, datoff)
  BY DEF IInv, AllHeld
<1>2. p.at \in Int /\ p.n \in Nat
  BY <1>1 DEF Pieces
<1>3. \A c \in DOMAIN heap.bucket :
        /\ c \in Int /\ Extent(heap, c) \in Nat /\ Power(heap.bucket[c].size) \in Nat
        /\ Power(heap.bucket[c].size) + 24 <= Extent(heap, c)
  <2> TAKE c \in DOMAIN heap.bucket
  <2>1. c \in Int /\ heap.bucket[c].size \in Pows
    BY DEF IInv, HeapSound, IsHeap, Node
  <2> QED
    BY <2>1, Chunks, Powers DEF Extent
<1>4. CASE p.malloced
  <2>1. bp \in DOMAIN heap.bucket /\ p.n <= Power(heap.bucket[bp].size)
    BY <1>1, <1>4 DEF Held
  <2>2. CASE bp = b
    BY <1>1, <1>2, <1>3, <2>2 DEF Apart, Used
  <2>3. CASE bp # b
    <3>1. Apart(bp, Extent(heap, bp), b, Extent(heap, b))
      BY <2>1, <2>3 DEF IInv, HeapSound, BucketsApart
    <3> QED
      BY <1>1, <1>2, <1>3, <2>1, <3>1 DEF Apart, Used
  <2> QED
    BY <2>2, <2>3
<1>5. CASE ~p.malloced
  <2>1. Apart(p.at, p.n, b, Extent(heap, b))
    BY <1>1, <1>5 DEF Held
  <2> QED
    BY <1>2, <1>3, <2>1 DEF Apart, Used
<1> QED
  BY <1>4, <1>5

-----------------------------------------------------------------------------
\* The allocator keeps its lists sound and what it gave out apart, whatever the
\* program asks for and gives back (malloc, free, realloc, sbrk and brk).
THEOREM HeapKept == MallocSpec => []IInv
<1>1. MallocInit => IInv
  <2> SUFFICES ASSUME MallocInit
               PROVE  IInv
    OBVIOUS
  <2>1. heap = NoHeap /\ live = <<>> /\ moved = NothingMoved /\ datoff \in {16, 24}
    BY MallocAssumption DEF MallocInit
  <2>2. /\ heap.bloc = End /\ heap.btab = [pow \in Pows |-> nil]
        /\ heap.bucket = NoBuckets /\ heap.aborted = FALSE
        /\ heap = [bloc |-> heap.bloc, btab |-> heap.btab, bucket |-> heap.bucket,
                   aborted |-> heap.aborted]
    BY <2>1 DEF NoHeap, Pows
  <2>3. DOMAIN heap.bucket = {}
    BY <2>2 DEF NoBuckets
  <2>4. HeapSound(heap)
    BY <2>2, <2>3, MallocAssumption DEF HeapSound, IsHeap, BucketsApart, ListsSound, FreeOf,
                                        NoBuckets, nil
  <2>5. AllHeld(heap, live, datoff)
    BY <2>1 DEF AllHeld
  <2> QED
    BY <2>1, <2>4, <2>5 DEF IInv, NothingMoved
<1>2. IInv /\ [MallocNext]_mallocVars => IInv'
  <2> SUFFICES ASSUME IInv, [MallocNext]_mallocVars
               PROVE  IInv'
    OBVIOUS
  <2>1. ASSUME MallocNext
        PROVE  IInv'
    BY <2>1, MallocStep, FreeStep, ReallocInPlaceStep, ReallocMovesStep, SbrkStep, BrkStep
       DEF MallocNext
  <2>2. CASE UNCHANGED mallocVars
    BY <2>2 DEF mallocVars, IInv
  <2> QED
    BY <2>1, <2>2
<1> QED
  BY <1>1, <1>2, PTL DEF MallocSpec

\* No two pieces the program holds overlap, none overlaps a Bucket or leaves the
\* heap, all are aligned, realloc keeps what was stored and no magic is wrong
\* (malloc, free and realloc of malloc.c and malloc64.c).
THEOREM NothingOverlaps == MallocSpec => []PiecesApart
<1>1. IInv => PiecesApart
  <2> SUFFICES ASSUME IInv
               PROVE  PiecesApart
    OBVIOUS
  <2>1. ~heap.aborted
    BY DEF IInv, HeapSound, IsHeap
  <2>2. \A i \in DOMAIN live : /\ live[i].at % 8 = 0 /\ End <= live[i].at
                               /\ live[i].at + live[i].n <= heap.bloc
    BY DEF IInv, AllHeld, Held
  <2> QED
    BY <2>1, <2>2, HeldApart, HeldOffBuckets DEF PiecesApart, IInv
<1> QED
  BY <1>1, HeapKept, PTL
=============================================================================
