------------------------------- MODULE Malloc -------------------------------
(***************************************************************************)
(* APE's allocator on riscv64: malloc, free and realloc of malloc.c, and   *)
(* sbrk and brk of brk.c, which the program may call in between.  Blocks   *)
(* of 2^pow bytes with a Bucket in front are kept on a list for each pow;  *)
(* small ones are carved several at a time from what sbrk gives.           *)
(*                                                                         *)
(* malloc64.c is the same code with a Bucket that the data do not overlap: *)
(* its datoff is the whole 24 bytes, malloc.c's is 16.                     *)
(***************************************************************************)
EXTENDS Integers, SequencesExt

CONSTANTS
  MAX2SIZE,   \* 32 in the source: the bits of an int
  CUTOFF,     \* 12 in the source
  Datoffs,    \* the values of datoff
  End,        \* the linker's end, where the heap begins
  HeapLimit,  \* bound: brk beyond it fails
  Sizes,      \* what is asked for
  MaxHeapCalls

ASSUME MallocAssumption ==
  /\ MAX2SIZE \in Nat /\ CUTOFF \in 2..(MAX2SIZE - 1)
  /\ Datoffs \subseteq {16, 24}
  /\ End \in Nat /\ End % 8 = 0 /\ End > 0
  /\ Sizes \subseteq 0..(2^MAX2SIZE - 1)

(* A Bucket and its block, and as many as are asked for at once, have a    *)
(* size that an unsigned long holds.                                       *)
ASSUME WordAssumption ==
  /\ 2^MAX2SIZE \in Nat
  /\ \A pow \in 1..(MAX2SIZE - 1) : 2^pow \in Nat /\ 2^pow + 38 < 2^MAX2SIZE
  /\ \A pow \in 1..(CUTOFF - 1) : ((CUTOFF - pow) + 2) * (2^pow + 31) + 7 < 2^MAX2SIZE

VARIABLES
  heap,       \* bloc, arena.btab and the Buckets in memory, by address
  live,       \* what the program was given and did not give back
  moved,      \* the last memmove of realloc
  heapCalls,
  datoff

mallocVars == <<heap, live, moved, heapCalls, datoff>>

SizeofBucket == 24
Used == 16        \* of a Bucket: size, magic and next
nil == 0
Failed == -1

Ulong32(n) == n % 2^MAX2SIZE
Round8(n) == (Ulong32(n + 7) \div 8) * 8

(* 1<<pow, as a ulong: the last one is the sign bit.                       *)
Power(pow) == Ulong32(2^pow)

(* The pow of a size, 0 when no block is large enough.                     *)
Fits(size) == {pow \in 1..(MAX2SIZE - 1) : size <= Power(pow)}
Pow(size) == IF Fits(size) = {} THEN 0 ELSE CHOOSE p \in Fits(size) : \A q \in Fits(size) : p <= q

NoBuckets == [a \in {} |-> nil]
NothingMoved == [had |-> 0, copied |-> 0, room |-> 0]

NoHeap ==
  [bloc |-> End, btab |-> [pow \in 1..(MAX2SIZE - 1) |-> nil], bucket |-> NoBuckets,
   aborted |-> FALSE]

-----------------------------------------------------------------------------
(* sbrk: what it returns and the heap after it; granted is the kernel's    *)
(* answer to _BRK_.                                                        *)
sbrk(h, n, granted) ==
  IF granted /\ h.bloc + Round8(n) <= HeapLimit
  THEN [at |-> h.bloc, heap |-> [h EXCEPT !.bloc = @ + Round8(n)]]
  ELSE [at |-> Failed, heap |-> h]

(* Slip: one block less than the list links.                               *)
CountAsCarved(pow) == IF pow < CUTOFF THEN (CUTOFF - pow) + 1 ELSE 1

(* How many blocks are asked of sbrk at once.                              *)
Count(pow) == IF pow < CUTOFF THEN (CUTOFF - pow) + 2 ELSE 1

Chunk(pow) == Round8(SizeofBucket + Power(pow))

(* The first block is the answer; the others are linked, each to the next. *)
Carved(pow, at) ==
  LET n == IF pow < CUTOFF THEN (CUTOFF - pow) + 2 ELSE 1
      Block(k) == at + k * Chunk(pow)
  IN [a \in {Block(k) : k \in 0..(n - 1)} |->
        [size |-> pow, magic |-> a = at,
         next |-> IF a \in {at, Block(n - 1)} THEN nil ELSE a + Chunk(pow)]]

FromList(h, pow) ==
  LET bp == h.btab[pow]
  IN [at |-> bp + datoff,
      heap |-> [bloc |-> h.bloc,
                btab |-> [h.btab EXCEPT ![pow] = h.bucket[bp].next],
                bucket |-> [h.bucket EXCEPT ![bp].magic = TRUE],
                aborted |-> h.aborted \/ h.bucket[bp].magic]]

FromKernel(h, pow, granted) ==
  LET got == sbrk(h, Ulong32(Chunk(pow) * Count(pow)), granted)
      new == Carved(pow, got.at)
  IN IF got.at = Failed THEN [at |-> nil, heap |-> h]
     ELSE [at |-> got.at + datoff,
           heap |-> [bloc |-> got.heap.bloc,
                     btab |-> [h.btab EXCEPT ![pow] = IF pow < CUTOFF THEN got.at + Chunk(pow) ELSE @],
                     bucket |-> [a \in DOMAIN h.bucket \cup DOMAIN new |->
                                   IF a \in DOMAIN new THEN new[a] ELSE h.bucket[a]],
                     aborted |-> h.aborted]]

malloc(h, size, granted) ==
  LET pow == Pow(size)
  IN IF pow = 0 THEN [at |-> nil, heap |-> h]
     ELSE IF h.btab[pow] # nil THEN FromList(h, pow)
     ELSE FromKernel(h, pow, granted)

free(h, ptr) ==
  LET bp == ptr - datoff
      b  == h.bucket[bp]
  IN IF ~b.magic THEN [h EXCEPT !.aborted = TRUE]
     ELSE [h EXCEPT !.bucket[bp] = [size |-> b.size, magic |-> FALSE, next |-> h.btab[b.size]],
                    !.btab[b.size] = bp]

osize(h, ptr) == Power(h.bucket[ptr - datoff].size)

-----------------------------------------------------------------------------
MallocIdle ==
  /\ heap = NoHeap /\ live = <<>> /\ moved = NothingMoved /\ datoff = 16
  /\ heapCalls = MaxHeapCalls + 1

MallocInit ==
  /\ heap = NoHeap /\ live = <<>> /\ moved = NothingMoved /\ heapCalls = 0
  /\ datoff \in Datoffs

Piece(at, n, own) == [at |-> at, n |-> n, malloced |-> own]

Calls ==
  /\ heapCalls < MaxHeapCalls
  /\ ~heap.aborted
  /\ heapCalls' = heapCalls + 1
  /\ UNCHANGED datoff

Malloc(size, granted) ==
  LET m == malloc(heap, size, granted)
  IN /\ Calls
     /\ heap' = m.heap
     /\ live' = IF m.at = nil THEN live ELSE Append(live, Piece(m.at, size, TRUE))
     /\ UNCHANGED moved

Free(k) ==
  /\ Calls
  /\ live[k].malloced
  /\ heap' = free(heap, live[k].at)
  /\ live' = RemoveAt(live, k)
  /\ UNCHANGED moved

(* Enough space in this bucket.                                            *)
ReallocInPlace(k, n) ==
  /\ Calls
  /\ live[k].malloced
  /\ osize(heap, live[k].at) >= n
  /\ live' = [live EXCEPT ![k].n = n]
  /\ UNCHANGED <<heap, moved>>

(* malloc, memmove, free; or malloc gives nil and the block is left alone. *)
ReallocMoves(k, n, granted) ==
  LET old == live[k]
      m   == malloc(heap, n, granted)
  IN /\ Calls
     /\ old.malloced
     /\ osize(heap, old.at) < n
     /\ IF m.at = nil THEN UNCHANGED <<heap, live, moved>>
        ELSE /\ heap' = free(m.heap, old.at)
             /\ live' = [live EXCEPT ![k] = Piece(m.at, n, TRUE)]
             /\ moved' = [had |-> old.n, copied |-> osize(heap, old.at), room |-> n]

(* The program calls sbrk itself.                                          *)
Sbrk(n, granted) ==
  LET got == sbrk(heap, n, granted)
  IN /\ Calls
     /\ heap' = got.heap
     /\ live' = IF got.at = Failed THEN live ELSE Append(live, Piece(got.at, n, FALSE))
     /\ UNCHANGED moved

(* brk takes its argument through a ulong: beyond 4G it would cut the heap *)
(* off.  The program does not take back what it gave away.                 *)
Brk(n, granted) ==
  LET p == heap.bloc + n
  IN /\ Calls
     /\ p + 7 < 2^MAX2SIZE
     /\ IF granted /\ Round8(p) <= HeapLimit
        THEN /\ heap' = [heap EXCEPT !.bloc = Round8(p)]
             /\ live' = Append(live, Piece(heap.bloc, n, FALSE))
        ELSE UNCHANGED <<heap, live>>
     /\ UNCHANGED moved

MallocNext ==
  \/ \E size \in Sizes, granted \in BOOLEAN :
       \/ Malloc(size, granted)
       \/ \E k \in DOMAIN live : ReallocMoves(k, size, granted)
  \/ \E k \in DOMAIN live : Free(k)
  \/ \E k \in DOMAIN live, size \in Sizes : ReallocInPlace(k, size)
  \/ \E n \in {1, 8}, granted \in BOOLEAN : Sbrk(n, granted) \/ Brk(n, granted)

MallocSpec == MallocInit /\ [][MallocNext]_mallocVars

-----------------------------------------------------------------------------
Apart(a, m, b, n) == a + m <= b \/ b + n <= a

\* Whatever sizes are asked for and in whatever order blocks are given back and
\* moved, with sbrk and brk in between and with sbrk failing: no two pieces the
\* program holds overlap, none overlaps a Bucket or leaves the heap, all are
\* aligned, realloc keeps what was stored, and no magic is found wrong.
PiecesApart ==
  /\ ~heap.aborted
  /\ \A i, j \in DOMAIN live : i # j => Apart(live[i].at, live[i].n, live[j].at, live[j].n)
  /\ \A i \in DOMAIN live :
       /\ live[i].at % 8 = 0
       /\ End <= live[i].at /\ live[i].at + live[i].n <= heap.bloc
       /\ \A b \in DOMAIN heap.bucket : Apart(live[i].at, live[i].n, b, Used)
  /\ moved.had <= moved.copied /\ moved.copied <= moved.room
=============================================================================
