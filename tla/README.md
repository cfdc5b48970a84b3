# TLA+ models of the 9front RISC-V overlay

The repository adds RISC-V (32 bit: `i`, `riscv`; 64 bit: `j`, `riscv64`) to
9front: the C compiler `ic`, the assembler `ia` and the linker `il` for both,
the architecture's parts of `libc`, of the ANSI/POSIX environment (APE), of
`libmach` and `libthread`, and a few programs that have to know it. All
sources are under `src/riscv_overlay/sys/src`; paths below start there.

## Inventory

| Part | State | Operations | Hard parts | What makes it correct | Model |
|---|---|---|---|---|---|
| libc/APE atomics (`libc/riscv*/tas.s, atom.s, atomic*.s`) | the word, reservations, registers | `_tas ainc adec cas agetl aswapl aincl acasl` and their pointer and 64-bit forms | interleaving, lost reservations, sign and zero extension, overflow | each call takes effect at one instant; answers are proper longs; the loops end | Atomics |
| APE lock (`ape/lib/ap/riscv*/lock.c`) | the word | `lock canlock unlock` | contention, store order | mutual exclusion | Lock |
| APE signals (`ape/lib/ap/riscv*/notetramp.c`, `setjmp.s`) | `pcstack`, `nstack`, the kernel's saved registers | `_notetramp notecont siglongjmp sigsetjmp` | notes at any point, nesting | the right handler with the right signal; what was interrupted is resumed | NoteTramp |
| `ic` code generation (`cmd/ic/cgen.c, sgen.c, txt.c, swt.c`) | the Prog list, uses of registers, temporaries | `xcom cgen boolgen sugen gargs bitload bitstore swit1 regalloc gmove gopcode` | calls inside expressions, narrow types, NaN, ranges of immediates | the code computes the C statement; no register is lost; `il` takes every instruction | CodeGen, CodeRegs |
| `ic` multiplication (`cmd/ic/mul.c`) | a cache of codes | `mulcon0 docode gen1 gen2 gen3` | a search with recursion, a cache that rolls over, letters for shifts | the code multiplies by its constant | MulCode |
| `ic` register allocation, peephole (`cmd/ic/reg.c, peep.c`) | flow graph, reaching sets | `regopt peep` | data flow | the code still computes the same | none |
| `ic`/`ia` object output (`cmd/ic/swt.c`, `cmd/ia/lex.c` outcode) | slots of symbols | `outcode zname zaddr` | slots that roll over within an instruction | names in the file are the names meant | LinkLoad |
| `il` loading (`cmd/il/obj.c`) | symbol table, open references, Prog lists | `loadlib objfile ldobj lookup undef` | archive passes, duplicates, statics | every reference is resolved or reported | LinkLoad |
| `il` data (`cmd/il/pass.c` dodata) | symbol addresses | `dodata xdefine` | alignment, small and large data, literals | data do not overlap | LinkLoad |
| `il` branch targets and order (`cmd/il/pass.c`) | the Prog list, FOLL marks, the recursion | `patch mkfwd brloop follow xfol relinv` | copying, inverting, dropping jumps; cycles | the program still computes the same | LinkLoad, LinkFollow |
| `il` frames (`cmd/il/noop.c`) | marks, frame sizes | `noops` | leaf detection, NOP removal | SP and link are restored on every way out; frames are disjoint | LinkNoops, LinkFrame |
| `il` layout (`cmd/il/span.c`) | addresses, COMPR and SPASS marks, forms of branches | `span asmb` | choices made on addresses of another pass | branches reach, the two programs agree on addresses, the passes end | LinkSpan |
| `il` encoding (`cmd/il/span.c, optab.c, asm.c, compress.c`) | none | `aclass oplook asmout asmcompressed` | splitting of constants, scattered fields, 2-byte forms | the words do what the instruction says | LinkEncode |
| `ia` (`cmd/ia`) | symbols, pc | `lex`, grammar, `outcode` | two passes agree | objects `il` accepts | its output, in LinkLoad |
| `libmach` (`libmach`) | none | decoding instructions, stepping, reading executables | bit layouts, sign extension | shows what `il` encoded; finds the next pc | MachDecode |
| 64-bit arithmetic of riscv (`libc/riscv/vlrt.c, vlop.s`) | none | `_addv _subv _divvu _mulv`, shifts, conversions, `_vasop` | carries, shifts by 32 and more, signs | equal to arithmetic modulo 2^64 | Vlrt |
| memory and string routines (`libc/riscv*/mem*.s, str*.s`) | memory | `memmove memset memcmp memchr memccpy strcpy strchr strcmp` | alignment, overlap, ends | equal to their byte-wise definitions, and no other byte is touched | MemStr |
| APE malloc (`ape/lib/ap/riscv64/malloc.c`, `brk.c`) | free lists by power of two | `malloc free realloc sbrk` | sizes at boundaries, chunks, programs that call sbrk too | the pieces a program holds are disjoint | Malloc |
| drivers (`cmd/pcc.c`, `ape/9src/cc.c`) | lists of arguments and files | compile, link, remove | failing children | no file of the user's is lost | none |

How they interact: `ic` and `ia` write object files that `il` loads; `il` runs
`objfile* loadlib patch doprof dodata follow noops span asmb` once, in this
order (`cmd/il/obj.c`, `main`), on one list of `Prog` records; each pass relies
on what the earlier ones leave (`follow` on the targets `patch` filled in,
`noops` on every instruction being behind the TEXT of its frame, `asmb` on the
addresses `span` settled on). `libmach` reads what `asmb` wrote. The libraries'
parts run in the linked programs: processes share memory words through the
atomics, and the kernel calls into APE through notes; on riscv the compiler
turns vlong arithmetic into calls of `vlrt.c`. Three interfaces are checked by
composition: the object format (writer and reader in LinkLoad), the instruction
words (LinkEncode and MachDecode in MCEncode), and the compiler's instructions
(CodeGen's code is run by RvProg and its operands are held against il's optab
in MCCompile).

## Modules

| Module | Is |
|---|---|
| AtomicWord, Atomics, Lock, MCAtomics, Atomics_proofs | atomics, what they promise, APE's lock on top of them, and the proofs |
| NoteTramp, NoteTramp_proofs | the signal trampoline, and the proofs |
| LinkLoad, MCLinkLoad, LinkLoad_proofs | objects, archives, symbols, targets, data, and the proofs |
| LinkFollow, MCLinkFollow, LinkFollow_proofs | the order of instructions, and the proofs |
| LinkFrame, LinkNoops, MCLinkNoops, LinkNoops_proofs | frames and returns, and the proofs |
| LinkSpan, MCLinkSpan, LinkSpan_proofs | addresses and forms of branches, and the proofs |
| LinkEncode, MachDecode, Riscv, MCEncode | words of instructions, written and read |
| CLang, RvProg | what C and the instructions mean (not part of the sources) |
| MulCode, Multiplied, CodeRegs, CodeGen, MCCompile | the compiler |
| Vlrt, MemStr, ByteTest, Malloc, MCRoutines, MemStr_proofs, Malloc_proofs | library routines, and the proofs about memory and strings and about malloc |

A definition has the name of the function or variable it stands for wherever
TLA+ lets it. Definitions commented "Slip" or "a mutant of X" are the same code
with a plausible mistake; no action uses them. Each property of a passing run
fails when one of them takes the place of the definition it varies.

### Atomics, AtomicWord, Lock, MCAtomics, Atomics_proofs

`Atomics` models the instruction sequences of `libc/riscv64/tas.s`, `atom.s`
and `atomic.s`. One action is one memory access with the register-only
instructions behind it: `LoadReserved` is LR with the compare of the cas
routines, `StoreConditional` a successful SC, `StoreFails` a failed one with
the BNE back, `Load` and `PlainStore` ordinary accesses, `Return` the
instructions before RET. `LoseReservation` is the hart: a reservation may go
at any time. Registers are wider than words (`HalfReg >= 2 * HalfWord`, the W
forms on riscv64) or as wide (riscv, and the D forms), so sign extension,
`MOVWU`, the shift pair of `cas` and the `MOVW` at the end of `aincl` are all
visible. The fences and aq/rl bits are read as sequential consistency.
`PlainStore` is an assignment in C.

`AtomicWord` is what C callers are promised: a call takes effect at one instant
between invocation and return. `Linearizable` is the refinement. The answer of
`ainc`/`adec` is compared as a long, because at overflow the register is not
one (`atom.s:33`: a 64-bit ADD, and no MOVW behind it).

`Lock` composes the routines with their caller `ape/lib/ap/riscv/lock.c`: `user[p]`
says where `p` is between two calls of `lock`, `canlock` and `unlock`, and each
of its actions is an action of Atomics together with the move of `user`. In
some behaviours the word is a Lock from the start, in others any routine is
called for it. `MutualExclusion` also ties the word to its holder: a lock that
nobody holds can be taken, from the very store of `unlock` on.

### LinkLoad, MCLinkLoad, LinkLoad_proofs

A link is a command line, files and members. `outcode` makes the object file that
compiler and assembler write for a unit: each operand's symbol is looked for in the
`NSYM` rolling slots (`Named`), and written as a name record when it is not there, with
the second look when the first operand's slot was taken (`Jackpot`). `Compiled` gives
every unit its object. `stage` says where `main` is:

- `NextArg` and, in `loadlib`'s rounds, `NextLibrary` and `EndRound`, hand a file to
  `objfile`: an object is opened (`NewUnit`), an archive walked. `PassEntry`, `LoadMember`,
  `MemberLoaded` and `EndPass` are the passes over its directory; a pass that loaded
  something is followed by another, and so is a round (`Unresolved`).
- The `Load...` actions are `ldobj` on one record of the open object: `LoadName`,
  `LoadHistory` (a library is asked for), `LoadText` with the skip of duplicates,
  `LoadInstruction` with the changed operands of branches, SGT and SUB, `LoadFloat`,
  `LoadGlobl`, `LoadData` and `LoadEnd`.
- `mkfwd` builds the skip list of `LOG` levels through which `Patch` finds targets (`Find`).
- `StartData` to `Readjust` are `dodata`, `Undef` is `undef`.

`NamesAgree`, `BranchesLand` and `MeaningKept` compare what is in memory with the
unit the compiler meant, not with the object file. `NothingWanted` says that no member
a reference asks for is left behind, `OnlyWanted` that no other is loaded, and none twice.

### LinkFollow, MCLinkFollow, LinkFollow_proofs

The second loop of `patch` with `brloop`, then `follow` and `xfol`. The `Prog`
list is `code`, a sequence of records with the link and target pointers as
indices; new `Prog`s are appended, so a copy is a second record with the same
`original`. The C recursion is the explicit `stack`, whose frames say whether
`xfol` was called at line 388 ("branch") or 365 ("copy"). One action is one
round of the loop: `Elide` (a jump whose target is not laid out disappears),
`CopyToEnd`, `CopyInverted` and `JumpBack` (the target is laid out already),
`LayLeaf`, `LayBranch`, `LayNext`, and the two returns. Opcodes are reduced to
what xfol tells apart; `BEQ` and `BNE` stand for each pair of `relinv`, `IJMP`
for AJMP through a register. The instruction limit of a copied piece, 4, is
`CopyMax`; `brloop`'s limit of 5000 backward jumps is met only by cycles.

`FlowPreserved` compares the result with the program `patch` found, looking
through jumps on both sides. `FrameKept` is what `noops` and `span` rely on
when they take `autosize` from the last TEXT. Two kinds of program are
outside the checked set: branches to a jump through a register
(`ToRegisterJump`; `brloop` leaves them without a target, pass.c:501, and
`asmout` then encodes a branch to itself), and jumps into a function with
another frame, or that leave further paths of their own function pending. Both
need hand-written assembly, and no source in the tree has either: the one jump
across functions, `adec` into `ainc`, is in the set (`Shared`).

### LinkFrame, LinkNoops, MCLinkNoops, LinkNoops_proofs

`LinkFrame` has the sizes: what `ldobj` makes of the size in a TEXT and where
`aclass` finds automatics and parameters. `LinkNoops` has the loops of
`noops` an instruction at a time (`Loops`: leaves are found and NOPs stripped, then
frames are made at each TEXT and RET expanded) on a caller and a callee, and
then runs the program they leave (`Run`): calls push an activation, stores mark
what they wrote, and each return looks at it again. The middle loop, for BECOME,
does nothing here: no source makes a RET with an operand.
`ReturnsRight` and `OwnFrame` are about that run. A store writes the number of its call,
an argument the number negated, so that what is found tells whose it is and which of the two.

What programs are is `IsProgram`, an assumption TLC evaluates: a function ends in a RET or a
JMP; one that calls has room for the link (a frame of size -4, no frame and no link
saved, `-ptrsize` from `obj.c`, is only given to functions that do not call); its
automatics and arguments lie apart within the size its TEXT gives; and control passes
from a function into another by a branch only where both ask for no frame, as `adec`
does into `ainc` (`Joined`).

### LinkSpan, MCLinkSpan, LinkSpan_proofs

`span`'s first loop (`FirstPass`), its expansion loop (`NextPass`, then one of
`PassOver`, `Reaching`, `BranchAround`, `JumpFar` per instruction) and `asmb`
(`Emit`). `Measured` is the subtle part: with the SPASS marks a branch is
measured by new addresses backward and by last pass's addresses forward. Sizes
and forms depend only on opcode classes: `CWORD` has a 2-byte form, `WORD4`,
`WORD8`, `WORD12` have none; `BEQZ`/`BNEZ` have one and `BLT`/`BGE` do not;
`JAL` has one on riscv (`RV32`). The four reaches are constants. `FlowKept` asks
where control arrives (`Arrives`): `Carried` follows the jumps span inserted, however
many there are in a row, up to an instruction of the program.

A jump that grows to 8 bytes sets no `bflag` (span.c:112), so a branch across it
that no longer reaches is not looked at again: branches across such jumps are
not among the programs. Nor are branches that lead from a later function into the
middle of an earlier one: the padding in front of the functions between them can
take up what an earlier instruction grew by, so that such a branch, once out of the
2-byte form's reach, may come back into it; span has given the form up, asmb takes
it, and finds the rest of the program elsewhere.

### LinkEncode, MachDecode, Riscv, MCEncode

`LinkEncode` takes one instruction with its operands through `aclass`,
`oplook` and `asmout` or `asmcompressed`. A word is the set of its bits, so that
fields that run into each other show. The rows of `optab` are records in the
order of their sort, and `Row`'s type selects the case of `asmout`. `MachDecode`
is `idb.c`: `decode` and `decompress` with every immediate's bit list, `mkinstr`
and `pseudo` as the choice of a mnemonic and of the operands its format shows,
and `riscvfoll`. `Riscv` is an environment written from the manual: what the
instructions shown do to registers that hold bit patterns. Operations whose
value does not matter (multiplication, division, loads, floating point) are
uninterpreted applications.

`CodeMeans` runs the words as libmach shows them, next to `Meaning`, what the
linker's instruction says: an error in either that the other does not share is
found. It and `FollowsRight` hold of each state that a step leaves. What is excluded, by name, because the code does otherwise:
- `LinkDeviates`: on riscv64, constants and offsets from 0x7ffff800 up
  (asm.c:822 and 842, and the memory form of type 16), and the far jump, which
  adds the pc to an absolute address (asm.c:880);
- `ShowDeviates`: the comparisons of floats are shown with two operands of three
  (idb.c:583), C.LDSP loses bit 4 of its register (idb.c:215), and SRA by 32 and
  more is shown as SRL (idb.c:600);
- `FollDeviates`: the target of JALR is read from the link register (idb.c:706),
  and what the 2-byte opcodes that differ between 32 and 64 bit are taken for
  depends on an `i.rv64` that riscvfoll does not set (idb.c:672).

EBREAK in its 2-byte form is decoded as a JALR of R0; the compiler and the
linker never make one.

### CLang, RvProg, MulCode, Multiplied, CodeRegs, CodeGen, MCCompile

The shared front end is not in this tree: `CLang` is what its trees mean, with the
types of the expression carried by each node, and `RvProg` is the machine as
the compiler sees it, through il's instructions. Both are models of the environment. Bytes have
2 bits, so that an int has 256 values and the immediates -32..31; sizes in
bytes, alignments and with them all decisions are those of the source. A
register keeps 4 or 8 bytes; a floating register knows which of float and double it holds; a
call destroys every register and its own arguments.

`CodeRegs` is `txt.c`: the compiler's globals are one record `g` that every
function takes and returns, so the order of side effects is that of the code.
`CodeGen` is `sgen.c` (`xcom`), `cgen.c` and `swt.c`. `MulCode` is `mul.c` with
its cache as part of `g`. A state is a statement and the cache that earlier
ones left (`multab`); `Code` is the compiler's record after the statement, and
the properties are about each step on from it. `NextProduct` goes through a
row of products with the same cache. Statements that hold all seven registers
(`IsDeep`: full trees of operators, six deep) are among those that must give them
back; one level more is refused with "out of fixed registers" (txt.c:369).

`Multiplied` is `mulcon0` alone, one call (`Multiply`) after the other with the cache
they leave. `MulExact` looks at every answer and at the whole cache after each: the
rows have constants found by search, by table and by the code of their odd part with
a last shift (mul.c:111), where one call takes two entries of the cache; constants
without a code, whose failure the cache keeps; and constants asked for again, in either
sign, while they are in the cache and after they were overwritten.

`ComputesC` runs the code in eight worlds of variables and compares all of memory.
Excluded by name:
- `Unfitted`: a value of `++` or `op=` of a narrow type is not brought back to its
  width before it is tested for zero or converted (txt.c:977);
- `SignLost`: the value of an assignment to a signed bit field is masked, not
  extended (swt.c:107);
- `Truncates`: on riscv64 the address of a structure copied with calls on both sides
  is saved as a long (cgen.c:1126);
- `Least1` (in `LinkerTakes`): a subtracted -2048 becomes an added 2048 (txt.c:1442).

Multiplication by -2^31 is excluded from `MulExact`: its last shift is a letter that no char
holds (mul.c:120). By 2^30 there is no code and a hint is refused ("multiply table failure"),
which `MulExact` names. By 0 nothing is asked, which the front end
folds and with which a full cache keeps mulcon0 searching. `lcgen` of OCOMMA hands `n->left` to itself
as the destination (cgen.c:609); nothing reaches it.

### Vlrt, MemStr, ByteTest, Malloc, MCRoutines, MemStr_proofs, Malloc_proofs

One behaviour is one call. `Vlrt` has words of `W` bits instead of 32 with the
half and quarter widths derived from it; `Begin` runs a routine to its return or
into `dodiv`, whose two loops are `ShiftDivisor` and `Subtract`. `VlongExact`
compares with integer arithmetic, and for `_vasop` also what it stores and its `*ret`.
Excluded by name: the fast path of `_divv` for the least long by -1, and division through
`_vasop` of a negative narrow left side, whose high word becomes 1 (`Deviates`; in `*ret`
that word is wrong after every operation, `HighWordWrong`).

`_v2d` is declared without a type (vlrt.c:111, and APE's copy), so the double it
computes is converted to an int on return; `V2d` is that int, with the conversion's
limits (`ToInt`), and `_v2f` returns it as a float. `VlongExact` asks for the number of both
only when it fits in a long (`IsLong`): `_v2f` of 2^32 is the float of 2^31 - 1.
What the compiler finds in F0 when it calls `_v2d` for a double is not modelled: the
routine's answer is in the register of ints.

A zero divisor is to end the program by the divide of vlrt.c:147 ("get a divide by
zero"), but this machine's divide does not trap: it gives all ones (`Quo`). With a
dividend of one word, the routines return what the machine's divide gives. With a longer
one `dodiv` never leaves its first loop (`HangsByZero`); its counter, which nothing looks at
any more, stands still in the model. The run makes such calls:
`VlongReturns` says that all others return, `VlongExact` that these never give an answer. Left out: the arm of `_d2v` for doubles that no vlong
holds, and the `abort()` of `_vasop` for type codes the compiler does not write. `_f2v` is
`_d2v` of the float.

`MemStr` walks each routine's loops a turn at a time over a memory of bytes.
`MemExact` is what C says of the call, `OwnBytes` that no step writes or reads
outside the arguments (the str routines read the aligned words the string lies
in). What riscv64's `memchr` and `memccpy` do to find a byte in a word is the
constant `HasByte`, which the run gives the value `ByteIn` of `ByteTest`, the
subtraction and masks of the code; `ByteAssumption` says that this test is exact, and
TLC evaluates it for all words of eight bytes of two bits.
`RoomAssumption` says that the operands of the calls fit in memory.

`Malloc` is APE's allocator on riscv64 over the heap `sbrk` makes: one action is one
call of `malloc`, `free`, `realloc`, `sbrk` or `brk`, and the kernel may refuse any
`_BRK_`. `heap.bucket` has the Buckets in memory by address; `MAX2SIZE` is
both the number of lists and, as in the source, the bits of an int, so that
`1<<pow` reaches the sign bit. `live` are the pieces the program holds, among
them those it took by its own `sbrk`. `PiecesApart` says that they never overlap, lie
in the heap, off the Buckets, aligned, that `realloc` keeps what was stored and
that no magic is wrong. `end` is a multiple of 8 (pass.c:95 and 113). size_t is
not declared in this tree and taken to be unsigned long; `brk` is called below
4G (its argument goes through an unsigned long, brk.c:14).

### NoteTramp, NoteTramp_proofs

`_notetramp` with its NSAVE is one step, because the kernel delivers no note
while a note handler runs; from then on a note may come before every step of
`notecont`: its fetch of `p`, `f` and `restorepc`, the pop, the read of
`p->sig` with the call, the return of the handler with NRSTR. `acts` is the
stack of activations with the kernel's saved registers. The kernel and APE's
note handler are external: one note handler at a time, NSAVE ends it, NRSTR
resumes what the innermost note interrupted, NDFLT kills.

## Runs

| Run | Shows | Bounds and why they are enough |
|---|---|---|
| `atomics` | LongReturn, NoStaleStore, MutualExclusion, Linearizable, CallsReturn | two processes, two calls each of nine different calls, two-bit words, three-bit registers: every pair of routines meets, in every interleaving, at both ends of the range and with values whose zero and sign extension differ; as a lock: taken, refused, given back and taken again |
| `load` | NamesAgree, BranchesLand, MeaningKept, FirstWins, NothingWanted, OnlyWanted, DataApart, LiteralsHold, VerdictRight, Terminates | objects in any order and in one archive's file, with three slots, so that every instruction with two symbols rolls over; two levels of skip list; two libraries asked for by objects and members, whose members need each other in both orders of the directories, or need what nobody has; a third library where there is room for two; an archive whose directory is out of date; symbols at every alignment around the small-data limit |
| `load_literal` | finds a literal of 4 bytes that is used with 8 | one object |
| `follow` | CantHappen, FlowPreserved, FrameKept, Terminates | all functions of four free instructions out of straight ones, returns, branches and jumps to everywhere; shorter ones with NOPs and register jumps; pairs of functions that call each other; `CopyMax` 2, so that pieces that are too long occur |
| `frames` | ReturnsRight, OwnFrame | a caller with frames of 12 and 24 bytes and a callee of no frame, 0, 8 and 20, with every body of four steps out of stores, arguments, calls of itself and of the caller, branches and NOPs, on both machines; calls three deep and forty instructions |
| `span` | NoPhaseError, BranchesReach, FlowKept, LayoutGrows, Terminates | functions of five instructions, any two of them branches; calls; far jumps; reaches scaled to 8, 16, 24 and 60 bytes so that 12-byte instructions push targets out of each; -c and not. No branch crosses a far jump and a short function comes last |
| `span_last` | with `-c` a long last function keeps unreachable branches | |
| `encode` | CodeMeans, FollowsRight | instructions of every family of optab's rows, on riscv and riscv64, with and without 2-byte forms, with data at 64K and just under 2^31; registers where the 2-byte forms differ (zero, SP, the eight short ones, others); constants at both ends of 6, 9, 10, 11, 12 bits, of a LUI, and of a long; 124,070 states |
| `compile` | ComputesC, Clean, LinkerTakes, MulExact | some 8,100 statements on both machines: all conversions, binary operators with calls, constants and registers on either side, op= and increments of all types, places and fields, conditions of all relations with NaN, calls with calls as arguments, structures of 4 to 80 bytes through every form of copy, fields at every position, switches of 1 to 13 cases (5 is where a linear search becomes a binary one); products by -20 to 43 in a row, more than the cache holds; trees up to the limit of seven registers; in rows of their own, multiplications alone: two rows of 79 and 427 constants, so that the cache of 20 goes round many times, and each entry of the table alone; 1 to 64, table entries, constants reached by the recursion, with failures and refused hints in between, the two entries of a recursion also at the cache's last and first place; 9,209 states |
| `routines` | VlongExact, MemExact, OwnBytes, PiecesApart, VlongReturns | vlongs of two 8-bit words out of {0, 1, 3, 127, 128, 255}, every shift; a double with a mantissa of 10 bits and a float with 5; every alignment of both operands, lengths on both sides of each routine's thresholds (16, 32 and 64 bytes), distances that overlap in both directions; five calls of the allocator with sizes on both sides of a power of two and of the sign bit, `CUTOFF` 3, so that a chunk of four blocks is used up, and a heap that runs out |
| `notes` | RightHandler, StackFollowsNotes, AllHandled | five notes, two signals, two slots: nesting beyond the stack, and slots used again |
| `notes_signal` | a handler is called with another signal's number | two notes |

The type correctness of Atomics, LinkSpan, LinkFollow and NoteTramp is proved, and of the
variables of LinkLoad its proofs use; the types of the other components' variables are checked by use: TLC stops at an
operation on a value of the wrong kind.

Fairness. `Lock` (and with it Atomics): a process inside a routine keeps executing (WF of its
steps), and of the store-conditionals only that not all fail for ever (SF of
some process's success), which is what the A extension promises for such
loops. With finitely many calls this gives that each returns; without the
bound a process may lose every race. `LinkLoad`, `LinkFollow`, `LinkSpan` and
the routines: one sequential program that keeps running (WF of its next step).
`NoteTramp`: the process runs; notes are limited by `MaxNotes` and not fair.
`frames`, `encode` and `compile` check safety only: the loops there are over lists,
except in the programs they run, which are cut off (`MaxSteps`, or must end within 300
instructions, which `ComputesC` includes).

## Deviations that no run of its own shows

Three disagreements between code and comments have a run each: `span_last`,
`load_literal`, `notes_signal`. Others were met while modelling; the passing runs leave
them out under the names given above:
- an overflowing `ainc`/`adec` on riscv64 returns a register that is not a long (atom.s:33);
- a branch across a jump that grew to 8 bytes is not measured again (span.c:112);
- a TEXT that may be a duplicate (DUPOK) and has the name of data is skipped without a
  word, and calls of it are calls of data (obj.c:968);
- a library that is an object, not an archive, is loaded once a round and asks for no
  further round (obj.c:309; xrefresolv is set for archives only, obj.c:374);
- riscv64's 8-byte jump adds the pc to an absolute address (asm.c:880);
- `LinkDeviates`, `ShowDeviates`, `FollDeviates` (il and libmach);
- `Unfitted`, `SignLost`, `Truncates`, `Least1` (ic), and multiplication by -2^31;
- `_v2d` returns an int, so that `_v2f` of a vlong outside the longs is wrong (vlrt.c:111);
- a division by zero in `dodiv` does not trap but loops for ever (vlrt.c:147, 161), `HangsByZero`;
- the others of `Deviates`, and `HighWordWrong`, of Vlrt.

## Proofs

`Atomics_proofs` proves, for any set of processes and any widths allowed by
`AtomicsAssumption`: `TypeCorrect`, `NeverStale`, `LongsReturned` and
`Refinement` (`Spec => Linearizable`). The inductive invariant `IInv` adds to
TypeOK, NoStaleStore and LongReturn what a register holds between the
store-conditional and RET: that the answer, reduced to a word, is the one the
abstract word gave, and for `aincl` that it is one wrap away from a word. A
stale store is impossible because every store to the word takes away all
reservations, so `resv` and `loaded = mem` are kept by each step together. The
lemmas on `LowWord`, `ZeroExtend` and `WrapReg` carry the arithmetic: a sum of
two words fits a wider register, and its low word is the wrapped sum.
Refinement is step by step: a successful SC, a mismatch of a cas, a load and a
plain store map to TakeEffect, Call to Invoke, Return to Return, all others
stutter.

It also proves `LockExcludes` (MutualExclusion) for any number of processes. A
behaviour of the lock is one of Atomics (`LockIsAtomics`), so `IInv` holds of it; the
rest of the invariant, `UserInv`, says which routine runs where. The one hard
step is the store-conditional: by NoStaleStore the word is still what `tas`
loaded, so if that was 0 nobody held the lock, and if it was not the answer is
not 0 either.

`NoteTramp_proofs` proves, for any set of signals, any `MAXSIGSTACK` and any
number of notes: `NotesTypeCorrect`, `StackKept` (StackFollowsNotes) and
`HandlersRight` (RightHandler). The inductive invariant is these three and
`Fetched`, that the slot `p` of an activation that has not called its handler
has been filled by some note, without which the argument of the handler might
not be a signal (that it is the right signal is what `notes_signal` refutes).
RightHandler rests on StackFollowsNotes: the innermost activation is the last
of those that wait, so the slot below `nstack` is its own when it fetches
(`TopSlotIsOwn`). A note adds itself to those that wait and fills the slot
above them, Pop takes the innermost away, and every other step leaves the set
`Waiting` as it is; the cardinality theorems of the library carry the count.

`Malloc_proofs` proves `HeapKept` and `NothingOverlaps` (PiecesApart) for any number
of lists, sizes of arguments, `CUTOFF` and heap, and any history of calls. The
assumptions, `MallocAssumption` and `WordAssumption`, are about the constants only:
`CUTOFF` is below the number of lists, a Bucket is 16 or 24 bytes long, and what malloc asks `sbrk` for at
once fits in a word; they hold of the source's 32 lists as well as of the run's 8. Neither property is inductive: that two pieces are
apart when one is taken from a list rests on what the lists hold. The invariant
has the heap's side, `IsHeap` (a Bucket lies between the start and `end`, is a
multiple of 8 and has its whole block), `BucketsApart` (no two overlap) and
`ListsSound` (the lists lead to Buckets of their own size, no Bucket is on two lists
or twice on one, and one that was given out is on none), and the program's side,
`AllHeld` (each piece the program has is a Bucket with its magic or came from its own `sbrk`, and
these are off all Buckets). The step that needs most is the carving of a chunk
into a list of several blocks.

`MemStr_proofs` proves `Exact` (MemExact) and `NothingElseTouched` (OwnBytes) for the calls of
`MemStr` with any size of byte and of memory, any lengths and any distance of memmove's
operands; and both, as `AnywhereExact`, for calls with operands anywhere in a memory that
holds anything (`AnyCall`; a copy of memccpy or strcpy must lie apart from what is copied,
and memmove's and memset's bytes are named by where they come from). The invariant
`RoutineInv` has one part for each routine: what is known of the operands (`CmpOp`: they
are the same before `d` and differ there), how far the routine has `Walked`, that the
counter is what is left, and what memory is by now. Memmove's is `Part`: the copy of so many bytes
from the end it started at, so one more round is `PartNext`, which holds when the
operands overlap because `Backward` is taken exactly when the bytes not yet read
are not among those written. The byte loops that run to an alignment stop within the operand
since an aligned address is `Ahead`; the word loops of memchr and memccpy
rest on `HitIs`, that a word has `c` exactly when the walk would pass `d`. What the code
does inside `HasByte` is assumed: `ByteAssumption` is checked by TLC for bytes
of two bits, not proved for eight.

`LinkSpan_proofs` assumes only `LinkSpanAssumption`: programs are well formed, and a
conditional branch reaches at least 2 bytes farther than a 2-byte jump (0x1000 and 0x800).
`ShapeKept` is the type correctness with two facts about the list: `Chained` (no
two instructions have one successor) and `Rewritten` (what the passes may have done
to an instruction). `FlowIsKept` (FlowKept): an inserted jump leads to something
that was there before it, so where control arrives is determined (`OneAnswer`, by the
least index where two answers differ) and one more jump changes nothing for what
was there (`OneMoreJump`). `LayoutOnlyGrows` (LayoutGrows) needs `Spread`: of an
instruction and its successor one is where this pass put it and the other is
there or lower, whatever sizes have changed; and `Fresh`, for the first pass, which has
no addresses to compare with. That a pass never has to take back is that sizes
only grow (`OnePlaced`), that alignment is monotone, and that a branch with its new
jump is no shorter than the branch was (`AroundLayout`).

It also proves `ReachHolds`: BranchesReach under `Measurable`, that is, without
-c, for a program with an instruction that has a 2-byte form (so that a second pass is
made) and that does not end in a conditional branch (which, out of reach, would be
given a target span does not have), as long as no jump became an 8-byte one. The
first and the last are needed: `span_last` shows the first, span.c:112 is the other.
span stops after a pass without `bflag`; `Quiet` says that nothing has changed in this pass so far,
and then every instruction is still at the address of the last pass (`Still`),
so that the mixture of old and new addresses a branch is measured by (`Measured`)
is the final one, and what the pass has been over reaches (`Near`). That the pass
has been over everything at its end is an argument about the chain (`Swept`,
`Ordered`, `AllPassed`); that nothing moves when no size changes needs that each
address was exactly behind the one before it (`Exact`), which the jump that has just been
inserted is not.

And it proves `PhaseHolds`: NoPhaseError with -c for every program, and without for those that
are `Followed`: branches stay in their functions or go to the beginning of one
(`Functional`), the program does not end in a conditional branch, and no jump became an 8-byte one. The
first and the last are the restrictions on programs named above. asmb decides for the 2-byte form
by the final addresses, span by those of the pass that gave it up, so the invariant
`PhaseInv` has to say that who is long is, and stays, too far (`Chosen`). Addresses do not say that: the
padding in front of a function can shrink when the function before it grows, and a branch is
measured by addresses of two passes. So the invariant speaks of the layout that the sizes of this moment
make, which nobody computes (`Layout`, found by `Grown` from the one before), and says that `pc` is
that layout behind `p` and out of date in front of it, but by the same distance within each function
(`InStep`). `Beyond` is the distance that does not shrink: within a function from the branch
to its target, and to the beginning of another function from the branch to its function's
end and from the next function's beginning on, without the padding in between. What `span` measures is at most 2 bytes of
padding more than that (`MeasuredBeyond`), and an instruction that loses its 2-byte form moves everything behind it by
those 2 bytes (`BeyondGains`). A branch turned around gets a new jump in the middle of the list (`Inserted`), which
is farther from its target than a 2-byte jump reaches since the branch was out of its own, longer reach
(`AroundDrawn`).

`LinkFollow_proofs` proves `TypesKept` and `CannotHappen` (CantHappen) for any program of
any length and any `CopyMax`. The diagnostics "cant happen 1" and "cant happen 2" are for
a search through marked instructions that ends at a null pointer. The invariant's
heart is `Onward`: what is marked goes on, by link, to something marked, unless it is
`lastp`; a new instruction is marked and linked by the step that makes it
the last one. `PieceMarked` follows the search from there to its end,
and `CopiesBack` says that what an inverted copy on the stack jumps to is laid out.

It also proves `FlowSurvives` (FlowPreserved) for the programs named `Plain`: no branch
leads to a jump through a register, and calls call functions. `Plain` says no more than what
the run's programs already keep (`ToRegisterJump` above, and how calls are written), and without the first half
the code does change the program's meaning. The invariant is `FInv`. While `patch`
runs, each target before `p` is `Resolved`; resolving one takes control
nowhere else (`PartlyThrough`), so the order in which `brloop` is applied does not matter. While
`follow` runs, `Means` relates where control at an instruction gets to with where it got in the
program: what is laid out falls through to the right place (`FallsRight`, where
`lastp` will be followed by `p`) and branches to the right place (`JumpsRight`; for an inverted branch
the two change places), each target is laid out, is `p` or waits on the stack
(`Landed`), no target is a jump that was dropped (`Settled`), and what is laid out is exactly the
chain from `firstp` (`Chain`, `Connected`). The last is stated over all sets that are closed
under links, since the chain's length is not bounded by anything simpler. The three ways of going
back to code laid out before, `CopyToEnd`, `CopyInverted` and `JumpBack`, append instructions
in the same manner and share `ExtendFlow`, which asks of every new one that it be `Fitting`;
`CopyFits` gives that for a copy. At the end `LaidOut`, found along the links, is what was marked
(`EndOrder`), and `Through` of the result is one step of `Means` (`EndThrough`, `EndSame`).

`LinkNoops_proofs` proves `ReturnsAreRight` (ReturnsRight) and `FramesAreOwn` (OwnFrame) for any
program that `IsProgram`, both sizes of the link, and whatever the bounds of the run are. The invariant `IInv` follows a program through three phases. In the first
loop (`Leaves`) an instruction is `Kept`: its opcode and offset are the program's, only NOPs are between
it and what it is linked to, and its target is one of the program's (`Targets`); a
TEXT that is marked has no call behind it as far as the loop has come. In the last loop
(`Frames`) each TEXT passed is `Entered`: it leads to its body through the instructions that make
its frame and save its link, if it needs them, whose room is right (`RoomRight`); each RET is
`Kept` or `Returned`, expanded to what takes back exactly that; and a RET is of the
function the loop is in. The program as it runs (`RunInv`) has the innermost call at one of six
places (`Place`: at its TEXT, making the frame, saving the link, in the body, taking the frame back,
leaving), each of which says where SP and the link are. Every call `Keeps` what it
stored; every caller has its link in its own frame (`Saved`), and that
is what the callee was told to return to, with the stack right below (`Low`). `RunStep` is the
argument all instructions but calls and returns share: what is written is below the frames of
all other calls. A store to a frame misses the saved link since automatics and arguments
are within the size of the TEXT, and frames have the link on top of that (`SlotIs`).

`LinkLoad_proofs` proves two things of any command line of objects and archives
(`LinksAssumption`: the files named are there). `LibrariesDone` (NothingWanted), as long as the
libraries are archives: a library that is an object asks for no further round. The invariant
`LibInv` says what a pass and a round know on the way. Until a pass has loaded something, no entry behind it is wanted, and
until a round has (`Settled`), no library behind it has anything to give; nothing becomes wanted except
by loading, and `work` and `xrefresolv` are set whenever something was loaded. `FirstDefinition` (FirstWins),
for objects as compiler and assembler write them (`InFunctions`: what becomes an instruction
comes behind a TEXT, and an END is there), when no function has the name of data
(`Distinct`; without it a skipped TEXT may be the first, see above). Its invariant has the
program's shape (`CodeOK`), the unread part of the objects (`LeftOK`) and `FirstLinked`:
a symbol is text exactly when a TEXT of its name has been loaded, the
first of these is linked and the symbol's value is its pc, and what is inside any other is a NOP. That
dodata, the literals and the names of the segments never take a function's symbol away is `SymbolsKept`. All
hypotheses hold in every state of the run `load`.

Arguments by induction over numbers are made with a least counterexample (`Least`, from
the library's theorem that < is well founded), since a theorem that takes an
operator cannot be instantiated here.

Only model-checked: liveness (CallsReturn, Terminates, VlongReturns, AllHandled;
the prover has no fairness or ENABLED), and the following. LinkFollow's FrameKept holds only of the restricted
jumps between functions. LinkLoad's other properties compare with what `outcode` read, a fold over
the unit, which needs induction over data.
LinkEncode, MachDecode's composition, MulCode, CodeRegs, CodeGen, CLang, RvProg, MCEncode,
Multiplied and MCCompile are recursive over data or trees, and Vlrt and ByteTest use Bitwise; their
results for every input are out of the prover's reach.

## Not modelled

- Loading: AINIT and ADYNT records (nothing writes them), type signatures, `-t`, `-r`
  and `-S`, profiling (`doprof1`, `doprof2`), truncated files, line history beyond its
  records, and the descriptors of archives, which stay open (obj.c:377).
- Encoding: optab's types 21, 25 and 26 (no operand of a program reaches the first, the
  others write a word or nothing), and the caching of `oplook` (`opcross`, `repop`),
  which changes no answer.
- Compiler: `reg.c` and `peep.c`, structure constructors (OSTRUCT), the front end's
  `com64` calls and `simplifyshift`, `noretval`, `gpseudo`, external registers, `list.c`.
  Without `reg.c` the code checked is the code as `cgen` leaves it.
- libmach: the text of instructions, `riscvtrace`, and executables, objects and archives
  (`executable.c`, `obj.c`, `setmach.c`): formats and I/O.
- APE: `sigsetjmp` and `siglongjmp`: what they do to the kernel's chain of saved registers
  cannot be told from this tree.
- Memory order weaker than sequential consistency.
- The drivers; `pcc` removes the one object named on its command line after linking, also
  when the user made it (pcc.c:197).
- `file.c` (upstream heuristics), headers, acid scripts, manual pages, build files,
  context switches (straight-line saves of registers), and the parsing in `ia`.

## Plan

1. Done: Atomics with its refinement and proofs; NoteTramp and its proofs; all passes
   of il from objects to words, and libmach's reading of them; the compiler's code
   generator and multiplications; the library's arithmetic and memory routines.
2. Done: theorems about malloc's heap, span's chain, control flow, layout, reach and agreement with asmb,
   follow's types, diagnostics and control flow, the loading of libraries and functions, and
   frames and returns, and the memory and string routines.
3. Theorems next: LinkLoad's NamesAgree and LinkFollow's FrameKept.
4. NoteTramp with `sigsetjmp` and `siglongjmp`; the compiler's reaching sets and
   register regions; the drivers.
