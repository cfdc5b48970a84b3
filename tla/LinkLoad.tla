------------------------------ MODULE LinkLoad ------------------------------
(***************************************************************************)
(* How il builds its program: the compiler's object files (cmd/ic/swt.c,   *)
(* cmd/ia/lex.c outcode), loading them and the members of archives         *)
(* (cmd/il/obj.c), and the passes in front of follow: patch and dodata     *)
(* (cmd/il/pass.c).                                                        *)
(*                                                                         *)
(* An object file names its symbols in a few rolling slots; an instruction *)
(* refers to slots.  A symbol of the linker is a name and a version: 0, or *)
(* the number of the unit that a static belongs to.                        *)
(***************************************************************************)
EXTENDS Integers, Sequences, FiniteSets, SequencesExt, FiniteSetsExt, TLC

CONSTANTS
  NSYM,      \* slots of an object file; 0 is no symbol
  LOG,       \* levels of mkfwd's skip list
  MINSIZ,    \* data up to this size are small
  BIG,       \* setSB is this far into the data
  NLIBRARY,  \* room in library[]
  HALF,      \* number of words that a constant of two words is made of
  thechar,   \* "i": riscv, "j": riscv64
  Links      \* inputs: [args, files, members], see Init

ASSUME LinkLoadAssumption ==
  /\ NSYM \in Nat /\ NSYM > 2
  /\ LOG \in Nat \ {0} /\ MINSIZ \in Nat /\ BIG \in Nat /\ HALF \in Nat \ {0}
  /\ thechar \in {"i", "j"}

\* The files named are there: an object has units, an archive a directory of
\* objects.
ASSUME LinksAssumption ==
  \A l \in Links :
    LET files   == DOMAIN l.files
        objects == {n \in files : ~l.files[n].archive}
    IN /\ l.args \in Seq(files)
       /\ \A n \in files : l.files[n].dir \in Seq([sym : STRING, member : objects])
       /\ \A n \in objects : LET us == l.files[n].units IN us # <<>> /\ us \in Seq(ToSet(us))

\* A function with a place added or changed, and one laid over another.
Put(f, k, v) == [x \in {k} \cup DOMAIN f |-> IF x = k THEN v ELSE f[x]]
Over(g, f)   == [x \in DOMAIN g \cup DOMAIN f |-> IF x \in DOMAIN g THEN g[x] ELSE f[x]]

LOCAL INSTANCE LinkFrame WITH ptrsize <- IF thechar = "j" THEN 8 ELSE 4

\* Operands and Progs of a unit, as compiler and assembler have them.
Adr(t, n, s, o, r) == [type |-> t, name |-> n, sym |-> s, offset |-> o, reg |-> r]
Prog(a, f, r, t)   == [as |-> a, from |-> f, reg |-> r, to |-> t]
NREG  == 32
None  == Adr("NONE", "NONE", "", 0, NREG)
DUPOK == 2

-----------------------------------------------------------------------------
(* outcode                                                                 *)

\* The slot of an operand's symbol, writing an ANAME when the slot the symbol
\* had is not its own (any more).  w: what is written, the slots, the next
\* slot, where each symbol was last put, the pc, and the slot found.
Named(w, a) ==
  IF a.sym = "" THEN [w EXCEPT !.slot = 0, !.new = FALSE]
  ELSE LET had == IF a.sym \in DOMAIN w.at THEN w.at[a.sym] ELSE 0
       IN IF had # 0 /\ w.h[had] = <<a.sym, a.name>>
          THEN [w EXCEPT !.slot = had, !.new = FALSE]
          ELSE [out  |-> Append(w.out, [rec |-> "ANAME", type |-> a.name,
                                        slot |-> w.next, name |-> a.sym]),
                pc   |-> w.pc,
                h    |-> [w.h EXCEPT ![w.next] = <<a.sym, a.name>>],
                next |-> IF w.next + 1 >= NSYM THEN 1 ELSE w.next + 1,
                at   |-> Put(w.at, a.sym, w.next),
                slot |-> w.next, new |-> TRUE]

\* Naming both operands; when the second takes the slot of the first, both
\* are looked at again (jackpot), and then the first moves on.
Operands(w, p) == LET f == Named(w, p.from)
                      t == Named(f, p.to)
                  IN [w |-> t, sf |-> f.slot, clash |-> t.new /\ t.slot = f.slot]
\* Slip: no second look when the second operand took the first's slot.
NoJackpot(o, p) == o
Jackpot(o, p) == IF o.clash THEN Operands(o.w, p) ELSE o

zwrite(w, p) == LET o == Jackpot(Operands(w, p), p)
                IN [o.w EXCEPT !.out = Append(@, [rec |-> "PROG", p |-> p, at |-> o.w.pc,
                                                  sf |-> o.sf, st |-> o.w.slot]),
                               !.pc = IF p.as \in {"GLOBL", "DATA"} THEN @ ELSE @ + 1]

\* Libraries a unit asks for are AHISTORY records in front (outhist); the
\* path is one D_FILE name here.
outhist(libs) ==
  FlattenSeq([i \in 1..Len(libs) |->
     <<[rec |-> "ANAME", type |-> "FILE", slot |-> 1, name |-> libs[i]],
       [rec |-> "PROG", at |-> 0, sf |-> 0, st |-> 0,
        p |-> Prog("HISTORY", None, NREG, Adr("CONST", "NONE", "", -1, NREG))]>>])

\* FoldLeft, with each step's result taken as a value before the next.
Fold(op(_, _), base, seq) ==
  FoldLeft(LAMBDA w, p : CHOOSE r \in {op(v, p) : v \in {w}} : TRUE, base, seq)

outcode(unit) ==
  Fold(zwrite,
    [out |-> outhist(unit.libs), pc |-> 0, h |-> [i \in 1..NSYM-1 |-> <<"", "NONE">>],
     next |-> 1, at |-> [s \in {} |-> 0], slot |-> 0, new |-> FALSE],
    Append(unit.code, Prog("END", None, NREG, None))).out

\* What il is given: every unit with its object file.
Compiled(l) ==
  LET unit(u) == [name |-> u.name, libs |-> u.libs, code |-> u.code, object |-> outcode(u)]
      file(f) == [archive |-> f.archive, dir |-> f.dir,
                  units |-> [i \in 1..Len(f.units) |-> unit(f.units[i])]]
  IN [args |-> l.args, members |-> l.members,
      files |-> [n \in DOMAIN l.files |-> file(l.files[n])]]

-----------------------------------------------------------------------------
VARIABLES
  link,    \* the input
  stage,   \* where main is
  args,    \* object files and archives of the command line not loaded yet
  lib,     \* library, xrefresolv and the index in loadlib's loop
  walk,    \* objfile: the archive's directory, e, work
  ld,      \* ldobj: what is left of the file, h, ipc, skip
  sym,     \* the symbol table: type and value
  code,    \* the Progs behind firstp, each with where it is from (src, at, unit)
  datap,   \* DATA Progs
  cur,     \* version, histfrog, curtext, curauto
  autom,   \* the automatics of each TEXT
  loaded,  \* history: the units loaded, in order
  lay,     \* dodata: symbols to place, orig, orig1, datsize, bsssize
  diags    \* what was diagnosed

vars == <<link, stage, args, lib, walk, ld, sym, code, datap, cur, autom,
          loaded, lay, diags>>

NoSym    == <<"", 0>>
Type(s)  == IF s \in DOMAIN sym THEN sym[s].type ELSE "0"
Value(s) == IF s \in DOMAIN sym THEN sym[s].value ELSE 0
Defined(s, t, v) == sym' = Put(sym, s, [type |-> t, value |-> v])
Open     == {s \in DOMAIN sym : sym[s].type = "SXREF"}
Empty    == [s \in {} |-> 0]

\* main: INITENTRY is open.
Init ==
  /\ link \in {Compiled(l) : l \in Links}
  /\ stage = "args" /\ args = link.args
  /\ lib = [library |-> <<>>, xrefresolv |-> FALSE, i |-> 1]
  /\ walk = [dir |-> <<>>, e |-> 1, work |-> FALSE, ret |-> "args"]
  /\ ld = [left |-> <<>>, units |-> <<>>, h |-> <<>>, ipc |-> 0, skip |-> FALSE,
           ret |-> "args"]
  /\ sym = [s \in {<<"_main", 0>>} |-> [type |-> "SXREF", value |-> 0]]
  /\ code = <<>> /\ datap = {} /\ autom = Empty /\ loaded = <<>>
  /\ cur = [version |-> 0, histfrog |-> <<>>, text |-> 0, auto |-> Empty]
  /\ lay = [todo |-> {}, orig |-> 0, orig1 |-> 0, datsize |-> 0, bsssize |-> 0]
  /\ diags = {}

-----------------------------------------------------------------------------
(* main, loadlib and objfile: what is loaded, and in which order           *)

\* newloop: a unit starts with no slots, a version of its own and its pc.
NewUnit(units, ret) ==
  /\ stage' = "ld"
  /\ ld' = [left |-> Head(units).object, units |-> Tail(units),
            h |-> [i \in 0..NSYM-1 |-> NoSym], ipc |-> Len(code), skip |-> FALSE,
            ret |-> ret]
  /\ cur' = [cur EXCEPT !.version = @ + 1, !.histfrog = <<>>]
  /\ loaded' = Append(loaded, Head(units).name)

objfile(f, ret) ==
  LET file == link.files[f] IN
  IF file.archive
  THEN /\ stage' = "walk"
       /\ walk' = [dir |-> file.dir, e |-> 1, work |-> FALSE, ret |-> ret]
       /\ UNCHANGED <<ld, cur, loaded>>
  ELSE NewUnit(file.units, ret) /\ UNCHANGED walk

NextArg ==
  /\ stage = "args" /\ args # <<>>
  /\ args' = Tail(args) /\ objfile(Head(args), "args")
  /\ UNCHANGED <<link, lib, sym, code, datap, autom, lay, diags>>

RoundStart(l) == [l EXCEPT !.xrefresolv = FALSE, !.i = 1]

loadlib ==
  /\ stage = "args" /\ args = <<>>
  /\ stage' = "loadlib" /\ lib' = RoundStart(lib)
  /\ UNCHANGED <<link, args, walk, ld, sym, code, datap, cur, autom, loaded, lay, diags>>

NextLibrary ==
  /\ stage = "loadlib" /\ lib.i <= Len(lib.library)
  /\ lib' = [lib EXCEPT !.i = @ + 1]
  /\ objfile(lib.library[lib.i], "loadlib")
  /\ UNCHANGED <<link, args, sym, code, datap, autom, lay, diags>>

\* Whether the libraries are gone through once more.
\* Slip: the libraries are gone through only once.
OneRound == FALSE
\* Slip: whether a round loaded anything is not looked at.
StillOpen == Open # {}
Unresolved == lib.xrefresolv /\ Open # {}

EndRound ==
  /\ stage = "loadlib" /\ lib.i > Len(lib.library)
  /\ IF Unresolved THEN lib' = RoundStart(lib) /\ UNCHANGED stage
                   ELSE /\ stage' = IF code = <<>> THEN "exit" ELSE "mkfwd"
                       /\ UNCHANGED lib
  /\ UNCHANGED <<link, args, walk, ld, sym, code, datap, cur, autom, loaded, lay, diags>>

\* Slip: a name nobody mentioned is as good as one that is referred to.
NotDefined(e) == Type(<<e.sym, 0>>) \in {"0", "SXREF"}
\* The entry of the archive's directory is a reference that is still open.
Wanted(e) == Type(<<e.sym, 0>>) = "SXREF"

PassEntry ==
  /\ stage = "walk" /\ walk.e <= Len(walk.dir) /\ ~Wanted(walk.dir[walk.e])
  /\ walk' = [walk EXCEPT !.e = @ + 1]
  /\ UNCHANGED <<link, stage, args, lib, ld, sym, code, datap, cur, autom, loaded, lay, diags>>

LoadMember ==
  /\ stage = "walk" /\ walk.e <= Len(walk.dir) /\ Wanted(walk.dir[walk.e])
  /\ NewUnit(link.files[walk.dir[walk.e].member].units, "member")
  /\ UNCHANGED <<link, args, lib, walk, sym, code, datap, autom, lay, diags>>

\* Back from ldobj: the member must have defined the symbol.
MemberLoaded ==
  /\ stage = "member"
  /\ IF Wanted(walk.dir[walk.e])
     THEN stage' = "exit" /\ diags' = diags \cup {"failed to load"} /\ UNCHANGED <<walk, lib>>
     ELSE /\ stage' = "walk" /\ walk' = [walk EXCEPT !.e = @ + 1, !.work = TRUE]
          /\ lib' = [lib EXCEPT !.xrefresolv = TRUE] /\ UNCHANGED diags
  /\ UNCHANGED <<link, args, ld, sym, code, datap, cur, autom, loaded, lay>>

EndPass ==
  /\ stage = "walk" /\ walk.e > Len(walk.dir)
  /\ IF walk.work THEN walk' = [walk EXCEPT !.e = 1, !.work = FALSE] /\ UNCHANGED stage
                  ELSE stage' = walk.ret /\ UNCHANGED walk
  /\ UNCHANGED <<link, args, lib, ld, sym, code, datap, cur, autom, loaded, lay, diags>>

-----------------------------------------------------------------------------
(* ldobj: one record of the object file at a time                          *)

Record == Head(ld.left)
AtName == stage = "ld" /\ Record.rec = "ANAME"
AtProg(ops) == stage = "ld" /\ Record.rec = "PROG" /\ Record.p.as \in ops
Taken == ld' = [ld EXCEPT !.left = Tail(@)]

\* The symbol an ANAME stands for.
Lookup(r) == <<r.name, IF r.type = "STATIC" THEN cur.version ELSE 0>>

LoadName ==
  /\ AtName
  /\ LET s == Lookup(Record) IN
     /\ ld' = [ld EXCEPT !.left = Tail(@), !.h[Record.slot] = s]
     /\ IF Record.type \in {"EXTERN", "STATIC"} /\ Type(s) = "0"
        THEN Defined(s, "SXREF", 0) ELSE UNCHANGED sym
  /\ cur' = IF Record.type = "FILE"
            THEN [cur EXCEPT !.histfrog = Append(@, Record.name)] ELSE cur
  /\ UNCHANGED <<link, stage, args, lib, walk, code, datap, autom, loaded, lay, diags>>

\* zaddr: an operand gets the symbol of its slot, and the automatic the lowest
\* offset it is used with.
Operand(a, slot) == [a EXCEPT !.sym = ld.h[slot]]
AutoKey(a) == <<a.sym[1], a.name>>
Noted(auto, a) ==
  IF a.sym = NoSym \/ a.name \notin {"AUTO", "PARAM"} THEN auto
  ELSE LET k == AutoKey(a) IN
       IF k \in DOMAIN auto /\ auto[k] <= a.offset THEN auto ELSE Put(auto, k, a.offset)

Loaded == [as |-> Record.p.as, reg |-> Record.p.reg,
           from |-> Operand(Record.p.from, Record.sf), to |-> Operand(Record.p.to, Record.st),
           pc |-> Len(code), cond |-> 0, forwd |-> 0,
           src |-> Record.p, at |-> Record.at, unit |-> cur.version]
Autos == Noted(Noted(cur.auto, Loaded.from), Loaded.to)

\* AHISTORY with offset -1: addlib.
LoadHistory ==
  /\ AtProg({"HISTORY"}) /\ Taken
  /\ cur' = [cur EXCEPT !.histfrog = <<>>]
  /\ LET name == Last(cur.histfrog) IN
     IF name \in ToSet(lib.library) THEN UNCHANGED <<lib, diags>>
     ELSE IF Len(lib.library) = NLIBRARY
          THEN diags' = diags \cup {"too many autolibs"} /\ UNCHANGED lib
          ELSE lib' = [lib EXCEPT !.library = Append(@, name)] /\ UNCHANGED diags
  /\ UNCHANGED <<link, stage, args, walk, sym, code, datap, autom, loaded, lay>>

\* The automatics collected so far are the last TEXT's.
Flushed == IF cur.text = 0 THEN autom ELSE Put(autom, cur.text, cur.auto)

LoadEnd ==
  /\ AtProg({"END"})
  /\ autom' = Flushed
  /\ IF ld.units # <<>>
     THEN /\ stage' = "ld"
          /\ ld' = [ld EXCEPT !.left = Head(ld.units).object, !.units = Tail(@),
                    !.h = [i \in 0..NSYM-1 |-> NoSym], !.ipc = Len(code), !.skip = FALSE]
          /\ cur' = [version |-> cur.version + 1, histfrog |-> <<>>, text |-> 0, auto |-> Empty]
          /\ loaded' = Append(loaded, Head(ld.units).name)
     ELSE /\ stage' = ld.ret
          /\ cur' = [cur EXCEPT !.text = 0, !.auto = Empty]
          /\ UNCHANGED <<ld, loaded>>
  /\ UNCHANGED <<link, args, lib, walk, sym, code, datap, lay, diags>>

Bigger(a, b) == IF a > b THEN a ELSE b

LoadGlobl ==
  /\ AtProg({"GLOBL"}) /\ Taken
  /\ LET s == Loaded.from.sym IN
     /\ Defined(s, "SBSS", Bigger(Loaded.to.offset, IF Type(s) = "SBSS" THEN Value(s) ELSE 0))
     /\ diags' = diags \cup (IF Type(s) \in {"0", "SXREF", "SBSS"} THEN {} ELSE {"redefinition"})
  /\ UNCHANGED <<link, stage, args, lib, walk, code, datap, cur, autom, loaded, lay>>

LoadData ==
  /\ AtProg({"DATA"}) /\ Taken
  /\ datap' = datap \cup {Loaded}
  /\ UNCHANGED <<link, stage, args, lib, walk, sym, code, cur, autom, loaded, lay, diags>>

\* An instruction of a skipped function becomes a NOP; branches are moved
\* from the unit's pc to the program's.
\* Slip: a skipped instruction stays.
Unskipped(p, skip) == p
Skipped(p, skip) == IF skip THEN [p EXCEPT !.as = "NOP", !.from.type = "NONE", !.to.type = "NONE"]
                            ELSE p
\* Slip: branches keep the unit's pc.
Unrebased(p) == p
Rebased(p) == IF p.to.type = "BRANCH" THEN [p EXCEPT !.to.offset = @ + ld.ipc] ELSE p
Linked(p, skip) == code' = Append(code, Rebased(Skipped(p, skip)))

\* The function is there already, and the TEXT allows that.
\* Slip: a symbol defined before is not noticed.
NeverDuplicate == FALSE
Duplicate == Type(Loaded.from.sym) \notin {"0", "SXREF"}
MaySkip   == (Loaded.reg \div DUPOK) % 2 = 1

LoadText ==
  /\ AtProg({"TEXT"})
  /\ LET p == [Loaded EXCEPT !.to.offset = FrameSize(@)]
         s == p.from.sym
         skip == Duplicate /\ MaySkip
     IN /\ autom' = Flushed
        /\ cur' = [cur EXCEPT !.text = Len(code) + 1, !.auto = Empty]
        /\ ld' = [ld EXCEPT !.left = Tail(@), !.skip = skip]
        /\ Linked(p, skip)
        /\ IF skip THEN UNCHANGED sym ELSE Defined(s, "STEXT", p.pc)
        /\ diags' = diags \cup (IF Duplicate /\ ~MaySkip THEN {"redefinition"} ELSE {})
  /\ UNCHANGED <<link, stage, args, lib, walk, datap, loaded, lay>>

\* thechar == 'i': there is one integer size in registers.
Narrowed(p) ==
  LET memory == p.from.type = "OREG" \/ p.to.type = "OREG" IN
  IF thechar # "i" THEN p.as
  ELSE CASE p.as \in {"MOV", "MOVW", "MOVWU"} ->
              IF memory THEN "MOVW" ELSE "MOV"
         [] p.as = "ADDW" -> "ADD"
         [] p.as = "SUBW" -> "SUB"
         [] OTHER -> p.as

relrev == [BGT |-> "BLT", BGTU |-> "BLTU", BLE |-> "BGE", BLEU |-> "BGEU"]
\* Slip: the comparison is not turned around.
Unswapped(p) == p
Swapped(p) == [p EXCEPT !.reg = p.from.reg, !.from.reg = p.reg]

\* Instructions il has no encoding for, as ones it has.
Rewritten(p) ==
  LET constant == p.from.type = "CONST" /\ p.from.name = "NONE" IN
  CASE p.as \in {"SUB", "SUBW"} /\ constant ->
         [p EXCEPT !.as = IF @ = "SUB" THEN "ADD" ELSE "ADDW", !.from.offset = -@]
    [] p.as \in DOMAIN relrev /\ p.from.type = "REG" ->
         LET q == [p EXCEPT !.as = relrev[@]]
         IN IF p.reg = NREG THEN [q EXCEPT !.reg = 0] ELSE Swapped(q)
    [] p.as \in {"SGT", "SGTU"} ->
         Swapped([p EXCEPT !.as = IF @ = "SGT" THEN "SLT" ELSE "SLTU"])
    [] p.as = "MOV" /\ constant /\ p.from.reg \notin {NREG, 0} ->
         [p EXCEPT !.as = "ADD", !.reg = p.from.reg, !.from.reg = NREG]
    [] OTHER -> p

Instructions == {"NOP", "JAL", "JMP", "RET", "BEQ", "BLT", "BGE", "MOV", "MOVW", "MOVWU",
                 "ADD", "ADDW", "SUB", "SUBW", "SLT", "SGT", "SGTU"} \cup DOMAIN relrev

LoadInstruction ==
  /\ AtProg(Instructions) /\ Taken
  /\ Linked(Rewritten([Loaded EXCEPT !.as = Narrowed(Loaded)]), ld.skip)
  /\ cur' = [cur EXCEPT !.auto = Autos]
  /\ UNCHANGED <<link, stage, args, lib, walk, sym, datap, autom, loaded, lay, diags>>

\* The names of literals: the bits of a float, the halves of a double, or all
\* of a 64-bit constant, in the same digits.
\* Slip: only the low half of a constant is in its name.
LowDigits(n) == <<"$" \o ToString(n % HALF), 0>>
Digits(n)   == <<"$" \o ToString(n), 0>>
Halves(n)   == <<"$" \o ToString(n % HALF) \o "." \o ToString(n \div HALF), 0>>
InMemory(p, s) == [p EXCEPT !.from = Adr("OREG", "EXTERN", s, 0, @.reg)]
LiteralData(p, s, w) == [InMemory(p, s) EXCEPT !.as = "DATA", !.reg = w, !.to = p.from]

LoadFloat ==
  /\ AtProg({"MOVF", "MOVD"}) /\ Taken
  /\ LET p == Loaded
         w == IF p.as = "MOVF" THEN 4 ELSE 8
         s == IF w = 4 THEN Digits(p.from.offset) ELSE Halves(p.from.offset)
     IN IF ld.skip \/ p.from.type # "FCONST"
        THEN Linked(p, ld.skip) /\ UNCHANGED <<sym, datap>>
        ELSE /\ IF Type(s) = "0"
                THEN Defined(s, "SBSS", w) /\ datap' = datap \cup {LiteralData(p, s, w)}
                ELSE UNCHANGED <<sym, datap>>
             /\ Linked(InMemory(p, s), FALSE)
  /\ cur' = [cur EXCEPT !.auto = Autos]
  /\ UNCHANGED <<link, stage, args, lib, walk, autom, loaded, lay, diags>>

-----------------------------------------------------------------------------
(* patch: the targets of branches and calls                                *)

\* mkfwd: forwd of every LOG-th Prog at level i skips LOG^(i+1) Progs.
LevelSpan(i) == LOG ^ i
Level(f, p) == [f EXCEPT !.i = IF @ = 0 THEN LOG - 1 ELSE @ - 1]
Forward(f, p) ==
  LET g == Level(f, p)
      i == g.i
  IN IF g.dwn[i] > 1 THEN [g EXCEPT !.dwn[i] = @ - 1]
     ELSE [g EXCEPT !.dwn[i] = LevelSpan(i), !.lst[i] = p,
                    !.forwd = IF g.lst[i] = 0 THEN @ ELSE [@ EXCEPT ![g.lst[i]] = p]]

mkfwd ==
  /\ stage = "mkfwd" /\ stage' = "patch"
  /\ LET n == Len(code)
         forwd == Fold(Forward, [i |-> 0, dwn |-> [i \in 0..LOG-1 |-> 1],
                                 lst |-> [i \in 0..LOG-1 |-> 0], forwd |-> [p \in 1..n |-> 0]],
                       [p \in 1..n |-> p]).forwd
     IN code' = [p \in 1..n |-> [code[p] EXCEPT !.forwd = forwd[p]]]
  /\ UNCHANGED <<link, args, lib, walk, ld, sym, datap, cur, autom, loaded, lay, diags>>

\* The walk to the Prog with pc c; 0 when there is none.
Find(c) ==
  LET walkFrom[q \in 1..Len(code) + 1] ==
        IF q > Len(code) THEN 0
        ELSE IF code[q].forwd # 0 /\ c >= code[code[q].forwd].pc THEN walkFrom[code[q].forwd]
        ELSE IF c = code[q].pc THEN q ELSE walkFrom[q + 1]
  IN walkFrom[1]

Calls(p) == p.as \in {"JAL", "JMP", "RET"} /\ p.to.type # "BRANCH" /\ p.to.sym # NoSym
Undefined == {code[i].to.sym : i \in {i \in 1..Len(code) :
                 Calls(code[i]) /\ Type(code[i].to.sym) # "STEXT"}}

Patch ==
  /\ stage = "patch" /\ stage' = "dodata"
  /\ LET vexit == Value(<<"exit", 0>>)
         entry(s) == IF s \in Undefined THEN vexit ELSE Value(s)
         target(p) == IF Calls(p) THEN [p EXCEPT !.to.offset = entry(p.to.sym),
                                                 !.to.type = "BRANCH"] ELSE p
         patched(p) == IF p.to.type # "BRANCH" THEN p
                       ELSE [p EXCEPT !.cond = Find(p.to.offset)]
         new == [i \in 1..Len(code) |-> patched(target(code[i]))]
     IN /\ code' = new
        /\ sym' = Over([s \in Undefined |-> [type |-> "STEXT", value |-> vexit]], sym)
        /\ diags' = diags \cup (IF Undefined # {} THEN {"undefined"} ELSE {})
              \cup (IF \E i \in 1..Len(code) : new[i].to.type = "BRANCH" /\ new[i].cond = 0
                    THEN {"branch out of range"} ELSE {})
  /\ UNCHANGED <<link, args, lib, walk, ld, datap, cur, autom, loaded, lay>>

-----------------------------------------------------------------------------
(* dodata: small data, large data, bss, and literals behind the small data *)

RoundUp(v, r) == ((v + r - 1) \div r) * r
OfType(ts) == {s \in DOMAIN sym : sym[s].type \in ts}
Small(v) == v <= MINSIZ

\* Initialised symbols are data; sizes become multiples of 4.
StartData ==
  /\ stage = "dodata" /\ stage' = "small"
  /\ LET initialised == {d.from.sym : d \in datap}
         size(s) == RoundUp(IF Value(s) = 0 THEN 1 ELSE Value(s), 4)
         data == OfType({"SBSS"})
     IN /\ sym' = Over([s \in data |-> [type |-> IF s \in initialised THEN "SDATA" ELSE "SBSS",
                                        value |-> size(s)]], sym)
        /\ lay' = [lay EXCEPT !.todo = {s \in data : Small(size(s))}]
        /\ diags' = diags \cup (IF initialised \subseteq data THEN {} ELSE {"initialize non-data"})
             \cup (IF \E d \in datap : d.from.offset + d.reg > Value(d.from.sym)
                   THEN {"initialize bounds"} ELSE {})
             \cup (IF \E s \in data : Value(s) = 0 THEN {"no size"} ELSE {})
  /\ UNCHANGED <<link, args, lib, walk, ld, code, datap, cur, autom, loaded>>

\* Only what is 8 bytes or more is aligned to 8 among the small.
\* Slip: nothing small is aligned.
Unaligned(o, v) == IF (o \div 4) % 2 = 1 /\ stage # "small" THEN o + 4 ELSE o
Aligned(o, v) == IF (o \div 4) % 2 = 1 /\ (stage # "small" \/ v >= 8) THEN o + 4 ELSE o

\* The symbols of a pass, in the order of the hash table: any.
PlaceSymbol ==
  /\ stage \in {"small", "large", "bss"}
  /\ \E s \in lay.todo :
       LET v == Value(s)
           o == Aligned(lay.orig, v)
       IN /\ sym' = [sym EXCEPT ![s] = [type |-> IF stage = "bss" THEN "SBSS" ELSE "SDATA1",
                                        value |-> o]]
          /\ lay' = [lay EXCEPT !.todo = @ \ {s}, !.orig = o + v]
  /\ UNCHANGED <<link, stage, args, lib, walk, ld, code, datap, cur, autom, loaded, diags>>

\* Small data are DATA again, what is left of DATA is large.
EndSmall ==
  /\ stage = "small" /\ lay.todo = {} /\ stage' = "large"
  /\ sym' = Over([s \in OfType({"SDATA1"}) |-> [type |-> "SDATA", value |-> Value(s)]], sym)
  /\ lay' = [lay EXCEPT !.orig = RoundUp(@, 8), !.orig1 = RoundUp(lay.orig, 8),
                        !.todo = OfType({"SDATA"})]
  /\ UNCHANGED <<link, args, lib, walk, ld, code, datap, cur, autom, loaded, diags>>

EndLarge ==
  /\ stage = "large" /\ lay.todo = {} /\ stage' = "bss"
  /\ lay' = [lay EXCEPT !.orig = RoundUp(@, 8), !.datsize = RoundUp(lay.orig, 8),
                        !.todo = OfType({"SBSS"})]
  /\ UNCHANGED <<link, args, lib, walk, ld, sym, code, datap, cur, autom, loaded, diags>>

EndBss ==
  /\ stage = "bss" /\ lay.todo = {} /\ stage' = "literals"
  /\ lay' = [lay EXCEPT !.bsssize = RoundUp(lay.orig, 8) - lay.datsize, !.orig = 0]
  /\ UNCHANGED <<link, args, lib, walk, ld, sym, code, datap, cur, autom, loaded, diags>>

\* A 64-bit constant is loaded from the literal its name finds, or from a new
\* one behind those of the Progs in front of it.
Wide(p) == p.as \in {"MOV", "MOVW"} /\ p.from.type = "VCONST"
FromLiteral(p) == LET q == InMemory(p, Digits(p.from.offset))
                  IN IF thechar = "i" /\ q.as = "MOV" THEN [q EXCEPT !.as = "MOVW"] ELSE q

PlaceLiterals ==
  /\ stage = "literals" /\ stage' = "readjust"
  /\ LET wide == {i \in 1..Len(code) : Wide(code[i])}
         name == [i \in wide |-> Digits(code[i].from.offset)]
         first == {i \in wide : name[i] \notin DOMAIN sym /\ \A j \in wide : name[j] = name[i] => i <= j}
         place(i) == lay.orig1 + 8 * Cardinality({j \in first : j < i})
     IN /\ sym' = Over([s \in {name[i] : i \in first} |->
                     [type |-> "SDATA", value |-> place(CHOOSE i \in first : name[i] = s)]], sym)
        /\ datap' = datap \cup {LiteralData(code[i], name[i], 8) : i \in first}
        /\ code' = [i \in 1..Len(code) |-> IF i \in wide THEN FromLiteral(code[i]) ELSE code[i]]
        /\ diags' = diags \cup (IF \E i \in wide \ first : Type(name[i]) \notin {"0", "SDATA"}
                                THEN {"literal not data"} ELSE {})
        /\ lay' = [lay EXCEPT !.orig = 8 * Cardinality(first)]
  /\ UNCHANGED <<link, args, lib, walk, ld, cur, autom, loaded>>

\* Large data and bss move up by the literals; the segments' names are defined
\* unless the program does.
Behind(s) == sym[s].type \in {"SBSS", "SDATA1"}
Readjust ==
  /\ stage = "readjust" /\ stage' = "undef"
  /\ LET datsize == lay.datsize + lay.orig
         moved == [s \in DOMAIN sym |->
                     [type  |-> IF sym[s].type = "SDATA1" THEN "SDATA" ELSE sym[s].type,
                      value |-> IF Behind(s) THEN sym[s].value + lay.orig ELSE sym[s].value]]
         xdefine == [n \in {"setSB", "bdata", "edata", "end", "etext"} |->
                       CASE n = "setSB" -> [type |-> "SDATA", value |-> BIG]
                         [] n = "bdata" -> [type |-> "SDATA", value |-> 0]
                         [] n = "edata" -> [type |-> "SDATA", value |-> datsize]
                         [] n = "end" -> [type |-> "SBSS", value |-> datsize + lay.bsssize]
                         [] n = "etext" -> [type |-> "STEXT", value |-> 0]]
         asked == {n \in DOMAIN xdefine : Type(<<n, 0>>) \in {"0", "SXREF"}}
     IN /\ sym' = Over([s \in {<<n, 0>> : n \in asked} |-> xdefine[s[1]]], moved)
        /\ lay' = [lay EXCEPT !.datsize = datsize]
  /\ UNCHANGED <<link, args, lib, walk, ld, code, datap, cur, autom, loaded, diags>>

\* The last thing: references still open.
Undef ==
  /\ stage = "undef" /\ stage' = "done"
  /\ diags' = diags \cup (IF Open # {} THEN {"not defined"} ELSE {})
  /\ UNCHANGED <<link, args, lib, walk, ld, sym, code, datap, cur, autom, loaded, lay>>

Load == \/ NextArg \/ loadlib \/ NextLibrary \/ EndRound
        \/ PassEntry \/ LoadMember \/ MemberLoaded \/ EndPass
        \/ LoadName \/ LoadHistory \/ LoadEnd \/ LoadGlobl \/ LoadData
        \/ LoadText \/ LoadInstruction \/ LoadFloat
Layout == \/ mkfwd \/ Patch \/ StartData \/ PlaceSymbol \/ EndSmall \/ EndLarge \/ EndBss
          \/ PlaceLiterals \/ Readjust \/ Undef

Next == Load \/ Layout
Spec == Init /\ [][Next]_vars /\ WF_vars(Next)

-----------------------------------------------------------------------------
(* Properties                                                              *)

\* However the slots of the object files roll over, every Prog has the symbols
\* of its source: zname and ANAME agree on what a slot is at any moment, and a
\* static is its own unit's.  The automatics a function uses are known with it,
\* from their lowest offset.
Meant(a, v) == IF a.sym = "" THEN NoSym ELSE <<a.sym, IF a.name = "STATIC" THEN v ELSE 0>>
HasSource(p) == /\ p.src.from.sym # "" => p.from.sym = Meant(p.src.from, p.unit)
                /\ p.to.sym = Meant(p.src.to, p.unit)
Source(i) == code[i].src
TextOf(i) == CHOOSE t \in 1..i : Source(t).as = "TEXT"
               /\ \A u \in t+1..i : Source(u).as # "TEXT"
AutoKnown(i, a) == a.sym # NoSym /\ a.name \in {"AUTO", "PARAM"} =>
                     /\ AutoKey(a) \in DOMAIN autom[TextOf(i)]
                     /\ autom[TextOf(i)][AutoKey(a)] <= a.offset
NamesAgree == /\ \A i \in 1..Len(code) : HasSource(code[i])
              /\ \A d \in datap : HasSource(d)
              /\ stage = "mkfwd" => \A i \in 1..Len(code) :
                   AutoKnown(i, code[i].from) /\ AutoKnown(i, code[i].to)

\* After patch, a branch has the instruction its unit counted to, whatever was
\* loaded in front of it or skipped, and a call the TEXT of its symbol: the
\* skip list finds what a linear search would.
Patched == stage \notin {"args", "loadlib", "walk", "member", "ld", "mkfwd", "patch", "exit"}
Lands(p) ==
  IF p.src.to.type = "BRANCH"
  THEN /\ p.cond # 0
       /\ code[p.cond].unit = p.unit /\ code[p.cond].at = p.src.to.offset
  ELSE p.as = "JAL" /\ "undefined" \notin diags =>
         p.cond # 0 /\ code[p.cond].as = "TEXT" /\ code[p.cond].from.sym = p.to.sym
BranchesLand == Patched => \A i \in 1..Len(code) : code[i].as # "NOP" => Lands(code[i])

\* What ldobj makes of the pseudo-instructions computes the same.  A register
\* operand is a value here; a branch without a second one compares with zero.
Compare(op, a, b) == CASE op \in {"BLT", "SLT"} -> a < b [] op \in {"BGT", "SGT"} -> a > b
                       [] op = "BLE" -> a <= b [] op = "BGE" -> a >= b
Effect(p, r) ==
  CASE p.as \in {"BGT", "BLE"} /\ p.reg = NREG -> Compare(p.as, r[p.from.reg], 0)
    [] p.as \in {"BLT", "BGE", "BGT", "BLE", "SLT", "SGT"} ->
         Compare(p.as, r[p.reg], r[p.from.reg])
    [] p.as \in {"ADD", "ADDW"} /\ p.from.type = "CONST" -> r[p.reg] + p.from.offset
    [] p.as \in {"SUB", "SUBW"} /\ p.from.type = "CONST" -> r[p.reg] - p.from.offset
    [] p.as = "MOV" /\ p.from.type = "CONST" /\ p.from.reg # NREG -> r[p.from.reg] + p.from.offset
    [] OTHER -> p.as = "NOP"
MeaningKept ==
  stage = "mkfwd" => \A i \in 1..Len(code) : \A r \in {r \in [0..2 -> -1..1] : r[0] = 0} :
    LET p == code[i] IN
    p.as \notin {"NOP", "MOVW"} => Effect([p EXCEPT !.as = IF @ \in {"MOV", "MOVW", "MOVWU"} THEN p.src.as ELSE @], r)
                         = Effect(p.src, r)

\* The first definition of a function is the one that is linked; of another one
\* that may be skipped nothing is left but NOPs.
Defines(t, s) == Source(t).as = "TEXT" /\ code[t].from.sym = s
FirstWins ==
  Patched /\ diags = {} =>
    \A i \in 1..Len(code) :
      LET s == code[TextOf(i)].from.sym
          first == CHOOSE t \in 1..Len(code) : Defines(t, s) /\ \A u \in 1..t-1 : ~Defines(u, s)
      IN /\ code[first].as = "TEXT" /\ Value(s) = code[first].pc
         /\ TextOf(i) # first => code[i].as = "NOP"

UnitOf(n) == CHOOSE u \in UNION {ToSet(link.files[f].units) : f \in DOMAIN link.files} : u.name = n
RefersTo(unit, n) == \E i \in 1..Len(unit.code) :
                        n \in {unit.code[i].from.sym, unit.code[i].to.sym}
NeededOnce ==
  \A i \in 1..Len(loaded) : loaded[i] \in link.members =>
    /\ \A j \in 1..Len(loaded) : loaded[j] = loaded[i] => i = j
    /\ \E f \in DOMAIN link.files : \E e \in ToSet(link.files[f].dir) :
         /\ e.member = loaded[i]
         /\ e.sym = "_main" \/ \E j \in 1..i-1 :
              RefersTo(UnitOf(loaded[j]), e.sym)

\* When the libraries are done with, none has a member for a reference that is
\* still open: neither the passes over an archive nor the rounds over the
\* libraries end too early.
NoneWanted(i) == \A e \in ToSet(link.files[lib.library[i]].dir) : ~Wanted(e)
NothingWanted == stage = "mkfwd" => \A i \in 1..Len(lib.library) : NoneWanted(i)

\* A member is loaded at most once, and only for a name some unit in front of
\* it refers to.
OnlyWanted == stage = "mkfwd" => NeededOnce

\* Data do not overlap, not even by what is written into them or loaded from
\* them, lie in their segments, and what takes 8 bytes is aligned to 8.
Asked(s) == UNION {{p.to.offset : p \in {p \in ToSet(UnitOf(loaded[v]).code) :
                       p.as = "GLOBL" /\ Meant(p.from, v) = s}} : v \in 1..Len(loaded)}
Written(s) == {d.from.offset + d.reg : d \in {d \in datap : d.from.sym = s}}
Extent(s) == Max(Asked(s) \cup Written(s) \cup {0})
DataApart ==
  stage = "done" /\ diags = {} =>
    LET data == {s \in OfType({"SDATA", "SBSS"}) : Extent(s) > 0}
    IN /\ \A s \in data :
            /\ Value(s) % 4 = 0 /\ (Extent(s) >= 8 => Value(s) % 8 = 0)
            /\ LET low == IF Type(s) = "SDATA" THEN 0 ELSE lay.datsize
                   high == IF Type(s) = "SDATA" THEN lay.datsize ELSE lay.datsize + lay.bsssize
               IN Value(s) >= low /\ Value(s) + Extent(s) <= high
       /\ \A s, t \in data : s = t \/ Value(s) + Extent(s) <= Value(t)
                                   \/ Value(t) + Extent(t) <= Value(s)

\* A constant that is loaded from memory is all there: as many bytes as the
\* instruction loads are written for it, with its value.  ("The new literals are
\* loaded between small data and large data": pass.c:118-125.)
Width(p) == IF p.as \in {"MOVF", "MOVW"} THEN 4 ELSE 8
LiteralsHold ==
  stage = "done" => \A i \in 1..Len(code) :
    LET p == code[i] IN
    p.as # "NOP" /\ p.src.from.type \in {"FCONST", "VCONST"} =>
      /\ p.from.type = "OREG"
      /\ \E d \in datap : /\ d.from.sym = p.from.sym /\ d.reg >= Width(p)
                                 /\ d.to.type = p.src.from.type
                                 /\ d.to.offset = p.src.from.offset

\* il complains exactly when it should: when something that is referred to is
\* defined nowhere, something is defined twice, or there are too many libraries.
Names(v) == {Meant(a, v) : a \in {a \in UNION {{p.from, p.to} : p \in ToSet(UnitOf(loaded[v]).code)} :
                                    a.name \in {"EXTERN", "STATIC"}}}
DefinedIn(v) == {Meant(p.from, v) : p \in {p \in ToSet(UnitOf(loaded[v]).code) : p.as \in {"TEXT", "GLOBL"}}}
Missing == (UNION {Names(v) : v \in 1..Len(loaded)} \cup {<<"_main", 0>>})
           \ (UNION {DefinedIn(v) : v \in 1..Len(loaded)}
              \cup {<<n, 0>> : n \in {"setSB", "bdata", "edata", "end", "etext"}})
Definitions(v) == {[v |-> v, i |-> i, p |-> UnitOf(loaded[v]).code[i]] :
                     i \in {i \in 1..Len(UnitOf(loaded[v]).code) :
                              UnitOf(loaded[v]).code[i].as \in {"TEXT", "GLOBL"}}}
Before(a, b) == a.v < b.v \/ (a.v = b.v /\ a.i < b.i)
Twice == \E a, b \in UNION {Definitions(v) : v \in 1..Len(loaded)} :
           /\ Before(a, b) /\ Meant(a.p.from, a.v) = Meant(b.p.from, b.v)
           /\ \/ b.p.as = "TEXT" /\ b.p.reg < DUPOK
              \/ b.p.as = "GLOBL" /\ a.p.as = "TEXT"
TooMany == Cardinality(UNION {ToSet(UnitOf(loaded[v]).libs) : v \in 1..Len(loaded)}) > NLIBRARY
VerdictRight == stage = "done" => ((diags = {}) <=> (Missing = {} /\ ~Twice /\ ~TooMany))

\* The link comes to an end, also when members of libraries need each other.
Terminates == <>(stage \in {"done", "exit"})
=============================================================================
