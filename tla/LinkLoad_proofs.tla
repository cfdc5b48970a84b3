-------------------------- MODULE LinkLoad_proofs --------------------------
(***************************************************************************)
(* Loading, for every command line, archives and objects: no member that   *)
(* is asked for is left in a library, and the first definition of each     *)
(* function is the one that is linked.                                     *)
(***************************************************************************)
EXTENDS LinkLoad, SequenceTheorems, WellFoundedInduction, TLAPS

Files   == DOMAIN link.files
Objects == {n \in Files : ~link.files[n].archive}
IsSeq(s) == s \in Seq(ToSet(s))

Entries == [sym : STRING, member : Objects]
Loading == {"args", "loadlib", "walk", "member", "ld"}
Later   == {"mkfwd", "patch", "dodata", "small", "large", "bss", "literals", "readjust",
            "undef", "done", "exit"}

InputOK ==
  /\ args \in Seq(Files)
  /\ \A n \in Files : link.files[n].dir \in Seq(Entries)
  /\ \A n \in Objects : IsSeq(link.files[n].units) /\ link.files[n].units # <<>>
LibOK ==
  /\ lib = [library |-> lib.library, xrefresolv |-> lib.xrefresolv, i |-> lib.i]
  /\ IsSeq(lib.library) /\ lib.xrefresolv \in BOOLEAN /\ lib.i \in Nat \ {0}
WalkOK ==
  /\ walk = [dir |-> walk.dir, e |-> walk.e, work |-> walk.work, ret |-> walk.ret]
  /\ walk.e \in Nat \ {0} /\ walk.work \in BOOLEAN /\ walk.ret \in {"args", "loadlib"}
LdOK ==
  /\ ld = [left |-> ld.left, units |-> ld.units, h |-> ld.h, ipc |-> ld.ipc,
           skip |-> ld.skip, ret |-> ld.ret]
  /\ ld.ret \in {"args", "loadlib", "member"}

TypeOK == stage \in Loading \cup Later /\ InputOK /\ LibOK /\ WalkOK /\ LdOK

-----------------------------------------------------------------------------
(* Libraries                                                               *)

(* What -l and the objects ask for are archives: an object given as a      *)
(* library is loaded once a round, and asks for no other round.            *)
Archives == \A i \in 1..Len(lib.library) :
              lib.library[i] \in Files /\ link.files[lib.library[i]].archive

(* As long as a round loaded nothing, the libraries it has been through    *)
(* have nothing to give.                                                   *)
Settled(k) == lib.xrefresolv \/ \A i \in 1..k : NoneWanted(i)

(* The directory that is walked is that of the library in front of i.      *)
AtLibrary ==
  walk.ret = "loadlib" => /\ lib.i - 1 \in 1..Len(lib.library)
                          /\ walk.dir = link.files[lib.library[lib.i - 1]].dir

LibInv ==
  /\ walk.dir \in Seq(Entries)
  /\ stage = "loadlib" => lib.i \in 1..Len(lib.library) + 1 /\ Settled(lib.i - 1)
  /\ stage = "walk" =>
       /\ AtLibrary /\ walk.e <= Len(walk.dir) + 1
       /\ IF walk.work THEN lib.xrefresolv
          ELSE \A e \in 1..walk.e - 1 : ~Wanted(walk.dir[e])
       /\ walk.ret = "loadlib" => Settled(lib.i - 2)
  /\ stage \in {"ld", "member"} =>
       ld.ret # "loadlib" /\ (ld.ret = "member" => AtLibrary /\ walk.e <= Len(walk.dir))
  /\ stage = "member" => ld.ret = "member"
  /\ NothingWanted

IInv == TypeOK /\ (Archives => LibInv)

-----------------------------------------------------------------------------
(* Functions                                                               *)

LibrariesThere == \A i \in 1..Len(lib.library) : lib.library[i] \in Files

(* An object ends with END, and what becomes an instruction comes behind a *)
(* TEXT, as compiler and assembler write it.                               *)
IsCode(r) == r.rec = "PROG" /\ r.p.as \in Instructions \cup {"TEXT", "MOVF", "MOVD"}
IsEnd(r)  == r.rec = "PROG" /\ r.p.as = "END"
Formed(o) == /\ IsSeq(o) /\ \E k \in 1..Len(o) : IsEnd(o[k])
             /\ \A k \in 1..Len(o) : IsCode(o[k]) => DOMAIN o[k].p.from = DOMAIN None
Headed(o) == \A k \in 1..Len(o) : IsCode(o[k]) =>
               \E j \in 1..k : IsCode(o[j]) /\ o[j].p.as = "TEXT"
Ordered(units) == \A i \in 1..Len(units) : Formed(units[i].object) /\ Headed(units[i].object)
InFunctions == \A n \in Objects : Ordered(link.files[n].units)

DataTypes == {"SBSS", "SDATA", "SDATA1"}
Types == {"0", "SXREF", "STEXT"} \cup DataTypes
IsData(s) == Type(s) \in DataTypes
IsText(t) == Source(t).as = "TEXT"
NameOf(t) == code[t].from.sym
First(t)  == IsText(t) /\ \A u \in 1..t-1 : ~Defines(u, NameOf(t))
(* The instruction i belongs to the TEXT t.                                *)
Inside(i, t) == t \in 1..i /\ IsText(t) /\ \A u \in t+1..i : ~IsText(u)

Fields == {"as", "reg", "from", "to", "pc", "cond", "forwd", "src", "at", "unit"}
CodeOK ==
  /\ IsSeq(code) /\ \A i \in 1..Len(code) : DOMAIN code[i] = Fields
  /\ DOMAIN cur = {"version", "histfrog", "text", "auto"}
  /\ \A s \in DOMAIN sym : Type(s) \in Types

TodoOK ==
  /\ DOMAIN lay = {"todo", "orig", "orig1", "datsize", "bsssize"}
  /\ stage \in {"small", "large", "bss"} => \A s \in lay.todo : IsData(s)

(* What is left of the units that are being loaded.                        *)
LeftOK ==
  /\ stage # "ld" => cur.text = 0
  /\ stage = "ld" => /\ Formed(ld.left) /\ IsSeq(ld.units) /\ Ordered(ld.units)
                     /\ cur.text = 0 => Headed(ld.left)
  /\ cur.text # 0 => Inside(Len(code), cur.text)
  /\ code # <<>> => IsText(1)

IsLinked(t) == /\ code[t].as = "TEXT" /\ Type(NameOf(t)) = "STEXT"
               /\ Value(NameOf(t)) = code[t].pc
TextOK(t) == IsText(t) => /\ code[t].as \in {"TEXT", "NOP"}
                          /\ IsData(NameOf(t)) \/ Type(NameOf(t)) = "STEXT"
                          /\ First(t) => IsData(NameOf(t)) \/ IsLinked(t)
SkipOK(i, t) == Inside(i, t) /\ ~First(t) => code[i].as = "NOP"
FirstLinked ==
  /\ \A t \in 1..Len(code) : TextOK(t)
  /\ \A i \in 1..Len(code) : \A t \in 1..i : SkipOK(i, t)
  /\ cur.text # 0 => First(cur.text) \/ ld.skip
  /\ stage \in Loading => \A s \in OfType({"STEXT"}) : \E u \in 1..Len(code) : Defines(u, s)

FInv == /\ TypeOK
        /\ LibrariesThere /\ InFunctions =>
             walk.dir \in Seq(Entries) /\ CodeOK /\ TodoOK /\ LeftOK /\ (diags = {} => FirstLinked)

-----------------------------------------------------------------------------
(* Sequences                                                               *)

LEMMA AnySeq ==
  ASSUME NEW T, NEW s \in Seq(T)
  PROVE  IsSeq(s)
<1>1. DOMAIN s = 1..Len(s) /\ Len(s) \in Nat /\ s = [i \in 1..Len(s) |-> s[i]]
  OBVIOUS
<1>2. \A i \in 1..Len(s) : s[i] \in ToSet(s)
  BY <1>1 DEF ToSet
<1> QED
  BY <1>1, <1>2, SeqDef DEF IsSeq

LEMMA AppendIsSeq ==
  ASSUME NEW s, IsSeq(s), NEW e
  PROVE  /\ IsSeq(Append(s, e)) /\ Len(Append(s, e)) = Len(s) + 1 /\ Len(s) \in Nat
         /\ \A i \in 1..Len(s) : Append(s, e)[i] = s[i]
         /\ Append(s, e)[Len(s) + 1] = e
<1> DEFINE T == ToSet(s) \cup {e}
<1>1. s \in Seq(T) /\ e \in T
  BY SeqDef DEF IsSeq
<1> HIDE DEF T
<1>2. Append(s, e) \in Seq(T)
  BY <1>1
<1>3. IsSeq(Append(s, e))
  BY <1>2, AnySeq
<1>4. /\ Len(Append(s, e)) = Len(s) + 1 /\ Len(s) \in Nat
      /\ \A i \in 1..Len(s) : Append(s, e)[i] = s[i]
      /\ Append(s, e)[Len(s) + 1] = e
  BY <1>1
<1> QED
  BY <1>3, <1>4

LEMMA TailIsSeq ==
  ASSUME NEW s, IsSeq(s), s # <<>>
  PROVE  /\ IsSeq(Tail(s)) /\ Len(Tail(s)) = Len(s) - 1 /\ Len(s) \in Nat \ {0}
         /\ \A i \in 1..Len(s) - 1 : Tail(s)[i] = s[i + 1]
         /\ Head(s) = s[1]
<1>1. s \in Seq(ToSet(s))
  BY DEF IsSeq
<1> DEFINE T == ToSet(s)
<1> HIDE DEF T
<1>2. s \in Seq(T)
  BY <1>1 DEF T
<1>3. Tail(s) \in Seq(T) /\ Len(Tail(s)) = Len(s) - 1 /\ Len(s) \in Nat \ {0}
      /\ (\A i \in 1..Len(s) - 1 : Tail(s)[i] = s[i + 1]) /\ Head(s) = s[1]
  BY <1>2
<1> QED
  BY <1>3, AnySeq

-----------------------------------------------------------------------------
(* The input                                                               *)

LEMMA CompiledInput ==
  ASSUME NEW l \in Links, link = Compiled(l)
  PROVE  /\ link.args \in Seq(Files)
         /\ \A n \in Files : link.files[n].dir \in Seq(Entries)
         /\ \A n \in Objects : IsSeq(link.files[n].units) /\ link.files[n].units # <<>>
<1>1. DOMAIN link.files = DOMAIN l.files /\ link.args = l.args
  BY DEF Compiled
<1>2. \A n \in DOMAIN l.files :
        /\ link.files[n].archive = l.files[n].archive
        /\ link.files[n].dir = l.files[n].dir
        /\ DOMAIN link.files[n].units = 1..Len(l.files[n].units)
        /\ link.files[n].units = [i \in 1..Len(l.files[n].units) |-> link.files[n].units[i]]
  BY DEF Compiled
<1>3. Files = DOMAIN l.files /\ Objects = {n \in DOMAIN l.files : ~l.files[n].archive}
  BY <1>1, <1>2 DEF Files, Objects
<1>4. \A n \in Files : l.files[n].dir \in Seq([sym : STRING, member : Objects])
  BY <1>3, LinksAssumption
<1>5. ASSUME NEW n \in Objects
      PROVE  IsSeq(link.files[n].units) /\ link.files[n].units # <<>>
  <2> DEFINE us == l.files[n].units
  <2>1. us # <<>> /\ us \in Seq(ToSet(us))
    BY <1>3, LinksAssumption
  <2> DEFINE vs == link.files[n].units
  <2>2. vs = [i \in 1..Len(us) |-> vs[i]]
    BY <1>2, <1>3
  <2> HIDE DEF us, vs
  <2>3. Len(us) \in Nat \ {0}
    BY <2>1
  <2>4. \A i \in 1..Len(us) : vs[i] \in ToSet(vs)
    BY <2>2 DEF ToSet
  <2>5. vs \in Seq(ToSet(vs)) /\ Len(vs) = Len(us)
    BY <2>2, <2>3, <2>4, SeqDef, LenProperties
  <2>6. vs # <<>>
    BY <2>3, <2>5
  <2> QED
    BY <2>5, <2>6 DEF IsSeq, vs
<1>6. l.args \in Seq(Files)
  BY <1>3, LinksAssumption
<1> QED
  BY <1>1, <1>2, <1>3, <1>4, <1>5, <1>6 DEF Entries

LEMMA StartsLoading == Init => IInv
<1> SUFFICES ASSUME Init
             PROVE  IInv
  OBVIOUS
<1>1. PICK l \in Links : link = Compiled(l)
  BY DEF Init
<1>2. TypeOK
  <2>1. <<>> \in Seq(ToSet(<<>>)) /\ <<>> \in Seq(Entries)
    OBVIOUS
  <2>2. /\ stage = "args" /\ args = link.args
        /\ lib = [library |-> <<>>, xrefresolv |-> FALSE, i |-> 1]
        /\ walk = [dir |-> <<>>, e |-> 1, work |-> FALSE, ret |-> "args"]
        /\ ld = [left |-> <<>>, units |-> <<>>, h |-> <<>>, ipc |-> 0, skip |-> FALSE,
                 ret |-> "args"]
    BY DEF Init
  <2> QED
    BY <1>1, <2>1, <2>2, CompiledInput
       DEF TypeOK, InputOK, LibOK, WalkOK, LdOK, IsSeq, Loading, Later
<1>3. LibInv
  BY DEF Init, LibInv, NothingWanted
<1> QED
  BY <1>2, <1>3 DEF IInv

-----------------------------------------------------------------------------
(* Types                                                                   *)

(* What follows loading touches the program and the symbols only.          *)
LEMMA LayoutFrame ==
  Layout => /\ UNCHANGED <<link, args, lib, walk, ld, loaded, cur, autom>>
            /\ stage' \in Later /\ stage' # "mkfwd"
            /\ stage \in Later
  BY DEF Layout, mkfwd, Patch, StartData, PlaceSymbol, EndSmall, EndLarge, EndBss,
         PlaceLiterals, Readjust, Undef, Later

(* A record of an object file touches, of the loading of archives, only    *)
(* the list of libraries.                                                  *)
LoadRecord == LoadName \/ LoadHistory \/ LoadEnd \/ LoadGlobl \/ LoadData
              \/ LoadText \/ LoadInstruction \/ LoadFloat

LEMMA RecordFrame ==
  ASSUME TypeOK, LoadRecord
  PROVE  /\ UNCHANGED <<link, args, walk>>
         /\ stage = "ld" /\ stage' \in {"ld", ld.ret}
         /\ \/ lib' = lib
            \/ \E name : lib' = [lib EXCEPT !.library = Append(@, name)]
         /\ ld'.ret = ld.ret
         /\ ld' = [left |-> ld'.left, units |-> ld'.units, h |-> ld'.h, ipc |-> ld'.ipc,
                   skip |-> ld'.skip, ret |-> ld'.ret]
<1>0. ld = [left |-> ld.left, units |-> ld.units, h |-> ld.h, ipc |-> ld.ipc,
            skip |-> ld.skip, ret |-> ld.ret]
  BY DEF TypeOK, LdOK
<1>1. CASE LoadName
  BY <1>0, <1>1 DEF LoadName, AtName
<1>2. CASE LoadHistory
  BY <1>0, <1>2 DEF LoadHistory, AtProg, Taken
<1>3. CASE LoadEnd
  BY <1>0, <1>3 DEF LoadEnd, AtProg
<1>4. CASE LoadGlobl
  BY <1>0, <1>4 DEF LoadGlobl, AtProg, Taken
<1>5. CASE LoadData
  BY <1>0, <1>5 DEF LoadData, AtProg, Taken
<1>6. CASE LoadText
  BY <1>0, <1>6 DEF LoadText, AtProg
<1>7. CASE LoadInstruction
  BY <1>0, <1>7 DEF LoadInstruction, AtProg, Taken
<1>8. CASE LoadFloat
  BY <1>0, <1>8 DEF LoadFloat, AtProg, Taken
<1> QED
  BY <1>1, <1>2, <1>3, <1>4, <1>5, <1>6, <1>7, <1>8 DEF LoadRecord

LEMMA InputStays ==
  ASSUME InputOK, link' = link, \/ args' = args
                                \/ args # <<>> /\ args' = Tail(args)
  PROVE  InputOK'
<1>1. Files' = Files /\ Objects' = Objects /\ Entries' = Entries
  BY DEF Files, Objects, Entries
<1>2. args' \in Seq(Files)
  BY DEF InputOK
<1> QED
  BY <1>1, <1>2 DEF InputOK

LEMMA OpensTypes ==
  ASSUME TypeOK, NEW f, NEW ret \in {"args", "loadlib"}, objfile(f, ret)
  PROVE  stage' \in {"walk", "ld"} /\ WalkOK' /\ LdOK'
<1>1. CASE link.files[f].archive
  <2>1. /\ stage' = "walk" /\ ld' = ld
        /\ walk' = [dir |-> link.files[f].dir, e |-> 1, work |-> FALSE, ret |-> ret]
    BY <1>1 DEF objfile
  <2>2. WalkOK'
    BY <2>1 DEF WalkOK
  <2>3. LdOK'
    BY <2>1 DEF TypeOK, LdOK
  <2> QED
    BY <2>1, <2>2, <2>3
<1>2. CASE ~link.files[f].archive
  BY <1>2 DEF TypeOK, objfile, NewUnit, WalkOK, LdOK
<1> QED
  BY <1>1, <1>2

LEMMA TypesStay ==
  ASSUME TypeOK, [Next]_vars
  PROVE  TypeOK'
<1>0. stage \in Loading \cup Later /\ InputOK /\ LibOK /\ WalkOK /\ LdOK
  BY DEF TypeOK
<1>1. CASE NextArg
  BY <1>0, <1>1, InputStays, OpensTypes DEF NextArg, TypeOK, LibOK, Loading
<1>2. CASE loadlib
  <2>1. /\ UNCHANGED <<link, args, walk, ld>> /\ stage' = "loadlib"
        /\ lib' = [library |-> lib.library, xrefresolv |-> FALSE, i |-> 1]
    BY <1>0, <1>2 DEF loadlib, RoundStart, LibOK
  <2>2. LibOK'
    BY <1>0, <2>1 DEF LibOK
  <2>3. WalkOK' /\ LdOK'
    BY <1>0, <2>1 DEF WalkOK, LdOK
  <2> QED
    BY <1>0, <2>1, <2>2, <2>3, InputStays DEF TypeOK, Loading
<1>3. CASE NextLibrary
  <2>1. stage' \in {"walk", "ld"} /\ WalkOK' /\ LdOK'
    BY <1>3, OpensTypes DEF NextLibrary
  <2>2. LibOK'
    BY <1>0, <1>3 DEF NextLibrary, LibOK
  <2> QED
    BY <1>0, <1>3, <2>1, <2>2, InputStays DEF NextLibrary, TypeOK, Loading
<1>4. CASE EndRound
  <2>1. /\ UNCHANGED <<link, args, walk, ld>>
        /\ stage' \in {"loadlib", "exit", "mkfwd"}
        /\ lib' = RoundStart(lib) \/ lib' = lib
    BY <1>4 DEF EndRound
  <2>2. LibOK'
    <3>1. CASE lib' = RoundStart(lib)
      <4>1. lib' = [library |-> lib.library, xrefresolv |-> FALSE, i |-> 1]
        BY <1>0, <3>1 DEF LibOK, RoundStart
      <4> QED
        BY <1>0, <4>1 DEF LibOK
    <3>2. CASE lib' = lib
      BY <1>0, <3>2 DEF LibOK
    <3> QED
      BY <2>1, <3>1, <3>2
  <2>3. WalkOK' /\ LdOK'
    BY <1>0, <2>1 DEF WalkOK, LdOK
  <2> QED
    BY <1>0, <2>1, <2>2, <2>3, InputStays DEF TypeOK, Loading, Later
<1>5. CASE PassEntry
  BY <1>0, <1>5, InputStays DEF PassEntry, TypeOK, LibOK, WalkOK, LdOK
<1>6. CASE LoadMember
  BY <1>0, <1>6, InputStays DEF LoadMember, NewUnit, TypeOK, LibOK, WalkOK, LdOK, Loading
<1>7. CASE MemberLoaded
  <2>1. /\ UNCHANGED <<link, args, ld>>
        /\ stage' \in {"walk", "exit"}
        /\ lib' = [lib EXCEPT !.xrefresolv = TRUE] \/ lib' = lib
        /\ walk' = [walk EXCEPT !.e = @ + 1, !.work = TRUE] \/ walk' = walk
    BY <1>7 DEF MemberLoaded
  <2>2. LibOK'
    <3>1. CASE lib' = [lib EXCEPT !.xrefresolv = TRUE]
      BY <1>0, <3>1 DEF LibOK
    <3>2. CASE lib' = lib
      BY <1>0, <3>2 DEF LibOK
    <3> QED
      BY <2>1, <3>1, <3>2
  <2>3. WalkOK'
    <3>1. CASE walk' = [walk EXCEPT !.e = @ + 1, !.work = TRUE]
      <4>1. walk' = [dir |-> walk.dir, e |-> walk.e + 1, work |-> TRUE, ret |-> walk.ret]
        BY <1>0, <3>1 DEF WalkOK
      <4> QED
        BY <1>0, <4>1 DEF WalkOK
    <3>2. CASE walk' = walk
      BY <1>0, <3>2 DEF WalkOK
    <3> QED
      BY <2>1, <3>1, <3>2
  <2>4. LdOK'
    BY <1>0, <2>1 DEF LdOK
  <2> QED
    BY <1>0, <2>1, <2>2, <2>3, <2>4, InputStays DEF TypeOK, Loading, Later
<1>8. CASE EndPass
  <2>1. /\ UNCHANGED <<link, args, ld, lib>>
        /\ \/ walk' = [walk EXCEPT !.e = 1, !.work = FALSE] /\ stage' = stage
           \/ walk' = walk /\ stage' = walk.ret
    BY <1>8 DEF EndPass
  <2>2. LibOK' /\ LdOK'
    BY <1>0, <2>1 DEF LibOK, LdOK
  <2>3. WalkOK'
    <3>1. CASE walk' = [walk EXCEPT !.e = 1, !.work = FALSE]
      <4>1. walk' = [dir |-> walk.dir, e |-> 1, work |-> FALSE, ret |-> walk.ret]
        BY <1>0, <3>1 DEF WalkOK
      <4> QED
        BY <1>0, <4>1 DEF WalkOK
    <3>2. CASE walk' = walk
      BY <1>0, <3>2 DEF WalkOK
    <3> QED
      BY <2>1, <3>1, <3>2
  <2>4. stage' \in Loading \cup Later
    BY <1>0, <2>1 DEF TypeOK, WalkOK, Loading
  <2> QED
    BY <1>0, <2>1, <2>2, <2>3, <2>4, InputStays DEF TypeOK
<1>9. CASE LoadRecord
  <2>1. /\ UNCHANGED <<link, args, walk>>
        /\ stage' \in {"ld", ld.ret} /\ ld'.ret = ld.ret
        /\ ld' = [left |-> ld'.left, units |-> ld'.units, h |-> ld'.h, ipc |-> ld'.ipc,
                  skip |-> ld'.skip, ret |-> ld'.ret]
    BY <1>9, RecordFrame
  <2>2. LibOK'
    <3>1. CASE lib' = lib
      BY <1>0, <3>1 DEF LibOK
    <3>2. ASSUME NEW name, lib' = [lib EXCEPT !.library = Append(@, name)]
          PROVE  LibOK'
      BY <1>0, <3>2, AppendIsSeq DEF LibOK
    <3> QED
      BY <1>9, <3>1, <3>2, RecordFrame
  <2>3. stage' \in Loading
    BY <1>0, <2>1 DEF LdOK, Loading
  <2>4. WalkOK' /\ LdOK'
    BY <1>0, <2>1 DEF LdOK, WalkOK
  <2> QED
    BY <1>0, <2>1, <2>2, <2>3, <2>4, InputStays DEF TypeOK
<1>10. CASE Layout
  BY <1>0, <1>10, LayoutFrame, InputStays DEF TypeOK, LibOK, WalkOK, LdOK
<1>11. CASE UNCHANGED vars
  BY <1>0, <1>11, InputStays DEF vars, TypeOK, LibOK, WalkOK, LdOK
<1> QED
  BY <1>1, <1>2, <1>3, <1>4, <1>5, <1>6, <1>7, <1>8, <1>9, <1>10, <1>11
     DEF Next, Load, LoadRecord

-----------------------------------------------------------------------------
(* Libraries: each step                                                    *)

LEMMA ArchivesBefore ==
  ASSUME TypeOK, [Next]_vars
  PROVE  (Archives' => Archives) /\ (LibrariesThere' => LibrariesThere)
<1>1. link' = link
  BY DEF Next, Load, Layout, vars, NextArg, loadlib, NextLibrary, EndRound, PassEntry,
         LoadMember, MemberLoaded, EndPass, LoadName, LoadHistory, LoadEnd, LoadGlobl,
         LoadData, LoadText, LoadInstruction, LoadFloat, mkfwd, Patch, StartData,
         PlaceSymbol, EndSmall, EndLarge, EndBss, PlaceLiterals, Readjust, Undef
<1>2. \/ lib'.library = lib.library
      \/ \E name : lib'.library = Append(lib.library, name)
  <2>0. LibOK
    BY DEF TypeOK
  <2>1. CASE LoadRecord
    BY <2>0, <2>1, RecordFrame DEF LibOK
  <2>2. CASE Layout
    BY <2>2, LayoutFrame
  <2>3. CASE loadlib \/ NextLibrary \/ EndRound \/ MemberLoaded
    BY <2>0, <2>3 DEF LibOK, loadlib, NextLibrary, EndRound, MemberLoaded, RoundStart
  <2>4. CASE NextArg \/ PassEntry \/ LoadMember \/ EndPass \/ UNCHANGED vars
    BY <2>4 DEF NextArg, PassEntry, LoadMember, EndPass, vars
  <2> QED
    BY <2>1, <2>2, <2>3, <2>4 DEF Next, Load, LoadRecord
<1>3. IsSeq(lib.library)
  BY DEF TypeOK, LibOK
<1>4. \A i \in 1..Len(lib.library) : i \in 1..Len(lib'.library) /\ lib'.library[i] = lib.library[i]
  BY <1>2, <1>3, AppendIsSeq
<1> QED
  BY <1>1, <1>4 DEF Archives, LibrariesThere, Files

LEMMA EntryOf ==
  ASSUME NEW d \in Seq(Entries)
  PROVE  ToSet(d) = {d[i] : i \in 1..Len(d)}
  BY DEF ToSet

LEMMA NothingOpen ==
  ASSUME Open = {}, NEW e
  PROVE  ~Wanted(e)
  BY DEF Open, Wanted, Type

LEMMA OpensLibrary ==
  ASSUME TypeOK, walk.dir \in Seq(Entries), NEW f \in Files,
         NEW ret \in {"args", "loadlib"}, objfile(f, ret), link' = link
  PROVE  /\ walk'.dir \in Seq(Entries')
         /\ stage' = "walk" => /\ walk'.dir = link.files[f].dir /\ walk'.e = 1
                               /\ ~walk'.work /\ walk'.ret = ret
         /\ stage' = "ld" => ld'.ret = ret
         /\ stage' = IF link.files[f].archive THEN "walk" ELSE "ld"
<1>1. Entries' = Entries
  BY DEF Entries, Objects, Files
<1>2. CASE link.files[f].archive
  BY <1>1, <1>2 DEF objfile, TypeOK, InputOK
<1>3. CASE ~link.files[f].archive
  BY <1>1, <1>3 DEF objfile, NewUnit, TypeOK
<1> QED
  BY <1>2, <1>3

LEMMA LibStep ==
  ASSUME TypeOK, LibInv, Archives, [Next]_vars
  PROVE  LibInv'
<1>0. InputOK /\ LibOK /\ WalkOK /\ LdOK
  BY DEF TypeOK
<1>1. Len(lib.library) \in Nat /\ lib.i \in Nat /\ walk.e \in Nat \ {0}
  <2>1. lib.library \in Seq(ToSet(lib.library))
    BY <1>0 DEF LibOK, IsSeq
  <2> DEFINE T == ToSet(lib.library)
  <2> HIDE DEF T
  <2>2. lib.library \in Seq(T)
    BY <2>1 DEF T
  <2> QED
    BY <1>0, <2>2 DEF LibOK, WalkOK
<1>2. link' = link => Entries' = Entries
  BY DEF Entries, Objects, Files
<1>3. CASE NextArg
  <2>1. Head(args) \in Files /\ objfile(Head(args), "args") /\ UNCHANGED <<link, lib, sym>>
    BY <1>0, <1>3 DEF NextArg, InputOK
  <2>2. /\ walk'.dir \in Seq(Entries')
        /\ stage' = "walk" => walk'.e = 1 /\ ~walk'.work /\ walk'.ret = "args"
        /\ stage' = "ld" => ld'.ret = "args"
        /\ stage' \in {"walk", "ld"}
    BY <2>1, OpensLibrary DEF LibInv
  <2>3. stage' = "walk" => walk'.e <= Len(walk'.dir) + 1
    BY <2>2
  <2> QED
    BY <2>2, <2>3 DEF LibInv, AtLibrary, NothingWanted
<1>4. CASE loadlib
  <2>1. lib'.i = 1 /\ stage' = "loadlib" /\ UNCHANGED <<link, walk>> /\ lib'.library = lib.library
    BY <1>0, <1>4 DEF loadlib, RoundStart, LibOK
  <2> QED
    BY <1>1, <1>2, <2>1 DEF LibInv, Settled, NothingWanted
<1>5. CASE NextLibrary
  <2>1. /\ stage = "loadlib" /\ lib.i \in 1..Len(lib.library) /\ UNCHANGED <<link, sym>>
        /\ lib'.i = lib.i + 1 /\ lib'.library = lib.library /\ lib'.xrefresolv = lib.xrefresolv
    BY <1>0, <1>1, <1>5 DEF NextLibrary, LibInv, LibOK
  <2>2. /\ objfile(lib.library[lib.i], "loadlib")
        /\ lib.library[lib.i] \in Files /\ link.files[lib.library[lib.i]].archive
    BY <1>5, <2>1 DEF NextLibrary, Archives
  <2>3. /\ walk'.dir \in Seq(Entries') /\ stage' = "walk" /\ walk'.e = 1 /\ ~walk'.work
        /\ walk'.dir = link.files[lib.library[lib.i]].dir
    BY <2>1, <2>2, OpensLibrary DEF LibInv
  <2>4. Settled(lib.i - 1)
    BY <2>1 DEF LibInv
  <2>5. Settled(lib.i - 2)'
    BY <1>1, <2>1, <2>4 DEF Settled, NoneWanted, Wanted, Type
  <2>6. AtLibrary' /\ walk'.e <= Len(walk'.dir) + 1
    BY <1>1, <2>1, <2>3 DEF AtLibrary
  <2> QED
    BY <2>3, <2>5, <2>6 DEF LibInv, NothingWanted
<1>6. CASE EndRound
  <2>1. stage = "loadlib" /\ UNCHANGED <<link, walk, sym>> /\ lib.i = Len(lib.library) + 1
        /\ Settled(Len(lib.library)) /\ lib'.library = lib.library
    <3>1. stage = "loadlib" /\ UNCHANGED <<link, walk, sym>> /\ lib.i > Len(lib.library)
          /\ (lib' = RoundStart(lib) \/ lib' = lib)
      BY <1>6 DEF EndRound
    <3>2. lib.i \in 1..Len(lib.library) + 1 /\ Settled(lib.i - 1)
      BY <3>1 DEF LibInv
    <3>3. lib.i = Len(lib.library) + 1 /\ lib.i - 1 = Len(lib.library)
      BY <1>1, <3>1, <3>2
    <3>4. lib'.library = lib.library
      BY <1>0, <3>1 DEF LibOK, RoundStart
    <3> QED
      BY <3>1, <3>2, <3>3, <3>4
  <2>2. CASE Unresolved
    <3>1. stage' = "loadlib" /\ lib'.i = 1
      BY <1>0, <1>6, <2>1, <2>2 DEF EndRound, RoundStart, LibOK
    <3> QED
      BY <1>1, <1>2, <2>1, <3>1 DEF LibInv, Settled, NothingWanted
  <2>3. CASE ~Unresolved
    <3>1. \A i \in 1..Len(lib.library) : NoneWanted(i)
      BY <2>1, <2>3, NothingOpen DEF Unresolved, Settled, NoneWanted
    <3>2. stage' \in {"exit", "mkfwd"} /\ lib' = lib
      BY <1>6, <2>3 DEF EndRound
    <3> QED
      BY <1>2, <2>1, <3>1, <3>2 DEF LibInv, NothingWanted, NoneWanted, Wanted, Type
  <2> QED
    BY <2>2, <2>3
<1>7. CASE PassEntry
  <2>1. /\ stage = "walk" /\ stage' = "walk" /\ UNCHANGED <<link, lib, sym>>
        /\ walk.e <= Len(walk.dir) /\ ~Wanted(walk.dir[walk.e])
        /\ walk'.e = walk.e + 1 /\ walk'.dir = walk.dir
        /\ walk'.work = walk.work /\ walk'.ret = walk.ret
    BY <1>0, <1>7 DEF PassEntry, WalkOK
  <2>2. walk'.work \/ (\A e \in 1..walk.e - 1 : ~Wanted(walk.dir[e]))'
    <3>1. PICK n, d : n \in Nat /\ n = walk.e /\ d = walk.dir
      BY <1>1
    <3>2. \A e \in 1..n : e = n \/ e \in 1..n - 1
      BY <3>1
    <3>3. walk.work \/ \A e \in 1..n : ~Wanted(d[e])
      BY <2>1, <3>1, <3>2 DEF LibInv
    <3>4. walk'.e - 1 = n /\ walk'.dir = d
      BY <2>1, <3>1
    <3> QED
      BY <2>1, <3>3, <3>4 DEF Wanted, Type
  <2>3. walk'.work => lib'.xrefresolv
    BY <2>1 DEF LibInv
  <2>4. AtLibrary' /\ (walk'.ret = "loadlib" => Settled(lib.i - 2)')
    BY <2>1 DEF LibInv, AtLibrary, Settled, NoneWanted, Wanted, Type
  <2>5. walk'.e <= Len(walk'.dir) + 1 /\ walk'.dir \in Seq(Entries')
    BY <1>1, <1>2, <2>1 DEF LibInv
  <2> QED
    BY <2>1, <2>2, <2>3, <2>4, <2>5 DEF LibInv, NothingWanted
<1>8. CASE LoadMember
  <2>1. /\ stage = "walk" /\ stage' = "ld" /\ ld'.ret = "member" /\ UNCHANGED <<link, lib, walk>>
        /\ walk.e <= Len(walk.dir)
    BY <1>8 DEF LoadMember, NewUnit
  <2> QED
    BY <1>2, <2>1 DEF LibInv, AtLibrary, NothingWanted
<1>9. CASE MemberLoaded
  <2>1. stage = "member" /\ UNCHANGED <<link, ld>> /\ ld.ret = "member"
        /\ AtLibrary /\ walk.e <= Len(walk.dir)
    BY <1>9 DEF MemberLoaded, LibInv
  <2>2. CASE Wanted(walk.dir[walk.e])
    BY <1>2, <1>9, <2>1, <2>2 DEF MemberLoaded, LibInv, NothingWanted
  <2>3. CASE ~Wanted(walk.dir[walk.e])
    <3>1. /\ stage' = "walk" /\ lib'.xrefresolv /\ lib'.i = lib.i /\ lib'.library = lib.library
          /\ walk'.dir = walk.dir /\ walk'.e = walk.e + 1 /\ walk'.work /\ walk'.ret = walk.ret
      BY <1>0, <1>9, <2>3 DEF MemberLoaded, LibOK, WalkOK
    <3>2. AtLibrary' /\ walk'.e <= Len(walk'.dir) + 1 /\ walk'.dir \in Seq(Entries')
      BY <1>1, <1>2, <2>1, <3>1 DEF AtLibrary, LibInv
    <3>3. Settled(lib.i - 2)'
      BY <3>1 DEF Settled
    <3> QED
      BY <3>1, <3>2, <3>3 DEF LibInv, NothingWanted
  <2> QED
    BY <2>2, <2>3
<1>10. CASE EndPass
  <2>1. /\ stage = "walk" /\ walk.e = Len(walk.dir) + 1 /\ UNCHANGED <<link, lib, sym>>
        /\ AtLibrary /\ walk.dir \in Seq(Entries)
        /\ walk.ret = "loadlib" => Settled(lib.i - 2)
    BY <1>1, <1>10 DEF EndPass, LibInv
  <2>2. CASE walk.work
    <3>1. /\ stage' = "walk" /\ walk'.e = 1 /\ ~walk'.work /\ walk'.dir = walk.dir
          /\ walk'.ret = walk.ret
      BY <1>0, <1>10, <2>1, <2>2 DEF EndPass, WalkOK
    <3>2. AtLibrary' /\ (walk'.ret = "loadlib" => Settled(lib.i - 2)')
      BY <2>1, <3>1 DEF AtLibrary, Settled, NoneWanted, Wanted, Type
    <3>3. walk'.e <= Len(walk'.dir) + 1 /\ walk'.dir \in Seq(Entries')
      BY <1>2, <2>1, <3>1
    <3> QED
      BY <3>1, <3>2, <3>3 DEF LibInv, NothingWanted
  <2>3. CASE ~walk.work
    <3>1. stage' = walk.ret /\ walk' = walk
      BY <1>10, <2>3 DEF EndPass
    <3>2. CASE walk.ret = "args"
      BY <1>2, <2>1, <3>1, <3>2 DEF LibInv, NothingWanted
    <3>3. CASE walk.ret = "loadlib"
      <4>1. \A e \in ToSet(walk.dir) : ~Wanted(e)
        <5>1. \A e \in 1..Len(walk.dir) : ~Wanted(walk.dir[e])
          BY <1>1, <2>1, <2>3 DEF LibInv
        <5> QED
          BY <2>1, <5>1, EntryOf
      <4>2. lib.i - 1 \in 1..Len(lib.library) /\ NoneWanted(lib.i - 1)
        BY <2>1, <3>3, <4>1 DEF AtLibrary, NoneWanted
      <4>3. Settled(lib.i - 1)
        BY <1>1, <2>1, <3>3, <4>2 DEF Settled
      <4>4. Settled(lib.i - 1)' /\ lib'.i \in 1..Len(lib'.library) + 1
        BY <1>1, <2>1, <4>2, <4>3 DEF Settled, NoneWanted, Wanted, Type
      <4> QED
        BY <1>2, <2>1, <3>1, <3>3, <4>4 DEF LibInv, NothingWanted
    <3> QED
      BY <1>0, <3>2, <3>3 DEF WalkOK
  <2> QED
    BY <2>2, <2>3
<1>11. CASE LoadRecord
  <2>1. /\ UNCHANGED <<link, args, walk>> /\ stage = "ld" /\ stage' \in {"ld", ld.ret}
        /\ ld'.ret = ld.ret
        /\ \/ lib' = lib
           \/ \E name : lib' = [lib EXCEPT !.library = Append(@, name)]
    BY <1>11, RecordFrame
  <2>2. /\ lib'.i = lib.i /\ Len(lib'.library) \in Nat /\ Len(lib.library) <= Len(lib'.library)
        /\ \A i \in 1..Len(lib.library) : lib'.library[i] = lib.library[i]
    BY <1>0, <1>1, <2>1, AppendIsSeq DEF LibOK
  <2>3. /\ ld.ret # "loadlib"
        /\ ld.ret = "member" => AtLibrary' /\ walk.e <= Len(walk.dir)
    <3>1. ld.ret = "member" => AtLibrary
      BY <2>1 DEF LibInv
    <3>2. AtLibrary => AtLibrary'
      BY <1>1, <2>1, <2>2 DEF AtLibrary
    <3> QED
      BY <2>1, <3>1, <3>2 DEF LibInv
  <2>4. stage' \in {"ld", "args", "member"} /\ (stage' = "member" => ld.ret = "member")
    BY <1>0, <2>1, <2>3 DEF LdOK
  <2> QED
    BY <1>2, <2>1, <2>3, <2>4 DEF LibInv, NothingWanted
<1>12. CASE Layout
  BY <1>2, <1>12, LayoutFrame DEF LibInv, NothingWanted, Later
<1>13. CASE UNCHANGED vars
  BY <1>2, <1>13 DEF vars, LibInv, NothingWanted, AtLibrary, Settled, NoneWanted, Wanted, Type
<1> QED
  BY <1>3, <1>4, <1>5, <1>6, <1>7, <1>8, <1>9, <1>10, <1>11, <1>12, <1>13
     DEF Next, Load, LoadRecord

(* When loading is done with libraries, whether of the command line or     *)
(* asked for by objects and members, in whatever order their directories   *)
(* are and however their members need each other, none has a member for a  *)
(* reference that is still open (loadlib and objfile, cmd/il/obj.c).       *)
THEOREM LibrariesDone == Spec => [](Archives => NothingWanted)
<1>1. Init => IInv
  BY StartsLoading
<1>2. IInv /\ [Next]_vars => IInv'
  BY TypesStay, ArchivesBefore, LibStep DEF IInv
<1>3. IInv => (Archives => NothingWanted)
  BY DEF IInv, LibInv
<1> QED
  BY <1>1, <1>2, <1>3, PTL DEF Spec

-----------------------------------------------------------------------------
(* Functions: what a Prog keeps                                            *)

LEMMA LoadedFields ==
  /\ DOMAIN Loaded = Fields /\ Loaded.src = Record.p /\ Loaded.pc = Len(code)
  /\ Loaded.as = Record.p.as
  /\ DOMAIN Loaded.from = DOMAIN Record.p.from
  BY DEF Loaded, Fields, Operand

LEMMA RebasedKeeps ==
  ASSUME NEW p, DOMAIN p = Fields
  PROVE  LET q == Rebased(p)
         IN DOMAIN q = Fields /\ q.src = p.src /\ q.pc = p.pc /\ q.as = p.as /\ q.from = p.from
  BY DEF Rebased, Fields

Nop(p) == [p EXCEPT !.as = "NOP", !.from.type = "NONE", !.to.type = "NONE"]
LEMMA NopKeeps ==
  ASSUME NEW p, DOMAIN p = Fields
  PROVE  LET q == Rebased(Nop(p))
         IN /\ DOMAIN q = Fields /\ q.src = p.src /\ q.pc = p.pc /\ q.as = "NOP"
            /\ DOMAIN p.from = DOMAIN None => q.from.sym = p.from.sym
<1> DEFINE r == Nop(p)
<1>1. /\ DOMAIN r = Fields /\ r.src = p.src /\ r.pc = p.pc /\ r.as = "NOP"
      /\ DOMAIN p.from = DOMAIN None => r.from.sym = p.from.sym
  BY DEF Nop, Fields, None, Adr
<1> HIDE DEF r
<1>2. Rebased(Nop(p)) = Rebased(r)
  BY DEF r
<1> QED
  BY <1>1, <1>2, RebasedKeeps

LEMMA LinkedForms ==
  ASSUME NEW p, NEW skip, Linked(p, skip)
  PROVE  code' = Append(code, IF skip THEN Rebased(Nop(p)) ELSE Rebased(p))
  BY DEF Linked, Skipped, Nop

LEMMA RewrittenKeeps ==
  ASSUME NEW p, DOMAIN p = Fields
  PROVE  DOMAIN Rewritten(p) = Fields /\ Rewritten(p).src = p.src
<1>1. ASSUME NEW r, DOMAIN r = Fields, r.src = p.src
      PROVE  DOMAIN Swapped(r) = Fields /\ Swapped(r).src = p.src
  BY <1>1 DEF Swapped, Fields
<1>2. \A a : LET r == [p EXCEPT !.as = a] IN DOMAIN r = Fields /\ r.src = p.src
  BY DEF Fields
<1> QED
  BY <1>1, <1>2 DEF Rewritten, Fields

-----------------------------------------------------------------------------
(* Functions: symbols                                                      *)

KeptSym(s) == /\ IsData(s) => IsData(s)'
              /\ Type(s) = "STEXT" => Type(s)' = "STEXT" /\ Value(s)' = Value(s)

LEMMA PutSym ==
  ASSUME NEW s, NEW t, NEW v, Defined(s, t, v), NEW x
  PROVE  IF x = s THEN Type(x)' = t /\ Value(x)' = v
                  ELSE Type(x)' = Type(x) /\ Value(x)' = Value(x)
  BY DEF Defined, Put, Type, Value

LEMMA OverSym ==
  ASSUME NEW g, NEW f, sym' = Over(g, f), DOMAIN f = DOMAIN sym, NEW x
  PROVE  IF x \in DOMAIN g THEN Type(x)' = g[x].type /\ Value(x)' = g[x].value
         ELSE IF x \in DOMAIN sym THEN Type(x)' = f[x].type /\ Value(x)' = f[x].value
         ELSE Type(x)' = Type(x) /\ Value(x)' = Value(x)
  BY DEF Over, Type, Value

LEMMA SymbolsKept ==
  ASSUME TypeOK, CodeOK, TodoOK, [Next]_vars, NEW x
  PROVE  (diags' = {} => KeptSym(x)) /\ Type(x)' \in Types
<1> USE DEF KeptSym, IsData, DataTypes, Types
<1> DEFINE Goal == (diags' = {} => KeptSym(x)) /\ Type(x)' \in Types
<1>a. Type(x) \in Types
  BY DEF CodeOK, Type
<1>0. sym' = sym => Goal
  BY <1>a DEF Type, Value
<1>1. CASE LoadName
  <2>1. CASE Type(Lookup(Record)) = "0" /\ Defined(Lookup(Record), "SXREF", 0)
    BY <1>a, <2>1, PutSym
  <2> QED
    BY <1>0, <1>1, <2>1 DEF LoadName
<1>2. CASE LoadGlobl
  <2> DEFINE s == Loaded.from.sym
             v == Bigger(Loaded.to.offset, IF Type(s) = "SBSS" THEN Value(s) ELSE 0)
  <2>1. Defined(s, "SBSS", v) /\ (diags' = {} => Type(s) \in {"0", "SXREF", "SBSS"})
    BY <1>2 DEF LoadGlobl
  <2> HIDE DEF s, v
  <2> QED
    BY <1>a, <2>1, PutSym
<1>3. CASE LoadText
  <2> DEFINE s == Loaded.from.sym
  <2>1. \E o : LET q == [Loaded EXCEPT !.to.offset = o] IN
          \/ sym' = sym
          \/ ~(Duplicate /\ MaySkip) /\ Defined(q.from.sym, "STEXT", q.pc)
    BY <1>3 DEF LoadText
  <2>2. \/ sym' = sym
        \/ ~(Duplicate /\ MaySkip) /\ Defined(s, "STEXT", Len(code))
    BY <2>1, LoadedFields DEF Fields
  <2>3. diags' = {} => ~(Duplicate /\ ~MaySkip)
    BY <1>3 DEF LoadText
  <2>4. CASE Defined(s, "STEXT", Len(code)) /\ (diags' = {} => Type(s) \in {"0", "SXREF"})
    BY <1>a, <2>4, PutSym
  <2> QED
    BY <1>0, <2>2, <2>3, <2>4 DEF Duplicate
<1>4. CASE LoadFloat
  <2>1. sym' = sym \/ \E s, w : Type(s) = "0" /\ Defined(s, "SBSS", w)
    BY <1>4 DEF LoadFloat
  <2> QED
    BY <1>0, <1>a, <2>1, PutSym
<1>5. CASE Patch
  <2> DEFINE g == [s \in Undefined |-> [type |-> "STEXT", value |-> Value(<<"exit", 0>>)]]
  <2>1. sym' = Over(g, sym) /\ (diags' = {} => Undefined = {})
    BY <1>5 DEF Patch
  <2>2. DOMAIN g = Undefined /\ \A s \in DOMAIN g : g[s].type = "STEXT"
    OBVIOUS
  <2> HIDE DEF g
  <2> QED
    BY <1>a, <2>1, <2>2, OverSym DEF Type, Value
<1>6. CASE StartData
  <2> DEFINE initialised == {d.from.sym : d \in datap}
             size(s) == RoundUp(IF Value(s) = 0 THEN 1 ELSE Value(s), 4)
             g == [s \in OfType({"SBSS"}) |->
                     [type |-> IF s \in initialised THEN "SDATA" ELSE "SBSS", value |-> size(s)]]
  <2>1. sym' = Over(g, sym)
    BY <1>6 DEF StartData
  <2>2. DOMAIN g = OfType({"SBSS"}) /\ \A s \in DOMAIN g : g[s].type \in {"SDATA", "SBSS"}
    OBVIOUS
  <2> HIDE DEF g
  <2> QED
    BY <1>a, <2>1, <2>2, OverSym DEF Type, Value, OfType
<1>7. CASE PlaceSymbol
  <2>1. PICK s \in lay.todo, t \in {"SBSS", "SDATA1"} : \E o : sym' = [sym EXCEPT ![s] = [type |-> t, value |-> o]]
    BY <1>7 DEF PlaceSymbol
  <2>2. IsData(s)
    BY <1>7, <2>1 DEF TodoOK, PlaceSymbol
  <2> QED
    BY <1>a, <2>1, <2>2 DEF Type, Value
<1>8. CASE EndSmall
  <2> DEFINE g == [s \in OfType({"SDATA1"}) |-> [type |-> "SDATA", value |-> Value(s)]]
  <2>1. sym' = Over(g, sym)
    BY <1>8 DEF EndSmall
  <2>2. DOMAIN g = OfType({"SDATA1"}) /\ \A s \in DOMAIN g : g[s].type = "SDATA"
    OBVIOUS
  <2> HIDE DEF g
  <2> QED
    BY <1>a, <2>1, <2>2, OverSym DEF Type, Value, OfType
<1>9. CASE PlaceLiterals
  <2>1. PICK g : sym' = Over(g, sym) /\ \A s \in DOMAIN g : s \notin DOMAIN sym /\ g[s].type = "SDATA"
    <3> DEFINE wide == {i \in 1..Len(code) : Wide(code[i])}
               name == [i \in wide |-> Digits(code[i].from.offset)]
               first == {i \in wide : name[i] \notin DOMAIN sym
                                      /\ \A j \in wide : name[j] = name[i] => i <= j}
               place(i) == lay.orig1 + 8 * Cardinality({j \in first : j < i})
               g == [s \in {name[i] : i \in first} |->
                       [type |-> "SDATA", value |-> place(CHOOSE i \in first : name[i] = s)]]
    <3>1. sym' = Over(g, sym)
      BY <1>9 DEF PlaceLiterals
    <3>2. \A s \in DOMAIN g : s \notin DOMAIN sym /\ g[s].type = "SDATA"
      OBVIOUS
    <3> HIDE DEF g
    <3> QED
      BY <3>1, <3>2
  <2> QED
    BY <1>a, <2>1, OverSym DEF Type, Value
<1>10. CASE Readjust
  <2> DEFINE moved == [s \in DOMAIN sym |->
                     [type  |-> IF sym[s].type = "SDATA1" THEN "SDATA" ELSE sym[s].type,
                      value |-> IF Behind(s) THEN sym[s].value + lay.orig ELSE sym[s].value]]
  <2>1. PICK g : sym' = Over(g, moved) /\ \A s \in DOMAIN g : Type(s) \in {"0", "SXREF"} /\ g[s].type \in Types
    <3> DEFINE datsize == lay.datsize + lay.orig
               xdefine == [n \in {"setSB", "bdata", "edata", "end", "etext"} |->
                       CASE n = "setSB" -> [type |-> "SDATA", value |-> BIG]
                         [] n = "bdata" -> [type |-> "SDATA", value |-> 0]
                         [] n = "edata" -> [type |-> "SDATA", value |-> datsize]
                         [] n = "end" -> [type |-> "SBSS", value |-> datsize + lay.bsssize]
                         [] n = "etext" -> [type |-> "STEXT", value |-> 0]]
               asked == {n \in DOMAIN xdefine : Type(<<n, 0>>) \in {"0", "SXREF"}}
               h == [s \in {<<n, 0>> : n \in asked} |-> xdefine[s[1]]]
    <3>1. sym' = Over(h, moved)
      BY <1>10 DEF Readjust
    <3>2. \A s \in DOMAIN h : Type(s) \in {"0", "SXREF"} /\ h[s].type \in Types
      <4>1. \A n \in DOMAIN xdefine : xdefine[n].type \in Types
        OBVIOUS
      <4>2. \A n \in asked : n \in DOMAIN xdefine /\ Type(<<n, 0>>) \in {"0", "SXREF"}
        OBVIOUS
      <4> HIDE DEF xdefine, asked
      <4>3. \A s \in DOMAIN h : \E n \in asked : s = <<n, 0>> /\ h[s] = xdefine[n]
        OBVIOUS
      <4> HIDE DEF h
      <4> QED
        BY <4>1, <4>2, <4>3
    <3> HIDE DEF h
    <3> QED
      BY <3>1, <3>2
  <2>2. /\ DOMAIN moved = DOMAIN sym
        /\ \A s \in DOMAIN sym :
             /\ moved[s].type = IF sym[s].type = "SDATA1" THEN "SDATA" ELSE sym[s].type
             /\ sym[s].type = "STEXT" => moved[s].value = sym[s].value
    BY DEF Behind
  <2> HIDE DEF moved
  <2> QED
    BY <1>a, <2>1, <2>2, OverSym DEF Type, Value
<1>11. CASE \/ NextArg \/ loadlib \/ NextLibrary \/ EndRound \/ PassEntry \/ LoadMember
            \/ MemberLoaded \/ EndPass \/ LoadHistory \/ LoadEnd \/ LoadData \/ LoadInstruction
            \/ mkfwd \/ EndLarge \/ EndBss \/ Undef \/ UNCHANGED vars
  BY <1>0, <1>11 DEF NextArg, loadlib, NextLibrary, EndRound, PassEntry, LoadMember, MemberLoaded,
         EndPass, LoadHistory, LoadEnd, LoadData, LoadInstruction, mkfwd, EndLarge, EndBss, Undef, vars
<1> QED
  BY <1>1, <1>2, <1>3, <1>4, <1>5, <1>6, <1>7, <1>8, <1>9, <1>10, <1>11 DEF Next, Load, Layout

LEMMA TypesOfSymbols ==
  ASSUME TypeOK, CodeOK, TodoOK, [Next]_vars
  PROVE  (\A s \in DOMAIN sym : Type(s) \in Types)'
  BY SymbolsKept

LEMMA TodoStays ==
  ASSUME TypeOK, CodeOK, TodoOK, [Next]_vars
  PROVE  TodoOK'
<1> USE DEF TodoOK, IsData
<1>1. CASE StartData
  <2> DEFINE initialised == {d.from.sym : d \in datap}
             size(s) == RoundUp(IF Value(s) = 0 THEN 1 ELSE Value(s), 4)
             data == OfType({"SBSS"})
             g == [s \in data |->
                     [type |-> IF s \in initialised THEN "SDATA" ELSE "SBSS", value |-> size(s)]]
  <2>1. sym' = Over(g, sym) /\ lay' = [lay EXCEPT !.todo = {s \in data : Small(size(s))}]
    BY <1>1 DEF StartData
  <2>2. DOMAIN g = data /\ \A s \in DOMAIN g : g[s].type \in {"SDATA", "SBSS"}
    OBVIOUS
  <2>3. lay'.todo \subseteq data /\ DOMAIN lay' = DOMAIN lay
    BY <2>1
  <2> HIDE DEF g, data
  <2>4. \A s \in lay'.todo : Type(s)' \in {"SDATA", "SBSS"}
    BY <2>1, <2>2, <2>3, OverSym
  <2> QED
    BY <2>3, <2>4 DEF DataTypes
<1>2. CASE PlaceSymbol
  <2>1. lay'.todo \subseteq lay.todo /\ DOMAIN lay' = DOMAIN lay /\ stage' = stage
    BY <1>2 DEF PlaceSymbol
  <2>2. \E s \in lay.todo, t \in {"SBSS", "SDATA1"} : \E o : sym' = [sym EXCEPT ![s] = [type |-> t, value |-> o]]
    BY <1>2 DEF PlaceSymbol
  <2>3. \A s : Type(s) \in DataTypes => Type(s)' \in DataTypes
    BY <2>2 DEF Type, DataTypes
  <2> QED
    BY <2>1, <2>3
<1>3. CASE EndSmall
  <2> DEFINE g == [s \in OfType({"SDATA1"}) |-> [type |-> "SDATA", value |-> Value(s)]]
  <2>1. sym' = Over(g, sym) /\ lay'.todo = OfType({"SDATA"}) /\ DOMAIN lay' = DOMAIN lay
    BY <1>3 DEF EndSmall
  <2>2. DOMAIN g = OfType({"SDATA1"})
    OBVIOUS
  <2> HIDE DEF g
  <2>3. \A s \in OfType({"SDATA"}) : Type(s)' = "SDATA"
    BY <2>1, <2>2, OverSym DEF OfType
  <2> QED
    BY <2>1, <2>3 DEF DataTypes
<1>4. CASE EndLarge
  <2>1. sym' = sym /\ lay'.todo = OfType({"SBSS"}) /\ DOMAIN lay' = DOMAIN lay
    BY <1>4 DEF EndLarge
  <2> QED
    BY <2>1 DEF DataTypes, OfType, Type
<1>5. CASE mkfwd \/ Patch \/ EndBss \/ PlaceLiterals \/ Readjust \/ Undef
  <2>1. DOMAIN lay' = DOMAIN lay /\ stage' \notin {"small", "large", "bss"}
    BY <1>5 DEF mkfwd, Patch, EndBss, PlaceLiterals, Readjust, Undef
  <2> QED
    BY <2>1
<1>6. CASE Load
  <2>1. lay' = lay
    BY <1>6 DEF Load, NextArg, loadlib, NextLibrary, EndRound, PassEntry,
         LoadMember, MemberLoaded, EndPass, LoadName, LoadHistory, LoadEnd, LoadGlobl,
         LoadData, LoadText, LoadInstruction, LoadFloat
  <2>2. stage' \notin {"small", "large", "bss"}
    <3>1. CASE LoadRecord
      BY <3>1, RecordFrame DEF TypeOK, LdOK
    <3>2. CASE ~LoadRecord
      BY <1>6, <3>2 DEF Load, LoadRecord, NextArg, loadlib, NextLibrary, EndRound, PassEntry,
         LoadMember, MemberLoaded, EndPass, objfile, NewUnit, TypeOK, WalkOK
    <3> QED
      BY <3>1, <3>2
  <2> QED
    BY <2>1, <2>2
<1>7. CASE UNCHANGED vars
  BY <1>7 DEF vars, Type
<1> QED
  BY <1>1, <1>2, <1>3, <1>4, <1>5, <1>6, <1>7 DEF Next, Layout

-----------------------------------------------------------------------------
(* Functions: the list of Progs                                            *)

(* What the passes behind loading leave of a Prog; only a MOV changes.     *)
SameProg(p, q) == /\ DOMAIN q = Fields /\ q.src = p.src /\ q.pc = p.pc
                  /\ p.as \notin {"MOV", "MOVW"} => q.as = p.as /\ q.from = p.from
SameCode == /\ IsSeq(code') /\ Len(code') = Len(code)
            /\ \A i \in 1..Len(code) : SameProg(code[i], code'[i])

LEMMA MapSame ==
  ASSUME CodeOK, NEW f, code' = [i \in 1..Len(code) |-> f[i]],
         \A i \in 1..Len(code) : SameProg(code[i], f[i])
  PROVE  SameCode
<1>1. Len(code) \in Nat
  <2> DEFINE T == ToSet(code)
  <2>1. code \in Seq(T)
    BY DEF CodeOK, IsSeq
  <2> HIDE DEF T
  <2> QED
    BY <2>1
<1> DEFINE c == [i \in 1..Len(code) |-> f[i]]
<1>2. DOMAIN c = 1..Len(code) /\ \A i \in 1..Len(code) : c[i] = f[i]
  OBVIOUS
<1>3. \A i \in 1..Len(code) : c[i] \in ToSet(c)
  BY <1>2 DEF ToSet
<1>4. c = [i \in 1..Len(code) |-> c[i]]
  OBVIOUS
<1> HIDE DEF c
<1>5. c \in Seq(ToSet(c)) /\ Len(c) = Len(code)
  BY <1>1, <1>2, <1>3, <1>4, SeqDef, LenProperties
<1>6. code' = c
  BY DEF c
<1> QED
  BY <1>2, <1>5, <1>6 DEF SameCode, IsSeq

LEMMA UnchangedSame ==
  ASSUME CodeOK, code' = code
  PROVE  SameCode
  BY DEF CodeOK, SameCode, SameProg

LEMMA LayoutCode ==
  ASSUME CodeOK, Layout
  PROVE  SameCode
<1>0. \A i \in 1..Len(code) : DOMAIN code[i] = Fields
  BY DEF CodeOK
<1>1. CASE mkfwd
  <2>1. \E g : code' = [p \in 1..Len(code) |-> [code[p] EXCEPT !.forwd = g[p]]]
    BY <1>1 DEF mkfwd
  <2>2. PICK g : code' = [p \in 1..Len(code) |-> [code[p] EXCEPT !.forwd = g[p]]]
    BY <2>1
  <2> DEFINE f == [p \in 1..Len(code) |-> [code[p] EXCEPT !.forwd = g[p]]]
  <2>3. \A i \in 1..Len(code) : SameProg(code[i], f[i])
    BY <1>0 DEF SameProg, Fields
  <2>4. code' = [i \in 1..Len(code) |-> f[i]]
    BY <2>2
  <2> HIDE DEF f
  <2> QED
    BY <2>3, <2>4, MapSame
<1>2. CASE Patch
  <2> DEFINE entry(s) == IF s \in Undefined THEN Value(<<"exit", 0>>) ELSE Value(s)
             target(p) == IF Calls(p) THEN [p EXCEPT !.to.offset = entry(p.to.sym),
                                                     !.to.type = "BRANCH"] ELSE p
             patched(p) == IF p.to.type # "BRANCH" THEN p
                           ELSE [p EXCEPT !.cond = Find(p.to.offset)]
             f == [i \in 1..Len(code) |-> patched(target(code[i]))]
  <2>1. code' = [i \in 1..Len(code) |-> f[i]]
    <3>1. code' = f
      BY <1>2, Zenon DEF Patch
    <3>2. f = [i \in 1..Len(code) |-> f[i]]
      OBVIOUS
    <3> QED
      BY <3>1, <3>2
  <2>2. ASSUME NEW i \in 1..Len(code)
        PROVE  SameProg(code[i], f[i])
    <3> DEFINE t == target(code[i])
    <3>1. DOMAIN t = Fields /\ t.src = code[i].src /\ t.pc = code[i].pc /\ t.as = code[i].as
          /\ t.from = code[i].from
      BY <1>0 DEF Fields
    <3> HIDE DEF t
    <3>2. LET q == patched(t) IN
          DOMAIN q = Fields /\ q.src = t.src /\ q.pc = t.pc /\ q.as = t.as /\ q.from = t.from
      BY <3>1 DEF Fields
    <3>3. f[i] = patched(t)
      BY DEF t
    <3> HIDE DEF f, patched
    <3> QED
      BY <3>1, <3>2, <3>3 DEF SameProg
  <2> HIDE DEF f
  <2> QED
    BY <2>1, <2>2, MapSame
<1>3. CASE PlaceLiterals
  <2> DEFINE wide == {i \in 1..Len(code) : Wide(code[i])}
             f == [i \in 1..Len(code) |-> IF i \in wide THEN FromLiteral(code[i]) ELSE code[i]]
  <2>1. code' = [i \in 1..Len(code) |-> f[i]]
    BY <1>3 DEF PlaceLiterals
  <2>2. ASSUME NEW i \in 1..Len(code)
        PROVE  SameProg(code[i], f[i])
    <3>1. CASE Wide(code[i])
      <4> DEFINE p == code[i]
                 q == InMemory(p, Digits(p.from.offset))
      <4>1. DOMAIN q = Fields /\ q.src = p.src /\ q.pc = p.pc
        BY <1>0 DEF InMemory, Fields
      <4>2. f[i] = q \/ f[i] = [q EXCEPT !.as = "MOVW"]
        BY <3>1 DEF FromLiteral
      <4>3. p.as \in {"MOV", "MOVW"}
        BY <3>1 DEF Wide
      <4> HIDE DEF q, f
      <4> QED
        BY <4>1, <4>2, <4>3 DEF SameProg, Fields
    <3>2. CASE ~Wide(code[i])
      BY <1>0, <3>2 DEF SameProg
    <3> QED
      BY <3>1, <3>2
  <2> HIDE DEF f
  <2> QED
    BY <2>1, <2>2, MapSame
<1>4. CASE StartData \/ PlaceSymbol \/ EndSmall \/ EndLarge \/ EndBss \/ Readjust \/ Undef
  BY <1>4, UnchangedSame DEF StartData, PlaceSymbol, EndSmall, EndLarge, EndBss, Readjust, Undef
<1> QED
  BY <1>1, <1>2, <1>3, <1>4 DEF Layout

-----------------------------------------------------------------------------
(* Functions: the records of an object                                     *)

LEMMA SeqLen ==
  ASSUME NEW s, IsSeq(s)
  PROVE  Len(s) \in Nat /\ (s # <<>> <=> Len(s) > 0)
<1> DEFINE T == ToSet(s)
<1>1. s \in Seq(T)
  BY DEF IsSeq
<1> HIDE DEF T
<1> QED
  BY <1>1

LEMMA TailFormed ==
  ASSUME NEW o, Formed(o), ~IsEnd(Head(o))
  PROVE  /\ Formed(Tail(o)) /\ Head(o) = o[1] /\ 1 \in 1..Len(o)
         /\ Headed(o) /\ ~IsCode(Head(o)) => Headed(Tail(o))
         /\ Headed(o) /\ IsCode(Head(o)) => Head(o).p.as = "TEXT"
<1>1. PICK e \in 1..Len(o) : IsEnd(o[e])
  BY DEF Formed
<1>2. IsSeq(o) /\ Len(o) \in Nat /\ o # <<>>
  BY <1>1, SeqLen DEF Formed
<1>3. /\ IsSeq(Tail(o)) /\ Len(Tail(o)) = Len(o) - 1 /\ Head(o) = o[1]
      /\ \A i \in 1..Len(o) - 1 : Tail(o)[i] = o[i + 1]
  BY <1>2, TailIsSeq
<1>4. e # 1
  BY <1>1, <1>3
<1>5. Formed(Tail(o))
  <2>1. e - 1 \in 1..Len(Tail(o)) /\ Tail(o)[e - 1] = o[e]
    <3>1. e \in Nat /\ e >= 1 /\ e <= Len(o) /\ e - 1 \in 1..Len(o) - 1 /\ (e - 1) + 1 = e
      BY <1>1, <1>2, <1>4
    <3> QED
      BY <1>3, <3>1
  <2>2. \A k \in 1..Len(Tail(o)) : k + 1 \in 1..Len(o) /\ Tail(o)[k] = o[k + 1]
    BY <1>2, <1>3
  <2> QED
    BY <1>1, <1>3, <2>1, <2>2 DEF Formed
<1>6. ASSUME Headed(o), ~IsCode(o[1])
      PROVE  Headed(Tail(o))
  <2>1. ASSUME NEW k \in 1..Len(Tail(o)), IsCode(Tail(o)[k])
        PROVE  \E j \in 1..k : IsCode(Tail(o)[j]) /\ Tail(o)[j].p.as = "TEXT"
    <3>1. k + 1 \in 1..Len(o) /\ Tail(o)[k] = o[k + 1] /\ k \in Nat
      BY <1>2, <1>3
    <3>2. PICK j \in 1..k+1 : IsCode(o[j]) /\ o[j].p.as = "TEXT"
      BY <1>6, <2>1, <3>1 DEF Headed
    <3>3. j # 1
      BY <1>6, <3>2
    <3>4. j - 1 \in 1..k /\ j - 1 \in 1..Len(o) - 1 /\ (j - 1) + 1 = j
      BY <1>2, <3>1, <3>3
    <3>5. Tail(o)[j - 1] = o[j]
      BY <1>3, <3>4
    <3> QED
      BY <3>2, <3>4, <3>5
  <2> QED
    BY <2>1 DEF Headed
<1>7. ASSUME Headed(o), IsCode(o[1])
      PROVE  o[1].p.as = "TEXT"
  <2>1. 1 \in 1..Len(o) /\ \A j \in 1..1 : j = 1
    BY <1>2, SeqLen
  <2> QED
    BY <1>7, <2>1 DEF Headed
<1>8. 1 \in 1..Len(o)
  BY <1>2, SeqLen
<1> QED
  BY <1>3, <1>5, <1>6, <1>7, <1>8

(* Records that add nothing to the program.                                *)
LEMMA NotCode ==
  ASSUME TypeOK, CodeOK, LoadName \/ LoadHistory \/ LoadGlobl \/ LoadData
  PROVE  /\ ~IsCode(Record) /\ ~IsEnd(Record) /\ code' = code /\ link' = link
         /\ stage = "ld" /\ stage' = "ld" /\ cur'.text = cur.text /\ DOMAIN cur' = DOMAIN cur
         /\ ld'.left = Tail(ld.left) /\ ld'.units = ld.units /\ ld'.skip = ld.skip
<1>0. /\ ld = [left |-> ld.left, units |-> ld.units, h |-> ld.h, ipc |-> ld.ipc,
               skip |-> ld.skip, ret |-> ld.ret]
      /\ DOMAIN cur = {"version", "histfrog", "text", "auto"}
  BY DEF TypeOK, LdOK, CodeOK
<1>1. CASE LoadName
  BY <1>0, <1>1 DEF LoadName, AtName, IsCode, IsEnd
<1>2. CASE LoadHistory
  BY <1>0, <1>2 DEF LoadHistory, AtProg, Taken, IsCode, IsEnd, Instructions, relrev
<1>3. CASE LoadGlobl
  BY <1>0, <1>3 DEF LoadGlobl, AtProg, Taken, IsCode, IsEnd, Instructions, relrev
<1>4. CASE LoadData
  BY <1>0, <1>4 DEF LoadData, AtProg, Taken, IsCode, IsEnd, Instructions, relrev
<1> QED
  BY <1>1, <1>2, <1>3, <1>4

Taking == /\ IsCode(Record) /\ ~IsEnd(Record) /\ link' = link
          /\ stage = "ld" /\ stage' = "ld" /\ DOMAIN cur' = DOMAIN cur
          /\ ld'.left = Tail(ld.left) /\ ld'.units = ld.units
Added(q) == code' = Append(code, q) /\ DOMAIN q = Fields /\ q.src = Record.p

LEMMA Instruction ==
  ASSUME TypeOK, CodeOK, LoadInstruction \/ LoadFloat
  PROVE  /\ Taking /\ Record.p.as # "TEXT" /\ cur'.text = cur.text /\ ld'.skip = ld.skip
         /\ \E q : Added(q) /\ (ld.skip => q.as = "NOP")
<1>0. /\ ld = [left |-> ld.left, units |-> ld.units, h |-> ld.h, ipc |-> ld.ipc,
               skip |-> ld.skip, ret |-> ld.ret]
      /\ DOMAIN cur = {"version", "histfrog", "text", "auto"}
  BY DEF TypeOK, LdOK, CodeOK
<1>1. CASE LoadInstruction
  <2>1. Taking /\ Record.p.as # "TEXT" /\ cur'.text = cur.text /\ ld'.skip = ld.skip
    BY <1>0, <1>1 DEF LoadInstruction, AtProg, Taken, Taking, IsCode, IsEnd, Instructions, relrev
  <2> DEFINE r == [Loaded EXCEPT !.as = Narrowed(Loaded)]
             p == Rewritten(r)
             q == IF ld.skip THEN Rebased(Nop(p)) ELSE Rebased(p)
  <2>2. DOMAIN r = Fields /\ r.src = Record.p
    BY LoadedFields DEF Fields
  <2>3. code' = Append(code, q)
    BY <1>1, LinkedForms DEF LoadInstruction
  <2> HIDE DEF r
  <2>4. DOMAIN p = Fields /\ p.src = Record.p
    BY <2>2, RewrittenKeeps
  <2> HIDE DEF p
  <2>5. DOMAIN q = Fields /\ q.src = Record.p /\ (ld.skip => q.as = "NOP")
    BY <2>4, NopKeeps, RebasedKeeps
  <2> HIDE DEF q
  <2> QED
    BY <2>1, <2>3, <2>5 DEF Added
<1>2. CASE LoadFloat
  <2>1. Taking /\ Record.p.as # "TEXT" /\ cur'.text = cur.text /\ ld'.skip = ld.skip
    BY <1>0, <1>2 DEF LoadFloat, AtProg, Taken, Taking, IsCode, IsEnd
  <2>2. \/ Linked(Loaded, ld.skip)
        \/ ~ld.skip /\ \E s : Linked(InMemory(Loaded, s), FALSE)
    BY <1>2 DEF LoadFloat
  <2>3. CASE Linked(Loaded, ld.skip)
    <3> DEFINE q == IF ld.skip THEN Rebased(Nop(Loaded)) ELSE Rebased(Loaded)
    <3>1. DOMAIN q = Fields /\ q.src = Record.p /\ (ld.skip => q.as = "NOP")
      BY LoadedFields, NopKeeps, RebasedKeeps
    <3>2. code' = Append(code, q)
      BY <2>3, LinkedForms
    <3> HIDE DEF q
    <3> QED
      BY <2>1, <3>1, <3>2 DEF Added
  <2>4. ASSUME ~ld.skip, NEW s, Linked(InMemory(Loaded, s), FALSE)
        PROVE  \E q : Added(q) /\ (ld.skip => q.as = "NOP")
    <3> DEFINE p == InMemory(Loaded, s)
               q == Rebased(p)
    <3>1. DOMAIN p = Fields /\ p.src = Record.p
      BY LoadedFields DEF InMemory, Fields
    <3>2. code' = Append(code, q)
      BY <2>4 DEF Linked, Skipped
    <3> HIDE DEF p
    <3>3. DOMAIN q = Fields /\ q.src = Record.p
      BY <3>1, RebasedKeeps
    <3> HIDE DEF q
    <3> QED
      BY <2>4, <3>2, <3>3 DEF Added
  <2> QED
    BY <2>1, <2>2, <2>3, <2>4
<1> QED
  BY <1>1, <1>2

LEMMA TextRecord ==
  ASSUME TypeOK, CodeOK, Formed(ld.left), LoadText
  PROVE  /\ Taking /\ Record.p.as = "TEXT" /\ cur'.text = Len(code) + 1
         /\ ld'.skip = (Duplicate /\ MaySkip)
         /\ diags' = {} => ~(Duplicate /\ ~MaySkip)
         /\ IF Duplicate /\ MaySkip THEN sym' = sym
            ELSE Defined(Loaded.from.sym, "STEXT", Len(code))
         /\ \E q : /\ Added(q) /\ q.pc = Len(code) /\ q.from.sym = Loaded.from.sym
                   /\ q.as = IF Duplicate /\ MaySkip THEN "NOP" ELSE "TEXT"
<1>0. /\ ld = [left |-> ld.left, units |-> ld.units, h |-> ld.h, ipc |-> ld.ipc,
               skip |-> ld.skip, ret |-> ld.ret]
      /\ DOMAIN cur = {"version", "histfrog", "text", "auto"}
  BY DEF TypeOK, LdOK, CodeOK
<1> DEFINE skip == Duplicate /\ MaySkip
           Form(o) == [Loaded EXCEPT !.to.offset = o]
<1>1. /\ Taking /\ Record.p.as = "TEXT" /\ cur'.text = Len(code) + 1
      /\ ld'.skip = skip /\ (diags' = {} => ~(Duplicate /\ ~MaySkip))
  BY <1>0 DEF LoadText, AtProg, Taking, IsCode, IsEnd
<1>2. \E o : /\ Linked(Form(o), skip)
             /\ IF skip THEN sym' = sym ELSE Defined(Form(o).from.sym, "STEXT", Form(o).pc)
  BY DEF LoadText
<1>3. PICK o : /\ Linked(Form(o), skip)
               /\ IF skip THEN sym' = sym ELSE Defined(Form(o).from.sym, "STEXT", Form(o).pc)
  BY <1>2
<1> DEFINE p == Form(o)
           q == IF skip THEN Rebased(Nop(p)) ELSE Rebased(p)
<1>4. /\ DOMAIN p = Fields /\ p.src = Record.p /\ p.pc = Len(code) /\ p.as = "TEXT"
      /\ p.from = Loaded.from
  BY <1>1, LoadedFields DEF Fields
<1>5. DOMAIN p.from = DOMAIN None
  <2>1. Record = ld.left[1] /\ 1 \in 1..Len(ld.left)
    BY <1>1, TailFormed DEF Record, Taking
  <2> QED
    BY <1>1, <1>4, <2>1, LoadedFields DEF Formed, Taking
<1>6. code' = Append(code, q)
  BY <1>3 DEF Linked, Skipped, Nop
<1>7. IF skip THEN sym' = sym ELSE Defined(p.from.sym, "STEXT", p.pc)
  BY <1>3
<1> HIDE DEF p, skip
<1>8. /\ DOMAIN q = Fields /\ q.src = Record.p /\ q.pc = Len(code)
      /\ q.from.sym = Loaded.from.sym /\ q.as = IF skip THEN "NOP" ELSE "TEXT"
  BY <1>4, <1>5, NopKeeps, RebasedKeeps
<1> HIDE DEF q
<1>9. Added(q)
  BY <1>6, <1>8 DEF Added
<1>10. IF skip THEN sym' = sym ELSE Defined(Loaded.from.sym, "STEXT", Len(code))
  BY <1>4, <1>7
<1> QED
  BY <1>1, <1>8, <1>9, <1>10 DEF skip

-----------------------------------------------------------------------------
(* Functions: each step                                                    *)

(* Steps of loading that look at files, between records.                   *)
Outside == NextArg \/ loadlib \/ NextLibrary \/ EndRound \/ PassEntry \/ LoadMember
           \/ MemberLoaded \/ EndPass
LEMMA OutsideFrame ==
  ASSUME CodeOK, Outside
  PROVE  /\ UNCHANGED <<link, code, sym>> /\ DOMAIN cur' = DOMAIN cur
         /\ stage # "ld" /\ cur'.text = cur.text
         /\ diags' = {} => diags = {}
<1>1. DOMAIN cur = {"version", "histfrog", "text", "auto"}
  BY DEF CodeOK
<1>2. CASE NextArg \/ NextLibrary
  BY <1>1, <1>2 DEF NextArg, NextLibrary, objfile, NewUnit
<1>3. CASE LoadMember
  BY <1>1, <1>3 DEF LoadMember, NewUnit
<1>4. CASE loadlib \/ EndRound \/ PassEntry \/ MemberLoaded \/ EndPass
  BY <1>4 DEF loadlib, EndRound, PassEntry, MemberLoaded, EndPass
<1> QED
  BY <1>2, <1>3, <1>4 DEF Outside

LEMMA CodeStays ==
  ASSUME TypeOK, CodeOK, TodoOK, LeftOK, [Next]_vars
  PROVE  CodeOK'
<1>0. (\A s \in DOMAIN sym : Type(s) \in Types)'
  BY TypesOfSymbols
<1>1. ASSUME SameCode, DOMAIN cur' = DOMAIN cur
      PROVE  CodeOK'
  BY <1>0, <1>1 DEF CodeOK, SameCode, SameProg
<1>2. ASSUME NEW q, Added(q), DOMAIN cur' = DOMAIN cur
      PROVE  CodeOK'
  <2>1. IsSeq(code') /\ Len(code') = Len(code) + 1 /\ Len(code) \in Nat
        /\ (\A i \in 1..Len(code) : code'[i] = code[i]) /\ code'[Len(code) + 1] = q
    BY <1>2, AppendIsSeq DEF Added, CodeOK
  <2>2. \A i \in 1..Len(code') : DOMAIN code'[i] = Fields
    BY <1>2, <2>1 DEF Added, CodeOK
  <2> QED
    BY <1>0, <1>2, <2>1, <2>2 DEF CodeOK
<1>3. CASE Outside
  BY <1>1, <1>3, OutsideFrame, UnchangedSame
<1>4. CASE LoadName \/ LoadHistory \/ LoadGlobl \/ LoadData
  BY <1>1, <1>4, NotCode, UnchangedSame
<1>5. CASE LoadEnd
  <2>1. code' = code /\ DOMAIN cur' = DOMAIN cur
    BY <1>5 DEF LoadEnd, CodeOK
  <2> QED
    BY <1>1, <2>1, UnchangedSame
<1>6. CASE LoadInstruction \/ LoadFloat
  BY <1>2, <1>6, Instruction DEF Taking
<1>7. CASE LoadText
  <2>1. Formed(ld.left)
    BY <1>7 DEF LeftOK, LoadText, AtProg
  <2> QED
    BY <1>2, <1>7, <2>1, TextRecord DEF Taking
<1>8. CASE Layout
  BY <1>1, <1>8, LayoutCode, LayoutFrame
<1>9. CASE UNCHANGED vars
  BY <1>1, <1>9, UnchangedSame DEF vars
<1> QED
  BY <1>3, <1>4, <1>5, <1>6, <1>7, <1>8, <1>9 DEF Next, Load, Outside

LEMMA DirStays ==
  ASSUME TypeOK, LibrariesThere, walk.dir \in Seq(Entries), [Next]_vars
  PROVE  walk'.dir \in Seq(Entries')
<1>0. link' = link => Entries' = Entries
  BY DEF Entries, Objects, Files
<1>1. CASE NextArg
  <2>1. Head(args) \in Files /\ objfile(Head(args), "args") /\ link' = link
    BY <1>1 DEF NextArg, TypeOK, InputOK
  <2> QED
    BY <2>1, OpensLibrary
<1>2. CASE NextLibrary
  <2>1. lib.library[lib.i] \in Files /\ objfile(lib.library[lib.i], "loadlib") /\ link' = link
    BY <1>2, SeqLen DEF NextLibrary, TypeOK, LibOK, LibrariesThere
  <2> QED
    BY <2>1, OpensLibrary
<1>3. CASE loadlib \/ EndRound \/ LoadMember
  BY <1>0, <1>3 DEF loadlib, EndRound, LoadMember
<1>4. CASE PassEntry \/ MemberLoaded \/ EndPass
  BY <1>0, <1>4 DEF PassEntry, MemberLoaded, EndPass, TypeOK, WalkOK
<1>5. CASE LoadRecord
  BY <1>0, <1>5, RecordFrame
<1>6. CASE Layout
  BY <1>0, <1>6, LayoutFrame
<1>7. CASE UNCHANGED vars
  BY <1>0, <1>7 DEF vars
<1> QED
  BY <1>1, <1>2, <1>3, <1>4, <1>5, <1>6, <1>7 DEF Next, Load, LoadRecord

LEMMA CodeLen ==
  ASSUME CodeOK
  PROVE  Len(code) \in Nat /\ (code # <<>> <=> Len(code) > 0)
  BY SeqLen DEF CodeOK

LEMMA SameTexts ==
  ASSUME CodeOK, SameCode
  PROVE  /\ Len(code') = Len(code) /\ (code' = <<>> <=> code = <<>>)
         /\ \A i \in 1..Len(code) : IsText(i)' <=> IsText(i)
         /\ \A i, t \in 1..Len(code) : Inside(i, t)' <=> Inside(i, t)
<1>1. Len(code) \in Nat /\ (code # <<>> <=> Len(code) > 0) /\ (code' # <<>> <=> Len(code') > 0)
  BY CodeLen, SeqLen DEF SameCode
<1>2. \A i \in 1..Len(code) : IsText(i)' <=> IsText(i)
  BY DEF SameCode, SameProg, IsText, Source
<1>3. \A i, t \in 1..Len(code) : Inside(i, t)' <=> Inside(i, t)
  <2> TAKE i, t \in 1..Len(code)
  <2>1. \A u \in t+1..i : u \in 1..Len(code)
    BY <1>1
  <2> QED
    BY <1>2, <2>1 DEF Inside
<1> QED
  BY <1>1, <1>2, <1>3 DEF SameCode

LEMMA AddedTexts ==
  ASSUME CodeOK, NEW q, Added(q)
  PROVE  /\ Len(code) \in Nat /\ Len(code') = Len(code) + 1
         /\ \A i \in 1..Len(code) : code'[i] = code[i] /\ (IsText(i)' <=> IsText(i))
         /\ \A m : m = Len(code) + 1 => code'[m] = q /\ (IsText(m)' <=> Record.p.as = "TEXT")
         /\ \A i, t \in 1..Len(code) : Inside(i, t)' <=> Inside(i, t)
<1>1. /\ Len(code) \in Nat /\ Len(code') = Len(code) + 1
      /\ \A i \in 1..Len(code) : code'[i] = code[i]
      /\ code'[Len(code) + 1] = q
  BY AppendIsSeq DEF Added, CodeOK
<1>2. \A i \in 1..Len(code) : IsText(i)' <=> IsText(i)
  BY <1>1 DEF IsText, Source
<1>3. \A i, t \in 1..Len(code) : Inside(i, t)' <=> Inside(i, t)
  <2> TAKE i, t \in 1..Len(code)
  <2>1. \A u \in t+1..i : u \in 1..Len(code)
    BY <1>1
  <2> QED
    BY <1>2, <2>1 DEF Inside
<1>4. ASSUME NEW m, m = Len(code) + 1
      PROVE  code'[m] = q /\ (IsText(m)' <=> Record.p.as = "TEXT")
  BY <1>1, <1>4 DEF IsText, Source, Added
<1> QED
  BY <1>1, <1>2, <1>3, <1>4

LEMMA OpenedUnits ==
  ASSUME NEW units, IsSeq(units), units # <<>>, Ordered(units)
  PROVE  /\ IsSeq(Tail(units)) /\ Ordered(Tail(units))
         /\ Formed(Head(units).object) /\ Headed(Head(units).object)
<1>1. /\ IsSeq(Tail(units)) /\ Len(Tail(units)) = Len(units) - 1 /\ Len(units) \in Nat \ {0}
      /\ \A i \in 1..Len(units) - 1 : Tail(units)[i] = units[i + 1]
      /\ Head(units) = units[1]
  BY TailIsSeq
<1>2. \A i \in 1..Len(Tail(units)) : i + 1 \in 1..Len(units) /\ Tail(units)[i] = units[i + 1]
  BY <1>1
<1>3. 1 \in 1..Len(units)
  BY <1>1
<1> QED
  BY <1>1, <1>2, <1>3 DEF Ordered

(* What is loaded so far is in its functions.                              *)
InTexts == /\ cur.text # 0 => Inside(Len(code), cur.text)
           /\ code # <<>> => IsText(1)

LEMMA TextsKept ==
  ASSUME CodeOK, SameCode, InTexts, cur'.text \in {0, cur.text}
  PROVE  InTexts'
<1>1. /\ Len(code) \in Nat /\ (code # <<>> <=> Len(code) > 0)
      /\ Len(code') = Len(code) /\ (code' # <<>> <=> code # <<>>)
      /\ \A i \in 1..Len(code) : IsText(i)' <=> IsText(i)
  BY CodeLen, SameTexts
<1>2. code' # <<>> => IsText(1)'
  BY <1>1 DEF InTexts
<1>3. ASSUME cur'.text # 0
      PROVE  Inside(Len(code), cur.text)'
  <2>1. Inside(Len(code), cur.text)
    BY <1>3 DEF InTexts
  <2>2. PICK i, t : i = Len(code) /\ t = cur.text
    OBVIOUS
  <2>3. t \in 1..i /\ i \in 1..Len(code)
    BY <1>1, <2>1, <2>2 DEF Inside
  <2>4. Inside(i, t)'
    BY <2>1, <2>2, <2>3, SameTexts
  <2> QED
    BY <1>1, <1>3, <2>2, <2>4 DEF Inside, IsText, Source
<1> QED
  BY <1>2, <1>3 DEF InTexts

LEMMA NewUnitLeft ==
  ASSUME CodeOK, LeftOK, stage # "ld", code' = code,
         NEW units, IsSeq(units), units # <<>>, Ordered(units), NEW ret, NewUnit(units, ret)
  PROVE  LeftOK'
<1>1. /\ stage' = "ld" /\ cur.text = 0 /\ cur'.text = cur.text
      /\ ld'.left = Head(units).object /\ ld'.units = Tail(units)
  BY DEF NewUnit, CodeOK, LeftOK
<1>2. InTexts'
  BY <1>1, UnchangedSame, TextsKept DEF LeftOK, InTexts
<1> QED
  BY <1>1, <1>2, OpenedUnits DEF LeftOK, InTexts

LEMMA FileLeft ==
  ASSUME TypeOK, CodeOK, LeftOK, InFunctions, stage # "ld", code' = code,
         NEW f \in Files, NEW ret, objfile(f, ret)
  PROVE  LeftOK'
<1>1. CASE link.files[f].archive
  <2>1. stage' = "walk" /\ cur' = cur
    BY <1>1 DEF objfile
  <2>2. InTexts'
    BY <2>1, UnchangedSame, TextsKept DEF LeftOK, InTexts
  <2> QED
    BY <2>1, <2>2 DEF LeftOK, InTexts
<1>2. CASE ~link.files[f].archive
  <2>1. f \in Objects /\ NewUnit(link.files[f].units, ret)
    BY <1>2 DEF objfile, Objects
  <2> QED
    BY <2>1, NewUnitLeft DEF InFunctions, TypeOK, InputOK
<1> QED
  BY <1>1, <1>2

LEMMA AddedLeft ==
  ASSUME TypeOK, CodeOK, LeftOK, Taking, NEW q, Added(q),
         Record.p.as # "TEXT" => cur'.text = cur.text,
         Record.p.as = "TEXT" => cur'.text = Len(code) + 1
  PROVE  LeftOK'
<1>1. /\ Formed(Tail(ld.left)) /\ (cur.text = 0 => Record.p.as = "TEXT")
      /\ Len(code) \in Nat /\ stage = "ld"
  BY TailFormed, CodeLen DEF LeftOK, Taking, Record
<1>2. cur'.text # 0
  BY <1>1
<1>3. /\ Len(code') = Len(code) + 1
      /\ \A i \in 1..Len(code) : IsText(i)' <=> IsText(i)
      /\ \A m : m = Len(code) + 1 => (IsText(m)' <=> Record.p.as = "TEXT")
  BY AddedTexts
<1>4. Inside(Len(code), cur.text)'
  <2>1. PICK m : m = Len(code) + 1
    OBVIOUS
  <2>2. CASE Record.p.as = "TEXT"
    <3>1. cur'.text = m /\ Len(code') = m /\ IsText(m)' /\ m \in Nat /\ m > 0
      BY <1>1, <1>3, <2>1, <2>2
    <3>2. \A u \in m+1..m : FALSE
      BY <3>1
    <3> QED
      BY <3>1, <3>2 DEF Inside, IsText, Source
  <2>3. CASE Record.p.as # "TEXT"
    <3>1. PICK t : t = cur.text
      OBVIOUS
    <3>2. /\ t \in 1..Len(code) /\ IsText(t)
          /\ \A u \in t+1..Len(code) : ~IsText(u)
      BY <1>1, <2>3, <3>1 DEF LeftOK, Inside
    <3>3. \A u \in t+1..m : u = m \/ (u \in t+1..Len(code) /\ u \in 1..Len(code))
      BY <1>1, <2>1, <3>2
    <3>4. t \in 1..m /\ IsText(t)' /\ \A u \in t+1..m : ~IsText(u)'
      BY <1>1, <1>3, <2>1, <2>3, <3>2, <3>3
    <3>5. cur'.text = t /\ Len(code') = m
      BY <1>3, <2>1, <2>3, <3>1
    <3> QED
      BY <3>4, <3>5 DEF Inside, IsText, Source
  <2> QED
    BY <2>2, <2>3
<1>5. IsText(1)'
  <2>1. CASE Len(code) = 0
    <3>1. cur.text = 0
      BY <2>1 DEF LeftOK, Inside
    <3> QED
      BY <1>1, <1>3, <2>1, <3>1
  <2>2. CASE Len(code) > 0
    BY <1>1, <1>3, <2>2, CodeLen DEF LeftOK
  <2> QED
    BY <1>1, <2>1, <2>2
<1> QED
  BY <1>1, <1>2, <1>4, <1>5 DEF LeftOK, Taking

LEMMA LeftStays ==
  ASSUME TypeOK, LibrariesThere, InFunctions, walk.dir \in Seq(Entries),
         CodeOK, LeftOK, [Next]_vars
  PROVE  LeftOK'
<1>1. CASE NextArg
  <2>1. stage # "ld" /\ code' = code /\ Head(args) \in Files /\ objfile(Head(args), "args")
    BY <1>1 DEF NextArg, TypeOK, InputOK
  <2> QED
    BY <2>1, FileLeft
<1>2. CASE NextLibrary
  <2>1. /\ stage # "ld" /\ code' = code /\ lib.library[lib.i] \in Files
        /\ objfile(lib.library[lib.i], "loadlib")
    BY <1>2, SeqLen DEF NextLibrary, TypeOK, LibOK, LibrariesThere
  <2> QED
    BY <2>1, FileLeft
<1>3. CASE LoadMember
  <2> DEFINE e == walk.dir[walk.e]
             units == link.files[e.member].units
  <2>1. stage # "ld" /\ code' = code /\ NewUnit(units, "member")
    BY <1>3 DEF LoadMember
  <2>2. e.member \in Objects
    <3>1. e \in Entries
      BY <1>3 DEF LoadMember, TypeOK, WalkOK
    <3> QED
      BY <3>1 DEF Entries
  <2>3. IsSeq(units) /\ units # <<>> /\ Ordered(units)
    BY <2>2 DEF InFunctions, TypeOK, InputOK
  <2> HIDE DEF units
  <2> QED
    BY <2>1, <2>3, NewUnitLeft
<1>4. CASE loadlib \/ EndRound \/ PassEntry \/ MemberLoaded \/ EndPass
  <2>1. cur' = cur /\ code' = code /\ stage # "ld" /\ stage' # "ld"
    BY <1>4 DEF loadlib, EndRound, PassEntry, MemberLoaded, EndPass, TypeOK, WalkOK
  <2>2. InTexts'
    BY <2>1, UnchangedSame, TextsKept DEF LeftOK, InTexts
  <2> QED
    BY <2>1, <2>2 DEF LeftOK, InTexts
<1>5. CASE LoadName \/ LoadHistory \/ LoadGlobl \/ LoadData
  <2>1. /\ ~IsCode(Record) /\ ~IsEnd(Record) /\ code' = code
        /\ stage = "ld" /\ stage' = "ld" /\ cur'.text = cur.text
        /\ ld'.left = Tail(ld.left) /\ ld'.units = ld.units
    BY <1>5, NotCode
  <2>2. InTexts'
    BY <2>1, UnchangedSame, TextsKept DEF LeftOK, InTexts
  <2>3. Formed(ld'.left) /\ (cur'.text = 0 => Headed(ld'.left))
    BY <2>1, TailFormed DEF LeftOK, Record
  <2> QED
    BY <2>1, <2>2, <2>3 DEF LeftOK, InTexts
<1>6. CASE LoadEnd
  <2>1. code' = code /\ cur'.text = 0 /\ stage = "ld"
    <3>1. /\ code' = code /\ stage = "ld"
          /\ \/ cur' = [version |-> cur.version + 1, histfrog |-> <<>>, text |-> 0, auto |-> Empty]
             \/ cur' = [cur EXCEPT !.text = 0, !.auto = Empty]
      BY <1>6 DEF LoadEnd, AtProg
    <3>2. "text" \in DOMAIN cur
      BY DEF CodeOK
    <3>3. CASE cur' = [version |-> cur.version + 1, histfrog |-> <<>>, text |-> 0, auto |-> Empty]
      BY <3>1, <3>3
    <3>4. CASE cur' = [cur EXCEPT !.text = 0, !.auto = Empty]
      BY <3>1, <3>2, <3>4
    <3> QED
      BY <3>1, <3>3, <3>4
  <2>2. InTexts'
    BY <2>1, UnchangedSame, TextsKept DEF LeftOK, InTexts
  <2>3. CASE ld.units # <<>>
    <3>1. /\ stage' = "ld" /\ ld'.left = Head(ld.units).object /\ ld'.units = Tail(ld.units)
      BY <1>6, <2>3 DEF LoadEnd, TypeOK, LdOK
    <3>2. IsSeq(ld.units) /\ Ordered(ld.units)
      BY <2>1 DEF LeftOK
    <3> QED
      BY <2>1, <2>2, <2>3, <3>1, <3>2, OpenedUnits DEF LeftOK, InTexts
  <2>4. CASE ld.units = <<>>
    <3>1. stage' # "ld"
      BY <1>6, <2>4 DEF LoadEnd, TypeOK, LdOK
    <3> QED
      BY <2>1, <2>2, <3>1 DEF LeftOK, InTexts
  <2> QED
    BY <2>3, <2>4
<1>7. CASE LoadInstruction \/ LoadFloat
  BY <1>7, Instruction, AddedLeft
<1>8. CASE LoadText
  <2>1. Formed(ld.left)
    BY <1>8 DEF LeftOK, LoadText, AtProg
  <2> QED
    BY <1>8, <2>1, TextRecord, AddedLeft
<1>9. CASE Layout
  <2>1. cur' = cur /\ stage # "ld" /\ stage' # "ld"
    BY <1>9, LayoutFrame DEF Later
  <2>2. InTexts'
    BY <1>9, <2>1, LayoutCode, TextsKept DEF LeftOK, InTexts
  <2> QED
    BY <2>1, <2>2 DEF LeftOK, InTexts
<1>10. CASE UNCHANGED vars
  BY <1>10 DEF vars, LeftOK, Inside, IsText, Source
<1> QED
  BY <1>1, <1>2, <1>3, <1>4, <1>5, <1>6, <1>7, <1>8, <1>9, <1>10 DEF Next, Load

(* What is there already stays as it is.                                   *)
OldKept == /\ Len(code) \in Nat /\ Len(code') \in Nat /\ Len(code) <= Len(code')
           /\ \A t \in 1..Len(code) :
                /\ code'[t].src = code[t].src /\ code'[t].pc = code[t].pc
                /\ code[t].as \notin {"MOV", "MOVW"} =>
                     code'[t].as = code[t].as /\ code'[t].from = code[t].from

LEMMA OldTexts ==
  ASSUME OldKept, \A t \in 1..Len(code) : IsText(t) => code[t].as \in {"TEXT", "NOP"}
  PROVE  /\ \A t \in 1..Len(code) : IsText(t)' <=> IsText(t)
         /\ \A t \in 1..Len(code) : IsText(t) => NameOf(t)' = NameOf(t)
         /\ \A t \in 1..Len(code) : First(t)' <=> First(t)
         /\ \A u \in 1..Len(code) : \A s : Defines(u, s)' <=> Defines(u, s)
         /\ \A i, t \in 1..Len(code) : Inside(i, t)' <=> Inside(i, t)
<1>1. /\ \A t \in 1..Len(code) : IsText(t)' <=> IsText(t)
      /\ \A t \in 1..Len(code) : IsText(t) => NameOf(t)' = NameOf(t)
  BY DEF OldKept, IsText, Source, NameOf
<1>2. \A u \in 1..Len(code) : \A s : Defines(u, s)' <=> Defines(u, s)
  BY <1>1 DEF Defines, IsText, NameOf
<1>3. ASSUME NEW t \in 1..Len(code)
      PROVE  First(t)' <=> First(t)
  <2>1. \A u \in 1..t-1 : u \in 1..Len(code)
    BY DEF OldKept
  <2>2. CASE IsText(t)
    <3>1. PICK s : s = NameOf(t)
      OBVIOUS
    <3>2. NameOf(t)' = s /\ IsText(t)'
      BY <1>1, <2>2, <3>1
    <3>3. First(t) <=> \A u \in 1..t-1 : ~Defines(u, s)
      BY <2>2, <3>1 DEF First
    <3>4. First(t)' <=> \A u \in 1..t-1 : ~Defines(u, s)'
      BY <3>2 DEF First, Defines
    <3> QED
      BY <1>2, <2>1, <3>3, <3>4
  <2>3. CASE ~IsText(t)
    BY <1>1, <2>3 DEF First
  <2> QED
    BY <2>2, <2>3
<1>4. ASSUME NEW i \in 1..Len(code), NEW t \in 1..Len(code)
      PROVE  Inside(i, t)' <=> Inside(i, t)
  <2>1. \A u \in t+1..i : u \in 1..Len(code)
    BY DEF OldKept
  <2> QED
    BY <1>1, <2>1 DEF Inside
<1> QED
  BY <1>1, <1>2, <1>3, <1>4

LEMMA OldLinked ==
  ASSUME OldKept, FirstLinked, \A x : KeptSym(x)
  PROVE  /\ \A t \in 1..Len(code) : TextOK(t)'
         /\ \A i \in 1..Len(code) : \A t \in 1..i : SkipOK(i, t)'
<1>1. \A t \in 1..Len(code) : IsText(t) => code[t].as \in {"TEXT", "NOP"}
  BY DEF FirstLinked, TextOK
<1>2. ASSUME NEW t \in 1..Len(code), IsText(t)'
      PROVE  TextOK(t)'
  <2>1. IsText(t) /\ NameOf(t)' = NameOf(t) /\ (First(t)' <=> First(t))
    BY <1>1, <1>2, OldTexts
  <2>2. TextOK(t)
    BY DEF FirstLinked
  <2>3. code'[t].as = code[t].as /\ code'[t].pc = code[t].pc
    BY <2>1, <1>1 DEF OldKept
  <2>4. PICK s : s = NameOf(t)
    OBVIOUS
  <2>5. NameOf(t)' = s /\ KeptSym(s)
    BY <2>1, <2>4
  <2>6. /\ IsData(s) \/ Type(s) = "STEXT"
        /\ First(t) => IsData(s) \/ (code[t].as = "TEXT" /\ Type(s) = "STEXT" /\ Value(s) = code[t].pc)
    BY <2>1, <2>2, <2>4 DEF TextOK, IsLinked
  <2>7. /\ IsData(s)' \/ Type(s)' = "STEXT"
        /\ First(t)' => IsData(s)' \/ (code'[t].as = "TEXT" /\ Type(s)' = "STEXT"
                                       /\ Value(s)' = code'[t].pc)
    BY <2>1, <2>3, <2>5, <2>6 DEF KeptSym
  <2>8. code'[t].as \in {"TEXT", "NOP"}
    BY <1>1, <2>1, <2>3
  <2> QED
    BY <2>5, <2>7, <2>8 DEF TextOK, IsLinked, IsData, Type, Value
<1>3. ASSUME NEW i \in 1..Len(code), NEW t \in 1..i
      PROVE  SkipOK(i, t)'
  <2>1. t \in 1..Len(code)
    BY DEF OldKept
  <2>2. (Inside(i, t)' <=> Inside(i, t)) /\ (First(t)' <=> First(t))
    BY <1>1, <2>1, OldTexts
  <2>3. code[i].as = "NOP" => code'[i].as = "NOP"
    BY DEF OldKept
  <2> QED
    BY <2>2, <2>3 DEF FirstLinked, SkipOK
<1> QED
  BY <1>2, <1>3 DEF TextOK

(* A step that adds nothing: what is open of the function stays, or ends.  *)
LEMMA SameLinked ==
  ASSUME CodeOK, LeftOK, SameCode, FirstLinked, \A x : KeptSym(x),
         cur'.text \in {0, cur.text}, cur'.text # 0 => ld'.skip = ld.skip,
         stage' \in Loading =>
           stage \in Loading /\ \A x : Type(x)' = "STEXT" => Type(x) = "STEXT"
  PROVE  FirstLinked'
<1>1. OldKept /\ Len(code') = Len(code)
  BY CodeLen DEF SameCode, SameProg, OldKept
<1>2. \A t \in 1..Len(code) : IsText(t) => code[t].as \in {"TEXT", "NOP"}
  BY DEF FirstLinked, TextOK
<1>3. /\ \A t \in 1..Len(code) : TextOK(t)'
      /\ \A i \in 1..Len(code) : \A t \in 1..i : SkipOK(i, t)'
  BY <1>1, OldLinked
<1>4. ASSUME cur'.text # 0
      PROVE  First(cur.text)' \/ ld'.skip
  <2>1. PICK t : t = cur.text
    OBVIOUS
  <2>2. cur'.text = t /\ t \in 1..Len(code) /\ (First(t) \/ ld'.skip)
    BY <1>4, <2>1 DEF LeftOK, FirstLinked, Inside
  <2>3. First(t)' <=> First(t)
    BY <1>1, <1>2, <2>2, OldTexts
  <2> QED
    BY <2>2, <2>3 DEF First, Defines, IsText, NameOf, Source
<1>5. ASSUME stage' \in Loading
      PROVE  (\A s \in OfType({"STEXT"}) : \E u \in 1..Len(code) : Defines(u, s))'
  <2>1. ASSUME NEW s, s \in OfType({"STEXT"})'
        PROVE  \E u \in 1..Len(code') : Defines(u, s)'
    <3>1. Type(s)' = "STEXT"
      BY <2>1 DEF OfType, Type
    <3>2. s \in OfType({"STEXT"})
      BY <1>5, <3>1 DEF OfType, Type
    <3>3. PICK u \in 1..Len(code) : Defines(u, s)
      BY <1>5, <3>2 DEF FirstLinked
    <3>4. Defines(u, s)'
      BY <1>1, <1>2, <3>3, OldTexts
    <3> QED
      BY <1>1, <3>3, <3>4
  <2> QED
    BY <2>1
<1> QED
  BY <1>1, <1>3, <1>4, <1>5 DEF FirstLinked

LEMMA AddedKept ==
  ASSUME CodeOK, FirstLinked, NEW q, Added(q), \A x : KeptSym(x), NEW m, m = Len(code) + 1
  PROVE  /\ OldKept /\ Len(code') = m /\ m \in Nat /\ m - 1 = Len(code) /\ code'[m] = q
         /\ IsText(m)' <=> Record.p.as = "TEXT"
         /\ \A t \in 1..m-1 : TextOK(t)'
         /\ \A i \in 1..m-1 : \A t \in 1..i : SkipOK(i, t)'
         /\ \A t \in 1..m-1 : (IsText(t)' <=> IsText(t)) /\ (First(t)' <=> First(t))
         /\ \A u \in 1..m-1 : \A s : Defines(u, s)' <=> Defines(u, s)
<1>1. /\ Len(code) \in Nat /\ Len(code') = m /\ code'[m] = q
      /\ \A t \in 1..Len(code) : code'[t] = code[t]
      /\ IsText(m)' <=> Record.p.as = "TEXT"
  BY AddedTexts
<1>2. OldKept
  BY <1>1 DEF OldKept
<1>3. \A t \in 1..Len(code) : IsText(t) => code[t].as \in {"TEXT", "NOP"}
  BY DEF FirstLinked, TextOK
<1>4. m - 1 = Len(code) /\ m \in Nat
  BY <1>1
<1>5. /\ \A t \in 1..Len(code) : TextOK(t)'
      /\ \A i \in 1..Len(code) : \A t \in 1..i : SkipOK(i, t)'
  BY <1>2, OldLinked
<1>6. \A t \in 1..Len(code) : (IsText(t)' <=> IsText(t)) /\ (First(t)' <=> First(t))
  BY <1>2, <1>3, OldTexts
<1>7. \A u \in 1..Len(code) : \A s : Defines(u, s)' <=> Defines(u, s)
  BY <1>2, <1>3, OldTexts
<1> QED
  BY <1>1, <1>2, <1>4, <1>5, <1>6, <1>7

(* An instruction belongs to the function that is being loaded.            *)
LEMMA InstructionLinked ==
  ASSUME TypeOK, CodeOK, LeftOK, FirstLinked, Taking, NEW q, Added(q), \A x : KeptSym(x),
         Record.p.as # "TEXT", ld.skip => q.as = "NOP",
         cur'.text = cur.text, ld'.skip = ld.skip,
         \A x : Type(x)' = "STEXT" => Type(x) = "STEXT"
  PROVE  FirstLinked'
<1>1. PICK m, c : m = Len(code) + 1 /\ c = cur.text
  OBVIOUS
<1>2. c # 0 /\ stage \in Loading
  <2>1. cur.text = 0 => Record.p.as = "TEXT"
    BY TailFormed DEF LeftOK, Taking, Record
  <2> QED
    BY <1>1, <2>1 DEF Taking, Loading
<1>3. /\ c \in 1..m-1 /\ IsText(c) /\ (First(c) \/ ld.skip)
      /\ \A u \in c+1..m-1 : ~IsText(u)
  <2>1. Inside(Len(code), c) /\ (First(c) \/ ld.skip)
    BY <1>1, <1>2 DEF LeftOK, FirstLinked
  <2>2. Len(code) = m - 1
    BY <1>1, CodeLen
  <2> QED
    BY <2>1, <2>2 DEF Inside
<1>4. /\ Len(code') = m /\ m \in Nat /\ m - 1 = Len(code) /\ code'[m] = q
      /\ ~IsText(m)'
      /\ \A t \in 1..m-1 : TextOK(t)'
      /\ \A i \in 1..m-1 : \A t \in 1..i : SkipOK(i, t)'
  BY <1>1, AddedKept
<1>5. \A t \in 1..m-1 : (IsText(t)' <=> IsText(t)) /\ (First(t)' <=> First(t))
  BY <1>1, AddedKept
<1>6. \A u \in 1..m-1 : \A s : Defines(u, s)' <=> Defines(u, s)
  BY <1>1, AddedKept
<1>7. TextOK(m)'
  BY <1>4 DEF TextOK
<1>8. ASSUME NEW t \in 1..m
      PROVE  SkipOK(m, t)'
  <2>1. CASE Inside(m, t)' /\ ~First(t)'
    <3>1. /\ IsText(t)' /\ t # m /\ \A u \in t+1..m : ~IsText(u)'
      BY <1>4, <2>1 DEF Inside
    <3>2. t \in 1..m-1
      BY <1>4, <3>1
    <3>3. IsText(t) /\ ~First(t)
      BY <1>5, <2>1, <3>1, <3>2
    <3>4. IsText(c)'
      BY <1>3, <1>5
    <3>5. ~(c > t)
      BY <1>3, <1>4, <3>1, <3>2, <3>4
    <3>6. ~(t > c)
      BY <1>3, <1>4, <3>2, <3>3
    <3>7. t = c
      BY <1>3, <1>4, <3>2, <3>5, <3>6
    <3>8. q.as = "NOP"
      BY <1>3, <3>3, <3>7
    <3> QED
      BY <1>4, <3>8 DEF SkipOK
  <2> QED
    BY <2>1 DEF SkipOK
<1>9. First(cur.text)' \/ ld'.skip
  <2>1. First(c)' \/ ld'.skip
    BY <1>3, <1>5
  <2> QED
    BY <1>1, <2>1 DEF First, Defines, IsText, NameOf, Source
<1>10. (\A s \in OfType({"STEXT"}) : \E u \in 1..Len(code) : Defines(u, s))'
  <2>1. ASSUME NEW s, s \in OfType({"STEXT"})'
        PROVE  \E u \in 1..Len(code') : Defines(u, s)'
    <3>1. Type(s)' = "STEXT"
      BY <2>1 DEF OfType, Type
    <3>2. s \in OfType({"STEXT"})
      BY <3>1 DEF OfType, Type
    <3>3. PICK u \in 1..Len(code) : Defines(u, s)
      BY <1>2, <3>2 DEF FirstLinked
    <3>4. u \in 1..m-1 /\ u \in 1..Len(code')
      BY <1>4
    <3> QED
      BY <1>6, <3>3, <3>4
  <2> QED
    BY <2>1
<1>11. \A i \in 1..m : i = m \/ i \in 1..m-1
  BY <1>4
<1>12. \A t \in 1..m : TextOK(t)'
  BY <1>4, <1>7, <1>11
<1>13. \A i \in 1..m : \A t \in 1..i : SkipOK(i, t)'
  BY <1>4, <1>8, <1>11
<1> QED
  BY <1>4, <1>9, <1>10, <1>12, <1>13 DEF FirstLinked

(* A TEXT is the first of its name exactly when nothing has that name yet. *)
LEMMA TextLinked ==
  ASSUME TypeOK, CodeOK, LeftOK, FirstLinked, LoadText, diags' = {}, \A x : KeptSym(x)
  PROVE  FirstLinked'
<1>0. stage = "ld" /\ Formed(ld.left)
  BY DEF LoadText, AtProg, LeftOK
<1>1. PICK m, s : m = Len(code) + 1 /\ s = Loaded.from.sym
  OBVIOUS
<1>2. PICK q : /\ Added(q) /\ q.pc = Len(code) /\ q.from.sym = Loaded.from.sym
               /\ q.as = IF Duplicate /\ MaySkip THEN "NOP" ELSE "TEXT"
  BY <1>0, TextRecord
<1>3. /\ Record.p.as = "TEXT" /\ cur'.text = m
      /\ ld'.skip = (Duplicate /\ MaySkip)
      /\ ~(Duplicate /\ ~MaySkip)
      /\ IF Duplicate /\ MaySkip THEN sym' = sym ELSE Defined(s, "STEXT", Len(code))
  BY <1>0, <1>1, TextRecord
<1>4. /\ OldKept /\ Len(code') = m /\ m \in Nat /\ m - 1 = Len(code) /\ code'[m] = q
      /\ IsText(m)'
      /\ \A t \in 1..m-1 : TextOK(t)'
      /\ \A i \in 1..m-1 : \A t \in 1..i : SkipOK(i, t)'
  BY <1>1, <1>2, <1>3, AddedKept
<1>5. \A u \in 1..m-1 : \A x : Defines(u, x)' <=> Defines(u, x)
  BY <1>1, <1>2, AddedKept
<1>6. NameOf(m)' = s /\ code'[m].pc = Len(code)
  BY <1>1, <1>2, <1>4 DEF NameOf
<1>7. /\ \A u \in 1..m-1 : Defines(u, s) => IsData(s) \/ Type(s) = "STEXT"
      /\ Type(s) = "STEXT" => \E u \in 1..m-1 : Defines(u, s)
  <2>1. ASSUME NEW u \in 1..m-1, Defines(u, s)
        PROVE  IsData(s) \/ Type(s) = "STEXT"
    BY <1>4, <2>1 DEF FirstLinked, TextOK, Defines, IsText, NameOf
  <2>2. ASSUME Type(s) = "STEXT"
        PROVE  \E u \in 1..m-1 : Defines(u, s)
    BY <1>0, <1>4, <2>2 DEF FirstLinked, Loading, OfType, Type
  <2> QED
    BY <2>1, <2>2
<1>8. First(m)' <=> \A u \in 1..m-1 : ~Defines(u, s)
  <2>1. First(m)' <=> \A u \in 1..m-1 : ~Defines(u, s)'
    BY <1>4, <1>6 DEF First, Defines
  <2> QED
    BY <1>5, <2>1
<1>9. ASSUME NEW t \in 1..m, t # m
      PROVE  ~Inside(m, t)'
  BY <1>4, <1>9 DEF Inside
<1>10. \A i \in 1..m : i = m \/ i \in 1..m-1
  BY <1>4
<1>11. CASE Duplicate /\ MaySkip
  <2>1. q.as = "NOP" /\ sym' = sym /\ ld'.skip
    BY <1>2, <1>3, <1>11
  <2>2. IsData(s) \/ Type(s) = "STEXT"
    BY <1>1, <1>11 DEF Duplicate, CodeOK, Type, Types, IsData
  <2>3. IsData(s)' \/ (Type(s)' = "STEXT" /\ ~First(m)')
    BY <1>7, <1>8, <2>1, <2>2 DEF IsData, Type
  <2>4. TextOK(m)'
    BY <1>4, <1>6, <2>1, <2>3 DEF TextOK, IsData, Type
  <2>5. \A t \in 1..m : SkipOK(m, t)'
    BY <1>4, <2>1 DEF SkipOK
  <2>6. (\A x \in OfType({"STEXT"}) : \E u \in 1..Len(code) : Defines(u, x))'
    <3>1. ASSUME NEW x, x \in OfType({"STEXT"})'
          PROVE  \E u \in 1..Len(code') : Defines(u, x)'
      <4>1. PICK u \in 1..Len(code) : Defines(u, x)
        BY <1>0, <2>1, <3>1 DEF OfType, FirstLinked, Loading
      <4>2. u \in 1..m-1 /\ u \in 1..Len(code')
        BY <1>4
      <4> QED
        BY <1>5, <4>1, <4>2
    <3> QED
      BY <3>1
  <2>7. \A t \in 1..m : TextOK(t)'
    BY <1>4, <1>10, <2>4
  <2>8. \A i \in 1..m : \A t \in 1..i : SkipOK(i, t)'
    BY <1>4, <1>10, <2>5
  <2> QED
    BY <1>4, <2>1, <2>6, <2>7, <2>8 DEF FirstLinked
<1>12. CASE ~(Duplicate /\ MaySkip)
  <2>1. q.as = "TEXT" /\ Defined(s, "STEXT", Len(code)) /\ Type(s) \in {"0", "SXREF"}
    BY <1>1, <1>2, <1>3, <1>12 DEF Duplicate
  <2>2. First(m)'
    BY <1>7, <1>8, <2>1 DEF IsData, DataTypes
  <2>3. Type(s)' = "STEXT" /\ Value(s)' = Len(code)
    BY <2>1, PutSym
  <2>4. TextOK(m)'
    BY <1>4, <1>6, <2>1, <2>3 DEF TextOK, IsLinked, Type, Value
  <2>5. \A t \in 1..m : SkipOK(m, t)'
    BY <1>9, <2>2 DEF SkipOK
  <2>6. (\A x \in OfType({"STEXT"}) : \E u \in 1..Len(code) : Defines(u, x))'
    <3>1. ASSUME NEW x, x \in OfType({"STEXT"})'
          PROVE  \E u \in 1..Len(code') : Defines(u, x)'
      <4>1. Type(x)' = "STEXT"
        BY <3>1 DEF OfType, Type
      <4>2. CASE x = s
        <5>1. Defines(m, s)' /\ m \in 1..Len(code')
          BY <1>4, <1>6 DEF Defines, IsText, NameOf
        <5> QED
          BY <4>2, <5>1
      <4>3. CASE x # s
        <5>1. x \in OfType({"STEXT"})
          BY <2>1, <4>1, <4>3, PutSym DEF OfType, Type
        <5>2. PICK u \in 1..Len(code) : Defines(u, x)
          BY <1>0, <5>1 DEF FirstLinked, Loading
        <5>3. u \in 1..m-1 /\ u \in 1..Len(code')
          BY <1>4
        <5> QED
          BY <1>5, <5>2, <5>3
      <4> QED
        BY <4>2, <4>3
    <3> QED
      BY <3>1
  <2>7. \A t \in 1..m : TextOK(t)'
    BY <1>4, <1>10, <2>4
  <2>8. \A i \in 1..m : \A t \in 1..i : SkipOK(i, t)'
    BY <1>4, <1>10, <2>5
  <2>9. First(cur.text)'
    BY <1>3, <2>2 DEF First, Defines, IsText, NameOf, Source
  <2> QED
    BY <1>4, <2>6, <2>7, <2>8, <2>9 DEF FirstLinked
<1> QED
  BY <1>11, <1>12

(* While loading, only LoadText makes a symbol text.                       *)
LEMMA NoNewText ==
  ASSUME TypeOK, [Next]_vars, ~LoadText, stage' \in Loading
  PROVE  stage \in Loading /\ \A x : Type(x)' = "STEXT" => Type(x) = "STEXT"
<1>0. sym' = sym => \A x : Type(x)' = "STEXT" => Type(x) = "STEXT"
  BY DEF Type
<1>1. CASE LoadName
  <2>1. sym' = sym \/ Defined(Lookup(Record), "SXREF", 0)
    BY <1>1 DEF LoadName
  <2> QED
    BY <1>0, <1>1, <2>1, PutSym DEF LoadName, AtName, Loading
<1>2. CASE LoadGlobl
  <2>1. \E s, v : Defined(s, "SBSS", v)
    BY <1>2 DEF LoadGlobl
  <2> QED
    BY <1>2, <2>1, PutSym DEF LoadGlobl, AtProg, Loading
<1>3. CASE LoadFloat
  <2>1. sym' = sym \/ \E s, v : Defined(s, "SBSS", v)
    BY <1>3 DEF LoadFloat
  <2> QED
    BY <1>0, <1>3, <2>1, PutSym DEF LoadFloat, AtProg, Loading
<1>4. CASE \/ NextArg \/ loadlib \/ NextLibrary \/ EndRound \/ PassEntry \/ LoadMember
           \/ MemberLoaded \/ EndPass
  <2>1. sym' = sym /\ stage \in Loading
    BY <1>4 DEF NextArg, loadlib, NextLibrary, EndRound, PassEntry, LoadMember, MemberLoaded,
         EndPass, Loading
  <2> QED
    BY <1>0, <2>1
<1>5. CASE LoadHistory \/ LoadEnd \/ LoadData \/ LoadInstruction
  <2>1. sym' = sym /\ stage \in Loading
    BY <1>5 DEF LoadHistory, LoadEnd, LoadData, LoadInstruction, AtProg, Loading
  <2> QED
    BY <1>0, <2>1
<1>6. CASE Layout
  <2>1. stage' \in Later
    BY <1>6, LayoutFrame
  <2> QED
    BY <2>1 DEF Loading, Later
<1>7. CASE UNCHANGED vars
  <2>1. sym' = sym /\ stage' = stage
    BY <1>7 DEF vars
  <2> QED
    BY <1>0, <2>1
<1> QED
  BY <1>1, <1>2, <1>3, <1>4, <1>5, <1>6, <1>7 DEF Next, Load

LEMMA DiagsGrow ==
  ASSUME [Next]_vars, diags' = {}
  PROVE  diags = {}
<1>1. diags \subseteq diags'
  <2>1. CASE \/ NextArg \/ loadlib \/ NextLibrary \/ EndRound \/ PassEntry \/ LoadMember
             \/ MemberLoaded \/ EndPass
    BY <2>1 DEF NextArg, loadlib, NextLibrary, EndRound, PassEntry, LoadMember, MemberLoaded, EndPass
  <2>2. CASE LoadRecord
    BY <2>2 DEF LoadRecord, LoadName, LoadHistory, LoadEnd, LoadGlobl, LoadData, LoadText,
         LoadInstruction, LoadFloat
  <2>3. CASE \/ mkfwd \/ Patch \/ StartData \/ PlaceSymbol \/ EndSmall \/ EndLarge \/ EndBss
             \/ Readjust \/ Undef
    BY <2>3 DEF mkfwd, Patch, StartData, PlaceSymbol, EndSmall, EndLarge, EndBss, Readjust, Undef
  <2>4. CASE PlaceLiterals
    BY <2>4 DEF PlaceLiterals
  <2>5. CASE UNCHANGED vars
    BY <2>5 DEF vars
  <2> QED
    BY <2>1, <2>2, <2>3, <2>4, <2>5 DEF Next, Load, LoadRecord, Layout
<1> QED
  BY <1>1

LEMMA FirstStays ==
  ASSUME TypeOK, CodeOK, TodoOK, LeftOK, FirstLinked, diags' = {}, [Next]_vars
  PROVE  FirstLinked'
<1>1. \A x : KeptSym(x)
  BY SymbolsKept
<1>2. CASE LoadText
  BY <1>1, <1>2, TextLinked
<1>3. CASE LoadInstruction \/ LoadFloat
  <2>1. stage' \in Loading /\ ~LoadText
    BY <1>3 DEF LoadInstruction, LoadFloat, LoadText, AtProg, Loading, Instructions, relrev
  <2>2. \A x : Type(x)' = "STEXT" => Type(x) = "STEXT"
    BY <2>1, NoNewText
  <2>3. PICK q : Added(q) /\ (ld.skip => q.as = "NOP")
    BY <1>3, Instruction
  <2> QED
    BY <1>1, <1>3, <2>2, <2>3, Instruction, InstructionLinked
<1>4. ASSUME SameCode, ~LoadText, cur'.text \in {0, cur.text}, cur'.text # 0 => ld'.skip = ld.skip
      PROVE  FirstLinked'
  BY <1>1, <1>4, NoNewText, SameLinked
<1>5. CASE Outside
  <2>1. code' = code /\ stage # "ld" /\ cur'.text = cur.text /\ cur.text = 0 /\ ~LoadText
    BY <1>5, OutsideFrame DEF LeftOK, LoadText, AtProg
  <2> QED
    BY <1>4, <2>1, UnchangedSame
<1>6. CASE LoadName \/ LoadHistory \/ LoadGlobl \/ LoadData
  <2>1. code' = code /\ cur'.text = cur.text /\ ld'.skip = ld.skip /\ ~LoadText
    BY <1>6, NotCode DEF LoadText, AtProg, IsCode
  <2> QED
    BY <1>4, <2>1, UnchangedSame
<1>7. CASE LoadEnd
  <2>1. /\ code' = code /\ ~LoadText
        /\ \/ cur' = [version |-> cur.version + 1, histfrog |-> <<>>, text |-> 0, auto |-> Empty]
           \/ cur' = [cur EXCEPT !.text = 0, !.auto = Empty]
    BY <1>7 DEF LoadEnd, LoadText, AtProg
  <2>2. CASE cur' = [version |-> cur.version + 1, histfrog |-> <<>>, text |-> 0, auto |-> Empty]
    BY <1>4, <2>1, <2>2, UnchangedSame
  <2>3. CASE cur' = [cur EXCEPT !.text = 0, !.auto = Empty]
    <3>1. cur'.text = 0
      BY <2>3 DEF CodeOK
    <3> QED
      BY <1>4, <2>1, <3>1, UnchangedSame
  <2> QED
    BY <2>1, <2>2, <2>3
<1>8. CASE Layout
  <2>1. cur' = cur /\ ld' = ld /\ ~LoadText
    BY <1>8, LayoutFrame DEF LoadText, AtProg, Later
  <2> QED
    BY <1>4, <1>8, <2>1, LayoutCode
<1>9. CASE UNCHANGED vars /\ ~LoadText
  BY <1>4, <1>9, UnchangedSame DEF vars
<1> QED
  BY <1>2, <1>3, <1>5, <1>6, <1>7, <1>8, <1>9 DEF Next, Load, Outside

LEMMA StartsEmpty == Init => FInv
<1> SUFFICES ASSUME Init
             PROVE  FInv
  OBVIOUS
<1>1. TypeOK
  BY StartsLoading DEF IInv
<1>2. /\ stage = "args" /\ code = <<>> /\ walk.dir = <<>> /\ ld.skip = FALSE
      /\ sym = [s \in {<<"_main", 0>>} |-> [type |-> "SXREF", value |-> 0]]
      /\ cur = [version |-> 0, histfrog |-> <<>>, text |-> 0, auto |-> Empty]
      /\ lay = [todo |-> {}, orig |-> 0, orig1 |-> 0, datsize |-> 0, bsssize |-> 0]
  BY DEF Init
<1>3. Len(code) = 0 /\ IsSeq(code) /\ walk.dir \in Seq(Entries)
  <2>1. <<>> \in Seq(ToSet(<<>>)) /\ <<>> \in Seq(Entries)
    OBVIOUS
  <2> QED
    BY <1>2, <2>1 DEF IsSeq
<1>4. CodeOK
  BY <1>2, <1>3 DEF CodeOK, Type, Types
<1>5. TodoOK
  BY <1>2 DEF TodoOK
<1>6. LeftOK
  BY <1>2 DEF LeftOK
<1>7. FirstLinked
  BY <1>2, <1>3 DEF FirstLinked, OfType
<1> QED
  BY <1>1, <1>3, <1>4, <1>5, <1>6, <1>7 DEF FInv

LEMMA FunctionsStay ==
  ASSUME [Next]_vars
  PROVE  InFunctions' <=> InFunctions
<1>1. link' = link
  BY DEF Next, Load, Layout, vars, NextArg, loadlib, NextLibrary, EndRound, PassEntry,
         LoadMember, MemberLoaded, EndPass, LoadName, LoadHistory, LoadEnd, LoadGlobl,
         LoadData, LoadText, LoadInstruction, LoadFloat, mkfwd, Patch, StartData,
         PlaceSymbol, EndSmall, EndLarge, EndBss, PlaceLiterals, Readjust, Undef
<1> QED
  BY <1>1 DEF InFunctions, Objects, Files

LEMMA FunctionsStep == FInv /\ [Next]_vars => FInv'
<1> SUFFICES ASSUME FInv, [Next]_vars
             PROVE  FInv'
  OBVIOUS
<1>1. TypeOK /\ TypeOK'
  BY TypesStay DEF FInv
<1>2. ASSUME LibrariesThere', InFunctions'
      PROVE  /\ (walk.dir \in Seq(Entries))' /\ CodeOK' /\ TodoOK' /\ LeftOK'
             /\ diags' = {} => FirstLinked'
  <2>1. LibrariesThere /\ InFunctions
    BY <1>1, <1>2, ArchivesBefore, FunctionsStay
  <2>2. /\ walk.dir \in Seq(Entries) /\ CodeOK /\ TodoOK /\ LeftOK
        /\ diags = {} => FirstLinked
    BY <2>1 DEF FInv
  <2>3. (walk.dir \in Seq(Entries))'
    BY <1>1, <2>1, <2>2, DirStays
  <2>4. CodeOK' /\ TodoOK'
    BY <1>1, <2>2, CodeStays, TodoStays
  <2>5. LeftOK'
    BY <1>1, <2>1, <2>2, LeftStays
  <2>6. diags' = {} => FirstLinked'
    BY <1>1, <2>2, DiagsGrow, FirstStays
  <2> QED
    BY <2>3, <2>4, <2>5, <2>6
<1> QED
  BY <1>1, <1>2 DEF FInv

-----------------------------------------------------------------------------
(* Functions: the first one                                                *)

LEMMA NatLess == IsWellFoundedOn({ss \in Nat \X Nat : ss[1] < ss[2]}, Nat)
  BY NatLessThanWellFounded DEF OpToRel

LEMMA Least ==
  ASSUME NEW S, S # {}, S \subseteq Nat
  PROVE  \E m \in S : \A k \in S : m <= k
<1> DEFINE Less == {ss \in Nat \X Nat : ss[1] < ss[2]}
<1>1. IsWellFoundedOn(Less, Nat)
  BY NatLess
<1> HIDE DEF Less
<1>2. PICK m \in S : \A k \in S : ~(<<k, m>> \in Less)
  BY <1>1, WFMin
<1>3. \A k \in S : ~(k < m)
  <2> TAKE k \in S
  <2>1. ~(<<k, m>> \in Less)
    BY <1>2
  <2>2. <<k, m>> \in Nat \X Nat
    OBVIOUS
  <2> QED
    BY <2>1, <2>2 DEF Less
<1>4. \A k \in S : m <= k
  BY <1>3
<1> QED
  BY <1>4

LEMMA Greatest ==
  ASSUME NEW n \in Nat, NEW S, S # {}, S \subseteq 1..n
  PROVE  \E m \in S : \A k \in S : k <= m
<1> DEFINE D == {n - k : k \in S}
<1>1. D # {} /\ D \subseteq Nat
  <2>1. PICK k : k \in S
    OBVIOUS
  <2>2. n - k \in D
    BY <2>1
  <2>3. \A e \in D : e \in Nat
    OBVIOUS
  <2> QED
    BY <2>2, <2>3
<1>2. PICK d \in D : \A e \in D : d <= e
  BY <1>1, Least
<1>3. PICK m \in S : d = n - m
  OBVIOUS
<1>4. \A k \in S : n - m <= n - k
  BY <1>2, <1>3
<1>5. \A k \in S : k <= m
  BY <1>4
<1> QED
  BY <1>5

LEMMA FirstIsLinked ==
  ASSUME CodeOK, LeftOK, FirstLinked, \A t \in 1..Len(code) : IsText(t) => ~IsData(NameOf(t)),
         NEW i \in 1..Len(code)
  PROVE  LET s == code[TextOf(i)].from.sym
             first == CHOOSE t \in 1..Len(code) : Defines(t, s) /\ \A u \in 1..t-1 : ~Defines(u, s)
         IN /\ code[first].as = "TEXT" /\ Value(s) = code[first].pc
            /\ TextOf(i) # first => code[i].as = "NOP"
<1>1. Len(code) \in Nat /\ IsText(1) /\ i \in Nat /\ 1 \in 1..i
  BY CodeLen DEF LeftOK
<1>2. PICK t \in {x \in 1..i : IsText(x)} : \A k \in {x \in 1..i : IsText(x)} : k <= t
  BY <1>1, Greatest
<1>3. Inside(i, t)
  <2>1. \A u \in t+1..i : u \in 1..i /\ ~(u <= t)
    BY <1>1
  <2> QED
    BY <1>2, <2>1 DEF Inside
<1> DEFINE o == TextOf(i)
<1>4. Inside(i, o)
  <2>1. \E x \in 1..i : Source(x).as = "TEXT" /\ \A u \in x+1..i : Source(u).as # "TEXT"
    BY <1>2, <1>3 DEF Inside, IsText
  <2>2. /\ o \in 1..i /\ Source(o).as = "TEXT" /\ \A u \in o+1..i : Source(u).as # "TEXT"
    BY <2>1 DEF TextOf
  <2> QED
    BY <2>2 DEF Inside, IsText
<1> HIDE DEF o
<1> DEFINE s == code[o].from.sym
           first == CHOOSE x \in 1..Len(code) : Defines(x, s) /\ \A u \in 1..x-1 : ~Defines(u, s)
<1>5. o \in 1..Len(code) /\ Defines(o, s)
  BY <1>1, <1>4 DEF Inside, Defines, IsText
<1>6. \E x \in 1..Len(code) : Defines(x, s) /\ \A u \in 1..x-1 : ~Defines(u, s)
  <2> DEFINE S == {x \in 1..Len(code) : Defines(x, s)}
  <2>1. o \in S /\ S \subseteq Nat
    BY <1>5
  <2>2. PICK x \in S : \A k \in S : x <= k
    BY <2>1, Least
  <2>3. \A u \in 1..x-1 : u \in 1..Len(code) /\ ~(x <= u)
    BY <1>1
  <2> QED
    BY <2>2, <2>3
<1>7. /\ first \in 1..Len(code) /\ Defines(first, s)
      /\ \A u \in 1..first-1 : ~Defines(u, s)
  BY <1>6
<1> HIDE DEF first
<1>8. NameOf(first) = s /\ IsText(first) /\ First(first)
  BY <1>7 DEF Defines, NameOf, IsText, First
<1>9. code[first].as = "TEXT" /\ Value(s) = code[first].pc
  BY <1>7, <1>8 DEF FirstLinked, TextOK, IsLinked
<1>10. ASSUME o # first
       PROVE  code[i].as = "NOP"
  <2>1. first \in 1..o-1
    BY <1>1, <1>5, <1>7, <1>10
  <2>2. ~First(o)
    BY <1>7, <2>1 DEF First, NameOf
  <2> QED
    BY <1>4, <2>2 DEF FirstLinked, SkipOK, Inside
<1> QED
  BY <1>9, <1>10 DEF first, o

(* No function has the name of data: of a TEXT that may be a duplicate and *)
(* whose name was already given to data, nothing is linked (obj.c:968-972).*)
Distinct == \A t \in 1..Len(code) : IsText(t) => ~IsData(NameOf(t))

(* Whatever objects and members are loaded, in whatever order: when il has *)
(* not complained, the first definition of every function is the one that  *)
(* the symbol stands for, and of the functions skipped only NOPs are left  *)
(* (the TEXT case of ldobj, skip, and patch, cmd/il/obj.c and pass.c).     *)
THEOREM FirstDefinition ==
  Spec => [](LibrariesThere /\ InFunctions /\ Distinct => FirstWins)
<1>1. Init => FInv
  BY StartsEmpty
<1>2. FInv /\ [Next]_vars => FInv'
  BY FunctionsStep
<1>3. FInv => (LibrariesThere /\ InFunctions /\ Distinct => FirstWins)
  <2> SUFFICES ASSUME FInv, LibrariesThere, InFunctions, Distinct, diags = {},
                      NEW i \in 1..Len(code)
               PROVE  LET s == code[TextOf(i)].from.sym
                          first == CHOOSE t \in 1..Len(code) :
                                     Defines(t, s) /\ \A u \in 1..t-1 : ~Defines(u, s)
                      IN /\ code[first].as = "TEXT" /\ Value(s) = code[first].pc
                         /\ TextOf(i) # first => code[i].as = "NOP"
    BY Zenon DEF FirstWins
  <2> QED
    BY FirstIsLinked, Zenon DEF FInv, Distinct
<1> QED
  BY <1>1, <1>2, <1>3, PTL DEF Spec
=============================================================================
