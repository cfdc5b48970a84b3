------------------------------- MODULE Riscv -------------------------------
(***************************************************************************)
(* What the instructions the disassembler prints do, as the RISC-V manual  *)
(* has it: an environment for the linker and libmach, not part of the      *)
(* repository.  A register of XLEN bits is the set of its bits, or an      *)
(* uninterpreted application.  The machine has registers 0..31, floating   *)
(* registers 32..63, the last store and where control goes.                *)
(***************************************************************************)
EXTENDS Integers, Sequences, FiniteSets


\* values
Con(b) == [op |-> "bits", bits |-> b, args |-> <<>>]
App(op, args) == [op |-> op, bits |-> {}, args |-> args]
IsCon(v) == v.op = "bits"

Low(b, n) == {k \in b : k < n}
\* the low n bits of b, sign extended to 64
Extend(b, n) == Low(b, n) \cup (IF n - 1 \in b THEN n..63 ELSE {})
Left(b, k) == {i + k : i \in b}
Right(b, k) == {i - k : i \in {j \in b : j >= k}}

RECURSIVE Sum(_, _)
Sum(a, b) == IF b = {} THEN a ELSE Sum((a \cup b) \ (a \cap b), Low(Left(a \cap b, 1), 64))

Amount(b) == Cardinality({k \in 0..63 : k < (IF 0 \in b THEN 1 ELSE 0) + (IF 1 \in b THEN 2 ELSE 0)
  + (IF 2 \in b THEN 4 ELSE 0) + (IF 3 \in b THEN 8 ELSE 0) + (IF 4 \in b THEN 16 ELSE 0) + (IF 5 \in b THEN 32 ELSE 0)})

\* op on two values; n is XLEN
Evaluated == {"ADD", "ADDW", "XOR", "AND", "OR", "SLL", "SRL", "SRA"}
Eval(op, v, w, n) ==
  LET a == v.bits  b == w.bits
      bits == CASE op = "ADD" -> Sum(a, b)
                [] op = "ADDW" -> Extend(Sum(a, b), 32)
                [] op = "XOR" -> (a \cup b) \ (a \cap b)
                [] op = "AND" -> a \cap b
                [] op = "OR" -> a \cup b
                [] op = "SLL" -> Left(a, Amount(b))
                [] op = "SRL" -> Right(a, Amount(b))
                [] op = "SRA" -> Right(a, Amount(b)) \cup (IF n - 1 \in a THEN (n - 1 - Amount(b))..(n - 1) ELSE {})
  IN IF op \in Evaluated /\ IsCon(v) /\ IsCon(w) THEN Con(Low(bits, n)) ELSE App(op, <<v, w>>)

-----------------------------------------------------------------------------
(* a machine state and its instructions                                    *)

Next(pc) == [kind |-> "next", to |-> pc, cond |-> <<>>]
State(r, pc) == [r |-> r, store |-> <<>>, ctl |-> Next(pc)]
Put(st, d, v) == IF d = 0 THEN st ELSE [st EXCEPT !.r[d] = v]
Jump(st, to) == [st EXCEPT !.ctl = [kind |-> "jump", to |-> to, cond |-> <<>>]]
Branch(st, op, a, b, to) ==
  [st EXCEPT !.ctl = [kind |-> "branch", to |-> to,
                      cond |-> IF op \in {"BEQ", "BNE"} THEN <<op, {a, b}>> ELSE <<op, a, b>>]]
Store(st, size, at, v) == [st EXCEPT !.store = <<size, at, v>>]

\* the value a load of as brings, and the size a store of as writes
Loaded(as, at) == App(as, <<at>>)
Size == [MOVB |-> "1", MOVBU |-> "1", MOVH |-> "2", MOVW |-> "4", MOV |-> "8", MOVF |-> "F4", MOVD |-> "F8"]

\* operands: a register, a floating register, a constant, an address, a place
Reg(n) == [k |-> "R", n |-> n, v |-> Con({})]
FReg(n) == [k |-> "F", n |-> 32 + n, v |-> Con({})]
Imm(v) == [k |-> "$", n |-> 0, v |-> v]
Mem(n, v) == [k |-> "m", n |-> n, v |-> v]
Place(v) == [k |-> "p", n |-> 0, v |-> v]
CSR(v) == [k |-> "c", n |-> 0, v |-> v]

\* the instruction a compressed mnemonic stands for
SP == 2
Expanded(as, a) ==
  LET load(name) == [as |-> name, args |-> <<Mem(SP, a[1].v), a[2]>>]
      store(name) == [as |-> name, args |-> <<a[1], Mem(SP, a[2].v)>>]
      own(name) == [as |-> name, args |-> <<a[1], a[2], a[2]>>]
      same(name) == [as |-> name, args |-> a]
  IN CASE as = "ADDI4SPN" -> [as |-> "ADD", args |-> <<a[1], Reg(SP), a[2]>>]
       [] as = "ADDI16SP" -> [as |-> "ADD", args |-> <<a[1], Reg(SP), Reg(SP)>>]
       [] as \in {"LW"} -> same("MOVW") [] as = "LD" -> same("MOV")
       [] as = "FLD" -> same("MOVD") [] as = "FLW" -> same("MOVF")
       [] as = "SW" -> same("MOVW") [] as = "SD" -> same("MOV")
       [] as = "FSD" -> same("MOVD") [] as = "FSW" -> same("MOVF")
       [] as = "LWSP" -> load("MOVW") [] as = "LDSP" -> load("MOV")
       [] as = "FLDSP" -> load("MOVD") [] as = "FLWSP" -> load("MOVF")
       [] as = "SWSP" -> store("MOVW") [] as = "SDSP" -> store("MOV")
       [] as = "FSDSP" -> store("MOVD") [] as = "FSWSP" -> store("MOVF")
       [] as = "LI" -> same("MOV") [] as = "MV" -> same("MOV") [] as = "LUI" -> same("LUI")
       [] as = "ADDI" -> own("ADD") [] as = "ADDIW" -> own("ADDW") [] as = "SLLI" -> own("SLL")
       [] as = "SRLI" -> own("SRL") [] as = "SRAI" -> own("SRA") [] as = "ANDI" -> own("AND")
       [] as \in {"SUB", "XOR", "OR", "AND", "SUBW", "ADDW", "ADD"} /\ Len(a) = 2 -> own(as)
       [] as = "JR" -> [as |-> "JMP", args |-> <<Mem(a[1].n, Con({}))>>]
       [] as = "JALR" /\ Len(a) = 1 -> [as |-> "JALR", args |-> <<Reg(1), Mem(a[1].n, Con({}))>>]
       [] as = "J" -> same("JMP")
       [] as = "JAL" /\ Len(a) = 1 -> [as |-> "JAL", args |-> <<Reg(1), a[1]>>]
       [] as = "BEQZ" -> [as |-> "BEQ", args |-> <<Reg(0), a[1], a[2]>>]
       [] as = "BNEZ" -> [as |-> "BNE", args |-> <<Reg(0), a[1], a[2]>>]
       [] OTHER -> same(as)

Kinds(a) == [i \in DOMAIN a |-> a[i].k]
\* the state after the instruction as of args a, pc its successor's address
Exec(st, as, a, pc, n) ==
  LET kinds == Kinds(a)
      val(x) == IF x.k \in {"R", "F"} THEN st.r[x.n]
                ELSE IF x.k = "m" THEN Eval("ADD", x.v, st.r[x.n], n) ELSE x.v
      at == [st EXCEPT !.ctl = Next(pc)]
      branches == {"BEQ", "BNE", "BLT", "BGE", "BLTU", "BGEU"}
  IN CASE kinds \in {<<"m", "R">>, <<"m", "F">>} -> Put(at, a[2].n, Loaded(as, val(a[1])))
       [] kinds \in {<<"R", "m">>, <<"F", "m">>} /\ as # "JALR" -> Store(at, Size[as], val(a[2]), val(a[1]))
       [] kinds = <<"$", "R">> /\ as \in {"MOV", "MOVW", "LUI"} -> Put(at, a[2].n, val(a[1]))
       [] kinds = <<"R", "R">> /\ as \in {"MOV", "MOVW"} -> Put(at, a[2].n, val(a[1]))
       [] kinds \in {<<"F", "F">>, <<"F", "R">>, <<"R", "F">>} -> Put(at, a[2].n, App(as, <<val(a[1])>>))
       [] kinds = <<"R", "R", "p">> /\ as \in branches -> Branch(at, as, val(a[2]), val(a[1]), a[3].v)
       [] kinds = <<"R", "p">> /\ as = "JAL" -> Put(Jump(at, a[2].v), a[1].n, pc)
       [] kinds = <<"p">> /\ as = "JMP" -> Jump(at, a[1].v)
       [] kinds = <<"m">> /\ as = "JMP" -> Jump(at, val(a[1]))
       [] kinds = <<"R", "m">> /\ as = "JALR" -> Put(Jump(at, val(a[2])), a[1].n, pc)
       [] kinds \in {<<"c", "R", "R">>, <<"c", "$", "R">>} -> Put(at, a[3].n, App(as, <<a[1].v, val(a[2])>>))
       [] kinds \in {<<"$", "R", "R">>, <<"R", "R", "R">>, <<"F", "F", "F">>, <<"F", "F", "R">>} /\ as \notin branches ->
            Put(at, a[3].n, Eval(as, val(a[2]), val(a[1]), n))
       [] as \in {"ECALL", "EBREAK", "SYS"} -> [at EXCEPT !.ctl = [kind |-> as, to |-> pc, cond |-> <<>>]]
       [] OTHER -> [at EXCEPT !.ctl.kind = "unknown"]
=============================================================================
