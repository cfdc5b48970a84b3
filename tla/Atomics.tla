------------------------------ MODULE Atomics -------------------------------
(***************************************************************************)
(* The RISC-V instruction sequences of libc's atomic routines              *)
(* (libc/riscv64/tas.s, atom.s, atomic.s): a load-reserved, private        *)
(* arithmetic, a store-conditional, and a branch back to the load when the *)
(* store failed.  One action is one memory access together with the        *)
(* register-only instructions that follow it.                              *)
(*                                                                         *)
(* A register is wider than the word in memory (riscv64's W forms) or just *)
(* as wide (riscv, and riscv64's D forms: aincv, aswapv, acasv).  Both are *)
(* covered: HalfReg is a parameter.  Registers hold signed numbers.        *)
(***************************************************************************)
EXTENDS Integers

CONSTANTS
  Procs,       \* the processes that share the word
  HalfWord,    \* 2^(w-1), w the width of the word in memory
  HalfReg,     \* 2^(x-1), x the width of a register (XLEN)
  Ops,         \* the calls that may be made
  MaxCalls     \* bound: calls per process

VARIABLES
  mem,     \* the shared word
  resv,    \* the processes whose hart holds a reservation on the word
  pc,      \* pc[p]: "idle", or the next memory access of p's routine
  op,      \* op[p]: the routine p called last, with its arguments
  loaded,  \* loaded[p]: the register the load-reserved filled
  reg,     \* reg[p]: R(ARG), which holds the answer at RET
  calls    \* calls[p]: how many calls p has made

vars == <<mem, resv, pc, op, loaded, reg, calls>>

Abs == INSTANCE AtomicWord WITH
  stage  <- [p \in Procs |-> IF pc[p] = "idle" THEN "idle"
                             ELSE IF pc[p] = "ret" THEN "done" ELSE "called"],
  result <- [p \in Procs |-> IF reg[p] >= HalfWord THEN reg[p] - 2 * HalfWord
                             ELSE IF reg[p] < -HalfWord THEN reg[p] + 2 * HalfWord
                             ELSE reg[p]]

Word == -HalfWord .. HalfWord - 1
Reg  == -HalfReg .. HalfReg - 1

ASSUME AtomicsAssumption ==
  /\ HalfWord \in Nat \ {0, 1}
  /\ HalfReg \in Nat
  /\ HalfReg = HalfWord \/ HalfReg >= 2 * HalfWord
  /\ Ops \subseteq Abs!OpRecords
  /\ MaxCalls \in Nat

-----------------------------------------------------------------------------
(* A full-width result of register arithmetic.                             *)
WrapReg(v) ==
  IF v >= HalfReg THEN v - 2 * HalfReg
  ELSE IF v < -HalfReg THEN v + 2 * HalfReg
  ELSE v

(* What SC.W puts in memory, and what MOVW R,R makes of a register: the    *)
(* low word, sign-extended.                                                *)
LowWord(r) ==
  IF r >= HalfWord THEN r - 2 * HalfWord
  ELSE IF r < -HalfWord THEN r + 2 * HalfWord
  ELSE r

(* MOVWU, and SLL $32 followed by SRL $32: the low word, zero-extended.    *)
ZeroExtend(v) == IF v < 0 THEN WrapReg(v + 2 * HalfWord) ELSE v

(* Slip: what LR.W sign-extended is compared with the MOVWU argument.      *)
CasCompareSignExtended(o, v) == ZeroExtend(o.a) = v

(* The BNE of the compare-and-swap routines.  cas compares zero-extended   *)
(* words, acasl the sign-extended ones that MOVW and LR.W leave.           *)
CasCompare(o, v) == ZeroExtend(o.a) = ZeroExtend(v)
AcaslCompare(o, v) == o.a = v

Matches(o, v) ==
  /\ o.name = "cas" => CasCompare(o, v)
  /\ o.name = "acasl" => AcaslCompare(o, v)

(* The register the store-conditional stores, when v was loaded.           *)
Stored(o, v) ==
  CASE o.name = "_tas"   -> 1
    [] o.name = "ainc"   -> WrapReg(v + 1)
    [] o.name = "adec"   -> WrapReg(v - 1)
    [] o.name = "aincl"  -> WrapReg(v + o.a)
    [] o.name = "aswapl" -> o.a
    [] o.name = "cas"    -> ZeroExtend(o.b)
    [] o.name = "acasl"  -> o.b

(* R(ARG) once the store-conditional succeeded.                            *)
Yields(o, v) ==
  CASE o.name \in {"_tas", "aswapl"} -> v
    [] o.name \in {"ainc", "adec", "aincl"} -> Stored(o, v)
    [] o.name \in {"cas", "acasl"} -> 1

Loops == {"_tas", "ainc", "adec", "aincl", "aswapl", "cas", "acasl"}

FirstAccess(o) ==
  CASE o.name \in Loops -> "lr"
    [] o.name = "agetl" -> "load"
    [] o.name = "store" -> "store"

-----------------------------------------------------------------------------
Init ==
  /\ mem \in Word
  /\ resv = {}
  /\ pc = [p \in Procs |-> "idle"]
  /\ op \in [Procs -> Ops]
  /\ loaded = [p \in Procs |-> 0]
  /\ reg = [p \in Procs |-> 0]
  /\ calls = [p \in Procs |-> 0]

(* The C caller passes the address and the arguments.                      *)
Call(p) ==
  /\ pc[p] = "idle"
  /\ calls[p] < MaxCalls
  /\ \E o \in Ops : /\ op' = [op EXCEPT ![p] = o]
                    /\ pc' = [pc EXCEPT ![p] = FirstAccess(o)]
  /\ calls' = [calls EXCEPT ![p] = @ + 1]
  /\ UNCHANGED <<mem, resv, loaded, reg>>

(* LR.W, then the compare of the cas routines: on a mismatch they return 0 *)
(* and leave the reservation standing.                                     *)
LoadReserved(p) ==
  /\ pc[p] = "lr"
  /\ loaded' = [loaded EXCEPT ![p] = mem]
  /\ resv' = resv \cup {p}
  /\ \/ /\ Matches(op[p], mem)
        /\ pc' = [pc EXCEPT ![p] = "sc"]
        /\ UNCHANGED reg
     \/ /\ ~Matches(op[p], mem)
        /\ pc' = [pc EXCEPT ![p] = "ret"]
        /\ reg' = [reg EXCEPT ![p] = 0]
  /\ UNCHANGED <<mem, op, calls>>

(* SC.W finds the reservation standing: it stores and every reservation on *)
(* the word is gone.                                                       *)
StoreConditional(p) ==
  /\ pc[p] = "sc"
  /\ p \in resv
  /\ mem' = LowWord(Stored(op[p], loaded[p]))
  /\ resv' = {}
  /\ reg' = [reg EXCEPT ![p] = Yields(op[p], loaded[p])]
  /\ pc' = [pc EXCEPT ![p] = "ret"]
  /\ UNCHANGED <<op, loaded, calls>>

(* Slip: the BNE re-reserves but keeps the value loaded before the loop.   *)
StoreFailsKeepingValue(p) ==
  /\ pc[p] = "sc"
  /\ p \notin resv
  /\ resv' = resv \cup {p}
  /\ UNCHANGED <<mem, pc, op, loaded, reg, calls>>

(* Slip: the BNE goes back to the store-conditional itself.                *)
StoreFailsToStore(p) ==
  /\ pc[p] = "sc"
  /\ p \notin resv
  /\ UNCHANGED vars

(* SC.W fails; BNE R14 goes back to the load.                              *)
StoreFails(p) ==
  /\ pc[p] = "sc"
  /\ p \notin resv
  /\ pc' = [pc EXCEPT ![p] = "lr"]
  /\ UNCHANGED <<mem, resv, op, loaded, reg, calls>>

(* agetl: one load between fences.                                         *)
Load(p) ==
  /\ pc[p] = "load"
  /\ reg' = [reg EXCEPT ![p] = mem]
  /\ pc' = [pc EXCEPT ![p] = "ret"]
  /\ UNCHANGED <<mem, resv, op, loaded, calls>>

(* An ordinary C assignment to the word (unlock: lk->val = 0).             *)
PlainStore(p) ==
  /\ pc[p] = "store"
  /\ mem' = op[p].a
  /\ resv' = {}
  /\ reg' = [reg EXCEPT ![p] = op[p].a]
  /\ pc' = [pc EXCEPT ![p] = "ret"]
  /\ UNCHANGED <<op, loaded, calls>>

(* Slip: aincl without its last MOVW.                                      *)
AnsweredAsAdded(o, r) == r

(* RET; aincl first re-sign-extends its answer.                            *)
Answered(o, r) == IF o.name = "aincl" THEN LowWord(r) ELSE r

Return(p) ==
  /\ pc[p] = "ret"
  /\ reg' = [reg EXCEPT ![p] = Answered(op[p], @)]
  /\ pc' = [pc EXCEPT ![p] = "idle"]
  /\ UNCHANGED <<mem, resv, op, loaded, calls>>

(* The hart may drop a reservation at any time: a trap, a context switch,  *)
(* an eviction of the line.                                                *)
LoseReservation(p) ==
  /\ p \in resv
  /\ resv' = resv \ {p}
  /\ UNCHANGED <<mem, pc, op, loaded, reg, calls>>

(* Every process has made its calls.                                       *)
Finished ==
  /\ \A p \in Procs : pc[p] = "idle" /\ calls[p] = MaxCalls
  /\ UNCHANGED vars

Step(p) ==
  \/ LoadReserved(p)
  \/ StoreFails(p)
  \/ Load(p)
  \/ PlainStore(p)
  \/ Return(p)

Next ==
  \/ \E p \in Procs : \/ Call(p)
                      \/ StoreConditional(p)
                      \/ Step(p)
                      \/ LoseReservation(p)
  \/ Finished

Spec == Init /\ [][Next]_vars

-----------------------------------------------------------------------------
TypeOK ==
  /\ mem \in Word
  /\ resv \in SUBSET Procs
  /\ pc \in [Procs -> {"idle", "lr", "sc", "load", "store", "ret"}]
  /\ op \in [Procs -> Ops]
  /\ loaded \in [Procs -> Word]
  /\ reg \in [Procs -> Reg]
  /\ calls \in [Procs -> Nat]

(* Between a load-reserved and its store-conditional, a standing           *)
(* reservation means the word still holds what was loaded, so the store    *)
(* overwrites no update it has not seen: the LR/SC loops of atom.s and     *)
(* atomic.s.                                                               *)
NoStaleStore ==
  \A p \in Procs : pc[p] = "sc" /\ p \in resv => loaded[p] = mem

(* A long returned by the routines of atomic.s and by _tas and cas is      *)
(* sign-extended in the whole register, as compiled callers expect: the    *)
(* final MOVW of aincl.                                                    *)
LongReturn ==
  \A p \in Procs : pc[p] = "idle" /\ op[p].name \notin {"ainc", "adec"}
                   => reg[p] \in Word

(* Every call takes effect at one instant between invocation and return,   *)
(* with the contents and answer AtomicWord names.                          *)
Linearizable == Abs!Spec

(* Lock-freedom seen from a bounded number of calls: contention delays a   *)
(* call but cannot keep it from returning for ever.                        *)
CallsReturn ==
  \A p \in Procs : pc[p] # "idle" ~> pc[p] = "idle"
=============================================================================
