----------------------------- MODULE AtomicWord -----------------------------
(***************************************************************************)
(* What libc's atomic routines promise of one shared machine word: a call  *)
(* takes effect at a single instant between its invocation and its return. *)
(* The instruction sequences that implement the routines are in Atomics;   *)
(* Atomics implements this specification.                                  *)
(*                                                                         *)
(* Words are kept as signed numbers, as a C long reads them.               *)
(***************************************************************************)
EXTENDS Integers

CONSTANTS
  Procs,       \* the processes that share the word
  HalfWord,    \* 2^(w-1) for a w-bit word
  Ops          \* the calls that may be made, records of OpRecords

Word == -HalfWord .. HalfWord - 1

RoutineNames ==
  {"_tas", "ainc", "adec", "aincl", "cas", "acasl", "aswapl", "agetl", "store"}

(* a and b are the routine's arguments after the address: the increment,   *)
(* the new value, or (cas, acasl) the old value and the new one.           *)
OpRecords == [name : RoutineNames, a : Word, b : Word]

VARIABLES
  mem,    \* the shared word
  stage,  \* stage[p]: "idle", "called" (not yet in effect) or "done"
  op,     \* op[p]: the call p made last
  result  \* result[p]: what p's last completed call returns, as a long

vars == <<mem, stage, op, result>>

(* Sums of two words reduced to a word: overflow wraps.                    *)
WrapWord(v) ==
  IF v >= HalfWord THEN v - 2 * HalfWord
  ELSE IF v < -HalfWord THEN v + 2 * HalfWord
  ELSE v

(* The contents after a call on contents m, and what the call returns.     *)
Contents(o, m) ==
  CASE o.name = "_tas"   -> 1
    [] o.name = "ainc"   -> WrapWord(m + 1)
    [] o.name = "adec"   -> WrapWord(m - 1)
    [] o.name = "aincl"  -> WrapWord(m + o.a)
    [] o.name \in {"cas", "acasl"} -> IF m = o.a THEN o.b ELSE m
    [] o.name \in {"aswapl", "store"} -> o.a
    [] o.name = "agetl"  -> m

Answer(o, m) ==
  CASE o.name \in {"_tas", "aswapl", "agetl"} -> m
    [] o.name \in {"ainc", "adec", "aincl"} -> Contents(o, m)
    [] o.name \in {"cas", "acasl"} -> IF m = o.a THEN 1 ELSE 0
    [] o.name = "store" -> o.a

-----------------------------------------------------------------------------
Init ==
  /\ mem \in Word
  /\ stage = [p \in Procs |-> "idle"]
  /\ op \in [Procs -> Ops]
  /\ result = [p \in Procs |-> 0]

Invoke(p) ==
  /\ stage[p] = "idle"
  /\ \E o \in Ops : op' = [op EXCEPT ![p] = o]
  /\ stage' = [stage EXCEPT ![p] = "called"]
  /\ UNCHANGED <<mem, result>>

TakeEffect(p) ==
  /\ stage[p] = "called"
  /\ mem' = Contents(op[p], mem)
  /\ result' = [result EXCEPT ![p] = Answer(op[p], mem)]
  /\ stage' = [stage EXCEPT ![p] = "done"]
  /\ UNCHANGED op

Return(p) ==
  /\ stage[p] = "done"
  /\ stage' = [stage EXCEPT ![p] = "idle"]
  /\ UNCHANGED <<mem, op, result>>

Next == \E p \in Procs : Invoke(p) \/ TakeEffect(p) \/ Return(p)

Spec == Init /\ [][Next]_vars
=============================================================================
