--------------------------- MODULE Atomics_proofs ---------------------------
(***************************************************************************)
(* For every number of processes, every word width, and registers as wide  *)
(* as a word or wider: the LR/SC loops of libc are type correct, never     *)
(* store over an update they have not seen, return sign-extended longs,    *)
(* and implement AtomicWord; and APE's lock over tas keeps mutual          *)
(* exclusion.                                                              *)
(***************************************************************************)
EXTENDS Lock, TLAPS

(* What a sum of two words, or a zero-extended word, leaves in a register. *)
WideWord == {r \in Reg : -2 * HalfWord <= r /\ r < 2 * HalfWord}

(* The registers each routine holds at its accesses and at its RET.        *)
RegisterInv ==
  \A p \in Procs :
    /\ reg[p] \in WideWord
    /\ pc[p] \in {"lr", "sc"} => op[p].name \in Loops
    /\ pc[p] = "load" => op[p].name = "agetl"
    /\ pc[p] = "store" => op[p].name = "store"
    /\ pc[p] = "sc" => Matches(op[p], loaded[p])
    /\ pc[p] = "ret" /\ op[p].name \notin {"ainc", "adec", "aincl"}
         => reg[p] \in Word

IInv == TypeOK /\ RegisterInv /\ NoStaleStore /\ LongReturn

(* The register arithmetic of the routines, whatever the widths.           *)
LEMMA OpTypes ==
  ASSUME NEW o \in Ops
  PROVE  /\ o.a \in Word
         /\ o.b \in Word
         /\ o.name \in Abs!RoutineNames
PROOF BY AtomicsAssumption DEF Abs!OpRecords, Abs!Word, Word

(* A word, read as a signed number, is a register's value.                 *)
LEMMA WordsAreRegisters ==
  /\ Word \subseteq WideWord
  /\ WideWord \subseteq Reg
  /\ Word \subseteq Reg
  /\ 0 \in Word /\ 1 \in Word
PROOF BY AtomicsAssumption DEF Word, Reg, WideWord

(* SC.W and MOVW R,R keep the low word; doing so twice changes nothing.    *)
LEMMA LowWordOfWide ==
  ASSUME NEW r \in WideWord
  PROVE  LowWord(r) \in Word /\ LowWord(LowWord(r)) = LowWord(r)
PROOF BY AtomicsAssumption DEF LowWord, Word, Reg, WideWord

(* ADD in a register, then the low word, is addition that wraps.           *)
LEMMA SumFits ==
  ASSUME NEW v \in Word, NEW a \in Word
  PROVE  /\ WrapReg(v + a) \in WideWord
         /\ LowWord(WrapReg(v + a)) = Abs!WrapWord(v + a)
         /\ WrapReg(v - 1) \in WideWord
         /\ LowWord(WrapReg(v - 1)) = Abs!WrapWord(v - 1)
PROOF BY AtomicsAssumption DEF LowWord, WrapReg, Word, Reg, WideWord, Abs!WrapWord

(* Comparing zero-extensions compares words.                               *)
LEMMA ZeroExtendIsExact ==
  ASSUME NEW v \in Word, NEW a \in Word
  PROVE  /\ ZeroExtend(v) \in WideWord
         /\ LowWord(ZeroExtend(v)) = v
         /\ ZeroExtend(a) = ZeroExtend(v) <=> a = v
PROOF BY AtomicsAssumption DEF LowWord, ZeroExtend, WrapReg, Word, Reg, WideWord

(* A word is its own low word.                                             *)
LEMMA LowWordOfWord ==
  ASSUME NEW v \in Word
  PROVE  LowWord(v) = v
PROOF BY AtomicsAssumption DEF LowWord, Word

(* What a successful store-conditional stores and returns.                 *)
LEMMA StoredFits ==
  ASSUME NEW o \in Ops, NEW v \in Word, o.name \in Loops
  PROVE  /\ Stored(o, v) \in WideWord
         /\ Yields(o, v) \in WideWord
         /\ LowWord(Stored(o, v)) \in Word
         /\ o.name \notin {"ainc", "adec", "aincl"} => Yields(o, v) \in Word
<1>1. o.a \in Word /\ o.b \in Word /\ v \in WideWord /\ 1 \in Word
  BY OpTypes, WordsAreRegisters
<1>2. Stored(o, v) \in WideWord
  BY <1>1, SumFits, ZeroExtendIsExact, WordsAreRegisters DEF Stored, Loops
<1>3. Yields(o, v) \in WideWord
  BY <1>1, <1>2, WordsAreRegisters DEF Yields, Loops
<1>4. o.name \notin {"ainc", "adec", "aincl"} => Yields(o, v) \in Word
  BY <1>1 DEF Yields, Loops
<1> QED BY <1>2, <1>3, <1>4, LowWordOfWide

(* No call is under way at first.                                          *)
LEMMA InitInvariant == Init => IInv
<1> SUFFICES ASSUME Init PROVE IInv
  OBVIOUS
<1>1. TypeOK
  BY WordsAreRegisters DEF Init, TypeOK
<1>2. RegisterInv
  BY WordsAreRegisters DEF Init, RegisterInv
<1>3. NoStaleStore /\ LongReturn
  BY WordsAreRegisters DEF Init, NoStaleStore, LongReturn
<1> QED BY <1>1, <1>2, <1>3 DEF IInv

(* One step per action, one step below it per conjunct it can disturb.     *)
LEMMA StepInvariant == IInv /\ [Next]_vars => IInv'
<1> SUFFICES ASSUME IInv, [Next]_vars PROVE IInv'
  OBVIOUS
<1> USE DEF IInv
<1>1. ASSUME NEW p \in Procs, Call(p) PROVE IInv'
  <2>1. PICK o \in Ops : /\ op' = [op EXCEPT ![p] = o]
                         /\ pc' = [pc EXCEPT ![p] = FirstAccess(o)]
    BY <1>1 DEF Call
  <2>2. /\ o.name \in Abs!RoutineNames
        /\ FirstAccess(o) \in {"lr", "load", "store"}
        /\ FirstAccess(o) = "lr" => o.name \in Loops
        /\ FirstAccess(o) = "load" => o.name = "agetl"
        /\ FirstAccess(o) = "store" => o.name = "store"
    BY OpTypes DEF FirstAccess, Loops, Abs!RoutineNames
  <2>3. TypeOK'
    BY <1>1, <2>1, <2>2 DEF Call, TypeOK
  <2>4. RegisterInv'
    BY <1>1, <2>1, <2>2 DEF Call, TypeOK, RegisterInv, Matches, CasCompare, AcaslCompare
  <2>5. NoStaleStore'
    BY <1>1, <2>1, <2>2 DEF Call, TypeOK, NoStaleStore
  <2>6. LongReturn'
    BY <1>1, <2>1, <2>2 DEF Call, TypeOK, LongReturn
  <2> QED BY <2>3, <2>4, <2>5, <2>6
<1>2. ASSUME NEW p \in Procs, LoadReserved(p) PROVE IInv'
  <2>1. TypeOK'
    BY <1>2, WordsAreRegisters DEF LoadReserved, TypeOK
  <2>2. RegisterInv'
    BY <1>2, WordsAreRegisters
    DEF LoadReserved, TypeOK, RegisterInv, Matches, CasCompare, AcaslCompare
  <2>3. NoStaleStore'
    BY <1>2 DEF LoadReserved, TypeOK, NoStaleStore
  <2>4. LongReturn'
    BY <1>2 DEF LoadReserved, TypeOK, LongReturn
  <2> QED BY <2>1, <2>2, <2>3, <2>4
<1>3. ASSUME NEW p \in Procs, StoreConditional(p) PROVE IInv'
  <2>1. /\ op[p] \in Ops /\ loaded[p] \in Word /\ op[p].name \in Loops
    BY <1>3 DEF StoreConditional, TypeOK, RegisterInv
  <2>2. /\ LowWord(Stored(op[p], loaded[p])) \in Word
        /\ Yields(op[p], loaded[p]) \in WideWord
        /\ Yields(op[p], loaded[p]) \in Reg
        /\ op[p].name \notin {"ainc", "adec", "aincl"}
             => Yields(op[p], loaded[p]) \in Word
    BY <2>1, StoredFits, WordsAreRegisters
  <2>3. TypeOK'
    BY <1>3, <2>2 DEF StoreConditional, TypeOK
  <2>4. RegisterInv'
    BY <1>3, <2>2
    DEF StoreConditional, TypeOK, RegisterInv, Matches, CasCompare, AcaslCompare
  <2>5. NoStaleStore'
    BY <1>3 DEF StoreConditional, TypeOK, NoStaleStore
  <2>6. LongReturn'
    BY <1>3 DEF StoreConditional, TypeOK, LongReturn
  <2> QED BY <2>3, <2>4, <2>5, <2>6
<1>4. ASSUME NEW p \in Procs, StoreFails(p) PROVE IInv'
  <2>1. TypeOK'
    BY <1>4 DEF StoreFails, TypeOK
  <2>2. RegisterInv'
    BY <1>4 DEF StoreFails, TypeOK, RegisterInv, Matches, CasCompare, AcaslCompare
  <2>3. NoStaleStore' /\ LongReturn'
    BY <1>4 DEF StoreFails, TypeOK, NoStaleStore, LongReturn
  <2> QED BY <2>1, <2>2, <2>3
<1>5. ASSUME NEW p \in Procs, Load(p) PROVE IInv'
  <2>1. TypeOK'
    BY <1>5, WordsAreRegisters DEF Load, TypeOK
  <2>2. RegisterInv'
    BY <1>5, WordsAreRegisters
    DEF Load, TypeOK, RegisterInv, Matches, CasCompare, AcaslCompare
  <2>3. NoStaleStore' /\ LongReturn'
    BY <1>5 DEF Load, TypeOK, NoStaleStore, LongReturn
  <2> QED BY <2>1, <2>2, <2>3
<1>6. ASSUME NEW p \in Procs, PlainStore(p) PROVE IInv'
  <2>1. op[p].a \in Word /\ op[p].a \in WideWord /\ op[p].a \in Reg
    BY OpTypes, WordsAreRegisters DEF TypeOK
  <2>2. TypeOK'
    BY <1>6, <2>1 DEF PlainStore, TypeOK
  <2>3. RegisterInv'
    BY <1>6, <2>1
    DEF PlainStore, TypeOK, RegisterInv, Matches, CasCompare, AcaslCompare
  <2>4. NoStaleStore' /\ LongReturn'
    BY <1>6 DEF PlainStore, TypeOK, NoStaleStore, LongReturn
  <2> QED BY <2>2, <2>3, <2>4
<1>7. ASSUME NEW p \in Procs, Return(p) PROVE IInv'
  <2>1. /\ Answered(op[p], reg[p]) \in WideWord
        /\ op[p].name \notin {"ainc", "adec"} => Answered(op[p], reg[p]) \in Word
    BY <1>7, LowWordOfWide, WordsAreRegisters DEF Return, Answered, RegisterInv
  <2>2. TypeOK'
    BY <1>7, <2>1, WordsAreRegisters DEF Return, TypeOK
  <2>3. RegisterInv'
    BY <1>7, <2>1 DEF Return, TypeOK, RegisterInv, Matches, CasCompare, AcaslCompare
  <2>4. NoStaleStore'
    BY <1>7 DEF Return, TypeOK, NoStaleStore
  <2>5. LongReturn'
    BY <1>7, <2>1 DEF Return, TypeOK, LongReturn
  <2> QED BY <2>2, <2>3, <2>4, <2>5
<1>8. ASSUME NEW p \in Procs, LoseReservation(p) PROVE IInv'
  <2>1. TypeOK'
    BY <1>8 DEF LoseReservation, TypeOK
  <2>2. RegisterInv'
    BY <1>8 DEF LoseReservation, RegisterInv, Matches, CasCompare, AcaslCompare
  <2>3. NoStaleStore' /\ LongReturn'
    BY <1>8 DEF LoseReservation, TypeOK, NoStaleStore, LongReturn
  <2> QED BY <2>1, <2>2, <2>3
<1>9. CASE UNCHANGED vars
  BY <1>9 DEF vars, TypeOK, RegisterInv, NoStaleStore, LongReturn,
              Matches, CasCompare, AcaslCompare
<1> QED
  BY <1>1, <1>2, <1>3, <1>4, <1>5, <1>6, <1>7, <1>8, <1>9 DEF Next, Step, Finished

(* The inductive invariant holds of every behaviour.                       *)
THEOREM Invariance == Spec => []IInv
PROOF BY InitInvariant, StepInvariant, PTL DEF Spec

(* Registers, memory and control stay within their types.                  *)
THEOREM TypeCorrect == Spec => []TypeOK
<1>1. IInv => TypeOK
  BY DEF IInv
<1> QED BY <1>1, Invariance, PTL

(* A store-conditional that succeeds never overwrites an unseen update.    *)
THEOREM NeverStale == Spec => []NoStaleStore
<1>1. IInv => NoStaleStore
  BY DEF IInv
<1> QED BY <1>1, Invariance, PTL

(* The routines of atomic.s, _tas and cas return sign-extended longs.      *)
THEOREM LongsReturned == Spec => []LongReturn
<1>1. IInv => LongReturn
  BY DEF IInv
<1> QED BY <1>1, Invariance, PTL

-----------------------------------------------------------------------------
(* Refinement.  A call takes effect at its successful store-conditional,   *)
(* at the load that finds a mismatch, or at its only load or store.        *)

(* A successful store-conditional does what the abstract call does.        *)
LEMMA StoreTakesEffect ==
  ASSUME NEW o \in Ops, NEW v \in Word, o.name \in Loops, Matches(o, v)
  PROVE  /\ LowWord(Stored(o, v)) = Abs!Contents(o, v)
         /\ LowWord(Yields(o, v)) = Abs!Answer(o, v)
<1>1. o.a \in Word /\ o.b \in Word /\ 1 \in Word
  BY OpTypes, WordsAreRegisters
<1>2. CASE o.name \in {"_tas", "aswapl"}
  BY <1>1, <1>2, LowWordOfWord DEF Stored, Yields, Abs!Contents, Abs!Answer
<1>3. CASE o.name \in {"ainc", "adec", "aincl"}
  BY <1>1, <1>3, SumFits DEF Stored, Yields, Abs!Contents, Abs!Answer
<1>4. CASE o.name \in {"cas", "acasl"}
  <2>1. v = o.a
    BY <1>1, <1>4, ZeroExtendIsExact DEF Matches, CasCompare, AcaslCompare
  <2> QED
    BY <1>1, <1>4, <2>1, LowWordOfWord, ZeroExtendIsExact
    DEF Stored, Yields, Abs!Contents, Abs!Answer
<1> QED BY <1>2, <1>3, <1>4 DEF Loops

(* A compare that fails leaves the word alone and answers 0.               *)
LEMMA MismatchTakesEffect ==
  ASSUME NEW o \in Ops, NEW v \in Word, o.name \in Loops, ~Matches(o, v)
  PROVE  v = Abs!Contents(o, v) /\ LowWord(0) = Abs!Answer(o, v)
<1>1. o.name \in {"cas", "acasl"} /\ v # o.a
  BY OpTypes, ZeroExtendIsExact DEF Matches, CasCompare, AcaslCompare
<1>2. LowWord(0) = 0
  BY WordsAreRegisters, LowWordOfWord
<1> QED BY <1>1, <1>2 DEF Abs!Contents, Abs!Answer

(* Memory starts alike and no call is under way.                           *)
LEMMA InitRefines == Init => Abs!Init
PROOF BY AtomicsAssumption DEF Init, Abs!Init, Abs!Word, Word

(* Every step is an abstract step or changes nothing the caller can see.   *)
LEMMA StepRefines == IInv /\ IInv' /\ [Next]_vars => [Abs!Next]_(Abs!vars)
<1> SUFFICES ASSUME IInv, [Next]_vars PROVE [Abs!Next]_(Abs!vars)
  BY DEF IInv
<1> USE DEF IInv
<1>1. ASSUME NEW p \in Procs, Call(p) PROVE Abs!Invoke(p)
  <2>1. PICK o \in Ops : /\ op' = [op EXCEPT ![p] = o]
                         /\ pc' = [pc EXCEPT ![p] = FirstAccess(o)]
    BY <1>1 DEF Call
  <2>2. FirstAccess(o) \in {"lr", "load", "store"}
    BY OpTypes DEF FirstAccess, Loops, Abs!RoutineNames
  <2> QED BY <1>1, <2>1, <2>2 DEF Call, Abs!Invoke, TypeOK
<1>2. ASSUME NEW p \in Procs, LoadReserved(p) PROVE [Abs!Next]_(Abs!vars)
  <2>1. /\ op[p] \in Ops /\ mem \in Word /\ op[p].name \in Loops
    BY <1>2 DEF LoadReserved, TypeOK, RegisterInv
  <2>2. CASE Matches(op[p], mem)
    BY <1>2, <2>2 DEF LoadReserved, Abs!vars, TypeOK
  <2>3. CASE ~Matches(op[p], mem)
    <3>1. mem = Abs!Contents(op[p], mem) /\ LowWord(0) = Abs!Answer(op[p], mem)
      BY <2>1, <2>3, MismatchTakesEffect
    <3>2. /\ pc[p] = "lr" /\ mem' = mem /\ op' = op
          /\ pc' = [pc EXCEPT ![p] = "ret"]
          /\ reg' = [reg EXCEPT ![p] = 0]
      BY <1>2, <2>3 DEF LoadReserved
    <3>3. pc \in [Procs -> {"idle", "lr", "sc", "load", "store", "ret"}]
          /\ reg \in [Procs -> Reg]
      BY DEF TypeOK
    <3>4. Abs!TakeEffect(p)
      BY <3>1, <3>2, <3>3 DEF Abs!TakeEffect, LowWord
    <3> QED BY <3>4 DEF Abs!Next
  <2> QED BY <2>2, <2>3
<1>3. ASSUME NEW p \in Procs, StoreConditional(p) PROVE Abs!TakeEffect(p)
  <2>1. /\ op[p] \in Ops /\ loaded[p] = mem /\ mem \in Word
        /\ op[p].name \in Loops /\ Matches(op[p], mem)
    BY <1>3 DEF StoreConditional, TypeOK, RegisterInv, NoStaleStore
  <2>2. /\ LowWord(Stored(op[p], mem)) = Abs!Contents(op[p], mem)
        /\ LowWord(Yields(op[p], mem)) = Abs!Answer(op[p], mem)
    BY <2>1, StoreTakesEffect
  <2> QED BY <1>3, <2>1, <2>2 DEF StoreConditional, TypeOK, Abs!TakeEffect, LowWord
<1>4. ASSUME NEW p \in Procs, StoreFails(p) PROVE UNCHANGED Abs!vars
  BY <1>4 DEF StoreFails, Abs!vars, TypeOK
<1>5. ASSUME NEW p \in Procs, Load(p) PROVE Abs!TakeEffect(p)
  <2>1. op[p].name = "agetl" /\ LowWord(mem) = mem
    BY <1>5, LowWordOfWord DEF Load, TypeOK, RegisterInv
  <2> QED
    BY <1>5, <2>1 DEF Load, TypeOK, Abs!TakeEffect, Abs!Contents, Abs!Answer, LowWord
<1>6. ASSUME NEW p \in Procs, PlainStore(p) PROVE Abs!TakeEffect(p)
  <2>1. op[p].name = "store" /\ LowWord(op[p].a) = op[p].a
    BY <1>6, OpTypes, LowWordOfWord DEF PlainStore, TypeOK, RegisterInv
  <2> QED
    BY <1>6, <2>1
    DEF PlainStore, TypeOK, Abs!TakeEffect, Abs!Contents, Abs!Answer, LowWord
<1>7. ASSUME NEW p \in Procs, Return(p) PROVE Abs!Return(p)
  <2>1. LowWord(Answered(op[p], reg[p])) = LowWord(reg[p])
    BY <1>7, LowWordOfWide DEF Return, RegisterInv, Answered
  <2> QED BY <1>7, <2>1 DEF Return, TypeOK, Abs!Return, LowWord
<1>8. ASSUME NEW p \in Procs, LoseReservation(p) PROVE UNCHANGED Abs!vars
  BY <1>8 DEF LoseReservation, Abs!vars
<1>9. CASE UNCHANGED vars
  BY <1>9 DEF vars, Abs!vars
<1> QED
  BY <1>1, <1>2, <1>3, <1>4, <1>5, <1>6, <1>7, <1>8, <1>9
  DEF Next, Step, Finished, Abs!Next

(* The instruction sequences implement an atomic word.                     *)
THEOREM Refinement == Spec => Linearizable
PROOF BY InitRefines, StepRefines, Invariance, PTL DEF Spec, Linearizable, Abs!Spec

-----------------------------------------------------------------------------
(* The lock.  Its behaviours are behaviours of the atomic routines, so     *)
(* IInv holds; NoStaleStore is what makes a store-conditional of 1 over 0  *)
(* happen once.                                                            *)

IsLock == \E p \in Procs : user[p] # Ordinary

(* Which routine runs at each place, and how far it may be.                *)
PlaceInv(p) ==
  /\ user[p] \in {Out, Locking, Asking, In, Leaving}
  /\ user[p] \in {Out, In} => pc[p] = "idle"
  /\ user[p] = Locking /\ pc[p] # "idle" => op[p] = Tas
  /\ user[p] = Asking => pc[p] # "idle" /\ op[p] = Tas
  /\ user[p] \in {Locking, Asking} => pc[p] \in {"idle", "lr", "sc", "ret"}
  /\ user[p] = Leaving => pc[p] \in {"store", "ret"} /\ op[p] = Clear

UserInv ==
  /\ user \in [Procs -> {Ordinary, Out, Locking, Asking, In, Leaving}]
  /\ IsLock => \A p \in Procs : PlaceInv(p)

LInv == UserInv /\ MutualExclusion

(* The words of tas and of unlock.                                         *)
LEMMA LockWords ==
  /\ FirstAccess(Tas) = "lr"
  /\ FirstAccess(Clear) = "store"
  /\ \A v : Matches(Tas, v)
  /\ \A v : LowWord(Stored(Tas, v)) = 1 /\ Yields(Tas, v) = v
  /\ Clear.a = 0
<1>1. Tas.name = "_tas" /\ Clear.name = "store" /\ Clear.a = 0
  BY DEF Tas, Clear
<1>2. FirstAccess(Tas) = "lr" /\ FirstAccess(Clear) = "store"
  BY <1>1 DEF FirstAccess, Loops
<1>3. \A v : Matches(Tas, v)
  BY <1>1 DEF Matches
<1>4. \A v : Stored(Tas, v) = 1 /\ Yields(Tas, v) = v
  BY <1>1 DEF Stored, Yields
<1>5. LowWord(1) = 1
  BY WordsAreRegisters, LowWordOfWord
<1> QED BY <1>1, <1>2, <1>3, <1>4, <1>5

(* The places are different.                                               *)
LEMMA Places ==
  /\ Ordinary \notin {Out, Locking, Asking, In, Leaving}
  /\ Out \notin {Locking, Asking, In, Leaving}
  /\ Locking \notin {Asking, In, Leaving}
  /\ Asking \notin {In, Leaving}
  /\ In # Leaving
PROOF BY DEF Ordinary, Out, Locking, Asking, In, Leaving

(* A Lock's steps are steps of the atomic routines.                        *)
LEMMA LockIsAtomics ==
  /\ LockInit => Init
  /\ [LockNext]_lockVars => [Next]_vars
<1>1. LockInit => Init
  BY DEF LockInit
<1>2. ASSUME NEW p \in Procs,
             CallAny(p) \/ lock(p) \/ canlock(p) \/ unlock(p)
      PROVE  Next
  BY <1>2 DEF CallAny, lock, canlock, unlock, Enter, Next
<1>3. ASSUME NEW p \in Procs,
             LockStep(p) \/ StoreConditional(p) \/ LoseReservation(p)
      PROVE  Next
  BY <1>3 DEF LockStep, Next
<1>4. Finished => Next
  BY DEF Next
<1>5. UNCHANGED lockVars => UNCHANGED vars
  BY DEF lockVars
<1> QED BY <1>1, <1>2, <1>3, <1>4, <1>5 DEF LockNext

(* Nobody has the lock at first, or the word is none.                      *)
LEMMA LockInitInvariant == LockInit => LInv
<1> SUFFICES ASSUME LockInit PROVE LInv
  OBVIOUS
<1>1. CASE user = [p \in Procs |-> Ordinary]
  BY <1>1 DEF LInv, UserInv, IsLock, MutualExclusion
<1>2. CASE user = [p \in Procs |-> Out] /\ mem = 0
  BY <1>2, Places
  DEF LockInit, Init, LInv, UserInv, IsLock, PlaceInv, MutualExclusion, Holds
<1> QED BY <1>1, <1>2 DEF LockInit

(* What lock, canlock and unlock come back to.                             *)
LEMMA ReturnedIs ==
  ASSUME NEW p \in Procs
  PROVE  /\ user[p] \in {Locking, Asking} /\ reg[p] = 0 => Returned(p) = In
         /\ user[p] = Asking /\ reg[p] # 0 => Returned(p) = Out
         /\ user[p] = Locking /\ reg[p] # 0 => Returned(p) = Locking
         /\ user[p] = Leaving => Returned(p) = Out
         /\ user[p] \notin {Locking, Asking, Leaving} => Returned(p) = user[p]
<1>1. CASE user[p] \in {Locking, Asking} /\ reg[p] = 0
  BY <1>1, Places DEF Returned, Won
<1>2. CASE user[p] = Asking /\ reg[p] # 0
  BY <1>2, Places DEF Returned, Won
<1>3. CASE user[p] = Leaving
  BY <1>3, Places DEF Returned, Won
<1>4. CASE user[p] = Locking /\ reg[p] # 0
  BY <1>4, Places DEF Returned, Won
<1>5. CASE user[p] \notin {Locking, Asking, Leaving}
  BY <1>5, Places DEF Returned, Won
<1> QED BY <1>1, <1>2, <1>3, <1>4, <1>5, Places

(* One step per action.                                                    *)
LEMMA LockStepInvariant == IInv /\ LInv /\ [LockNext]_lockVars => LInv'
<1> SUFFICES ASSUME IInv, LInv, [LockNext]_lockVars PROVE LInv'
  OBVIOUS
<1> DEFINE Places6 == {Ordinary, Out, Locking, Asking, In, Leaving}
<1>t. /\ user \in [Procs -> Places6]
      /\ pc \in [Procs -> {"idle", "lr", "sc", "load", "store", "ret"}]
      /\ op \in [Procs -> Ops] /\ reg \in [Procs -> Reg] /\ loaded \in [Procs -> Word]
  BY DEF LInv, UserInv, IInv, TypeOK
<1>i. IsLock => /\ \A p \in Procs : PlaceInv(p)
                /\ \A p, q \in Procs : Holds(p) /\ Holds(q) => p = q
                /\ mem = 0 <=> ~\E p \in Procs : Holds(p)
  BY DEF LInv, UserInv, MutualExclusion, IsLock
<1>1. ASSUME NEW p \in Procs, CallAny(p) PROVE LInv'
  BY <1>1, <1>t, <1>i, Places DEF CallAny, Call, LInv, UserInv, MutualExclusion, IsLock, PlaceInv
<1>2. ASSUME NEW p \in Procs, lock(p) \/ canlock(p) PROVE LInv'
  <2>1. PICK place \in {Locking, Asking} :
          /\ user[p] \in {Out, Locking}
          /\ user' = [user EXCEPT ![p] = place]
          /\ op' = [op EXCEPT ![p] = Tas]
          /\ pc[p] = "idle" /\ pc' = [pc EXCEPT ![p] = "lr"]
          /\ mem' = mem /\ reg' = reg
    BY <1>2, <1>t, LockWords DEF lock, canlock, Enter, Call
  <2> QED BY <2>1, <1>t, <1>i, Places DEF LInv, UserInv, MutualExclusion, IsLock, PlaceInv, Holds
<1>3. ASSUME NEW p \in Procs, unlock(p) PROVE LInv'
  <2>1. /\ user[p] = In
        /\ user' = [user EXCEPT ![p] = Leaving]
        /\ op' = [op EXCEPT ![p] = Clear]
        /\ pc[p] = "idle" /\ pc' = [pc EXCEPT ![p] = "store"]
        /\ mem' = mem /\ reg' = reg
    BY <1>3, <1>t, LockWords DEF unlock, Enter, Call
  <2> QED BY <2>1, <1>t, <1>i, Places DEF LInv, UserInv, MutualExclusion, IsLock, PlaceInv, Holds
<1>4. ASSUME NEW p \in Procs, LockStep(p), pc[p] # "ret" PROVE LInv'
  <2>0. user' = user
    BY <1>4 DEF LockStep
  <2>1. CASE LoadReserved(p)
    BY <2>0, <2>1, <1>t, <1>i, Places, LockWords DEF LoadReserved, LInv, UserInv, MutualExclusion, IsLock, PlaceInv, Holds
  <2>2. CASE StoreFails(p)
    BY <2>0, <2>2, <1>t, <1>i, Places DEF StoreFails, LInv, UserInv, MutualExclusion, IsLock, PlaceInv, Holds
  <2>3. CASE Load(p)
    BY <2>0, <2>3, <1>t, <1>i, Places DEF Load, LInv, UserInv, MutualExclusion, IsLock, PlaceInv, Holds
  <2>4. CASE PlainStore(p)
    BY <2>0, <2>4, <1>t, <1>i, Places, LockWords DEF PlainStore, LInv, UserInv, MutualExclusion, IsLock, PlaceInv, Holds
  <2> QED BY <1>4, <2>1, <2>2, <2>3, <2>4 DEF LockStep, Step, Return
<1>5. ASSUME NEW p \in Procs, LockStep(p), pc[p] = "ret" PROVE LInv'
  <2>1. /\ user' = [user EXCEPT ![p] = Returned(p)]
        /\ Return(p)
    BY <1>5 DEF LockStep, Step, LoadReserved, StoreFails, Load, PlainStore
  <2>2. /\ pc' = [pc EXCEPT ![p] = "idle"]
        /\ mem' = mem /\ op' = op
        /\ reg' = [reg EXCEPT ![p] = Answered(op[p], @)]
    BY <2>1 DEF Return
  <2>3. Returned(p) \in Places6
    BY ReturnedIs, <1>t, Places
  <2> QED BY <1>5, <2>1, <2>2, <2>3, <1>t, <1>i, ReturnedIs, Places
          DEF LInv, UserInv, MutualExclusion, IsLock, PlaceInv, Holds
<1>6. ASSUME NEW p \in Procs, StoreConditional(p), UNCHANGED user PROVE LInv'
  <2>1. CASE IsLock
    <3>1. pc[p] = "sc" /\ user[p] \in {Locking, Asking} /\ op[p] = Tas
      BY <1>6, <2>1, <1>i, Places DEF StoreConditional, PlaceInv
    <3>2. /\ loaded[p] = mem
          /\ pc' = [pc EXCEPT ![p] = "ret"]
          /\ op' = op
          /\ mem' = 1
          /\ reg' = [reg EXCEPT ![p] = loaded[p]]
      BY <1>6, <3>1, LockWords DEF StoreConditional, IInv, NoStaleStore
    <3> QED BY <1>6, <2>1, <3>1, <3>2, <1>t, <1>i, Places DEF LInv, UserInv, MutualExclusion, IsLock, PlaceInv, Holds
  <2>2. CASE ~IsLock
    BY <1>6, <2>2, <1>t DEF LInv, UserInv, MutualExclusion, IsLock
  <2> QED BY <2>1, <2>2
<1>7. ASSUME NEW p \in Procs, LoseReservation(p), UNCHANGED user PROVE LInv'
  BY <1>7, <1>t, <1>i DEF LoseReservation, LInv, UserInv, MutualExclusion, IsLock, PlaceInv, Holds
<1>8. CASE UNCHANGED lockVars
  BY <1>8, <1>t, <1>i
  DEF lockVars, vars, LInv, UserInv, MutualExclusion, IsLock, PlaceInv, Holds
<1>9. CASE Finished /\ UNCHANGED user
  BY <1>8, <1>9 DEF Finished, lockVars
<1>10. ASSUME LockNext PROVE LInv'
  BY <1>1, <1>2, <1>3, <1>4, <1>5, <1>6, <1>7, <1>9, <1>10 DEF LockNext
<1> QED BY <1>8, <1>10

(* At most one process has the lock, and the word tells whether one has:   *)
(* lock.c over tas.s.                                                      *)
THEOREM LockExcludes == LockSpec => []MutualExclusion
<1>1. LockSpec => Spec
  BY LockIsAtomics, PTL DEF LockSpec, Spec
<1>2. LockSpec => []LInv
  BY <1>1, Invariance, LockInitInvariant, LockStepInvariant, PTL DEF LockSpec
<1>3. LInv => MutualExclusion
  BY DEF LInv
<1> QED BY <1>2, <1>3, PTL
=============================================================================
