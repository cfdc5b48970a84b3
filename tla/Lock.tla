-------------------------------- MODULE Lock --------------------------------
(***************************************************************************)
(* APE's lock (ape/lib/ap/riscv/lock.c, and the same file in riscv64) over *)
(* the instructions of tas: the word of Atomics is a Lock's val, or it is  *)
(* an ordinary word that any routine is called for.                        *)
(***************************************************************************)
EXTENDS Atomics

VARIABLE
  user  \* user[p]: p has the lock or not, or is in lock, canlock or unlock

lockVars == <<vars, user>>

Ordinary == "ordinary"   \* the word is no lock
Out      == "out"
Locking  == "locking"    \* in lock
Asking   == "asking"     \* in canlock
In       == "in"
Leaving  == "leaving"    \* in unlock

Tas   == [name |-> "_tas", a |-> 0, b |-> 0]
Clear == [name |-> "store", a |-> 0, b |-> 0]

ASSUME LockAssumption == Tas \in Ops /\ Clear \in Ops

-----------------------------------------------------------------------------
(* A Lock is zero to begin with.                                           *)
LockInit ==
  /\ Init
  /\ \/ user = [p \in Procs |-> Ordinary]
     \/ user = [p \in Procs |-> Out] /\ mem = 0

CallAny(p) ==
  /\ user[p] = Ordinary
  /\ Call(p)
  /\ UNCHANGED user

Enter(p, place, o) ==
  /\ Call(p)
  /\ op'[p] = o
  /\ user' = [user EXCEPT ![p] = place]

(* while(tas(&lk->val)) _SLEEP(0): on entry, and after each sleep.         *)
lock(p) == user[p] \in {Out, Locking} /\ Enter(p, Locking, Tas)

canlock(p) == user[p] = Out /\ Enter(p, Asking, Tas)

(* lk->val = 0, by the process that has the lock.                          *)
unlock(p) == user[p] = In /\ Enter(p, Leaving, Clear)

(* The test of lock's while and of canlock's if.                           *)
Won(r) == r = 0

(* Where p is once the call it made has returned.                          *)
Returned(p) ==
  CASE user[p] \in {Locking, Asking} /\ Won(reg[p]) -> In
    [] user[p] = Asking /\ ~Won(reg[p]) -> Out
    [] user[p] = Leaving -> Out
    [] OTHER -> user[p]

LockStep(p) ==
  /\ Step(p)
  /\ user' = IF pc[p] = "ret" THEN [user EXCEPT ![p] = Returned(p)] ELSE user

LockNext ==
  \/ \E p \in Procs : \/ CallAny(p)
                      \/ lock(p)
                      \/ canlock(p)
                      \/ unlock(p)
                      \/ LockStep(p)
                      \/ StoreConditional(p) /\ UNCHANGED user
                      \/ LoseReservation(p) /\ UNCHANGED user
  \/ Finished /\ UNCHANGED user

LockSpec == LockInit /\ [][LockNext]_lockVars

(* A process in a routine keeps executing.  Of the store-conditionals the  *)
(* architecture promises only that not all of them fail forever: a process *)
(* may lose every race as long as others win.                              *)
LockFairness ==
  /\ \A p \in Procs : WF_lockVars(LockStep(p))
  /\ SF_lockVars(\E p \in Procs : StoreConditional(p) /\ UNCHANGED user)

LockFairSpec == LockSpec /\ LockFairness

-----------------------------------------------------------------------------
(* p has the lock: from the store-conditional that took it to the store    *)
(* that gives it back.                                                     *)
Holds(p) ==
  \/ user[p] = In
  \/ user[p] \in {Locking, Asking} /\ pc[p] = "ret" /\ reg[p] = 0
  \/ user[p] = Leaving /\ pc[p] = "store"

(* However lock, canlock and unlock of several processes interleave, at    *)
(* most one process has the lock, and the word is zero exactly when none   *)
(* has it: unlock's plain store takes the lock from nobody and is not lost *)
(* to a tas under way.                                                     *)
MutualExclusion ==
  (\E p \in Procs : user[p] # Ordinary) =>
    /\ \A p, q \in Procs : Holds(p) /\ Holds(q) => p = q
    /\ mem = 0 <=> ~\E p \in Procs : Holds(p)
=============================================================================
