-------------------------- MODULE NoteTramp_proofs --------------------------
(***************************************************************************)
(* What NoteTramp promises, for every set of signals, every MAXSIGSTACK    *)
(* and any number of notes.                                                *)
(***************************************************************************)
EXTENDS NoteTramp, FiniteSetTheorems, TLAPS

(* A slot stays filled once a note has used it, so the one that p points   *)
(* to holds a signal, if perhaps that of a later note.                     *)
Fetched ==
  \A k \in DOMAIN acts : acts[k].at \in {Popping, Calling} =>
    /\ acts[k].p \in 1..MAXSIGSTACK
    /\ pcstack[acts[k].p].sig \in Signals

IInv == TypeOK /\ StackFollowsNotes /\ RightHandler /\ Fetched

-----------------------------------------------------------------------------
(* Those that wait below a waiting activation are fewer than those that    *)
(* wait in all, so its slot is one of the first nstack.                    *)
LEMMA WaitingFinite ==
  ASSUME NEW k \in Nat
  PROVE  /\ IsFiniteSet(Waiting(k))
         /\ Cardinality(Waiting(k)) \in Nat
<1>1. IsFiniteSet(1..k)
  BY FS_Interval
<1>2. Waiting(k) \subseteq 1..k
  BY DEF Waiting
<1>3. IsFiniteSet(Waiting(k))
  BY <1>1, <1>2, FS_Subset
<1> QED
  BY <1>3, FS_CardinalityType

(* The slot of a waiting activation is one that is in use.                 *)
LEMMA SlotInUse ==
  ASSUME NEW m \in Nat, NEW k \in Waiting(m)
  PROVE  Cardinality(Waiting(k)) \in 1..Cardinality(Waiting(m))
<1>1. k \in Nat /\ k \in Waiting(k) /\ Waiting(k) \subseteq Waiting(m)
  BY DEF Waiting
<1>2. Cardinality(Waiting(k)) <= Cardinality(Waiting(m))
  BY <1>1, WaitingFinite, FS_Subset
<1>3. Cardinality(Waiting(k)) # 0
  BY <1>1, WaitingFinite, FS_EmptySet
<1> QED
  BY <1>1, <1>2, <1>3, WaitingFinite

(* The slot of the innermost activation, while it waits, is the last in    *)
(* use: what notecont fetches is its own.                                  *)
LEMMA TopSlotIsOwn ==
  ASSUME IInv, acts # <<>>, acts[Top].at \in {Fetching, Popping}
  PROVE  /\ nstack \in 1..MAXSIGSTACK
         /\ pcstack[nstack] = [sig |-> acts[Top].note, hdlr |-> acts[Top].note,
                               restorepc |-> Top - 1]
<1>1. Top \in Nat /\ Top \in Waiting(Top)
  BY DEF IInv, TypeOK, Top, Waiting
<1>2. Cardinality(Waiting(Top)) \in 1..nstack /\ nstack = Cardinality(Waiting(Top))
  BY <1>1, SlotInUse DEF IInv, StackFollowsNotes
<1>3. nstack \in 1..MAXSIGSTACK
  BY <1>2, NoteTrampAssumption DEF IInv, TypeOK
<1>4. pcstack[Cardinality(Waiting(Top))] =
        [sig |-> acts[Top].note, hdlr |-> acts[Top].note, restorepc |-> Top - 1]
  BY <1>1 DEF IInv, StackFollowsNotes
<1> QED
  BY <1>2, <1>3, <1>4

-----------------------------------------------------------------------------
LEMMA InitIInv == Init => IInv
<1> SUFFICES ASSUME Init PROVE IInv
  OBVIOUS
<1>1. TypeOK
  <2>1. [sig |-> 0, hdlr |-> 0, restorepc |-> 0] \in Slot
    BY DEF Slot
  <2>2. pcstack \in [1..MAXSIGSTACK -> Slot]
    BY <2>1 DEF Init
  <2>3. 0 \in 0..MAXSIGSTACK
    BY NoteTrampAssumption
  <2>4. acts \in Seq(Activation)
    BY DEF Init
  <2>5. notes \in Nat /\ dead \in BOOLEAN
    BY DEF Init
  <2> QED
    BY <2>2, <2>3, <2>4, <2>5 DEF Init, TypeOK
<1>2. acts = <<>> /\ Top = 0 /\ DOMAIN acts = {}
  BY DEF Init, Top
<1>3. Waiting(Top) = {}
  BY <1>2 DEF Waiting
<1>4. StackFollowsNotes
  BY <1>3, FS_EmptySet, NoteTrampAssumption DEF Init, StackFollowsNotes
<1> QED
  BY <1>1, <1>2, <1>4 DEF IInv, RightHandler, Fetched

(* A note pushes the slot above those in use, and the activation that it   *)
(* adds is the one that waits for it.                                      *)
LEMMA NoteIInv ==
  ASSUME IInv, NEW sig \in Signals, Note(sig)
  PROVE  IInv'
<1>0. PICK n \in Nat : n = Len(acts)
  BY DEF IInv, TypeOK
<1> DEFINE r == [note |-> sig, at |-> Fetching, p |-> 0, f |-> sig,
                 pc |-> n + 1, arg |-> sig]
           s == [sig |-> sig, hdlr |-> sig, restorepc |-> n]
<1>1. CASE Default
  BY <1>1 DEF Default, Note, IInv, TypeOK, StackFollowsNotes, RightHandler, Fetched,
              Waiting, Top
<1>2. CASE _notetramp(sig)
  <2>1. /\ nstack < MAXSIGSTACK /\ nstack' = nstack + 1
        /\ pcstack' = [pcstack EXCEPT ![nstack + 1] = s]
        /\ acts' = Append(acts, r)
        /\ notes' = notes + 1 /\ dead' = dead
    BY <1>0, <1>2, NoteTrampAssumption DEF _notetramp, TooDeep, Note, IInv, TypeOK
  <2>2. r \in Activation /\ s \in Slot
    BY <2>1, NoteTrampAssumption DEF Activation, Slot
  <2>3. /\ acts' \in Seq(Activation) /\ Top' = n + 1 /\ DOMAIN acts' = 1..(n + 1)
        /\ acts'[n + 1] = r
        /\ \A k \in 1..n : acts'[k] = acts[k]
    BY <1>0, <2>1, <2>2 DEF IInv, TypeOK, Top
  <2>4. TypeOK'
    BY <2>1, <2>2, <2>3, NoteTrampAssumption DEF IInv, TypeOK
  <2>5. \A k \in 1..n : Waiting(k)' = Waiting(k)
    BY <2>3 DEF Waiting
  <2>6. Waiting(n + 1)' = Waiting(n) \cup {n + 1}
    <3>1. 1..(n + 1) = (1..n) \cup {n + 1} /\ n + 1 \notin 1..n
      BY <2>1
    <3>2. acts'[n + 1].at \in {Fetching, Popping}
      BY <2>3
    <3> QED
      BY <3>1, <3>2, <2>3 DEF Waiting
  <2>7. n + 1 \notin Waiting(n)
    BY <2>1 DEF Waiting
  <2>8. nstack = Cardinality(Waiting(n))
    BY <1>0 DEF IInv, StackFollowsNotes, Top
  <2>9. Cardinality(Waiting(n + 1)') = nstack + 1
    BY <2>1, <2>6, <2>7, <2>8, WaitingFinite, FS_AddElement
  <2>10. ASSUME NEW k \in Waiting(n + 1)'
         PROVE  pcstack'[Cardinality(Waiting(k)')] =
                  [sig |-> acts'[k].note, hdlr |-> acts'[k].note, restorepc |-> k - 1]
    <3>1. CASE k = n + 1
      <4>1. nstack + 1 \in 1..MAXSIGSTACK
        BY <2>1, NoteTrampAssumption DEF IInv, TypeOK
      <4>2. pcstack'[nstack + 1] = s
        BY <4>1, <2>1 DEF IInv, TypeOK
      <4> QED
        BY <3>1, <4>2, <2>3, <2>9
    <3>2. CASE k \in Waiting(n)
      <4>1. k \in 1..n /\ Waiting(k)' = Waiting(k) /\ acts'[k] = acts[k]
        BY <3>2, <2>3, <2>5 DEF Waiting
      <4>2. Cardinality(Waiting(k)) \in 1..nstack
        BY <3>2, <2>1, <2>8, SlotInUse
      <4>3. pcstack'[Cardinality(Waiting(k))] = pcstack[Cardinality(Waiting(k))]
        BY <4>2, <2>1 DEF IInv, TypeOK
      <4> QED
        BY <1>0, <4>1, <4>3, <3>2 DEF IInv, StackFollowsNotes, Top
    <3> QED
      BY <3>1, <3>2, <2>6
  <2>11. StackFollowsNotes'
    <3>1. nstack' <= MAXSIGSTACK
      BY <2>4, NoteTrampAssumption DEF TypeOK
    <3> QED
      BY <3>1, <2>1, <2>3, <2>9, <2>10 DEF StackFollowsNotes
  <2>12. RightHandler'
    BY <1>0, <2>1, <2>3 DEF RightHandler, IInv, TypeOK, Fetching
  <2>13. Fetched'
    <3>1. r.at \notin {Popping, Calling}
      BY DEF Fetching, Popping, Calling
    <3>2. \A q \in 1..MAXSIGSTACK : pcstack[q].sig \in Signals => pcstack'[q].sig \in Signals
      BY <2>1 DEF IInv, TypeOK
    <3> QED
      BY <1>0, <3>1, <3>2, <2>3 DEF Fetched, IInv, TypeOK
  <2> QED
    BY <2>4, <2>11, <2>12, <2>13 DEF IInv
<1> QED
  BY <1>1, <1>2 DEF Note

(* A step of the innermost activation that leaves pcstack alone and does   *)
(* not change what waits disturbs nothing but that activation.             *)
LEMMA OneActivation ==
  ASSUME IInv, acts # <<>>, NEW m \in Nat, m = Top,
         NEW a \in Activation, acts' = [acts EXCEPT ![m] = a],
         UNCHANGED <<pcstack, notes, dead>>, a.note = acts[m].note,
         a.at # Fetching => a.f = a.note /\ a.pc = m - 1,
         a.at \in {Popping, Calling} => a.p \in 1..MAXSIGSTACK /\ pcstack[a.p].sig \in Signals,
         nstack' \in 0..MAXSIGSTACK
  PROVE  /\ TypeOK' /\ RightHandler' /\ Fetched' /\ Top' = m /\ m \in Nat \ {0}
         /\ DOMAIN acts' = 1..m /\ acts'[m] = a
         /\ \A k \in 1..(m - 1) : acts'[k] = acts[k] /\ Waiting(k)' = Waiting(k)
<1>1. /\ m \in Nat \ {0} /\ DOMAIN acts = 1..m /\ acts' \in Seq(Activation)
      /\ Len(acts') = Len(acts) /\ DOMAIN acts' = 1..m /\ acts'[m] = a
      /\ \A k \in 1..(m - 1) : acts'[k] = acts[k]
  BY DEF IInv, TypeOK, Top
<1>2. Top' = m
  BY <1>1 DEF Top
<1>3. TypeOK'
  BY <1>1 DEF IInv, TypeOK
<1>4. \A k \in 1..(m - 1) : Waiting(k)' = Waiting(k)
  BY <1>1 DEF Waiting
<1>5. RightHandler'
  BY <1>1 DEF IInv, RightHandler
<1>6. Fetched'
  BY <1>1 DEF IInv, Fetched
<1> QED
  BY <1>1, <1>2, <1>3, <1>4, <1>5, <1>6

(* When it waited before and waits after, or neither, pcstack matches as   *)
(* it did.                                                                 *)
LEMMA SameWaiting ==
  ASSUME IInv, acts # <<>>, NEW m \in Nat, m = Top,
         NEW a \in Activation, acts' = [acts EXCEPT ![m] = a],
         UNCHANGED <<pcstack, nstack, notes, dead>>, a.note = acts[m].note,
         a.at # Fetching => a.f = a.note /\ a.pc = m - 1,
         a.at \in {Popping, Calling} => a.p \in 1..MAXSIGSTACK /\ pcstack[a.p].sig \in Signals,
         a.at \in {Fetching, Popping} <=> acts[m].at \in {Fetching, Popping}
  PROVE  IInv'
<1>1. nstack' \in 0..MAXSIGSTACK
  BY DEF IInv, TypeOK
<1>2. /\ TypeOK' /\ RightHandler' /\ Fetched' /\ Top' = m /\ m \in Nat \ {0}
      /\ acts'[m] = a
      /\ \A k \in 1..(m - 1) : acts'[k] = acts[k] /\ Waiting(k)' = Waiting(k)
  BY <1>1, OneActivation
<1>3. \A k \in 1..m : Waiting(k)' = Waiting(k) /\ acts'[k].note = acts[k].note
  BY <1>2 DEF Waiting
<1>4. Waiting(m) \subseteq 1..m
  BY DEF Waiting
<1>5. StackFollowsNotes'
  BY <1>2, <1>3, <1>4 DEF IInv, StackFollowsNotes
<1> QED
  BY <1>2, <1>5 DEF IInv

(* An activation that has fetched is one.                                  *)
LEMMA FetchedRecord ==
  ASSUME NEW x \in Activation, NEW q \in 0..MAXSIGSTACK, NEW h \in Signals, NEW c \in Nat
  PROVE  [x EXCEPT !.at = Popping, !.p = q, !.f = h, !.pc = c] \in Activation
<1> DEFINE y == [x EXCEPT !.at = Popping, !.p = q]
<1>1. y \in Activation
  BY DEF Activation
<1>2. [x EXCEPT !.at = Popping, !.p = q, !.f = h, !.pc = c] = [y EXCEPT !.f = h, !.pc = c]
  BY DEF Activation
<1> HIDE DEF y
<1> QED
  BY <1>1, <1>2 DEF Activation

LEMMA FetchIInv == IInv /\ Fetch => IInv'
<1> SUFFICES ASSUME IInv, Fetch PROVE IInv'
  OBVIOUS
<1>0. PICK m \in Nat : m = Top
  BY DEF IInv, TypeOK, Top
<1> DEFINE a == [acts[m] EXCEPT !.at = Popping, !.p = nstack, !.f = pcstack[nstack].hdlr,
                                  !.pc = pcstack[nstack].restorepc]
<1>1. acts # <<>> /\ acts[m].at = Fetching
  BY <1>0 DEF Fetch, In
<1>2. m \in Nat \ {0} /\ acts[m] \in Activation
  BY <1>0, <1>1 DEF IInv, TypeOK, Top
<1>3. /\ nstack \in 1..MAXSIGSTACK
      /\ pcstack[nstack] = [sig |-> acts[m].note, hdlr |-> acts[m].note,
                            restorepc |-> m - 1]
  BY <1>0, <1>1, TopSlotIsOwn
<1>4. /\ acts[m].note \in Signals /\ m - 1 \in Nat
      /\ nstack \in 0..MAXSIGSTACK
      /\ pcstack[nstack].hdlr \in Signals /\ pcstack[nstack].restorepc \in Nat
  BY <1>2, <1>3, NoteTrampAssumption DEF Activation
<1>5. /\ a \in Activation /\ a.note = acts[m].note /\ a.at = Popping
      /\ a.p = nstack /\ a.f = pcstack[nstack].hdlr /\ a.pc = pcstack[nstack].restorepc
  <2>1. a \in Activation
    BY <1>2, <1>4, FetchedRecord
  <2> QED
    BY <2>1, <1>2 DEF Activation
<1>6. a.f = a.note /\ a.pc = m - 1 /\ a.p \in 1..MAXSIGSTACK /\ pcstack[a.p].sig \in Signals
  BY <1>3, <1>4, <1>5
<1>7. acts' = [acts EXCEPT ![m] = a]
  BY <1>0, <1>2 DEF Fetch, TopSlot, IInv, TypeOK, Top, Activation
<1>8. UNCHANGED <<pcstack, nstack, notes, dead>>
  BY DEF Fetch
<1> HIDE DEF a
<1> QED
  BY <1>0, <1>1, <1>5, <1>6, <1>7, <1>8, SameWaiting

LEMMA CallHandlerIInv == IInv /\ CallHandler => IInv'
<1> SUFFICES ASSUME IInv, CallHandler PROVE IInv'
  OBVIOUS
<1>0. PICK m \in Nat : m = Top
  BY DEF IInv, TypeOK, Top
<1> DEFINE a == [acts[m] EXCEPT !.at = Handling, !.arg = pcstack[acts[m].p].sig]
<1>1. acts # <<>> /\ acts[m].at = Calling
  BY <1>0 DEF CallHandler, In
<1>2. m \in DOMAIN acts /\ acts[m] \in Activation
  BY <1>0, <1>1 DEF IInv, TypeOK, Top
<1>3. pcstack[acts[m].p].sig \in Signals /\ acts[m].f = acts[m].note
      /\ acts[m].pc = m - 1
  BY <1>0, <1>1, <1>2 DEF IInv, Fetched, RightHandler, Fetching, Calling
<1>4. a \in Activation /\ a.note = acts[m].note /\ a.at = Handling
      /\ a.f = a.note /\ a.pc = m - 1
  BY <1>2, <1>3 DEF Activation
<1>5. acts' = [acts EXCEPT ![m] = a]
  BY <1>0, <1>2 DEF CallHandler, IInv, TypeOK, Top, Activation
<1>6. Handling \notin {Fetching, Popping, Calling} /\ Calling \notin {Fetching, Popping}
  BY DEF Fetching, Popping, Calling, Handling
<1> QED
  BY <1>0, <1>1, <1>4, <1>5, <1>6, SameWaiting DEF CallHandler

(* The one that pops is the innermost, so the slot it gives up is the last *)
(* in use.                                                                 *)
LEMMA PopIInv == IInv /\ Pop => IInv'
<1> SUFFICES ASSUME IInv, Pop PROVE IInv'
  OBVIOUS
<1>0. PICK m \in Nat : m = Top
  BY DEF IInv, TypeOK, Top
<1> DEFINE a == [acts[m] EXCEPT !.at = Calling]
<1>1. acts # <<>> /\ acts[m].at = Popping
  BY <1>0 DEF Pop, In
<1>2. m \in DOMAIN acts /\ m \in Nat \ {0} /\ acts[m] \in Activation
  BY <1>0, <1>1 DEF IInv, TypeOK, Top
<1>3. /\ acts[m].f = acts[m].note /\ acts[m].pc = m - 1
      /\ acts[m].p \in 1..MAXSIGSTACK /\ pcstack[acts[m].p].sig \in Signals
  BY <1>0, <1>1, <1>2 DEF IInv, RightHandler, Fetched, Fetching, Popping
<1>4. a \in Activation /\ a.note = acts[m].note /\ a.at = Calling
      /\ a.f = a.note /\ a.pc = m - 1 /\ a.p = acts[m].p
  BY <1>2, <1>3 DEF Activation
<1>5. acts' = [acts EXCEPT ![m] = a]
  BY <1>0, <1>2 DEF Pop, IInv, TypeOK, Top, Activation
<1>6. nstack \in 1..MAXSIGSTACK /\ nstack' = nstack - 1
  BY <1>0, <1>1, TopSlotIsOwn DEF Pop, OnePopped
<1>7. nstack' \in 0..MAXSIGSTACK
  BY <1>6, NoteTrampAssumption
<1>8. /\ TypeOK' /\ RightHandler' /\ Fetched' /\ Top' = m /\ acts'[m] = a
      /\ \A k \in 1..(m - 1) : acts'[k] = acts[k] /\ Waiting(k)' = Waiting(k)
  BY <1>0, <1>1, <1>3, <1>4, <1>5, <1>7, OneActivation DEF Pop
<1>9. m \in Waiting(m) /\ Waiting(m)' = Waiting(m) \ {m}
  <2>1. Calling \notin {Fetching, Popping}
    BY DEF Fetching, Popping, Calling
  <2>2. \A j \in 1..m : j # m => acts'[j] = acts[j]
    BY <1>2, <1>8
  <2>3. acts'[m].at = Calling
    BY <1>4, <1>8
  <2> HIDE DEF a
  <2> QED
    BY <2>1, <2>2, <2>3, <1>1, <1>2 DEF Waiting
<1>10. Cardinality(Waiting(m)') = nstack'
  BY ZenonT(60), <1>0, <1>2, <1>6, <1>9, WaitingFinite, FS_RemoveElement DEF IInv, StackFollowsNotes
<1>11. \A k \in Waiting(m)' : k \in Waiting(m) /\ k \in 1..(m - 1)
  BY <1>2, <1>9 DEF Waiting
<1>12. StackFollowsNotes'
  <2>1. nstack' <= MAXSIGSTACK
    BY <1>7, NoteTrampAssumption
  <2> QED
    BY <2>1, <1>0, <1>8, <1>10, <1>11 DEF Pop, IInv, StackFollowsNotes
<1> QED
  BY <1>8, <1>12 DEF IInv

(* A handler that returns no longer waits.                                 *)
LEMMA RestoreIInv == IInv /\ Restore => IInv'
<1> SUFFICES ASSUME IInv, Restore PROVE IInv'
  OBVIOUS
<1>0. PICK m \in Nat : m = Top
  BY DEF IInv, TypeOK, Top
<1>1. acts # <<>> /\ acts[m].at = Handling /\ acts' = SubSeq(acts, 1, m - 1)
      /\ UNCHANGED <<pcstack, nstack, notes, dead>>
  BY <1>0 DEF Restore, In, Interrupted
<1>2. m \in Nat \ {0} /\ m = Len(acts)
  BY <1>0, <1>1 DEF IInv, TypeOK, Top
<1>3. /\ acts' \in Seq(Activation) /\ Top' = m - 1 /\ DOMAIN acts' = 1..(m - 1)
      /\ DOMAIN acts = 1..m
      /\ \A k \in 1..(m - 1) : acts'[k] = acts[k]
  <2>1. acts \in Seq(Activation)
    BY DEF IInv, TypeOK
  <2>2. acts' \in Seq(Activation) /\ Len(acts') = m - 1
    BY <2>1, <1>1, <1>2
  <2>3. \A k \in 1..(m - 1) : acts'[k] = acts[k]
    BY <2>1, <1>1, <1>2
  <2> QED
    BY <2>1, <2>2, <2>3, <1>2 DEF Top
<1>4. TypeOK'
  BY <1>1, <1>3 DEF IInv, TypeOK
<1>5. \A k \in 1..(m - 1) : Waiting(k)' = Waiting(k)
  BY <1>2, <1>3 DEF Waiting
<1>6. Waiting(m - 1)' = Waiting(m)
  <2>1. Handling \notin {Fetching, Popping}
    BY DEF Fetching, Popping, Handling
  <2> QED
    BY <2>1, <1>1, <1>2, <1>3 DEF Waiting
<1>8. \A k \in Waiting(m - 1)' : k \in 1..(m - 1)
  BY DEF Waiting
<1>9. StackFollowsNotes'
  BY <1>0, <1>1, <1>3, <1>5, <1>6, <1>8 DEF IInv, StackFollowsNotes
<1>10. RightHandler' /\ Fetched'
  BY <1>1, <1>2, <1>3 DEF IInv, RightHandler, Fetched
<1> QED
  BY <1>4, <1>9, <1>10 DEF IInv

LEMMA NextIInv == IInv /\ [Next]_vars => IInv'
<1> SUFFICES ASSUME IInv, [Next]_vars PROVE IInv'
  OBVIOUS
<1>1. ASSUME NEW sig \in Signals, Note(sig) PROVE IInv'
  BY <1>1, NoteIInv
<1>2. CASE Fetch
  BY <1>2, FetchIInv
<1>3. CASE Pop
  BY <1>3, PopIInv
<1>4. CASE CallHandler
  BY <1>4, CallHandlerIInv
<1>5. CASE Restore
  BY <1>5, RestoreIInv
<1>6. CASE UNCHANGED vars
  BY <1>6 DEF vars, IInv, TypeOK, StackFollowsNotes, RightHandler, Fetched, Waiting, Top
<1> QED
  BY <1>1, <1>2, <1>3, <1>4, <1>5, <1>6 DEF Next, Step, Finished

LEMMA IInvHolds == Spec => []IInv
<1> QED
  BY InitIInv, NextIInv, PTL DEF Spec

-----------------------------------------------------------------------------
(* The stack index never leaves the array, and what notecont reads from    *)
(* pcstack is always a handler and a signal.                               *)
THEOREM NotesTypeCorrect == Spec => []TypeOK
<1>1. IInv => TypeOK
  BY DEF IInv
<1> QED
  BY <1>1, IInvHolds, PTL

(* However deep notes nest, pcstack holds one slot for each activation of  *)
(* notecont that has not popped its own, in the order the notes came in,   *)
(* and never more than it has.                                             *)
THEOREM StackKept == Spec => []StackFollowsNotes
<1>1. IInv => StackFollowsNotes
  BY DEF IInv
<1> QED
  BY <1>1, IInvHolds, PTL

(* Every note gets its own handler, and the kernel resumes what the note   *)
(* interrupted.                                                            *)
THEOREM HandlersRight == Spec => []RightHandler
<1>1. IInv => RightHandler
  BY DEF IInv
<1> QED
  BY <1>1, IInvHolds, PTL
=============================================================================
