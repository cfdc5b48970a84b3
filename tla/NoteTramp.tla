----------------------------- MODULE NoteTramp ------------------------------
(***************************************************************************)
(* How APE calls signal handlers (ape/lib/ap/riscv/notetramp.c, and the    *)
(* same file in riscv64).  The note handler of the process ends in         *)
(* _notetramp, which saves the signal, its handler and the interrupted pc  *)
(* on pcstack and has the kernel resume in notecont (NSAVE).  notecont     *)
(* fetches the saved values, pops pcstack, calls the handler and has the   *)
(* kernel resume what was interrupted (NRSTR).  From NSAVE on, the next    *)
(* note may come in at any point.                                          *)
(*                                                                         *)
(* The kernel is external: it starts no note handler while one runs, NSAVE *)
(* ends that, and NRSTR restores the registers of the innermost note.      *)
(***************************************************************************)
EXTENDS Naturals, Sequences, FiniteSets

CONSTANTS
  Signals,      \* the signals that have handlers
  MAXSIGSTACK,
  MaxNotes      \* bound: notes that arrive

ASSUME NoteTrampAssumption ==
  /\ Signals \subseteq Nat \ {0}
  /\ MAXSIGSTACK \in Nat \ {0}
  /\ MaxNotes \in Nat

VARIABLES
  pcstack,  \* pcstack[k]: the saved signal, handler and restorepc
  nstack,
  acts,     \* the activations of notecont, innermost last
  notes,    \* how many notes have arrived
  dead      \* _NOTED(1): the system default ended the process

vars == <<pcstack, nstack, acts, notes, dead>>

(* A handler is known by its signal, a place in the program by how many    *)
(* activations of notecont lie below it: that of the interrupted one does  *)
(* not move until it is resumed.                                           *)
Slot == [sig : Signals \cup {0}, hdlr : Signals \cup {0}, restorepc : Nat]

(* An activation: the note that caused it, where notecont is, p, f and     *)
(* u->pc, and the first argument of the handler.                           *)
Fetching == "fetching"   \* p = ..., f = ..., u->pc = ...
Popping  == "popping"    \* nstack--
Calling  == "calling"    \* (*f)(p->sig, s, u)
Handling == "handling"   \* in the handler
Activation ==
  [note : Signals, at : {Fetching, Popping, Calling, Handling},
   p : 0..MAXSIGSTACK, f : Signals, pc : Nat, arg : Signals]

Init ==
  /\ pcstack = [k \in 1..MAXSIGSTACK |-> [sig |-> 0, hdlr |-> 0, restorepc |-> 0]]
  /\ nstack = 0
  /\ acts = <<>>
  /\ notes = 0
  /\ dead = FALSE

(* Slip: room for one more.                                                *)
OneTooMany == nstack > MAXSIGSTACK

TooDeep == nstack >= MAXSIGSTACK

(* _notetramp, up to NSAVE: notecont is entered with the pc of notecont in *)
(* its registers.                                                          *)
_notetramp(sig) ==
  /\ ~TooDeep
  /\ pcstack' = [pcstack EXCEPT ![nstack + 1] =
                   [sig |-> sig, hdlr |-> sig, restorepc |-> Len(acts)]]
  /\ nstack' = nstack + 1
  /\ acts' = Append(acts, [note |-> sig, at |-> Fetching, p |-> 0, f |-> sig,
                           pc |-> Len(acts) + 1, arg |-> sig])
  /\ UNCHANGED dead

(* Nesting too deep: NDFLT.                                                *)
Default ==
  /\ TooDeep
  /\ dead' = TRUE
  /\ UNCHANGED <<pcstack, nstack, acts>>

Note(sig) ==
  /\ ~dead /\ notes < MaxNotes
  /\ notes' = notes + 1
  /\ _notetramp(sig) \/ Default

(* The innermost activation is at, and goes on.                            *)
Top == Len(acts)
In(at) == ~dead /\ acts # <<>> /\ acts[Top].at = at

(* Slip: fetch from the slot that is free.                                 *)
SlotAbove == IF nstack < MAXSIGSTACK THEN nstack + 1 ELSE nstack

TopSlot == nstack

(* p = &pcstack[nstack-1]; f = p->hdlr; u->pc = p->restorepc               *)
Fetch ==
  /\ In(Fetching)
  /\ acts' = [acts EXCEPT ![Top].at = Popping, ![Top].p = TopSlot,
                          ![Top].f = pcstack[TopSlot].hdlr,
                          ![Top].pc = pcstack[TopSlot].restorepc]
  /\ UNCHANGED <<pcstack, nstack, notes, dead>>

(* Slip: no pop.                                                           *)
Unpopped == nstack

OnePopped == nstack - 1

(* nstack-- loads and stores, but notes in between leave nstack as it was. *)
Pop ==
  /\ In(Popping)
  /\ nstack' = OnePopped
  /\ acts' = [acts EXCEPT ![Top].at = Calling]
  /\ UNCHANGED <<pcstack, notes, dead>>

CallHandler ==
  /\ In(Calling)
  /\ acts' = [acts EXCEPT ![Top].at = Handling, ![Top].arg = pcstack[acts[Top].p].sig]
  /\ UNCHANGED <<pcstack, nstack, notes, dead>>

(* Slip: no NRSTR.                                                         *)
Unrestored == acts

Interrupted == SubSeq(acts, 1, Top - 1)

(* The handler returns; NRSTR.                                             *)
Restore ==
  /\ In(Handling)
  /\ acts' = Interrupted
  /\ UNCHANGED <<pcstack, nstack, notes, dead>>

Step == Fetch \/ Pop \/ CallHandler \/ Restore

(* Nothing is left to handle.                                              *)
Finished ==
  /\ \/ dead
     \/ acts = <<>> /\ notes = MaxNotes
  /\ UNCHANGED vars

Next == (\E sig \in Signals : Note(sig)) \/ Step \/ Finished

Spec == Init /\ [][Next]_vars

(* The process runs, unless notes keep coming.                             *)
FairSpec == Spec /\ WF_vars(Step)

-----------------------------------------------------------------------------
TypeOK ==
  /\ pcstack \in [1..MAXSIGSTACK -> Slot]
  /\ nstack \in 0..MAXSIGSTACK
  /\ acts \in Seq(Activation)
  /\ notes \in Nat
  /\ dead \in BOOLEAN

(* However notes nest, a handler runs for the note it was installed for,   *)
(* and what the kernel resumes after it is what that note interrupted:     *)
(* notecont fetches both from pcstack while later notes push and pop it.   *)
RightHandler ==
  \A k \in DOMAIN acts :
    acts[k].at # Fetching => acts[k].f = acts[k].note /\ acts[k].pc = k - 1

(* The activations up to the k-th that have not popped their slots.        *)
Waiting(k) == {j \in 1..k : acts[j].at \in {Fetching, Popping}}

(* pcstack holds one slot for each activation that has not popped its own, *)
(* in the order the notes came in, so that it never needs more slots than  *)
(* there are and is empty again when the last handler has been called.     *)
StackFollowsNotes ==
  /\ nstack <= MAXSIGSTACK
  /\ nstack = Cardinality(Waiting(Top))
  /\ \A k \in Waiting(Top) :
       pcstack[Cardinality(Waiting(k))] =
         [sig |-> acts[k].note, hdlr |-> acts[k].note, restorepc |-> k - 1]

(* "A stack to hold pcs when signals nest": the handler is told the signal *)
(* that was sent, also when another comes in.                              *)
RightSignal ==
  \A k \in DOMAIN acts : acts[k].at = Handling => acts[k].arg = acts[k].note

(* Notes nest, but every one is handled and the process gets back to where *)
(* it was, unless the nesting was too deep.                                *)
AllHandled == acts # <<>> ~> (acts = <<>> \/ dead)
=============================================================================
