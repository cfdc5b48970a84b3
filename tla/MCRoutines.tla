----------------------------- MODULE MCRoutines -----------------------------
(***************************************************************************)
(* One call of one library routine, of 64-bit arithmetic or of the memory  *)
(* and string routines; or the calls of a program that uses the allocator. *)
(***************************************************************************)
EXTENDS Vlrt, MemStr, Malloc, ByteTest

MCHasByte(w, c) == ByteIn(LANE, w, c)

MCWords == {0, 1, 3, 127, 128, 255}
MCLengths == (0..4) \cup {7, 8, 9, 15, 16, 17, 24, 33}
MCMoveLengths == (0..9) \cup {15, 16, 17, 19, 20, 31, 32, 33, 34, 39, 63, 64, 66}
MCMoveGaps == UNION {{k, -k} : k \in (0..5) \cup {7, 8, 9, 15, 16, 17, 31, 32, 36}}

Init ==
  \/ VlrtInit /\ MemIdle /\ MallocIdle
  \/ MemInit /\ VlrtIdle /\ MallocIdle
  \/ MallocInit /\ VlrtIdle /\ MemIdle

Returned ==
  /\ ret.done \/ r.at = "ret" \/ heapCalls = MaxHeapCalls
  /\ UNCHANGED <<vlrtVars, memVars, mallocVars>>

Next ==
  \/ VlrtNext /\ UNCHANGED <<memVars, mallocVars>>
  \/ MemNext /\ UNCHANGED <<vlrtVars, mallocVars>>
  \/ MallocNext /\ UNCHANGED <<vlrtVars, memVars>>
  \/ Returned

\* each call runs on its own process, which is scheduled until it returns
Spec == Init /\ [][Next]_<<vlrtVars, memVars, mallocVars>> /\ WF_vlrtVars(VlrtNext)
=============================================================================
