--------------------------- MODULE HeapDoubleFree ---------------------------
(***************************************************************************)
(* The heap with one careless caller, who may call free again with a       *)
(* pointer it has already freed.  Everything else is as in Heap.           *)
(***************************************************************************)
EXTENDS MCHeap

VARIABLE freed      \* pointers freed since malloc last returned them

doubleVars == <<vars, freed>>

DoubleInit == Init /\ freed = {}

FreeAgain(p) == p \in freed /\ Free(p) /\ UNCHANGED freed

FreeOnce(e) == Free(e.ptr) /\ freed' = freed \cup {e.ptr}

Undisturbed ==
  \/ MemoryInit
  \/ \E n \in Requests : MallocCall(n)
  \/ MallocStep
  \/ \E e \in live : ClientWrite(e)
  \/ Halted

DoubleNext ==
  \/ Undisturbed /\ freed' = freed \ {e.ptr : e \in live'}
  \/ \E e \in live : FreeOnce(e)
  \/ \E p \in freed : FreeAgain(p)

DoubleSpec == DoubleInit /\ [][DoubleNext]_doubleVars

(* memory.cpp:132-136: free checks that the pointer really came from       *)
(* malloc, so that a double free ends in a kernel panic.                   *)
DoubleFreePanics == [][(\E p \in freed : FreeAgain(p)) => pc' = "halted"]_doubleVars
=============================================================================
