------------------------------ MODULE Allocator ------------------------------
(***************************************************************************)
(* What malloc and free promise their callers, whatever data structure is  *)
(* behind them: a grant is an extent of memory that no other grant         *)
(* overlaps, it is at least as long as what was asked for, and it stays    *)
(* the caller's until the caller returns it.                               *)
(***************************************************************************)
EXTENDS Naturals

CONSTANT Top        \* the memory is the set of units 0 .. Top

VARIABLE grants     \* the extents [ptr, len] the callers hold

Extent == [ptr : 0 .. Top, len : 1 .. Top]

Apart(e, f) == e.ptr + e.len <= f.ptr \/ f.ptr + f.len <= e.ptr

Init == grants = {}

Grant(e) ==
  /\ e.ptr + e.len <= Top + 1
  /\ \A f \in grants : Apart(e, f)
  /\ grants' = grants \cup {e}

Return(e) ==
  /\ e \in grants
  /\ grants' = grants \ {e}

Next == \E e \in Extent : Grant(e) \/ Return(e)

Spec == Init /\ [][Next]_grants
=============================================================================
