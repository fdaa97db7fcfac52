------------------------------- MODULE MCHeap -------------------------------
(* The heap on small memories.  A unit is 8 bytes, BlockHeader takes five  *)
(* units and the smallest split payload two, as in the code.               *)
EXTENDS Heap, FiniteSetsExt

Usable(b, n) == [base |-> b, length |-> n, usable |-> TRUE]
Reserved(b, n) == [base |-> b, length |-> n, usable |-> FALSE]

(* A region cut by the low memory, a hole, a region too small for a block, *)
(* a second block; one big region; a region wholly in low memory and       *)
(* nothing else.                                                           *)
MCMaps ==
  { <<Usable(0, 2), Usable(2, 14), Reserved(16, 1), Usable(17, 2), Usable(19, 9)>>,
    <<Usable(4, 24)>>,
    <<Usable(1, 3), Reserved(10, 10)>> }

(* memory_free_bytes() and memory_used_bytes(), in units                   *)
FreeUnits == MapThenSumSet(LAMBDA b : mem[b].size, {b \in blocks : ~mem[b].used})
UsedUnits == MapThenSumSet(LAMBDA b : mem[b].size, {b \in blocks : mem[b].used})

RegionUnits ==
  MapThenSumSet(LAMBDA i : Length(map[i]), {i \in DOMAIN map : Accepted(map[i])})

(* No byte is lost or invented: once memory_init is done, headers and the  *)
(* two statistics of the `mem' command always add up to the memory found.  *)
Conserved ==
  pc # "init" =>
    FreeUnits + UsedUnits + HeaderUnits * Cardinality(blocks) = RegionUnits
=============================================================================
