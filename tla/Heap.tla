-------------------------------- MODULE Heap --------------------------------
(***************************************************************************)
(* The kernel heap of memory.cpp.  Every block of memory, free or used,    *)
(* starts with a BlockHeader; the headers form one doubly linked list that *)
(* memory_init builds from the firmware's memory map, malloc walks first   *)
(* fit and splits, and free merges with both list neighbours.              *)
(*                                                                         *)
(* Addresses and sizes count units of 8 bytes, the granule malloc rounds   *)
(* requests to; requests themselves are in bytes.  Address 0 is nullptr.   *)
(* The contents of memory are kept as "the header that starts here", so a  *)
(* header that free has merged away stays in memory, magic and all, until  *)
(* the owner of the memory around it writes over it.                       *)
(*                                                                         *)
(* Only one thread uses the heap at a time (kernel_main before sti, the    *)
(* shell task after it), so malloc and free never interleave; malloc is    *)
(* one step per block it visits because the list decides how long it runs. *)
(***************************************************************************)
EXTENDS Naturals, Sequences, FiniteSets

CONSTANTS
  MemoryMaps,   \* the memory maps the bootloader may hand over
  Top,          \* addresses are 0 .. Top
  LowEnd,       \* the end of the low memory memory_init never uses (2 MB)
  HeaderUnits,  \* sizeof(BlockHeader)
  MinData,      \* the smallest payload a split may leave (16 bytes)
  Requests      \* the sizes, in bytes, that callers ask malloc for

Addr == 0 .. Top
NULL == 0

Region == [base : Nat, length : Nat, usable : BOOLEAN]

(* The firmware map lists disjoint regions in ascending order.             *)
Ascending(m) ==
  /\ \A i \in DOMAIN m : m[i].base + m[i].length <= Top + 1
  /\ \A i, j \in DOMAIN m : i < j => m[i].base + m[i].length <= m[j].base

ASSUME HeapAssumption ==
  /\ Top \in Nat
  /\ LowEnd \in Nat \ {0}
  /\ HeaderUnits \in Nat \ {0}
  /\ MinData \in Nat \ {0}
  /\ Requests \subseteq Nat \ {0}
  /\ MemoryMaps \subseteq Seq(Region)
  /\ \A m \in MemoryMaps : Ascending(m)

VARIABLES
  map,     \* the memory map of this boot
  region,  \* memory_init: index of the region it looks at next
  last,    \* memory_init: previous_block
  mem,     \* the BlockHeader at each address
  head,    \* heap_head
  pc,      \* "init", "idle", "malloc" or "halted"
  request, \* malloc: the rounded size, in units
  cur,     \* malloc: current
  live,    \* the extents callers hold (what malloc returned, not yet freed)
  blocks   \* the headers on the list: an auxiliary variable no guard reads

vars == <<map, region, last, mem, head, pc, request, cur, live, blocks>>

Header == [magic : BOOLEAN, size : Nat, used : BOOLEAN, next : Addr, prev : Addr]

(* Memory that holds no header, or one that was written over.              *)
NoHeader == [magic |-> FALSE, size |-> 0, used |-> FALSE, next |-> NULL, prev |-> NULL]

(* One past the last unit of the block at b, in memory m.                  *)
EndIn(m, b) == b + HeaderUnits + m[b].size
-----------------------------------------------------------------------------
(* memory_init: what is left of a region above the low memory.             *)
Base(r) == IF r.base < LowEnd THEN LowEnd ELSE r.base
Length(r) == r.base + r.length - Base(r)

Accepted(r) ==
  /\ r.usable
  /\ r.base < LowEnd => LowEnd - r.base < r.length
  /\ Length(r) >= HeaderUnits + MinData

Init ==
  /\ map \in MemoryMaps
  /\ region = 1
  /\ last = NULL
  /\ mem = [a \in Addr |-> NoHeader]
  /\ head = NULL
  /\ pc = "init"
  /\ request = 0
  /\ cur = NULL
  /\ live = {}
  /\ blocks = {}

SkipRegion ==
  /\ pc = "init"
  /\ region \in DOMAIN map
  /\ ~Accepted(map[region])
  /\ region' = region + 1
  /\ UNCHANGED <<map, last, mem, head, pc, request, cur, live, blocks>>

SetNext(m, b, n) == IF b = NULL THEN m ELSE [m EXCEPT ![b] = [m[b] EXCEPT !.next = n]]
SetPrev(m, b, p) == IF b = NULL THEN m ELSE [m EXCEPT ![b] = [m[b] EXCEPT !.prev = p]]

SetUsed(m, b, u) == [m EXCEPT ![b] = [m[b] EXCEPT !.used = u]]

(* One free block per region, appended to the list.                        *)
AddRegion ==
  /\ pc = "init"
  /\ region \in DOMAIN map
  /\ Accepted(map[region])
  /\ LET b == Base(map[region])
         h == [magic |-> TRUE, size |-> Length(map[region]) - HeaderUnits,
               used |-> FALSE, next |-> NULL, prev |-> last]
     IN  /\ mem' = SetNext([mem EXCEPT ![b] = h], last, b)
         /\ head' = IF last = NULL THEN b ELSE head
         /\ last' = b
         /\ blocks' = blocks \cup {b}
  /\ region' = region + 1
  /\ UNCHANGED <<map, pc, request, cur, live>>

InitDone ==
  /\ pc = "init"
  /\ region \notin DOMAIN map
  /\ pc' = IF head = NULL THEN "halted" ELSE "idle"
  /\ UNCHANGED <<map, region, last, mem, head, request, cur, live, blocks>>
-----------------------------------------------------------------------------
RoundUp(n) == (n + 7) \div 8

MallocCall(n) ==
  /\ pc = "idle"
  /\ request' = RoundUp(n)
  /\ cur' = head
  /\ pc' = "malloc"
  /\ UNCHANGED <<map, region, last, mem, head, live, blocks>>

MutFitsUsed(b) == mem[b].size >= request

Fits(b) == ~mem[b].used /\ mem[b].size >= request

(* The free block behind the block at b once it is cut to the request.     *)
Cut(b) == b + HeaderUnits + request

MutRestForgetsMagic(b) ==
  [magic |-> FALSE, size |-> mem[b].size - request - HeaderUnits, used |-> FALSE,
   next |-> mem[b].next, prev |-> b]

Rest(b) ==
  [magic |-> TRUE, size |-> mem[b].size - request - HeaderUnits, used |-> FALSE,
   next |-> mem[b].next, prev |-> b]

Split(b) ==
  LET m == SetPrev([mem EXCEPT ![Cut(b)] = Rest(b)], mem[b].next, Cut(b))
  IN  [m EXCEPT ![b] = [m[b] EXCEPT !.next = Cut(b), !.size = request]]

MutSplitsTooSmall(b) == mem[b].size >= request + MinData

Splits(b) == mem[b].size >= request + HeaderUnits + MinData

Grant(b) == [ptr |-> b + HeaderUnits, len |-> request]

(* malloc returns: its locals are gone.                                    *)
Return == pc' = "idle" /\ request' = 0 /\ cur' = NULL

(* current fits: split it when it is big enough, mark it, return its data. *)
MallocTake ==
  /\ pc = "malloc" /\ cur # NULL /\ mem[cur].magic /\ Fits(cur)
  /\ LET m == IF Splits(cur) THEN Split(cur) ELSE mem
     IN  mem' = SetUsed(m, cur, TRUE)
  /\ blocks' = IF Splits(cur) THEN blocks \cup {Cut(cur)} ELSE blocks
  /\ live' = live \cup {Grant(cur)}
  /\ Return
  /\ UNCHANGED <<map, region, last, head>>

MutOnwardStaysOnUsed(b) == IF mem[b].used THEN b ELSE mem[b].next

Onward(b) == mem[b].next

(* current is used or too small: go on, or stop the machine if its magic   *)
(* number is gone.                                                         *)
MallocVisit ==
  /\ pc = "malloc" /\ cur # NULL
  /\ mem[cur].magic => ~Fits(cur)
  /\ IF mem[cur].magic THEN cur' = Onward(cur) /\ pc' = pc
                       ELSE cur' = cur /\ pc' = "halted"
  /\ UNCHANGED <<map, region, last, mem, head, request, live, blocks>>

(* The end of the list: malloc returns nullptr.                            *)
MallocFail ==
  /\ pc = "malloc" /\ cur = NULL
  /\ Return
  /\ UNCHANGED <<map, region, last, mem, head, live, blocks>>
-----------------------------------------------------------------------------
(* Memory m after the block at a has taken in the block at b behind it.    *)
(* The header at b is left as it is.                                       *)
Bigger(m, a, b) ==
  [m[a] EXCEPT !.size = m[a].size + HeaderUnits + m[b].size, !.next = m[b].next]

MutAbsorbForgetsPrev(m, a, b) == [m EXCEPT ![a] = Bigger(m, a, b)]

MutAbsorbDropsHeader(m, a, b) ==
  SetPrev([m EXCEPT ![a] = [Bigger(m, a, b) EXCEPT !.size = @ - HeaderUnits]],
          m[b].next, a)

MutAbsorbLosesTail(m, a, b) ==
  [m EXCEPT ![a] = [Bigger(m, a, b) EXCEPT !.next = NULL]]

Absorb(m, a, b) == SetPrev([m EXCEPT ![a] = Bigger(m, a, b)], m[b].next, a)

FreeBlock(m, b) == b # NULL /\ ~m[b].used

(* free, first half: b is unused, and takes in a free block behind it.     *)
Released(b) ==
  LET m == SetUsed(mem, b, FALSE)
  IN  IF FreeBlock(m, m[b].next) THEN Absorb(m, b, m[b].next) ELSE m

(* free, second half: a free block in front takes in b.                    *)
MutAfterFreeOneSided(b) == Released(b)

AfterFree(b) ==
  LET m == Released(b)
  IN  IF FreeBlock(m, m[b].prev) THEN Absorb(m, m[b].prev, b) ELSE m

Merged(b) ==
  {n \in blocks : \/ n = mem[b].next /\ FreeBlock(mem, n)
                  \/ n = b /\ FreeBlock(mem, mem[b].prev)}

(* free(p): a pointer whose header has no magic number stops the machine.  *)
Free(p) ==
  LET b == p - HeaderUnits
  IN  /\ pc = "idle"
      /\ IF mem[b].magic
           THEN /\ mem' = AfterFree(b)
                /\ blocks' = blocks \ Merged(b)
                /\ pc' = pc
           ELSE /\ pc' = "halted"
                /\ UNCHANGED <<mem, blocks>>
      /\ live' = {e \in live : e.ptr # p}
      /\ UNCHANGED <<map, region, last, head, request, cur>>
-----------------------------------------------------------------------------
(* The callers: they fill what they hold, and free what they hold once.    *)
Overlaps(e, x) == x < e.ptr + e.len /\ e.ptr < x + HeaderUnits

ClientWrite(e) ==
  /\ pc = "idle"
  /\ mem' = [x \in Addr |-> IF Overlaps(e, x) THEN NoHeader ELSE mem[x]]
  /\ UNCHANGED <<map, region, last, head, pc, request, cur, live, blocks>>

(* while (1) asm volatile("cli; hlt")                                      *)
Halted == pc = "halted" /\ UNCHANGED vars

MallocStep == MallocTake \/ MallocVisit \/ MallocFail

MemoryInit == SkipRegion \/ AddRegion \/ InitDone

Next ==
  \/ MemoryInit
  \/ \E n \in Requests : MallocCall(n)
  \/ MallocStep
  \/ \E e \in live : Free(e.ptr)
  \/ \E e \in live : ClientWrite(e)
  \/ Halted

Spec == Init /\ [][Next]_vars

(* malloc's loop runs on: nothing in the kernel can hold it up for ever.   *)
FairSpec == Spec /\ WF_vars(MallocStep)
-----------------------------------------------------------------------------
TypeOK ==
  /\ map \in MemoryMaps
  /\ region \in 1 .. Len(map) + 1
  /\ last \in Addr
  /\ mem \in [Addr -> Header]
  /\ head \in Addr
  /\ pc \in {"init", "idle", "malloc", "halted"}
  /\ request \in Nat
  /\ cur \in Addr
  /\ live \subseteq [ptr : Addr, len : Nat \ {0}]
  /\ blocks \subseteq Addr

(* In memory m the headers B are a list from h: every one is intact, and   *)
(* its links lead to headers of B that link back.                          *)
Linked(m, h, B) ==
  /\ h = NULL <=> B = {}
  /\ h # NULL => h \in B /\ m[h].prev = NULL
  /\ NULL \notin B
  /\ \A b \in B :
       /\ m[b].magic
       /\ m[b].next # NULL => m[b].next \in B /\ m[m[b].next].prev = b
       /\ m[b].prev # NULL => m[b].prev \in B /\ m[m[b].prev].next = b

(* The blocks lie one behind the other, in list order, within memory.      *)
Ordered(m, B) ==
  /\ \A b \in B : EndIn(m, b) <= Top + 1 /\ (m[b].next # NULL => b < m[b].next)
  /\ \A a, b \in B : a < b => /\ EndIn(m, a) <= b
                              /\ m[a].next # NULL /\ m[a].next <= b
                              /\ m[b].prev # NULL /\ a <= m[b].prev

(* The list of headers is intact: no sequence of malloc, free and writes   *)
(* of callers to what they hold breaks a link, leaves a header overwritten *)
(* or makes two blocks overlap (memory.cpp:89-111, 139-160).               *)
ListIntegrity == Linked(mem, head, blocks) /\ Ordered(mem, blocks)

(* In memory m the used blocks of B are the extents of L, each as long as  *)
(* its caller asked.                                                       *)
Held(m, B, L) ==
  /\ \A e \in L : /\ e.ptr >= HeaderUnits
                  /\ e.ptr - HeaderUnits \in B
                  /\ m[e.ptr - HeaderUnits].used
                  /\ e.len <= m[e.ptr - HeaderUnits].size
  /\ \A b \in B : m[b].used => \E e \in L : e.ptr = b + HeaderUnits
  /\ \A e, f \in L : e.ptr = f.ptr => e = f

(* The used blocks are exactly what callers hold: malloc never hands out a *)
(* block twice, free never frees another caller's, none is lost.           *)
UsedIsHeld == Held(mem, blocks, live)

(* Callers who write only what they hold and free it once never stop the   *)
(* machine: "halted" means the memory map had no block of usable memory.   *)
NeverPanics == pc = "halted" => blocks = {}

(* Two neighbours on the list are both free only where the second one is   *)
(* the block memory_init made for a region: free leaves no fragments.      *)
Coalesced ==
  \A b \in blocks :
    (~mem[b].used /\ mem[b].next # NULL /\ ~mem[mem[b].next].used)
      => \E i \in DOMAIN map : mem[b].next = Base(map[i])

(* malloc returns nullptr only when no block on the list would do.         *)
FailsOnlyWhenFull == [][MallocFail => \A b \in blocks : ~Fits(b)]_vars

(* The extents malloc hands out lie within regions the bootloader marked   *)
(* as usable (bootloader/src/main.rs:19, "1 = usable, 0 = reserved").      *)
LiveIsUsable ==
  \A e \in live : \E i \in DOMAIN map :
    /\ map[i].usable
    /\ map[i].base <= e.ptr /\ e.ptr + e.len <= map[i].base + map[i].length

(* Every call of malloc returns.                                           *)
MallocReturns == (pc = "malloc") ~> (pc # "malloc")

(* The heap keeps the promise of Allocator.                                *)
Abstract == INSTANCE Allocator WITH grants <- live
AllocatorSpec == Abstract!Spec
=============================================================================
