----------------------------- MODULE HeapProofs -----------------------------
(***************************************************************************)
(* The heap keeps its list, its callers' extents and the promise of        *)
(* Allocator, for every ascending memory map, header size, split size and  *)
(* set of requests.                                                        *)
(*                                                                         *)
(* The invariant is IInv.  ListIntegrity and UsedIsHeld are not inductive  *)
(* by themselves: they need to know, while memory_init runs, where the     *)
(* next region may lie (InitInv), and while malloc walks, that it stands   *)
(* on a listed header (WalkInv).  Merging and splitting are first proved   *)
(* to preserve a list and the extents in any memory whatever (Absorb and   *)
(* Split lemmas), and the actions are then a few uses of those lemmas.     *)
(*                                                                         *)
(* That malloc fails only when full needs to know that the blocks it has   *)
(* passed do not fit (Tried); and Coalesced is itself preserved, as free   *)
(* merges with both neighbours and every block that malloc cuts off        *)
(* follows a used one (NoFragments).                                       *)
(***************************************************************************)
EXTENDS Heap, TLAPS

Memory == [Addr -> Header]

(* While memory_init runs no block is used, last is the end of the list,   *)
(* and every block lies below every region not yet looked at.              *)
InitInv ==
  pc = "init" =>
    /\ live = {}
    /\ last = NULL <=> blocks = {}
    /\ last # NULL => last \in blocks /\ mem[last].next = NULL
    /\ \A b \in blocks :
         /\ ~mem[b].used
         /\ b <= last
         /\ \A i \in DOMAIN map : i >= region => EndIn(mem, b) <= map[i].base

(* While malloc walks it stands on a listed header or past the last one.   *)
WalkInv ==
  /\ pc = "malloc" => request \in Nat \ {0} /\ (cur = NULL \/ cur \in blocks)
  /\ pc = "halted" => blocks = {}

IInv == TypeOK /\ ListIntegrity /\ UsedIsHeld /\ InitInv /\ WalkInv
-----------------------------------------------------------------------------
(* What SetPrev and SetNext do to each header of any memory.               *)
LEMMA SetPrevValue ==
  ASSUME NEW m \in Memory, NEW b \in Addr, NEW p \in Addr
  PROVE  /\ SetPrev(m, b, p) \in Memory
         /\ \A x \in Addr :
              /\ SetPrev(m, b, p)[x].magic = m[x].magic
              /\ SetPrev(m, b, p)[x].used = m[x].used
              /\ SetPrev(m, b, p)[x].size = m[x].size
              /\ SetPrev(m, b, p)[x].next = m[x].next
              /\ SetPrev(m, b, p)[x].prev = IF x = b /\ x # NULL THEN p ELSE m[x].prev
<1>1. CASE b = NULL
  BY <1>1 DEF SetPrev
<1>2. CASE b # NULL
  <2> DEFINE r == [m[b] EXCEPT !.prev = p]
  <2>1. m[b] \in Header
    BY DEF Memory
  <2>2. /\ r \in Header /\ r.prev = p
        /\ r.magic = m[b].magic /\ r.used = m[b].used
        /\ r.size = m[b].size /\ r.next = m[b].next
    BY <2>1 DEF Header
  <2>3. SetPrev(m, b, p) = [m EXCEPT ![b] = r]
    BY <1>2 DEF SetPrev
  <2> HIDE DEF r
  <2>4. QED
    BY <1>2, <2>2, <2>3 DEF Memory
<1>3. QED
  BY <1>1, <1>2

LEMMA SetNextValue ==
  ASSUME NEW m \in Memory, NEW b \in Addr, NEW n \in Addr
  PROVE  /\ SetNext(m, b, n) \in Memory
         /\ \A x \in Addr :
              /\ SetNext(m, b, n)[x].magic = m[x].magic
              /\ SetNext(m, b, n)[x].used = m[x].used
              /\ SetNext(m, b, n)[x].size = m[x].size
              /\ SetNext(m, b, n)[x].next = IF x = b /\ x # NULL THEN n ELSE m[x].next
              /\ SetNext(m, b, n)[x].prev = m[x].prev
<1>1. CASE b = NULL
  BY <1>1 DEF SetNext
<1>2. CASE b # NULL
  <2> DEFINE r == [m[b] EXCEPT !.next = n]
  <2>1. m[b] \in Header
    BY DEF Memory
  <2>2. /\ r \in Header /\ r.next = n
        /\ r.magic = m[b].magic /\ r.used = m[b].used
        /\ r.size = m[b].size /\ r.prev = m[b].prev
    BY <2>1 DEF Header
  <2>3. SetNext(m, b, n) = [m EXCEPT ![b] = r]
    BY <1>2 DEF SetNext
  <2> HIDE DEF r
  <2>4. QED
    BY <1>2, <2>2, <2>3 DEF Memory
<1>3. QED
  BY <1>1, <1>2

(* What Absorb does to each header of any memory.                          *)
LEMMA AbsorbValue ==
  ASSUME NEW m \in Memory, NEW a \in Addr, NEW b \in Addr
  PROVE  /\ Absorb(m, a, b) \in Memory
         /\ \A x \in Addr :
              /\ Absorb(m, a, b)[x].magic = m[x].magic
              /\ Absorb(m, a, b)[x].used = m[x].used
              /\ Absorb(m, a, b)[x].size =
                   IF x = a THEN m[a].size + HeaderUnits + m[b].size ELSE m[x].size
              /\ Absorb(m, a, b)[x].next = IF x = a THEN m[b].next ELSE m[x].next
              /\ Absorb(m, a, b)[x].prev =
                   IF x = m[b].next /\ x # NULL THEN a ELSE m[x].prev
<1> DEFINE r == Bigger(m, a, b)
           g == [m EXCEPT ![a] = r]
           c == m[b].next
<1>1. m[a] \in Header /\ m[b] \in Header /\ HeaderUnits \in Nat
  BY HeapAssumption DEF Memory
<1>a. m[a].size \in Nat /\ m[b].size \in Nat /\ m[b].next \in Addr
  BY <1>1 DEF Header
<1>b. m[a].size + HeaderUnits + m[b].size \in Nat
  BY <1>1, <1>a
<1>2. /\ r \in Header
      /\ r.magic = m[a].magic /\ r.used = m[a].used /\ r.prev = m[a].prev
      /\ r.size = m[a].size + HeaderUnits + m[b].size /\ r.next = m[b].next
  BY <1>1, <1>a, <1>b DEF Header, Bigger
<1>3. Absorb(m, a, b) = SetPrev(g, c, a)
  BY DEF Absorb
<1>4. c \in Addr
  BY <1>1 DEF Header
<1> HIDE DEF r
<1>5. /\ g \in Memory
      /\ \A x \in Addr :
           /\ g[x].magic = m[x].magic
           /\ g[x].used = m[x].used
           /\ g[x].size = IF x = a THEN m[a].size + HeaderUnits + m[b].size ELSE m[x].size
           /\ g[x].next = IF x = a THEN m[b].next ELSE m[x].next
           /\ g[x].prev = m[x].prev
  BY <1>2 DEF Memory
<1> HIDE DEF g, c
<1> DEFINE s == SetPrev(g, c, a)
<1>6. /\ s \in Memory
      /\ \A x \in Addr :
           /\ s[x].magic = g[x].magic /\ s[x].used = g[x].used
           /\ s[x].size = g[x].size /\ s[x].next = g[x].next
           /\ s[x].prev = IF x = c /\ x # NULL THEN a ELSE g[x].prev
  BY <1>4, <1>5, SetPrevValue
<1>7. Absorb(m, a, b) = s
  BY <1>3
<1> HIDE DEF s
<1>8. QED
  BY <1>5, <1>6, <1>7 DEF c

(* Taking the block behind into a block leaves a list, without that block. *)
LEMMA AbsorbList ==
  ASSUME NEW m \in Memory, NEW h \in Addr, NEW B \in SUBSET Addr,
         Linked(m, h, B), Ordered(m, B),
         NEW a \in B, NEW b \in B, m[a].next = b
  PROVE  /\ Linked(Absorb(m, a, b), h, B \ {b})
         /\ Ordered(Absorb(m, a, b), B \ {b})
<1> DEFINE n == Absorb(m, a, b)
           c == m[b].next
<1> USE DEF NULL
<1>1. /\ n \in Memory
      /\ \A x \in Addr :
           /\ n[x].magic = m[x].magic
           /\ n[x].size = IF x = a THEN m[a].size + HeaderUnits + m[b].size ELSE m[x].size
           /\ n[x].next = IF x = a THEN c ELSE m[x].next
           /\ n[x].prev = IF x = c /\ x # NULL THEN a ELSE m[x].prev
  BY AbsorbValue
<1>2. /\ b # NULL /\ m[b].prev = a
      /\ c # NULL => c \in B /\ m[c].prev = b
  BY DEF Linked
<1>3. a < b /\ (c # NULL => b < c)
  BY <1>2 DEF Ordered
<1> HIDE DEF n, c
<1>4. Linked(n, h, B \ {b})
  <2>1. h # b
    BY <1>2 DEF Linked
  <2>2. ASSUME NEW x \in B \ {b}, n[x].next # NULL
        PROVE  n[x].next \in B \ {b} /\ n[n[x].next].prev = x
    <3>1. CASE x = a
      BY <1>1, <1>2, <1>3, <2>2, <3>1 DEF Linked
    <3>2. CASE x # a
      <4>1. /\ n[x].next = m[x].next /\ m[x].next \in B
            /\ m[m[x].next].prev = x
        BY <1>1, <2>2, <3>2 DEF Linked
      <4>2. m[x].next # b /\ m[x].next # c
        BY <1>2, <2>2, <3>2, <4>1
      <4>3. QED
        BY <1>1, <2>2, <4>1, <4>2
    <3>3. QED
      BY <3>1, <3>2
  <2>3. ASSUME NEW x \in B \ {b}, n[x].prev # NULL
        PROVE  n[x].prev \in B \ {b} /\ n[n[x].prev].next = x
    <3>1. CASE x = c
      BY <1>1, <1>2, <1>3, <2>3, <3>1 DEF Linked
    <3>2. CASE x # c
      <4>1. /\ n[x].prev = m[x].prev /\ m[x].prev \in B
            /\ m[m[x].prev].next = x
        BY <1>1, <2>3, <3>2 DEF Linked
      <4>2. m[x].prev # b /\ m[x].prev # a
        BY <1>2, <2>3, <3>2, <4>1 DEF c
      <4>3. QED
        BY <1>1, <2>3, <4>1, <4>2
    <3>3. QED
      BY <3>1, <3>2
  <2>4. h # NULL => h \in B \ {b} /\ n[h].prev = NULL
    BY <1>1, <1>2, <2>1 DEF Linked
  <2>5. QED
    BY <1>1, <2>1, <2>2, <2>3, <2>4 DEF Linked
<1>5. Ordered(n, B \ {b})
  <2>0. /\ HeaderUnits \in Nat /\ Top \in Nat
        /\ \A x \in B : x \in Addr /\ x \in Nat
        /\ \A x \in Addr : x \in Nat
    BY HeapAssumption DEF Addr
  <2>b. \A x \in B : m[x] \in Header
    BY <2>0 DEF Memory
  <2>c. \A x \in B : m[x].size \in Nat /\ m[x].next \in Nat /\ m[x].prev \in Nat
    BY <2>0, <2>b DEF Header
  <2>d. /\ \A x \in B : x + HeaderUnits + m[x].size <= Top + 1
        /\ \A x \in B : m[x].next # NULL => x < m[x].next
        /\ \A x, y \in B : x < y => x + HeaderUnits + m[x].size <= y
        /\ \A x, y \in B : x < y => m[x].next # NULL /\ m[x].next <= y
        /\ \A x, y \in B : x < y => m[y].prev # NULL /\ x <= m[y].prev
    BY DEF Ordered, EndIn
  <2>e. /\ a + HeaderUnits + m[a].size <= b /\ m[a].next = b
        /\ c # NULL => c \in B /\ b < c /\ m[c].prev = b
        /\ c \in Nat /\ m[b].next = c /\ m[b].prev = a /\ a < b
        /\ a # NULL
    BY <1>2, <1>3, <2>c, <2>d DEF c, Linked
  <2>1. ASSUME NEW x \in B \ {b}
        PROVE  /\ EndIn(n, x) <= Top + 1
               /\ n[x].next # NULL => x < n[x].next
    <3>1. CASE x = a
      BY <1>1, <2>0, <2>c, <2>d, <2>e, <3>1 DEF EndIn
    <3>2. CASE x # a
      BY <1>1, <2>0, <2>d, <3>2 DEF EndIn
    <3>3. QED
      BY <3>1, <3>2
  <2>2. ASSUME NEW x \in B \ {b}, NEW y \in B \ {b}, x < y
        PROVE  /\ EndIn(n, x) <= y
               /\ n[x].next # NULL /\ n[x].next <= y
    <3>1. CASE x = a
      <4>1. b < y
        BY <2>0, <2>2, <2>d, <2>e, <3>1
      <4>2. b + HeaderUnits + m[b].size <= y /\ c # NULL /\ c <= y
        BY <2>d, <2>e, <4>1
      <4>3. QED
        BY <1>1, <2>0, <2>c, <2>e, <3>1, <4>2 DEF EndIn
    <3>2. CASE x # a
      BY <1>1, <2>0, <2>2, <2>d, <3>2 DEF EndIn
    <3>3. QED
      BY <3>1, <3>2
  <2>3. ASSUME NEW x \in B \ {b}, NEW y \in B \ {b}, x < y
        PROVE  n[y].prev # NULL /\ x <= n[y].prev
    <3>1. CASE y = c
      <4>0. n[y].prev = a
        BY <1>1, <2>0, <2>2, <2>3, <2>e, <3>1 DEF Linked
      <4>1. x < b
        BY <2>0, <2>3, <2>d, <2>e, <3>1
      <4>2. x <= a
        BY <2>d, <2>e, <4>1
      <4>3. QED
        BY <2>e, <4>0, <4>2
    <3>2. CASE y # c
      BY <1>1, <2>0, <2>3, <2>d, <3>2
    <3>3. QED
      BY <3>1, <3>2
  <2>4. QED
    BY <2>1, <2>2, <2>3 DEF Ordered
<1>6. QED
  BY <1>4, <1>5 DEF n
(* Absorb keeps the extents: neither of the two blocks is used.            *)
LEMMA AbsorbHeld ==
  ASSUME NEW m \in Memory, NEW h \in Addr, NEW B \in SUBSET Addr, NEW L,
         Held(m, B, L), \A e \in L : e.ptr \in Addr /\ e.len \in Nat,
         NEW a \in B, NEW b \in B, ~m[a].used, ~m[b].used
  PROVE  Held(Absorb(m, a, b), B \ {b}, L)
<1> DEFINE n == Absorb(m, a, b)
<1>0. a \in Addr /\ b \in Addr /\ \A x \in B : x \in Addr
  OBVIOUS
<1>1. /\ n \in Memory
      /\ \A x \in Addr :
           /\ n[x].used = m[x].used
           /\ n[x].size = IF x = a THEN m[a].size + HeaderUnits + m[b].size ELSE m[x].size
  BY <1>0, AbsorbValue
<1>a. n = Absorb(m, a, b)
  OBVIOUS
<1> HIDE DEF n
<1>2. ASSUME NEW e \in L
      PROVE  /\ e.ptr >= HeaderUnits
             /\ e.ptr - HeaderUnits \in B \ {b}
             /\ n[e.ptr - HeaderUnits].used
             /\ e.len <= n[e.ptr - HeaderUnits].size
  <2>1. /\ e.ptr >= HeaderUnits /\ e.ptr - HeaderUnits \in B
        /\ m[e.ptr - HeaderUnits].used
        /\ e.len <= m[e.ptr - HeaderUnits].size
    BY DEF Held
  <2>2. QED
    BY <1>0, <1>1, <2>1
<1>3. ASSUME NEW x \in B \ {b}, n[x].used
      PROVE  \E e \in L : e.ptr = x + HeaderUnits
  BY <1>0, <1>1, <1>3 DEF Held
<1>4. QED
  BY <1>2, <1>3, <1>a DEF Held
-----------------------------------------------------------------------------
(* What SetUsed does, and that it does not touch the list.                 *)
LEMMA SetUsedValue ==
  ASSUME NEW m \in Memory, NEW b \in Addr, NEW u \in BOOLEAN
  PROVE  /\ SetUsed(m, b, u) \in Memory
         /\ \A x \in Addr :
              /\ SetUsed(m, b, u)[x].magic = m[x].magic
              /\ SetUsed(m, b, u)[x].used = IF x = b THEN u ELSE m[x].used
              /\ SetUsed(m, b, u)[x].size = m[x].size
              /\ SetUsed(m, b, u)[x].next = m[x].next
              /\ SetUsed(m, b, u)[x].prev = m[x].prev
<1> DEFINE r == [m[b] EXCEPT !.used = u]
<1>1. m[b] \in Header
  BY DEF Memory
<1>2. /\ r \in Header /\ r.used = u
      /\ r.magic = m[b].magic /\ r.prev = m[b].prev
      /\ r.size = m[b].size /\ r.next = m[b].next
  BY <1>1 DEF Header
<1>3. SetUsed(m, b, u) = [m EXCEPT ![b] = r]
  BY DEF SetUsed
<1> HIDE DEF r
<1>4. QED
  BY <1>2, <1>3 DEF Memory

(* A list is a list in any memory that agrees on its headers but for used. *)
LEMMA SameList ==
  ASSUME NEW m \in Memory, NEW n \in Memory, NEW h \in Addr, NEW B \in SUBSET Addr,
         Linked(m, h, B), Ordered(m, B),
         \A x \in B : /\ n[x].magic = m[x].magic /\ n[x].size = m[x].size
                      /\ n[x].next = m[x].next /\ n[x].prev = m[x].prev
  PROVE  Linked(n, h, B) /\ Ordered(n, B)
<1>1. Linked(n, h, B)
  BY DEF Linked
<1>2. Ordered(n, B)
  BY DEF Ordered, EndIn
<1>3. QED
  BY <1>1, <1>2
-----------------------------------------------------------------------------
(* What Split does to each header, and where the new block lies.           *)
LEMMA SplitValue ==
  ASSUME mem \in Memory, blocks \subseteq Addr, Linked(mem, head, blocks),
         Ordered(mem, blocks), request \in Nat \ {0},
         NEW b \in blocks, Splits(b)
  PROVE  /\ Cut(b) \in Addr /\ Cut(b) \notin blocks /\ b < Cut(b)
         /\ Cut(b) + HeaderUnits + (mem[b].size - request - HeaderUnits) = EndIn(mem, b)
         /\ mem[b].next # NULL => EndIn(mem, b) <= mem[b].next
         /\ Split(b) \in Memory
         /\ \A x \in Addr :
              /\ Split(b)[x].magic = IF x = Cut(b) THEN TRUE ELSE mem[x].magic
              /\ Split(b)[x].used = IF x = Cut(b) THEN FALSE ELSE mem[x].used
              /\ Split(b)[x].size = IF x = Cut(b) THEN mem[b].size - request - HeaderUnits
                                    ELSE IF x = b THEN request ELSE mem[x].size
              /\ Split(b)[x].next = IF x = Cut(b) THEN mem[b].next
                                    ELSE IF x = b THEN Cut(b) ELSE mem[x].next
              /\ Split(b)[x].prev = IF x = Cut(b) THEN b
                                    ELSE IF x = mem[b].next /\ x # NULL THEN Cut(b)
                                    ELSE mem[x].prev
<1> DEFINE n == Cut(b)
           c == mem[b].next
           g == [mem EXCEPT ![n] = Rest(b)]
           s == SetPrev(g, c, n)
           r == [s[b] EXCEPT !.next = n, !.size = request]
<1>1. /\ b \in Addr /\ b \in Nat /\ Top \in Nat /\ HeaderUnits \in Nat \ {0}
      /\ MinData \in Nat \ {0} /\ NULL = 0
  BY HeapAssumption DEF Addr, NULL
<1>2. mem[b] \in Header
  BY <1>1 DEF Memory
<1>3. mem[b].size \in Nat /\ c \in Addr
  BY <1>2 DEF Header
<1>4. /\ mem[b].size - request - HeaderUnits \in Nat
      /\ n + HeaderUnits + (mem[b].size - request - HeaderUnits) = EndIn(mem, b)
      /\ n \in Nat /\ b < n /\ n < EndIn(mem, b)
  BY <1>1, <1>3 DEF Splits, Cut, EndIn
<1>5. /\ EndIn(mem, b) <= Top + 1 /\ EndIn(mem, b) \in Nat
      /\ c # NULL => c \in blocks /\ EndIn(mem, b) <= c
  <2>1. EndIn(mem, b) <= Top + 1
    BY DEF Ordered
  <2>2. EndIn(mem, b) \in Nat
    BY <1>1, <1>3 DEF EndIn
  <2>3. c # NULL => c \in blocks /\ b < c
    BY DEF Ordered, Linked
  <2>4. c # NULL => EndIn(mem, b) <= c
    BY <2>3 DEF Ordered
  <2>5. QED
    BY <2>1, <2>2, <2>3, <2>4
<1>6. n \in Addr
  BY <1>1, <1>4, <1>5 DEF Addr
<1>7. n \notin blocks
  BY <1>4, <1>5, <1>1, <1>6 DEF Ordered
<1>8. Rest(b) \in Header
  BY <1>1, <1>3, <1>4 DEF Rest, Header
<1>9. /\ g \in Memory
      /\ \A x \in Addr : g[x] = IF x = n THEN Rest(b) ELSE mem[x]
  BY <1>6, <1>8 DEF Memory
<1>10. /\ Rest(b).magic = TRUE /\ Rest(b).used = FALSE /\ Rest(b).next = c
       /\ Rest(b).size = mem[b].size - request - HeaderUnits /\ Rest(b).prev = b
  BY DEF Rest
<1>11. Split(b) = [s EXCEPT ![b] = r]
  BY DEF Split
<1> HIDE DEF n, c, g
<1>12. /\ s \in Memory
       /\ \A x \in Addr :
            /\ s[x].magic = g[x].magic /\ s[x].used = g[x].used
            /\ s[x].size = g[x].size /\ s[x].next = g[x].next
            /\ s[x].prev = IF x = c /\ x # NULL THEN n ELSE g[x].prev
  BY <1>3, <1>6, <1>9, SetPrevValue
<1> HIDE DEF s
<1>13. s[b] \in Header
  BY <1>1, <1>12 DEF Memory
<1>14. /\ r \in Header /\ r.next = n /\ r.size = request
       /\ r.magic = s[b].magic /\ r.used = s[b].used /\ r.prev = s[b].prev
  BY <1>6, <1>13 DEF Header
<1> HIDE DEF r
<1>15. /\ Split(b) \in Memory
       /\ \A x \in Addr : Split(b)[x] = IF x = b THEN r ELSE s[x]
  BY <1>1, <1>11, <1>12, <1>14 DEF Memory
<1>16. b # n /\ (c # NULL => c # n /\ c # b)
  BY <1>1, <1>4, <1>5, <1>6, <1>7
<1>17. ASSUME NEW x \in Addr
       PROVE
         /\ Split(b)[x].magic = IF x = n THEN TRUE ELSE mem[x].magic
         /\ Split(b)[x].used = IF x = n THEN FALSE ELSE mem[x].used
         /\ Split(b)[x].size = IF x = n THEN mem[b].size - request - HeaderUnits
                               ELSE IF x = b THEN request ELSE mem[x].size
         /\ Split(b)[x].next = IF x = n THEN c ELSE IF x = b THEN n ELSE mem[x].next
  <2>1. CASE x = n
    <3>1. Split(b)[x] = s[x] /\ g[x] = Rest(b)
      BY <1>9, <1>15, <1>16, <2>1
    <3>2. /\ s[x].magic = g[x].magic /\ s[x].used = g[x].used
          /\ s[x].size = g[x].size /\ s[x].next = g[x].next
      BY <1>12
    <3>3. QED
      BY <1>10, <2>1, <3>1, <3>2
  <2>2. CASE x # n
    BY <1>1, <1>9, <1>12, <1>14, <1>15, <2>2
  <2>3. QED
    BY <2>1, <2>2
<1>18. \A x \in Addr :
         Split(b)[x].prev = IF x = n THEN b ELSE IF x = c /\ x # NULL THEN n
                            ELSE mem[x].prev
  <2>1. ASSUME NEW x \in Addr
        PROVE  Split(b)[x].prev = s[x].prev
    BY <1>14, <1>15
  <2>2. ASSUME NEW x \in Addr
        PROVE  g[x].prev = IF x = n THEN b ELSE mem[x].prev
    BY <1>9, <1>10
  <2>3. QED
    BY <1>12, <1>16, <2>1, <2>2
<1>19. QED
  BY <1>4, <1>5, <1>6, <1>7, <1>15, <1>17, <1>18 DEF n, c

(* Splitting a block leaves a list, with the block cut off behind it.      *)
LEMMA SplitList ==
  ASSUME mem \in Memory, blocks \subseteq Addr, head \in Addr,
         Linked(mem, head, blocks), Ordered(mem, blocks), request \in Nat \ {0},
         NEW b \in blocks, Splits(b)
  PROVE  /\ Linked(Split(b), head, blocks \cup {Cut(b)})
         /\ Ordered(Split(b), blocks \cup {Cut(b)})
<1> DEFINE s == Split(b)
           n == Cut(b)
           c == mem[b].next
           z == mem[b].size - request - HeaderUnits
           C == blocks \cup {n}
<1> USE DEF NULL
<1>1. /\ n \in Addr /\ n \notin blocks /\ b < n
      /\ n + HeaderUnits + z = EndIn(mem, b)
      /\ c # NULL => EndIn(mem, b) <= c
      /\ s \in Memory
      /\ \A x \in Addr :
           /\ s[x].magic = IF x = n THEN TRUE ELSE mem[x].magic
           /\ s[x].used = IF x = n THEN FALSE ELSE mem[x].used
           /\ s[x].size = IF x = n THEN z ELSE IF x = b THEN request ELSE mem[x].size
           /\ s[x].next = IF x = n THEN c ELSE IF x = b THEN n ELSE mem[x].next
           /\ s[x].prev = IF x = n THEN b ELSE IF x = c /\ x # NULL THEN n ELSE mem[x].prev
  BY SplitValue
<1>2. /\ HeaderUnits \in Nat \ {0} /\ Top \in Nat /\ request \in Nat /\ MinData \in Nat
      /\ \A x \in Addr : x \in Nat
      /\ \A x \in blocks : x \in Addr /\ x \in Nat
      /\ b \in Addr /\ b \in Nat
  BY HeapAssumption DEF Addr
<1>3. \A x \in blocks : mem[x] \in Header
  BY <1>2 DEF Memory
<1>4. \A x \in blocks : mem[x].size \in Nat /\ mem[x].next \in Nat /\ mem[x].prev \in Nat
  BY <1>2, <1>3 DEF Header
<1>5. /\ \A x \in blocks : x + HeaderUnits + mem[x].size <= Top + 1
      /\ \A x \in blocks : mem[x].next # NULL => x < mem[x].next
      /\ \A x, y \in blocks : x < y => x + HeaderUnits + mem[x].size <= y
      /\ \A x, y \in blocks : x < y => mem[x].next # NULL /\ mem[x].next <= y
      /\ \A x, y \in blocks : x < y => mem[y].prev # NULL /\ x <= mem[y].prev
  BY DEF Ordered, EndIn
<1>6. /\ head = NULL <=> blocks = {}
      /\ head # NULL => head \in blocks /\ mem[head].prev = NULL
      /\ NULL \notin blocks
      /\ \A x \in blocks :
           /\ mem[x].magic
           /\ mem[x].next # NULL => mem[x].next \in blocks /\ mem[mem[x].next].prev = x
           /\ mem[x].prev # NULL => mem[x].prev \in blocks /\ mem[mem[x].prev].next = x
  BY DEF Linked
<1>7. /\ z \in Nat /\ n \in Nat /\ n = b + HeaderUnits + request
      /\ n + HeaderUnits + z = b + HeaderUnits + mem[b].size
      /\ c # NULL => c \in blocks /\ b < c /\ n + HeaderUnits + z <= c /\ mem[c].prev = b
      /\ c \in Nat /\ n # 0 /\ b # 0
  <2>1. z \in Nat
    BY <1>2, <1>4 DEF Splits
  <2>2. n = b + HeaderUnits + request
    BY DEF Cut
  <2>3. n + HeaderUnits + z = b + HeaderUnits + mem[b].size
    BY <1>1 DEF EndIn
  <2>4. c # NULL => c \in blocks /\ b < c /\ mem[c].prev = b
    BY <1>5, <1>6
  <2>5. QED
    BY <1>1, <1>2, <1>4, <1>6, <2>1, <2>2, <2>3, <2>4
<1>a. mem[b].next = c /\ C = blocks \cup {n}
  OBVIOUS
<1>b. s = Split(b) /\ n = Cut(b)
  OBVIOUS
<1> HIDE DEF s, n, c, z, C
<1>8. Linked(s, head, C)
  <2>1. ASSUME NEW x \in C
        PROVE  /\ s[x].magic
               /\ s[x].next # NULL => s[x].next \in C /\ s[s[x].next].prev = x
               /\ s[x].prev # NULL => s[x].prev \in C /\ s[s[x].prev].next = x
    <3>1. CASE x = n
      <4>1. s[x].magic /\ s[x].next = c /\ s[x].prev = b
        BY <1>1, <3>1
      <4>2. c # NULL => c \in Addr /\ c # n
        BY <1>1, <1>2, <1>7
      <4>3. c # NULL => s[c].prev = n
        BY <1>1, <4>2
      <4>4. s[b].next = n
        BY <1>1, <1>2
      <4>5. QED
        BY <1>7, <1>a, <3>1, <4>1, <4>3, <4>4
    <3>2. CASE x # n
      <4>1. x \in blocks /\ x \in Addr
        BY <1>2, <1>a, <3>2
      <4>2. s[x].magic
        BY <1>1, <1>6, <3>2, <4>1
      <4>3. s[x].next # NULL => s[x].next \in C /\ s[s[x].next].prev = x
        <5>1. CASE x = b
          BY <1>1, <1>2, <1>7, <1>a, <3>2, <4>1, <5>1
        <5>2. CASE x # b
          <6>1. s[x].next = mem[x].next
            BY <1>1, <3>2, <4>1, <5>2
          <6>2. mem[x].next # NULL => /\ mem[x].next \in blocks
                                      /\ mem[mem[x].next].prev = x
                                      /\ mem[x].next # c /\ mem[x].next # n
            BY <1>1, <1>6, <1>7, <4>1, <5>2
          <6>3. ASSUME NEW y \in blocks, y # c, y # n, mem[y].prev = x
                PROVE  y \in C /\ s[y].prev = x
            <7>1. y \in Addr /\ y \in C
              BY <1>2, <1>a, <6>3
            <7>2. s[y].prev = mem[y].prev
              BY <1>1, <6>3, <7>1
            <7>3. QED
              BY <6>3, <7>1, <7>2
          <6>4. QED
            BY <6>1, <6>2, <6>3
        <5>3. QED
          BY <5>1, <5>2
      <4>4. s[x].prev # NULL => s[x].prev \in C /\ s[s[x].prev].next = x
        <5>1. CASE x = c
          <6>1. x # NULL
            BY <1>6, <4>1
          <6>2. s[x].prev = n
            BY <1>1, <3>2, <4>1, <5>1, <6>1
          <6>3. s[n].next = c
            BY <1>1
          <6>4. QED
            BY <1>a, <5>1, <6>2, <6>3
        <5>2. CASE x # c
          <6>1. s[x].prev = mem[x].prev
            BY <1>1, <3>2, <4>1, <5>2
          <6>2. mem[x].prev # NULL => /\ mem[x].prev \in blocks
                                      /\ mem[mem[x].prev].next = x
                                      /\ mem[x].prev # b /\ mem[x].prev # n
            BY <1>1, <1>6, <1>a, <4>1, <5>2
          <6>3. ASSUME NEW y \in blocks, y # b, y # n, mem[y].next = x
                PROVE  y \in C /\ s[y].next = x
            <7>1. y \in Addr /\ y \in C
              BY <1>2, <1>a, <6>3
            <7>2. s[y].next = mem[y].next
              BY <1>1, <6>3, <7>1
            <7>3. QED
              BY <6>3, <7>1, <7>2
          <6>4. QED
            BY <6>1, <6>2, <6>3
        <5>3. QED
          BY <5>1, <5>2
      <4>5. QED
        BY <4>2, <4>3, <4>4
    <3>3. QED
      BY <3>1, <3>2
  <2>2. head \in blocks /\ mem[head].prev = NULL
    BY <1>6
  <2>3. head # c /\ head # n
    BY <1>1, <1>6, <1>7, <2>2
  <2>4. s[head].prev = NULL
    BY <1>1, <1>2, <2>2, <2>3
  <2>5. head \in C /\ C # {} /\ NULL \notin C /\ head # NULL
    BY <1>6, <1>7, <1>a, <2>2
  <2>6. QED
    BY <2>1, <2>4, <2>5 DEF Linked
<1>9. Ordered(s, C)
  <2>0. ASSUME NEW x \in C
        PROVE  /\ x \in Nat /\ x \in Addr
               /\ s[x].size = IF x = n THEN z ELSE IF x = b THEN request ELSE mem[x].size
               /\ s[x].next = IF x = n THEN c ELSE IF x = b THEN n ELSE mem[x].next
               /\ s[x].prev = IF x = n THEN b ELSE IF x = c THEN n ELSE mem[x].prev
               /\ x # n => x \in blocks
    <3>1. x \in Addr /\ x \in Nat /\ (x # n => x \in blocks)
      BY <1>1, <1>2, <1>a, <2>0
    <3>2. x # NULL
      BY <1>6, <1>7, <3>1
    <3>3. QED
      BY <1>1, <3>1, <3>2
  <2>1. ASSUME NEW x \in C
        PROVE  /\ x + HeaderUnits + s[x].size <= Top + 1
               /\ s[x].next # NULL => x < s[x].next
    <3>1. CASE x = n
      BY <1>2, <1>4, <1>5, <1>7, <2>0, <3>1
    <3>2. CASE x = b
      BY <1>1, <1>2, <1>4, <1>5, <1>7, <2>0, <3>2
    <3>3. CASE x # n /\ x # b
      BY <1>5, <2>0, <3>3
    <3>4. QED
      BY <3>1, <3>2, <3>3
  <2>2. ASSUME NEW x \in C, NEW y \in C, x < y
        PROVE  /\ x + HeaderUnits + s[x].size <= y
               /\ s[x].next # NULL /\ s[x].next <= y
    <3>1. CASE x = n
      <4>1. y \in blocks /\ b < y
        BY <1>1, <1>2, <1>7, <2>0, <2>2, <3>1
      <4>2. b + HeaderUnits + mem[b].size <= y /\ c # NULL /\ c <= y
        BY <1>5, <1>a, <4>1
      <4>3. QED
        BY <1>7, <2>0, <3>1, <4>2
    <3>2. CASE x = b
      <4>1. s[x].size = request /\ s[x].next = n /\ n # NULL
        BY <1>1, <1>2, <1>7, <2>0, <3>2
      <4>2. n <= y
        <5>1. CASE y = n
          BY <1>7, <5>1
        <5>2. CASE y # n
          <6>1. y \in blocks /\ b + HeaderUnits + mem[b].size <= y
            BY <1>5, <2>0, <2>2, <3>2, <5>2
          <6>2. QED
            BY <1>2, <1>7, <2>0, <6>1
        <5>3. QED
          BY <5>1, <5>2
      <4>3. QED
        BY <1>2, <1>7, <3>2, <4>1, <4>2
    <3>3. CASE x # n /\ x # b
      <4>1. x \in blocks /\ s[x].size = mem[x].size /\ s[x].next = mem[x].next
        BY <2>0, <3>3
      <4>2. CASE y = n
        <5>1. x < b
          <6>1. ~(b < x)
            <7>1. b < x => b + HeaderUnits + mem[b].size <= x
              BY <1>5, <4>1
            <7>2. QED
              BY <1>2, <1>4, <1>7, <2>0, <2>2, <4>1, <4>2, <7>1
          <6>2. QED
            BY <1>2, <2>0, <3>3, <6>1
        <5>2. x + HeaderUnits + mem[x].size <= b /\ mem[x].next # NULL /\ mem[x].next <= b
          BY <1>5, <4>1, <5>1
        <5>3. /\ mem[x].size \in Nat /\ mem[x].next \in Nat /\ b \in Nat /\ b < n
              /\ x \in Nat /\ HeaderUnits \in Nat
          BY <1>1, <1>2, <1>4, <4>1
        <5>4. QED
          BY <1>7, <4>1, <4>2, <5>2, <5>3
      <4>3. CASE y # n
        BY <1>5, <2>0, <2>2, <4>1, <4>3
      <4>4. QED
        BY <4>2, <4>3
    <3>4. QED
      BY <3>1, <3>2, <3>3
  <2>3. ASSUME NEW x \in C, NEW y \in C, x < y
        PROVE  s[y].prev # NULL /\ x <= s[y].prev
    <3>1. CASE y = n
      <4>1. s[y].prev = b
        BY <2>0, <3>1
      <4>2. x \in blocks /\ ~(b < x)
        <5>1. x \in blocks
          BY <1>7, <2>0, <2>3, <3>1
        <5>2. b < x => b + HeaderUnits + mem[b].size <= x
          BY <1>5, <5>1
        <5>3. QED
          BY <1>2, <1>4, <1>7, <2>0, <2>3, <3>1, <5>1, <5>2
      <4>3. QED
        BY <1>2, <1>7, <2>0, <4>1, <4>2
    <3>2. CASE y # n
      <4>1. y \in blocks
        BY <2>0, <3>2
      <4>2. CASE y = c
        <5>1. s[y].prev = n
          BY <2>0, <3>2, <4>2
        <5>2. CASE x = n
          BY <1>7, <5>1, <5>2
        <5>3. CASE x # n
          <6>1. x \in blocks /\ x <= mem[y].prev /\ mem[y].prev = b
            BY <1>5, <1>6, <1>7, <2>0, <2>3, <4>1, <4>2, <5>3
          <6>2. QED
            BY <1>1, <1>2, <1>7, <2>0, <5>1, <6>1
        <5>4. QED
          BY <5>2, <5>3
      <4>3. CASE y # c
        <5>1. s[y].prev = mem[y].prev
          BY <2>0, <3>2, <4>3
        <5>2. CASE x = n
          <6>1. b < y
            <7>1. b \in Nat /\ n \in Nat /\ y \in Nat /\ b < n
              BY <1>1, <1>2, <1>7, <4>1
            <7>2. QED
              BY <2>3, <5>2, <7>1
          <6>2. mem[y].prev # NULL /\ b <= mem[y].prev /\ c # NULL /\ c <= y
            BY <1>5, <1>a, <4>1, <6>1
          <6>3. c < y /\ c \in blocks
            BY <1>2, <1>7, <4>1, <4>3, <6>2
          <6>4. c <= mem[y].prev
            BY <1>5, <4>1, <6>3
          <6>5. QED
            <7>1. /\ c \in Nat /\ mem[y].prev \in Nat /\ n \in Nat /\ HeaderUnits \in Nat
                  /\ z \in Nat
              BY <1>2, <1>4, <1>7, <4>1
            <7>2. n + HeaderUnits + z <= c
              BY <1>7, <6>2
            <7>3. n <= mem[y].prev
              BY <6>4, <7>1, <7>2
            <7>4. QED
              BY <5>1, <5>2, <6>2, <7>3
        <5>3. CASE x # n
          BY <1>5, <2>0, <2>3, <4>1, <5>1, <5>3
        <5>4. QED
          BY <5>2, <5>3
      <4>4. QED
        BY <4>2, <4>3
    <3>3. QED
      BY <3>1, <3>2
  <2>4. QED
    BY <2>1, <2>2, <2>3 DEF Ordered, EndIn
<1>10. QED
  BY <1>8, <1>9, <1>a, <1>b
-----------------------------------------------------------------------------
(* Marking a free block used and granting it keeps the extents, whether a  *)
(* new free block was cut off it or not.                                   *)
LEMMA TakeHeld ==
  ASSUME NEW m \in Memory, NEW n \in Memory, NEW B \in SUBSET Addr, NEW C,
         NEW L, Held(m, B, L), \A e \in L : e.ptr \in Addr /\ e.len \in Nat,
         NEW b \in B, ~m[b].used, n[b].used, request <= n[b].size, B \subseteq C,
         request \in Nat,
         \A x \in B : x # b => n[x].used = m[x].used /\ n[x].size = m[x].size,
         \A x \in C : x \notin B => ~n[x].used
  PROVE  Held(n, C, L \cup {Grant(b)})
<1> DEFINE g == Grant(b)
           M == L \cup {g}
<1>1. /\ b \in Nat /\ HeaderUnits \in Nat /\ b \in Addr
      /\ \A x \in B : x \in Nat
  BY HeapAssumption DEF Addr
<1>2. g.ptr = b + HeaderUnits /\ g.len = request
  BY DEF Grant
<1>3. g.ptr >= HeaderUnits /\ g.ptr - HeaderUnits = b
  BY <1>1, <1>2
<1>a. g = Grant(b) /\ M = L \cup {g}
  OBVIOUS
<1> HIDE DEF g, M
<1>4. ASSUME NEW e \in L
      PROVE  /\ e.ptr >= HeaderUnits /\ e.ptr - HeaderUnits \in B
             /\ e.ptr \in Nat
             /\ e.ptr - HeaderUnits # b
             /\ n[e.ptr - HeaderUnits].used
             /\ e.len <= n[e.ptr - HeaderUnits].size
  <2>1. /\ e.ptr >= HeaderUnits /\ e.ptr - HeaderUnits \in B
        /\ m[e.ptr - HeaderUnits].used
        /\ e.len <= m[e.ptr - HeaderUnits].size
    BY DEF Held
  <2>2. e.ptr \in Nat
    BY HeapAssumption DEF Addr
  <2>3. QED
    BY <2>1, <2>2
<1>5. \A e \in M : /\ e.ptr >= HeaderUnits /\ e.ptr - HeaderUnits \in C
                   /\ n[e.ptr - HeaderUnits].used
                   /\ e.len <= n[e.ptr - HeaderUnits].size
  BY <1>2, <1>3, <1>4, <1>a
<1>6. \A x \in C : n[x].used => \E e \in M : e.ptr = x + HeaderUnits
  <2>1. SUFFICES ASSUME NEW x \in C, n[x].used
                 PROVE  \E e \in M : e.ptr = x + HeaderUnits
    OBVIOUS
  <2>2. x \in B
    BY <2>1
  <2>3. CASE x = b
    BY <1>2, <1>a, <2>3
  <2>4. CASE x # b
    <3>1. m[x].used
      BY <2>1, <2>2, <2>4
    <3>2. QED
      BY <1>a, <2>2, <3>1 DEF Held
  <2>5. QED
    BY <2>3, <2>4
<1>7. \A e, f \in M : e.ptr = f.ptr => e = f
  <2>1. \A e \in L : e.ptr # g.ptr
    BY <1>3, <1>4
  <2>2. \A e, f \in L : e.ptr = f.ptr => e = f
    BY DEF Held
  <2>3. QED
    BY <1>a, <2>1, <2>2
<1>8. QED
  BY <1>5, <1>6, <1>7, <1>a DEF Held

(* Marking a caller's block unused keeps the other extents.                *)
LEMMA ReleaseHeld ==
  ASSUME NEW m \in Memory, NEW B \in SUBSET Addr, NEW L, Held(m, B, L),
         \A e \in L : e.ptr \in Addr /\ e.len \in Nat,
         NEW p \in Addr, p >= HeaderUnits, p - HeaderUnits \in B
  PROVE  Held(SetUsed(m, p - HeaderUnits, FALSE), B, {e \in L : e.ptr # p})
<1> DEFINE b == p - HeaderUnits
           n == SetUsed(m, b, FALSE)
           M == {e \in L : e.ptr # p}
<1>1. /\ b \in Addr /\ p \in Nat /\ HeaderUnits \in Nat /\ p = b + HeaderUnits
      /\ \A x \in B : x \in Addr /\ x \in Nat
      /\ \A x \in Addr : x \in Nat
  BY HeapAssumption DEF Addr
<1>2. /\ n \in Memory
      /\ \A x \in Addr :
           /\ n[x].magic = m[x].magic
           /\ n[x].used = IF x = b THEN FALSE ELSE m[x].used
           /\ n[x].size = m[x].size
           /\ n[x].next = m[x].next
           /\ n[x].prev = m[x].prev
  <2>1. m \in Memory /\ b \in Addr /\ FALSE \in BOOLEAN
    BY <1>1
  <2> HIDE DEF b
  <2>2. QED
    BY <2>1, SetUsedValue
<1>a. n = SetUsed(m, p - HeaderUnits, FALSE) /\ \A e \in M : e \in L /\ e.ptr # p
  OBVIOUS
<1>b. \A e \in L : e.ptr # p => e \in M
  OBVIOUS
<1>c. M = {e \in L : e.ptr # p} /\ b = p - HeaderUnits
  OBVIOUS
<1> HIDE DEF n, b, M
<1>3. ASSUME NEW e \in M
      PROVE  /\ e.ptr >= HeaderUnits /\ e.ptr - HeaderUnits \in B
             /\ n[e.ptr - HeaderUnits].used
             /\ e.len <= n[e.ptr - HeaderUnits].size
  <2>1. /\ e.ptr >= HeaderUnits /\ e.ptr - HeaderUnits \in B
        /\ m[e.ptr - HeaderUnits].used
        /\ e.len <= m[e.ptr - HeaderUnits].size
    BY <1>a DEF Held
  <2>2. e.ptr \in Nat /\ e.ptr # p
    BY <1>1, <1>a
  <2>3. e.ptr - HeaderUnits # b
    BY <1>1, <2>2
  <2>4. QED
    BY <1>1, <1>2, <2>1, <2>3
<1>4. ASSUME NEW x \in B, n[x].used
      PROVE  \E e \in M : e.ptr = x + HeaderUnits
  <2>1. x # b /\ m[x].used
    BY <1>1, <1>2, <1>4
  <2>2. PICK e \in L : e.ptr = x + HeaderUnits
    BY <2>1 DEF Held
  <2>3. e.ptr # p
    BY <1>1, <2>1, <2>2
  <2>4. QED
    BY <1>b, <2>2, <2>3
<1>5. \A e, f \in M : e.ptr = f.ptr => e = f
  BY <1>a DEF Held
<1>6. QED
  BY <1>3, <1>4, <1>5, <1>a, <1>c DEF Held
-----------------------------------------------------------------------------
(* free of a held block, both merges included, leaves a list without the   *)
(* merged headers, and the extents of everybody else.                      *)
LEMMA FreeKeeps ==
  ASSUME TypeOK, ListIntegrity, UsedIsHeld, NEW e \in live
  PROVE  LET b == e.ptr - HeaderUnits
             B == blocks \ Merged(b)
         IN  /\ mem[b].magic
             /\ AfterFree(b) \in Memory
             /\ Linked(AfterFree(b), head, B)
             /\ Ordered(AfterFree(b), B)
             /\ Held(AfterFree(b), B, {f \in live : f.ptr # e.ptr})
<1> DEFINE b == e.ptr - HeaderUnits
           c == mem[b].next
           p == mem[b].prev
           L == {f \in live : f.ptr # e.ptr}
           m0 == SetUsed(mem, b, FALSE)
           m1 == Released(b)
           B1 == IF FreeBlock(m0, c) THEN blocks \ {c} ELSE blocks
           m2 == AfterFree(b)
           B2 == IF FreeBlock(m1, p) THEN B1 \ {b} ELSE B1
<1> USE DEF NULL
<1>1. /\ mem \in Memory /\ head \in Addr /\ blocks \in SUBSET Addr
      /\ Linked(mem, head, blocks) /\ Ordered(mem, blocks) /\ Held(mem, blocks, live)
      /\ \A f \in live : f.ptr \in Addr /\ f.len \in Nat
      /\ \A x \in Addr : x \in Nat
  BY DEF TypeOK, ListIntegrity, UsedIsHeld, Memory, Addr
<1>2. /\ e.ptr \in Addr /\ e.ptr >= HeaderUnits /\ b \in blocks /\ b \in Addr
      /\ mem[b].used /\ mem[b].magic
  <2>1. e.ptr >= HeaderUnits /\ b \in blocks /\ mem[b].used
    BY <1>1 DEF Held
  <2>2. QED
    BY <1>1, <2>1 DEF Linked
<1>3. /\ m0 \in Memory
      /\ \A x \in Addr :
           /\ m0[x].magic = mem[x].magic
           /\ m0[x].used = IF x = b THEN FALSE ELSE mem[x].used
           /\ m0[x].size = mem[x].size
           /\ m0[x].next = mem[x].next
           /\ m0[x].prev = mem[x].prev
  <2>1. mem \in Memory /\ b \in Addr /\ FALSE \in BOOLEAN
    BY <1>1, <1>2
  <2> HIDE DEF b
  <2>2. QED
    BY <2>1, SetUsedValue
<1>4. Held(m0, blocks, L)
  <2>1. PICK q : q = e.ptr
    OBVIOUS
  <2>2. /\ mem \in Memory /\ blocks \in SUBSET Addr /\ Held(mem, blocks, live)
        /\ \A f \in live : f.ptr \in Addr /\ f.len \in Nat
        /\ q \in Addr /\ q >= HeaderUnits /\ q - HeaderUnits \in blocks
    BY <1>1, <1>2, <2>1
  <2>3. Held(SetUsed(mem, q - HeaderUnits, FALSE), blocks, {f \in live : f.ptr # q})
    <3> HIDE DEF b, L
    <3>1. QED
      BY <2>2, ReleaseHeld
  <2>4. QED
    BY <2>1, <2>3
<1>5. /\ c # NULL => c \in blocks /\ b < c /\ c \in Addr
      /\ p # NULL => p \in blocks /\ p < b /\ p \in Addr /\ mem[p].next = b
  <2>1. /\ c # NULL => c \in blocks
        /\ p # NULL => p \in blocks /\ mem[p].next = b
        /\ b # NULL
    BY <1>1, <1>2 DEF Linked
  <2>2. \A x \in blocks : mem[x].next # NULL => x < mem[x].next
    BY <1>1 DEF Ordered
  <2>3. QED
    BY <1>1, <1>2, <2>1, <2>2
<1>a. /\ m1 = IF FreeBlock(m0, m0[b].next) THEN Absorb(m0, b, m0[b].next) ELSE m0
      /\ m2 = IF FreeBlock(m1, m1[b].prev) THEN Absorb(m1, m1[b].prev, b) ELSE m1
  BY DEF Released, AfterFree
<1>b. m2 = AfterFree(b) /\ b = e.ptr - HeaderUnits /\ L = {f \in live : f.ptr # e.ptr}
  OBVIOUS
<1>c. /\ B1 = IF FreeBlock(m0, c) THEN blocks \ {c} ELSE blocks
      /\ B2 = IF FreeBlock(m1, p) THEN B1 \ {b} ELSE B1
      /\ c = mem[b].next /\ p = mem[b].prev
  OBVIOUS
<1>d. \A f \in L : f.ptr \in Addr /\ f.len \in Nat
  BY <1>1
<1> HIDE DEF b, c, p, L, m0, m1, B1, m2, B2
<1>6. Linked(m0, head, blocks) /\ Ordered(m0, blocks)
  <2>1. \A x \in blocks : /\ m0[x].magic = mem[x].magic /\ m0[x].size = mem[x].size
                          /\ m0[x].next = mem[x].next /\ m0[x].prev = mem[x].prev
    BY <1>1, <1>3
  <2>2. QED
    BY <1>1, <1>3, <2>1, SameList
<1>7. /\ m1 \in Memory /\ B1 \in SUBSET Addr /\ b \in B1
      /\ Linked(m1, head, B1) /\ Ordered(m1, B1) /\ Held(m1, B1, L)
      /\ m1[b].prev = p /\ ~m1[b].used
      /\ p # NULL => m1[p].used = mem[p].used
  <2>0. m0[b].next = c /\ ~m0[b].used /\ m0[b].prev = p
    BY <1>2, <1>3, <1>c
  <2>1. CASE FreeBlock(m0, c)
    <3>1. m1 = Absorb(m0, b, c) /\ B1 = blocks \ {c}
      BY <1>a, <1>c, <2>0, <2>1
    <3>2. c # NULL /\ ~m0[c].used
      BY <2>1 DEF FreeBlock
    <3>3. c \in blocks /\ c \in Addr /\ b # c
      BY <1>1, <1>2, <1>5, <3>2
    <3>4. Linked(m1, head, B1) /\ Ordered(m1, B1)
      BY <1>1, <1>2, <1>3, <1>6, <2>0, <3>1, <3>3, AbsorbList
    <3>5. Held(m1, B1, L)
      BY <1>1, <1>2, <1>3, <1>4, <1>d, <2>0, <3>1, <3>2, <3>3, AbsorbHeld
    <3>6. /\ m1 \in Memory
          /\ \A x \in Addr :
               /\ m1[x].magic = m0[x].magic
               /\ m1[x].used = m0[x].used
               /\ m1[x].size = IF x = b THEN m0[b].size + HeaderUnits + m0[c].size
                               ELSE m0[x].size
               /\ m1[x].next = IF x = b THEN m0[c].next ELSE m0[x].next
               /\ m1[x].prev = IF x = m0[c].next /\ x # NULL THEN b ELSE m0[x].prev
      <4>1. m0 \in Memory /\ b \in Addr /\ c \in Addr
        BY <1>2, <1>3, <3>3
      <4> DEFINE n == Absorb(m0, b, c)
      <4>2. /\ n \in Memory
            /\ \A x \in Addr :
                 /\ n[x].magic = m0[x].magic
                 /\ n[x].used = m0[x].used
                 /\ n[x].size = IF x = b THEN m0[b].size + HeaderUnits + m0[c].size
                                 ELSE m0[x].size
                 /\ n[x].next = IF x = b THEN m0[c].next ELSE m0[x].next
                 /\ n[x].prev = IF x = m0[c].next /\ x # NULL THEN b ELSE m0[x].prev
        BY <4>1, AbsorbValue
      <4>3. m1 = n
        BY <3>1
      <4> HIDE DEF n
      <4>4. QED
        BY <4>2, <4>3
    <3>7. b # m0[c].next
      <4>1. m0[c].next # NULL => c < m0[c].next
        BY <1>6, <3>3 DEF Ordered
      <4>2. b # NULL
        BY <1>1, <1>2 DEF Linked
      <4>3. b < c /\ b \in Nat /\ c \in Nat
        BY <1>1, <1>2, <1>5, <3>2, <3>3
      <4>4. QED
        BY <4>1, <4>2, <4>3
    <3>8. m1[b].prev = p /\ ~m1[b].used
      BY <1>2, <2>0, <3>6, <3>7
    <3>9. p # NULL => m1[p].used = mem[p].used
      <4>1. SUFFICES ASSUME p # NULL
                     PROVE  m1[p].used = mem[p].used
        OBVIOUS
      <4>2. p \in Addr /\ p # b
        BY <1>1, <1>2, <1>5, <4>1
      <4>3. m1[p].used = m0[p].used
        BY <3>6, <4>2
      <4>4. m0[p].used = mem[p].used
        BY <1>3, <4>2
      <4>5. QED
        BY <4>3, <4>4
    <3>10. b \in B1 /\ B1 \in SUBSET Addr
      BY <1>1, <1>2, <3>1, <3>3
    <3>11. QED
      BY <3>4, <3>5, <3>6, <3>8, <3>9, <3>10
  <2>2. CASE ~FreeBlock(m0, c)
    <3>1. m1 = m0 /\ B1 = blocks
      BY <1>a, <1>c, <2>0, <2>2
    <3>2. p # NULL => m1[p].used = mem[p].used
      <4>1. SUFFICES ASSUME p # NULL
                     PROVE  m1[p].used = mem[p].used
        OBVIOUS
      <4>2. p \in Addr /\ p # b
        BY <1>1, <1>2, <1>5, <4>1
      <4>3. QED
        BY <1>3, <3>1, <4>2
    <3>3. QED
      BY <1>1, <1>2, <1>3, <1>4, <1>6, <2>0, <3>1, <3>2
  <2>3. QED
    BY <2>1, <2>2
<1>8. /\ m2 \in Memory
      /\ Linked(m2, head, B2) /\ Ordered(m2, B2) /\ Held(m2, B2, L)
  <2>1. CASE FreeBlock(m1, p)
    <3>1. m2 = Absorb(m1, p, b) /\ B2 = B1 \ {b}
      BY <1>7, <1>a, <1>c, <2>1
    <3>2. p # NULL /\ ~m1[p].used
      BY <2>1 DEF FreeBlock
    <3>3. p \in B1 /\ m1[p].next = b /\ p \in Addr
      BY <1>5, <1>7, <3>2 DEF Linked
    <3>4. Linked(m2, head, B2) /\ Ordered(m2, B2)
      BY <1>1, <1>7, <3>1, <3>3, AbsorbList
    <3>5. Held(m2, B2, L)
      BY <1>1, <1>7, <1>d, <3>1, <3>2, <3>3, AbsorbHeld
    <3>6. m2 \in Memory
      BY <1>2, <1>7, <3>1, <3>3, AbsorbValue
    <3>7. QED
      BY <3>4, <3>5, <3>6
  <2>2. CASE ~FreeBlock(m1, p)
    BY <1>7, <1>a, <1>c, <2>2
  <2>3. QED
    BY <2>1, <2>2
<1>9. B2 = blocks \ Merged(b)
  <2>1. FreeBlock(m0, c) <=> FreeBlock(mem, c)
    <3>1. CASE c = NULL
      BY <3>1 DEF FreeBlock
    <3>2. CASE c # NULL
      <4>1. c \in Addr /\ c # b
        BY <1>1, <1>2, <1>5, <3>2
      <4>2. m0[c].used = mem[c].used
        BY <1>3, <4>1
      <4>3. QED
        BY <4>2 DEF FreeBlock
    <3>3. QED
      BY <3>1, <3>2
  <2>2. FreeBlock(m1, p) <=> FreeBlock(mem, p)
    BY <1>7 DEF FreeBlock
  <2>3. \A x \in blocks :
          x \in Merged(b) <=> \/ x = c /\ FreeBlock(mem, c)
                              \/ x = b /\ FreeBlock(mem, p)
    BY <1>c DEF Merged
  <2>4. Merged(b) \subseteq blocks
    BY DEF Merged
  <2>5. QED
    BY <1>c, <2>1, <2>2, <2>3, <2>4
<1>10. QED
  BY <1>2, <1>8, <1>9, <1>b
-----------------------------------------------------------------------------
LEMMA InitKeeps == Init => IInv
<1> SUFFICES ASSUME Init
             PROVE  IInv
  OBVIOUS
<1> USE DEF Init
<1>1. NULL \in Addr /\ Top \in Nat
  BY HeapAssumption DEF NULL, Addr
<1>2. NoHeader \in Header
  BY <1>1 DEF NoHeader, Header
<1>3. Len(map) \in Nat
  BY HeapAssumption
<1>4. TypeOK
  BY <1>1, <1>2, <1>3 DEF TypeOK
<1>5. ListIntegrity
  BY DEF ListIntegrity, Linked, Ordered
<1>6. UsedIsHeld
  BY DEF UsedIsHeld, Held
<1>7. InitInv /\ WalkInv
  BY DEF InitInv, WalkInv
<1>8. QED
  BY <1>4, <1>5, <1>6, <1>7 DEF IInv

(* A region's usable part lies in memory, above address 0, and below every *)
(* later region.                                                           *)
LEMMA RegionFacts ==
  ASSUME map \in MemoryMaps, region \in DOMAIN map, Accepted(map[region])
  PROVE  /\ map \in Seq(Region)
         /\ region \in Nat /\ Len(map) \in Nat /\ region <= Len(map)
         /\ Base(map[region]) \in Addr \ {NULL}
         /\ Length(map[region]) - HeaderUnits \in Nat
         /\ map[region].base \in Nat /\ map[region].base <= Base(map[region])
         /\ Base(map[region]) + HeaderUnits + (Length(map[region]) - HeaderUnits)
              = Base(map[region]) + Length(map[region])
         /\ Base(map[region]) + Length(map[region]) <= Top + 1
         /\ \A i \in DOMAIN map :
              i >= region + 1 => Base(map[region]) + Length(map[region]) <= map[i].base
<1> DEFINE r == map[region]
<1>1. /\ map \in Seq(Region) /\ Ascending(map)
      /\ HeaderUnits \in Nat \ {0} /\ MinData \in Nat \ {0} /\ Top \in Nat
      /\ LowEnd \in Nat \ {0}
  BY HeapAssumption
<1>2. /\ region \in 1 .. Len(map) /\ Len(map) \in Nat /\ DOMAIN map = 1 .. Len(map)
      /\ \A i \in DOMAIN map : map[i] \in Region /\ i \in Nat
  BY <1>1
<1>3. r.base \in Nat /\ r.length \in Nat
  BY <1>2 DEF Region
<1>4. /\ r.base + r.length <= Top + 1
      /\ \A i \in DOMAIN map : region < i => r.base + r.length <= map[i].base
  BY <1>1 DEF Ascending
<1>5. /\ r.base < LowEnd => LowEnd - r.base < r.length
      /\ Length(r) >= HeaderUnits + MinData
  BY DEF Accepted
<1> HIDE DEF r
<1>6. /\ Base(r) \in Nat \ {0} /\ r.base <= Base(r)
      /\ Length(r) \in Nat /\ Base(r) + Length(r) = r.base + r.length
  <2>1. CASE r.base < LowEnd
    BY <1>1, <1>3, <1>5, <2>1 DEF Base, Length
  <2>2. CASE ~(r.base < LowEnd)
    BY <1>1, <1>3, <2>2 DEF Base, Length
  <2>3. QED
    BY <2>1, <2>2
<1>7. /\ Length(r) - HeaderUnits \in Nat /\ Base(r) < Base(r) + Length(r)
      /\ Base(r) + HeaderUnits + (Length(r) - HeaderUnits) = Base(r) + Length(r)
  BY <1>1, <1>5, <1>6
<1>8. Base(r) \in Addr \ {NULL}
  BY <1>1, <1>4, <1>6, <1>7 DEF Addr, NULL
<1>9. \A i \in DOMAIN map : i >= region + 1 => Base(r) + Length(r) <= map[i].base
  BY <1>2, <1>4, <1>6
<1>10. QED
  BY <1>1, <1>2, <1>3, <1>4, <1>6, <1>7, <1>8, <1>9 DEF r

LEMMA AddRegionKeeps == IInv /\ AddRegion => IInv'
<1> SUFFICES ASSUME IInv, AddRegion
             PROVE  IInv'
  OBVIOUS
<1> DEFINE b == Base(map[region])
           z == Length(map[region]) - HeaderUnits
           h == [magic |-> TRUE, size |-> z, used |-> FALSE, next |-> NULL, prev |-> last]
           g == [mem EXCEPT ![b] = h]
<1> USE DEF NULL
<1>1. /\ pc = "init" /\ pc' = "init" /\ region \in DOMAIN map /\ Accepted(map[region])
      /\ mem' = SetNext(g, last, b)
      /\ head' = IF last = NULL THEN b ELSE head
      /\ last' = b /\ blocks' = blocks \cup {b} /\ region' = region + 1
      /\ map' = map /\ request' = request /\ cur' = cur /\ live' = live
  BY DEF AddRegion
<1>2. /\ map \in MemoryMaps /\ mem \in Memory /\ last \in Addr /\ head \in Addr
      /\ blocks \subseteq Addr /\ TypeOK
  BY DEF IInv, TypeOK, Memory
<1>3. /\ map \in Seq(Region)
      /\ region \in Nat /\ Len(map) \in Nat /\ region <= Len(map)
      /\ b \in Addr /\ b # NULL /\ z \in Nat
      /\ map[region].base \in Nat /\ map[region].base <= b
      /\ b + HeaderUnits + z <= Top + 1
      /\ \A i \in DOMAIN map : i >= region + 1 => b + HeaderUnits + z <= map[i].base
      /\ HeaderUnits \in Nat \ {0} /\ Top \in Nat
  <2>1. HeaderUnits \in Nat \ {0} /\ Top \in Nat
    BY HeapAssumption
  <2>2. b + HeaderUnits + z = b + Length(map[region])
    BY <1>1, <1>2, RegionFacts
  <2>3. QED
    BY <1>1, <1>2, <2>1, <2>2, RegionFacts
<1>4. /\ live = {}
      /\ last = NULL <=> blocks = {}
      /\ last # NULL => last \in blocks /\ mem[last].next = NULL
      /\ \A x \in blocks :
           /\ ~mem[x].used
           /\ x <= last
           /\ \A i \in DOMAIN map : i >= region => EndIn(mem, x) <= map[i].base
  BY <1>1 DEF IInv, InitInv
<1>5. /\ Linked(mem, head, blocks) /\ Ordered(mem, blocks)
  BY DEF IInv, ListIntegrity
<1>6. /\ \A x \in Addr : x \in Nat
      /\ \A x \in blocks : x \in Addr /\ x \in Nat /\ mem[x] \in Header
      /\ \A x \in blocks : mem[x].size \in Nat /\ mem[x].next \in Nat /\ mem[x].prev \in Nat
  <2>1. \A x \in Addr : x \in Nat /\ mem[x] \in Header
    BY <1>2, <1>3 DEF Addr, Memory
  <2>2. \A x \in Addr : mem[x].size \in Nat /\ mem[x].next \in Addr /\ mem[x].prev \in Addr
    BY <2>1 DEF Header
  <2>3. QED
    BY <1>2, <2>1, <2>2
<1>7. \A x \in blocks : x + HeaderUnits + mem[x].size <= b /\ x < b
  <2>1. \A x \in blocks : EndIn(mem, x) <= map[region].base
    BY <1>1, <1>3, <1>4
  <2>2. QED
    BY <1>3, <1>6, <2>1 DEF EndIn
<1>8. h \in Header /\ h.magic /\ h.size = z /\ ~h.used /\ h.next = NULL /\ h.prev = last
  <2>1. NULL \in Addr
    BY <1>3 DEF Addr
  <2>2. QED
    BY <1>2, <1>3, <2>1 DEF Header
<1> HIDE DEF h
<1>9. /\ g \in Memory
      /\ \A x \in Addr : g[x] = IF x = b THEN h ELSE mem[x]
  BY <1>2, <1>3, <1>8 DEF Memory
<1> HIDE DEF g, b, z
<1>10. /\ mem' \in Memory
       /\ \A x \in Addr :
            /\ mem'[x].magic = g[x].magic
            /\ mem'[x].used = g[x].used
            /\ mem'[x].size = g[x].size
            /\ mem'[x].next = IF x = last /\ x # NULL THEN b ELSE g[x].next
            /\ mem'[x].prev = g[x].prev
  <2> DEFINE n == SetNext(g, last, b)
  <2>1. /\ n \in Memory
        /\ \A x \in Addr :
             /\ n[x].magic = g[x].magic
             /\ n[x].used = g[x].used
             /\ n[x].size = g[x].size
             /\ n[x].next = IF x = last /\ x # NULL THEN b ELSE g[x].next
             /\ n[x].prev = g[x].prev
    BY <1>2, <1>3, <1>9, SetNextValue
  <2>2. mem' = n
    BY <1>1
  <2> HIDE DEF n
  <2>3. QED
    BY <2>1, <2>2
<1>11. /\ mem'[b].magic /\ ~mem'[b].used /\ mem'[b].size = z
       /\ mem'[b].next = NULL /\ mem'[b].prev = last
  <2>1. g[b] = h /\ (last # NULL => b # last)
    BY <1>3, <1>4, <1>6, <1>7, <1>9
  <2>2. QED
    BY <1>3, <1>8, <1>10, <2>1
<1>12. \A x \in blocks :
         /\ mem'[x].magic = mem[x].magic
         /\ mem'[x].used = mem[x].used
         /\ mem'[x].size = mem[x].size
         /\ mem'[x].next = IF x = last THEN b ELSE mem[x].next
         /\ mem'[x].prev = mem[x].prev
  <2>1. SUFFICES ASSUME NEW x \in blocks
                 PROVE  /\ mem'[x].magic = mem[x].magic
                        /\ mem'[x].used = mem[x].used
                        /\ mem'[x].size = mem[x].size
                        /\ mem'[x].next = IF x = last THEN b ELSE mem[x].next
                        /\ mem'[x].prev = mem[x].prev
    OBVIOUS
  <2>2. x # b /\ x # NULL /\ x \in Addr
    BY <1>3, <1>5, <1>6, <1>7 DEF Linked
  <2>3. g[x] = mem[x]
    BY <1>9, <2>2
  <2>4. QED
    BY <1>10, <2>2, <2>3
<1>13. Linked(mem, head, blocks)'
  <2>1. \A x \in blocks :
          /\ mem[x].magic
          /\ mem[x].next # NULL => mem[x].next \in blocks /\ mem[mem[x].next].prev = x
          /\ mem[x].prev # NULL => mem[x].prev \in blocks /\ mem[mem[x].prev].next = x
    BY <1>5 DEF Linked
  <2>2. ASSUME NEW x \in blocks \cup {b}
        PROVE  /\ mem'[x].magic
               /\ mem'[x].next # NULL =>
                    mem'[x].next \in blocks \cup {b} /\ mem'[mem'[x].next].prev = x
               /\ mem'[x].prev # NULL =>
                    mem'[x].prev \in blocks \cup {b} /\ mem'[mem'[x].prev].next = x
    <3>1. CASE x = b
      BY <1>4, <1>11, <1>12, <3>1
    <3>2. CASE x # b
      <4>1. x \in blocks
        BY <3>2
      <4>2. mem'[x].magic
        BY <1>12, <2>1, <4>1
      <4>3. mem'[x].next # NULL =>
              mem'[x].next \in blocks \cup {b} /\ mem'[mem'[x].next].prev = x
        <5>1. CASE x = last
          BY <1>11, <1>12, <4>1, <5>1
        <5>2. CASE x # last
          BY <1>12, <2>1, <4>1, <5>2
        <5>3. QED
          BY <5>1, <5>2
      <4>4. mem'[x].prev # NULL =>
              mem'[x].prev \in blocks \cup {b} /\ mem'[mem'[x].prev].next = x
        <5>1. SUFFICES ASSUME mem'[x].prev # NULL
                       PROVE  /\ mem'[x].prev \in blocks
                              /\ mem'[mem'[x].prev].next = x
          OBVIOUS
        <5>2. /\ mem'[x].prev = mem[x].prev /\ mem[x].prev \in blocks
              /\ mem[mem[x].prev].next = x
          BY <1>12, <2>1, <4>1, <5>1
        <5>3. mem[x].prev # last
          BY <1>4, <1>5, <4>1, <5>2 DEF Linked
        <5>4. QED
          BY <1>12, <5>2, <5>3
      <4>5. QED
        BY <4>2, <4>3, <4>4
    <3>3. QED
      BY <3>1, <3>2
  <2>3. head' \in blocks \cup {b} /\ mem'[head'].prev = NULL /\ head' # NULL
    <3>1. CASE last = NULL
      BY <1>1, <1>3, <1>11, <3>1
    <3>2. CASE last # NULL
      <4>1. head \in blocks /\ mem[head].prev = NULL /\ head # NULL
        BY <1>4, <1>5, <3>2 DEF Linked
      <4>2. QED
        BY <1>1, <1>12, <3>2, <4>1
    <3>3. QED
      BY <3>1, <3>2
  <2>4. NULL \notin blocks \cup {b}
    BY <1>3, <1>5 DEF Linked
  <2>5. blocks' = blocks \cup {b} /\ blocks \cup {b} # {}
    BY <1>1
  <2>6. QED
    BY <2>2, <2>3, <2>4, <2>5 DEF Linked
<1>14. Ordered(mem, blocks)'
  <2>1. /\ \A x \in blocks : x + HeaderUnits + mem[x].size <= Top + 1
        /\ \A x \in blocks : mem[x].next # NULL => x < mem[x].next
        /\ \A x, y \in blocks : x < y => x + HeaderUnits + mem[x].size <= y
        /\ \A x, y \in blocks : x < y => mem[x].next # NULL /\ mem[x].next <= y
        /\ \A x, y \in blocks : x < y => mem[y].prev # NULL /\ x <= mem[y].prev
    BY <1>5 DEF Ordered, EndIn
  <2>2. ASSUME NEW x \in blocks \cup {b}
        PROVE  /\ x + HeaderUnits + mem'[x].size <= Top + 1
               /\ mem'[x].next # NULL => x < mem'[x].next
    <3>1. CASE x = b
      BY <1>3, <1>11, <3>1
    <3>2. CASE x # b
      BY <1>7, <1>12, <2>1, <3>2
    <3>3. QED
      BY <3>1, <3>2
  <2>3. ASSUME NEW x \in blocks \cup {b}, NEW y \in blocks \cup {b}, x < y
        PROVE  /\ x + HeaderUnits + mem'[x].size <= y
               /\ mem'[x].next # NULL /\ mem'[x].next <= y
               /\ mem'[y].prev # NULL /\ x <= mem'[y].prev
    <3>1. x \in blocks /\ x \in Nat /\ b \in Nat /\ x # b
      <4>1. b \in Nat /\ \A v \in blocks : v \in Nat /\ v < b
        BY <1>3, <1>6, <1>7
      <4>2. x # b
        BY <2>3, <4>1
      <4>3. QED
        BY <4>1, <4>2
    <3>2. CASE y = b
      <4>1. last \in blocks /\ x <= last /\ last # NULL
        BY <1>4, <3>1
      <4>2. mem'[y].prev # NULL /\ x <= mem'[y].prev
        BY <1>11, <3>2, <4>1
      <4>3. mem'[x].next # NULL /\ mem'[x].next <= y
        <5>1. CASE x = last
          BY <1>3, <1>12, <3>1, <3>2, <5>1
        <5>2. CASE x # last
          <6>0. last \in Nat /\ last < b /\ x \in Nat
            BY <1>6, <1>7, <3>1, <4>1
          <6>1. x < last /\ last \in Nat /\ last < b
            BY <4>1, <5>2, <6>0
          <6>2. mem[x].next # NULL /\ mem[x].next <= last /\ mem[x].next \in Nat
            BY <1>6, <2>1, <3>1, <4>1, <6>1
          <6>3. QED
            BY <1>12, <3>1, <3>2, <5>2, <6>1, <6>2
        <5>3. QED
          BY <5>1, <5>2
      <4>4. QED
        BY <1>7, <1>12, <3>1, <3>2, <4>2, <4>3
    <3>3. CASE y # b
      <4>1. y \in blocks /\ y <= last /\ last \in Nat /\ y \in Nat
        BY <1>3, <1>2, <1>4, <1>6, <3>3
      <4>2. x # last
        BY <2>3, <3>1, <4>1
      <4>3. QED
        BY <1>12, <2>1, <2>3, <3>1, <4>1, <4>2
    <3>4. QED
      BY <3>2, <3>3
  <2>4. blocks' = blocks \cup {b}
    BY <1>1
  <2>5. QED
    BY <2>2, <2>3, <2>4 DEF Ordered, EndIn
<1>15. UsedIsHeld'
  <2>1. \A x \in blocks' : ~mem'[x].used
    BY <1>1, <1>4, <1>11, <1>12
  <2>2. live' = {}
    BY <1>1, <1>4
  <2>3. QED
    BY <2>1, <2>2 DEF UsedIsHeld, Held
<1>16. TypeOK'
  <2>1. region + 1 \in 1 .. Len(map) + 1
    BY <1>3
  <2>2. mem' \in [Addr -> Header]
    BY <1>10 DEF Memory
  <2>3. QED
    BY <1>1, <1>2, <1>3, <2>1, <2>2 DEF TypeOK
<1>17. InitInv'
  <2>1. \A x \in blocks' : ~mem'[x].used /\ x <= b
    <3>1. SUFFICES ASSUME NEW x \in blocks'
                   PROVE  ~mem'[x].used /\ x <= b
      OBVIOUS
    <3>2. CASE x = b
      BY <1>3, <1>6, <1>11, <3>2
    <3>3. CASE x # b
      <4>1. x \in blocks /\ x \in Nat /\ x < b /\ b \in Nat
        BY <1>1, <1>3, <1>6, <1>7, <3>3
      <4>2. ~mem'[x].used
        BY <1>4, <1>12, <4>1
      <4>3. QED
        BY <4>1, <4>2
    <3>4. QED
      BY <3>2, <3>3
  <2>2. ASSUME NEW x \in blocks', NEW i \in DOMAIN map, i >= region + 1
        PROVE  x + HeaderUnits + mem'[x].size <= map[i].base
    <3>1. CASE x = b
      BY <1>3, <1>11, <2>2, <3>1
    <3>2. CASE x # b
      <4>1. x \in blocks
        BY <1>1, <3>2
      <4>2. i \in Nat /\ i >= region
        BY <1>3, <2>2
      <4>3. QED
        BY <1>4, <1>12, <2>2, <4>1, <4>2 DEF EndIn
    <3>3. QED
      BY <3>1, <3>2
  <2>3. QED
    BY <1>1, <1>3, <1>4, <1>11, <2>1, <2>2 DEF InitInv, EndIn
<1>18. WalkInv'
  BY <1>1 DEF WalkInv
<1>19. QED
  BY <1>13, <1>14, <1>15, <1>16, <1>17, <1>18 DEF IInv, ListIntegrity
-----------------------------------------------------------------------------
LEMMA MallocTakeKeeps == IInv /\ MallocTake => IInv'
<1> SUFFICES ASSUME IInv, MallocTake
             PROVE  IInv'
  OBVIOUS
<1> DEFINE s == IF Splits(cur) THEN Split(cur) ELSE mem
           C == IF Splits(cur) THEN blocks \cup {Cut(cur)} ELSE blocks
           n == SetUsed(s, cur, TRUE)
<1> USE DEF NULL
<1>1. /\ pc = "malloc" /\ pc' = "idle" /\ cur # NULL /\ Fits(cur)
      /\ mem' = n /\ blocks' = C /\ live' = live \cup {Grant(cur)}
      /\ request' = 0 /\ cur' = NULL
      /\ map' = map /\ region' = region /\ last' = last /\ head' = head
  BY DEF MallocTake, Return
<1>2. /\ TypeOK /\ mem \in Memory /\ head \in Addr /\ blocks \in SUBSET Addr
      /\ request \in Nat \ {0} /\ request \in Nat /\ cur \in blocks /\ cur \in Addr
      /\ Linked(mem, head, blocks) /\ Ordered(mem, blocks) /\ Held(mem, blocks, live)
      /\ \A e \in live : e.ptr \in Addr /\ e.len \in Nat
  BY <1>1 DEF IInv, TypeOK, Memory, ListIntegrity, UsedIsHeld, WalkInv
<1>3. ~mem[cur].used /\ mem[cur].size >= request
  BY <1>1 DEF Fits
<1>4. /\ HeaderUnits \in Nat \ {0} /\ Top \in Nat /\ cur \in Nat /\ mem[cur].size \in Nat
  <2>1. mem[cur] \in Header
    BY <1>2 DEF Memory
  <2>2. QED
    BY <1>2, <2>1, HeapAssumption DEF Header, Addr
<1>5. /\ s \in Memory /\ C \in SUBSET Addr /\ blocks \subseteq C
      /\ Linked(s, head, C) /\ Ordered(s, C)
      /\ s[cur].size >= request
      /\ \A x \in blocks : x # cur => s[x].used = mem[x].used /\ s[x].size = mem[x].size
      /\ \A x \in C : x \notin blocks => ~s[x].used
  <2>1. CASE ~Splits(cur)
    BY <1>2, <1>3, <2>1
  <2>2. CASE Splits(cur)
    <3> DEFINE k == Cut(cur)
               t == Split(cur)
    <3>1. Linked(t, head, blocks \cup {k}) /\ Ordered(t, blocks \cup {k})
      BY <1>2, <2>2, SplitList
    <3>2. /\ k \in Addr /\ k \notin blocks /\ cur < k
          /\ k + HeaderUnits + (mem[cur].size - request - HeaderUnits) = EndIn(mem, cur)
          /\ mem[cur].next # NULL => EndIn(mem, cur) <= mem[cur].next
          /\ t \in Memory
          /\ \A x \in Addr :
               /\ t[x].magic = IF x = k THEN TRUE ELSE mem[x].magic
               /\ t[x].used = IF x = k THEN FALSE ELSE mem[x].used
               /\ t[x].size = IF x = k THEN mem[cur].size - request - HeaderUnits
                              ELSE IF x = cur THEN request ELSE mem[x].size
               /\ t[x].next = IF x = k THEN mem[cur].next
                              ELSE IF x = cur THEN k ELSE mem[x].next
               /\ t[x].prev = IF x = k THEN cur
                              ELSE IF x = mem[cur].next /\ x # NULL THEN k
                              ELSE mem[x].prev
      BY <1>2, <2>2, SplitValue
    <3>3. s = t /\ C = blocks \cup {k}
      BY <2>2
    <3> HIDE DEF k, t, s, C
    <3>4. \A x \in blocks : x # k /\ x \in Addr
      BY <1>2, <3>2
    <3>5. \A x \in blocks : x # cur => t[x].used = mem[x].used /\ t[x].size = mem[x].size
      BY <3>2, <3>4
    <3>6. t[cur].size = request
      BY <1>2, <3>2, <3>4
    <3>7. ~t[k].used
      BY <3>2
    <3>8. QED
      BY <1>2, <3>1, <3>2, <3>3, <3>5, <3>6, <3>7
  <2>3. QED
    BY <2>1, <2>2
<1> HIDE DEF s, C
<1>6. /\ n \in Memory
      /\ \A x \in Addr :
           /\ n[x].magic = s[x].magic
           /\ n[x].used = (x = cur \/ s[x].used)
           /\ n[x].size = s[x].size
           /\ n[x].next = s[x].next
           /\ n[x].prev = s[x].prev
  <2> DEFINE u == TRUE
             v == SetUsed(s, cur, u)
  <2>1. u \in BOOLEAN /\ s \in Memory /\ cur \in Addr
    BY <1>2, <1>5
  <2>a. u = TRUE /\ n = v
    OBVIOUS
  <2> HIDE DEF u
  <2>2. /\ v \in Memory
        /\ \A x \in Addr :
             /\ v[x].magic = s[x].magic
             /\ v[x].used = IF x = cur THEN u ELSE s[x].used
             /\ v[x].size = s[x].size
             /\ v[x].next = s[x].next
             /\ v[x].prev = s[x].prev
    BY <2>1, SetUsedValue
  <2> HIDE DEF v
  <2>3. \A x \in Addr : v[x].used \in BOOLEAN /\ s[x].used \in BOOLEAN
    BY <1>5, <2>2 DEF Memory, Header
  <2>4. QED
    BY <2>a, <2>2, <2>3
<1>a. mem' = n
  BY <1>1
<1> HIDE DEF n
<1>7. Linked(n, head, C) /\ Ordered(n, C)
  <2>1. \A x \in C : /\ n[x].magic = s[x].magic /\ n[x].size = s[x].size
                     /\ n[x].next = s[x].next /\ n[x].prev = s[x].prev
    BY <1>5, <1>6
  <2>2. QED
    BY <1>2, <1>5, <1>6, <2>1, SameList
<1>8. Held(n, C, live \cup {Grant(cur)})
  <2>1. n[cur].used /\ request <= n[cur].size
    BY <1>2, <1>4, <1>5, <1>6
  <2>2. \A x \in blocks : x # cur => n[x].used = mem[x].used /\ n[x].size = mem[x].size
    <3>1. \A x \in Addr : /\ s[x].used \in BOOLEAN /\ mem[x].used \in BOOLEAN
                            /\ n[x].used \in BOOLEAN
      BY <1>2, <1>5, <1>6 DEF Memory, Header
    <3>2. QED
      BY <1>2, <1>5, <1>6, <3>1
  <2>3. \A x \in C : x \notin blocks => ~n[x].used
    BY <1>2, <1>5, <1>6
  <2>4. QED
    BY <1>2, <1>3, <1>5, <1>6, <2>1, <2>2, <2>3, TakeHeld
<1>9. ListIntegrity' /\ UsedIsHeld'
  BY <1>1, <1>7, <1>8, <1>a DEF ListIntegrity, UsedIsHeld
<1>10. Grant(cur) \in [ptr : Addr, len : Nat \ {0}]
  <2>1. cur + HeaderUnits + mem[cur].size <= Top + 1
    BY <1>2 DEF Ordered, EndIn
  <2>2. cur + HeaderUnits \in Addr
    BY <1>2, <1>3, <1>4, <2>1 DEF Addr
  <2>3. QED
    BY <1>2, <2>2 DEF Grant
<1>11. TypeOK'
  <2>1. NULL \in Addr /\ 0 \in Nat
    BY <1>4 DEF Addr
  <2>2. mem' \in [Addr -> Header]
    BY <1>6, <1>a DEF Memory
  <2>3. QED
    BY <1>1, <1>2, <1>5, <1>10, <2>1, <2>2 DEF TypeOK
<1>12. InitInv' /\ WalkInv'
  BY <1>1 DEF InitInv, WalkInv
<1>13. QED
  BY <1>9, <1>11, <1>12 DEF IInv

LEMMA FreeKeepsInv ==
  ASSUME IInv, NEW e \in live, Free(e.ptr)
  PROVE  IInv'
<1> DEFINE b == e.ptr - HeaderUnits
<1>1. TypeOK /\ ListIntegrity /\ UsedIsHeld
  BY DEF IInv
<1>2. /\ mem[b].magic
      /\ AfterFree(b) \in Memory
      /\ Linked(AfterFree(b), head, blocks \ Merged(b))
      /\ Ordered(AfterFree(b), blocks \ Merged(b))
      /\ Held(AfterFree(b), blocks \ Merged(b), {f \in live : f.ptr # e.ptr})
  BY <1>1, FreeKeeps
<1>3. /\ pc = "idle" /\ pc' = "idle"
      /\ mem' = AfterFree(b) /\ blocks' = blocks \ Merged(b)
      /\ live' = {f \in live : f.ptr # e.ptr}
      /\ map' = map /\ region' = region /\ last' = last /\ head' = head
      /\ request' = request /\ cur' = cur
  BY <1>2 DEF Free
<1> HIDE DEF b
<1>4. ListIntegrity' /\ UsedIsHeld'
  BY <1>2, <1>3 DEF ListIntegrity, UsedIsHeld
<1>5. TypeOK'
  <2>1. mem' \in [Addr -> Header]
    BY <1>2, <1>3 DEF Memory
  <2>2. QED
    BY <1>1, <1>3, <2>1 DEF TypeOK
<1>6. InitInv' /\ WalkInv'
  BY <1>3 DEF InitInv, WalkInv
<1>7. QED
  BY <1>4, <1>5, <1>6 DEF IInv

(* What a caller writes to what it holds overlaps no header on the list.   *)
LEMMA WriteMissesHeaders ==
  ASSUME TypeOK, ListIntegrity, UsedIsHeld, NEW e \in live, NEW x \in blocks
  PROVE  ~Overlaps(e, x)
<1> DEFINE b == e.ptr - HeaderUnits
<1>1. /\ e.ptr \in Addr /\ e.len \in Nat \ {0}
      /\ e.ptr >= HeaderUnits /\ b \in blocks /\ e.len <= mem[b].size
      /\ x \in Addr /\ b \in Addr
  BY DEF TypeOK, UsedIsHeld, Held
<1>2. /\ HeaderUnits \in Nat \ {0} /\ e.ptr \in Nat /\ e.len \in Nat /\ x \in Nat
      /\ b \in Nat /\ e.ptr = b + HeaderUnits
  BY <1>1, HeapAssumption DEF Addr
<1>3. mem[b] \in Header /\ mem[x] \in Header
  BY <1>1 DEF TypeOK
<1>4. mem[b].size \in Nat /\ mem[x].size \in Nat
  BY <1>3 DEF Header
<1>5. /\ b < x => b + HeaderUnits + mem[b].size <= x
      /\ x < b => x + HeaderUnits + mem[x].size <= b
  BY <1>1 DEF ListIntegrity, Ordered, EndIn
<1> HIDE DEF b
<1>6. e.ptr + e.len <= x \/ x + HeaderUnits <= e.ptr
  BY <1>1, <1>2, <1>4, <1>5
<1>7. QED
  BY <1>2, <1>6 DEF Overlaps

LEMMA ClientWriteKeeps ==
  ASSUME IInv, NEW e \in live, ClientWrite(e)
  PROVE  IInv'
<1>1. /\ TypeOK /\ ListIntegrity /\ UsedIsHeld
      /\ mem \in Memory /\ head \in Addr /\ blocks \in SUBSET Addr
      /\ Linked(mem, head, blocks) /\ Ordered(mem, blocks) /\ Held(mem, blocks, live)
  BY DEF IInv, TypeOK, ListIntegrity, UsedIsHeld, Memory
<1>2. /\ pc = "idle" /\ pc' = "idle"
      /\ mem' = [x \in Addr |-> IF Overlaps(e, x) THEN NoHeader ELSE mem[x]]
      /\ map' = map /\ region' = region /\ last' = last /\ head' = head
      /\ request' = request /\ cur' = cur /\ live' = live /\ blocks' = blocks
  BY DEF ClientWrite
<1>3. NoHeader \in Header
  BY HeapAssumption DEF NoHeader, Header, NULL, Addr
<1>4. mem' \in Memory
  BY <1>1, <1>2, <1>3 DEF Memory
<1>5. \A x \in blocks : mem'[x] = mem[x]
  BY <1>1, <1>2, WriteMissesHeaders
<1>6. Linked(mem', head, blocks) /\ Ordered(mem', blocks)
  BY <1>1, <1>4, <1>5, SameList
<1>7. Held(mem', blocks, live)
  BY <1>1, <1>5 DEF Held
<1>8. ListIntegrity' /\ UsedIsHeld'
  BY <1>2, <1>6, <1>7 DEF ListIntegrity, UsedIsHeld
<1>9. TypeOK'
  BY <1>1, <1>2, <1>4 DEF TypeOK, Memory
<1>10. InitInv' /\ WalkInv'
  BY <1>2 DEF InitInv, WalkInv
<1>11. QED
  BY <1>8, <1>9, <1>10 DEF IInv
-----------------------------------------------------------------------------
(* The invariant is inductive: one step per action.                        *)
LEMMA Inductive == IInv /\ [Next]_vars => IInv'
<1> SUFFICES ASSUME IInv, [Next]_vars
             PROVE  IInv'
  OBVIOUS
<1> USE DEF NULL
<1>1. /\ TypeOK /\ ListIntegrity /\ UsedIsHeld /\ InitInv /\ WalkInv
      /\ Linked(mem, head, blocks)
  BY DEF IInv, ListIntegrity
<1>2. CASE SkipRegion
  <2>1. /\ pc = "init" /\ region \in DOMAIN map /\ region' = region + 1
        /\ UNCHANGED <<map, last, mem, head, pc, request, cur, live, blocks>>
    BY <1>2 DEF SkipRegion
  <2>2. map \in Seq(Region) /\ region \in 1 .. Len(map) /\ Len(map) \in Nat
    BY <1>1, <2>1, HeapAssumption DEF TypeOK
  <2>3. region + 1 \in 1 .. Len(map) + 1 /\ \A i \in DOMAIN map : i >= region + 1 => i >= region
    BY <2>2
  <2>4. TypeOK'
    BY <1>1, <2>1, <2>3 DEF TypeOK
  <2>5. InitInv'
    BY <1>1, <2>1, <2>3 DEF InitInv, EndIn
  <2>6. ListIntegrity' /\ UsedIsHeld' /\ WalkInv'
    BY <1>1, <2>1 DEF ListIntegrity, UsedIsHeld, WalkInv
  <2>7. QED
    BY <2>4, <2>5, <2>6 DEF IInv
<1>3. CASE AddRegion
  BY <1>3, AddRegionKeeps
<1>4. CASE InitDone
  <2>1. /\ pc = "init" /\ pc' = IF head = NULL THEN "halted" ELSE "idle"
        /\ UNCHANGED <<map, region, last, mem, head, request, cur, live, blocks>>
    BY <1>4 DEF InitDone
  <2>2. TypeOK' /\ ListIntegrity' /\ UsedIsHeld' /\ InitInv'
    BY <1>1, <2>1 DEF TypeOK, ListIntegrity, UsedIsHeld, InitInv
  <2>3. WalkInv'
    BY <1>1, <2>1 DEF WalkInv, Linked
  <2>4. QED
    BY <2>2, <2>3 DEF IInv
<1>5. ASSUME NEW k \in Requests, MallocCall(k)
      PROVE  IInv'
  <2>1. /\ request' = RoundUp(k) /\ cur' = head /\ pc' = "malloc"
        /\ UNCHANGED <<map, region, last, mem, head, live, blocks>>
    BY <1>5 DEF MallocCall
  <2>2. k \in Nat \ {0}
    BY <1>5, HeapAssumption
  <2>3. RoundUp(k) \in Nat \ {0}
    BY <2>2 DEF RoundUp
  <2>4. TypeOK' /\ ListIntegrity' /\ UsedIsHeld' /\ InitInv'
    BY <1>1, <2>1, <2>3 DEF TypeOK, ListIntegrity, UsedIsHeld, InitInv
  <2>5. WalkInv'
    BY <1>1, <2>1, <2>3 DEF WalkInv, Linked
  <2>6. QED
    BY <2>4, <2>5 DEF IInv
<1>6. CASE MallocTake
  BY <1>6, MallocTakeKeeps
<1>7. CASE MallocVisit
  <2>1. /\ pc = "malloc" /\ cur # NULL
        /\ UNCHANGED <<map, region, last, mem, head, request, live, blocks>>
        /\ IF mem[cur].magic THEN cur' = mem[cur].next /\ pc' = pc
                             ELSE cur' = cur /\ pc' = "halted"
    BY <1>7 DEF MallocVisit, Onward
  <2>2. cur \in blocks /\ mem[cur].magic
    BY <1>1, <2>1 DEF WalkInv, Linked
  <2>3. cur' = mem[cur].next /\ pc' = "malloc"
    BY <2>1, <2>2
  <2>4. cur' = NULL \/ cur' \in blocks
    BY <1>1, <2>2, <2>3 DEF Linked
  <2>5. NULL \in Addr /\ blocks \subseteq Addr
    BY <1>1, HeapAssumption DEF Addr, TypeOK
  <2>6. TypeOK' /\ ListIntegrity' /\ UsedIsHeld' /\ InitInv'
    BY <1>1, <2>1, <2>3, <2>4, <2>5 DEF TypeOK, ListIntegrity, UsedIsHeld, InitInv
  <2>7. WalkInv'
    BY <1>1, <2>1, <2>3, <2>4 DEF WalkInv
  <2>8. QED
    BY <2>6, <2>7 DEF IInv
<1>8. CASE MallocFail
  <2>1. /\ request' = 0 /\ cur' = NULL /\ pc' = "idle"
        /\ UNCHANGED <<map, region, last, mem, head, live, blocks>>
    BY <1>8 DEF MallocFail, Return
  <2>2. NULL \in Addr
    BY HeapAssumption DEF Addr
  <2>3. TypeOK' /\ ListIntegrity' /\ UsedIsHeld' /\ InitInv'
    BY <1>1, <2>1, <2>2 DEF TypeOK, ListIntegrity, UsedIsHeld, InitInv
  <2>4. WalkInv'
    BY <2>1 DEF WalkInv
  <2>5. QED
    BY <2>3, <2>4 DEF IInv
<1>9. ASSUME NEW e \in live, Free(e.ptr)
      PROVE  IInv'
  BY <1>9, FreeKeepsInv
<1>10. ASSUME NEW e \in live, ClientWrite(e)
       PROVE  IInv'
  BY <1>10, ClientWriteKeeps
<1>11. CASE UNCHANGED vars
  BY <1>1, <1>11
     DEF vars, IInv, TypeOK, ListIntegrity, UsedIsHeld, InitInv, WalkInv
<1>12. QED
  BY <1>2, <1>3, <1>4, <1>5, <1>6, <1>7, <1>8, <1>9, <1>10, <1>11
     DEF Next, MemoryInit, MallocStep, Halted

LEMMA Invariance == Spec => []IInv
<1>1. Init => IInv
  BY InitKeeps
<1>2. IInv /\ [Next]_vars => IInv'
  BY Inductive
<1>3. QED
  BY <1>1, <1>2, PTL DEF Spec

(* Every variable of the heap stays in its type, the addresses in memory.  *)
THEOREM TypeCorrect == Spec => []TypeOK
<1>1. IInv => TypeOK
  BY DEF IInv
<1>2. QED
  BY <1>1, Invariance, PTL

(* The list of headers stays intact: memory.cpp:89-111 and 139-160.        *)
THEOREM ListStaysIntact == Spec => []ListIntegrity
<1>1. IInv => ListIntegrity
  BY DEF IInv
<1>2. QED
  BY <1>1, Invariance, PTL

(* The used blocks stay exactly the extents callers hold.                  *)
THEOREM UsedStaysHeld == Spec => []UsedIsHeld
<1>1. IInv => UsedIsHeld
  BY DEF IInv
<1>2. QED
  BY <1>1, Invariance, PTL

(* No panic of malloc or free is reached by callers who keep to what they  *)
(* hold: memory.cpp:91-94 and 133-136.                                     *)
THEOREM NoPanic == Spec => []NeverPanics
<1>1. IInv => NeverPanics
  BY DEF IInv, WalkInv, NeverPanics
<1>2. QED
  BY <1>1, Invariance, PTL
-----------------------------------------------------------------------------
(* malloc's step is a grant of Allocator's, free's a return.               *)
LEMMA TakeGrants ==
  ASSUME IInv, MallocTake
  PROVE  \E e \in Abstract!Extent : Abstract!Grant(e)
<1> DEFINE g == Grant(cur)
<1> USE DEF NULL
<1>1. /\ live' = live \cup {g} /\ cur \in blocks /\ request \in Nat \ {0}
      /\ ~mem[cur].used /\ mem[cur].size >= request
      /\ Held(mem, blocks, live) /\ TypeOK
  BY DEF MallocTake, Fits, IInv, WalkInv, UsedIsHeld
<1>2. /\ \A x \in blocks : x \in Nat /\ x \in Addr /\ mem[x] \in Header
      /\ HeaderUnits \in Nat \ {0} /\ Top \in Nat
  BY <1>1, HeapAssumption DEF TypeOK, Addr
<1>3. \A x \in blocks : mem[x].size \in Nat
  BY <1>2 DEF Header
<1>4. /\ \A x \in blocks : x + HeaderUnits + mem[x].size <= Top + 1
      /\ \A x, y \in blocks : x < y => x + HeaderUnits + mem[x].size <= y
  BY DEF IInv, ListIntegrity, Ordered, EndIn
<1>5. g.ptr = cur + HeaderUnits /\ g.len = request
  BY DEF Grant
<1>6. g \in Abstract!Extent
  BY <1>1, <1>2, <1>3, <1>4 DEF Abstract!Extent, Grant
<1> HIDE DEF g
<1>7. g.ptr + g.len <= Top + 1
  BY <1>1, <1>2, <1>3, <1>4, <1>5
<1>8. ASSUME NEW f \in live
      PROVE  Abstract!Apart(g, f)
  <2> DEFINE x == f.ptr - HeaderUnits
  <2>1. /\ f.ptr \in Addr /\ f.len \in Nat /\ f.ptr >= HeaderUnits
        /\ x \in blocks /\ mem[x].used /\ f.len <= mem[x].size
    BY <1>1 DEF Held, TypeOK
  <2>2. f.ptr \in Nat /\ f.ptr = x + HeaderUnits
    BY <1>2, <2>1 DEF Addr
  <2>3. x # cur
    BY <1>1, <2>1
  <2> HIDE DEF x
  <2>4. cur < x \/ x < cur
    BY <1>1, <1>2, <2>1, <2>3
  <2>5. g.ptr + g.len <= f.ptr \/ f.ptr + f.len <= g.ptr
    BY <1>1, <1>2, <1>3, <1>4, <1>5, <2>1, <2>2, <2>4
  <2>6. QED
    BY <2>5 DEF Abstract!Apart
<1>9. Abstract!Grant(g)
  BY <1>1, <1>7, <1>8 DEF Abstract!Grant
<1>10. QED
  BY <1>6, <1>9

LEMMA FreeReturns ==
  ASSUME IInv, NEW e \in live, Free(e.ptr)
  PROVE  \E f \in Abstract!Extent : Abstract!Return(f)
<1>1. live' = {f \in live : f.ptr # e.ptr}
  BY DEF Free
<1>2. \A f \in live : f.ptr = e.ptr => f = e
  BY DEF IInv, UsedIsHeld, Held
<1>3. live' = live \ {e}
  BY <1>1, <1>2
<1>4. e \in Abstract!Extent
  <2> DEFINE x == e.ptr - HeaderUnits
  <2>1. /\ e \in [ptr : Addr, len : Nat \ {0}]
        /\ e.ptr >= HeaderUnits /\ x \in blocks /\ e.len <= mem[x].size
        /\ x \in Addr /\ EndIn(mem, x) <= Top + 1
    BY DEF IInv, TypeOK, UsedIsHeld, Held, ListIntegrity, Ordered
  <2>2. mem[x] \in Header
    BY <2>1 DEF IInv, TypeOK
  <2>3. mem[x].size \in Nat
    BY <2>2 DEF Header
  <2>4. /\ HeaderUnits \in Nat \ {0} /\ Top \in Nat /\ e.ptr \in 0 .. Top
        /\ e.len \in Nat \ {0} /\ e.ptr \in Nat
    BY <2>1, HeapAssumption DEF Addr
  <2>5. e.len \in 1 .. Top
    BY <2>1, <2>3, <2>4 DEF EndIn
  <2>6. e \in [ptr : 0 .. Top, len : 1 .. Top]
    BY <2>1, <2>4, <2>5
  <2>7. QED
    BY <2>6 DEF Abstract!Extent
<1>5. QED
  BY <1>3, <1>4 DEF Abstract!Return

(* malloc and free keep the promise of Allocator: a grant overlaps no      *)
(* other grant, lies in memory, and ends only when its caller frees it.    *)
THEOREM KeepsPromise == Spec => AllocatorSpec
<1>1. Init => Abstract!Init
  BY DEF Init, Abstract!Init
<1>2. IInv /\ [Next]_vars => [Abstract!Next]_live
  <2> SUFFICES ASSUME IInv, [Next]_vars
               PROVE  Abstract!Next \/ UNCHANGED live
    OBVIOUS
  <2>1. CASE MallocTake
    BY <2>1, TakeGrants DEF Abstract!Next
  <2>2. ASSUME NEW e \in live, Free(e.ptr)
        PROVE  Abstract!Next
    BY <2>2, FreeReturns DEF Abstract!Next
  <2>3. CASE \/ MemoryInit \/ MallocVisit \/ MallocFail \/ Halted
             \/ \E n \in Requests : MallocCall(n)
             \/ \E e \in live : ClientWrite(e)
             \/ UNCHANGED vars
    BY <2>3 DEF MemoryInit, SkipRegion, AddRegion, InitDone, MallocVisit, MallocFail,
                Halted, MallocCall, ClientWrite, vars
  <2>4. QED
    BY <2>1, <2>2, <2>3 DEF Next, MallocStep
<1>3. QED
  BY <1>1, <1>2, Invariance, PTL DEF Spec, AllocatorSpec, Abstract!Spec
-----------------------------------------------------------------------------
(* Every block malloc has gone past is used or too small.                  *)
Tried ==
  pc = "malloc" => \A b \in blocks : cur = NULL \/ b < cur => ~Fits(b)

LEMMA TriedInit == Init => Tried
  BY DEF Init, Tried

LEMMA TriedKeeps == IInv /\ Tried /\ [Next]_vars => Tried'
<1> SUFFICES ASSUME IInv, Tried, [Next]_vars, pc' = "malloc"
             PROVE  \A b \in blocks' : cur' = NULL \/ b < cur' => ~Fits(b)'
  BY DEF Tried
<1> USE DEF NULL
<1>1. /\ Linked(mem, head, blocks) /\ Ordered(mem, blocks)
      /\ \A x \in blocks : x \in Nat /\ mem[x].next \in Nat
  <2>1. \A x \in blocks : x \in Nat /\ mem[x] \in Header
    BY DEF IInv, TypeOK, Addr
  <2>2. \A x \in blocks : mem[x].next \in Nat
    BY <2>1 DEF Header, Addr
  <2>3. QED
    BY <2>1, <2>2 DEF IInv, ListIntegrity
<1>2. ASSUME NEW n \in Requests, MallocCall(n)
      PROVE  \A b \in blocks' : cur' = NULL \/ b < cur' => ~Fits(b)'
  <2>1. cur' = head /\ blocks' = blocks
    BY <1>2 DEF MallocCall
  <2>2. head = NULL => blocks = {}
    BY <1>1 DEF Linked
  <2>3. ASSUME head # NULL, NEW b \in blocks, b < head
        PROVE  FALSE
    <3>1. head \in blocks /\ mem[head].prev = NULL
      BY <1>1, <2>3 DEF Linked
    <3>2. QED
      BY <1>1, <2>3, <3>1 DEF Ordered
  <2>4. QED
    BY <2>1, <2>2, <2>3
<1>3. CASE MallocVisit
  <2>1. /\ pc = "malloc" /\ cur # NULL /\ blocks' = blocks /\ mem' = mem /\ request' = request
        /\ mem[cur].magic => ~Fits(cur) /\ cur' = mem[cur].next
    BY <1>3 DEF MallocVisit, Onward
  <2>2. cur \in blocks
    BY <2>1 DEF IInv, WalkInv
  <2>3. ~Fits(cur) /\ cur' = mem[cur].next
    BY <1>1, <2>1, <2>2 DEF Linked
  <2>4. ASSUME NEW b \in blocks, cur' = NULL \/ b < cur'
        PROVE  ~Fits(b)
    <3>1. CASE b < cur
      BY <2>1, <3>1 DEF Tried
    <3>2. CASE b = cur
      BY <2>3, <3>2
    <3>3. CASE cur < b
      <4>1. mem[cur].next # NULL /\ mem[cur].next <= b
        BY <1>1, <2>2, <3>3 DEF Ordered
      <4>2. QED
        BY <1>1, <2>2, <2>3, <2>4, <4>1
    <3>4. QED
      BY <1>1, <2>2, <3>1, <3>2, <3>3
  <2>5. QED
    BY <2>1, <2>4 DEF Fits
<1>4. CASE \/ MemoryInit \/ MallocTake \/ MallocFail
           \/ \E e \in live : Free(e.ptr) \/ ClientWrite(e)
  BY <1>4 DEF MemoryInit, SkipRegion, AddRegion, InitDone, MallocTake, MallocFail, Return,
              Free, ClientWrite
<1>5. CASE UNCHANGED vars
  BY <1>5 DEF vars, Tried, Fits
<1>6. CASE Halted
  BY <1>6 DEF Halted, vars
<1>7. QED
  BY <1>2, <1>3, <1>4, <1>5, <1>6 DEF Next, MallocStep

(* malloc returns nullptr only when no free block is big enough: the walk  *)
(* of memory.cpp:89-111 leaves none out.                                   *)
THEOREM FailsOnlyFull == Spec => FailsOnlyWhenFull
<1>1. IInv /\ Tried /\ [Next]_vars => [MallocFail => \A b \in blocks : ~Fits(b)]_vars
  BY DEF MallocFail, Tried
<1>2. QED
  BY <1>1, TriedInit, TriedKeeps, Invariance, PTL DEF Spec, FailsOnlyWhenFull
-----------------------------------------------------------------------------
(* In memory m, of the blocks B but X no two neighbours are free, unless   *)
(* the second is in S.                                                     *)
NoFragments(m, B, S, X) ==
  \A b \in B \ X :
    ~m[b].used /\ m[b].next # NULL /\ ~m[m[b].next].used => m[b].next \in S

Starts == {Base(map[i]) : i \in DOMAIN map}

(* A free block that takes in the free block behind it gets its neighbour. *)
LEMMA AbsorbFragments ==
  ASSUME NEW m \in Memory, NEW B \in SUBSET Addr, NEW S, NEW X,
         NEW a \in B, NEW b \in B, a # b, ~m[a].used, ~m[b].used, b \notin X,
         NoFragments(m, B, S, X \cup {a})
  PROVE  NoFragments(Absorb(m, a, b), B \ {b}, S, X)
<1> DEFINE n == Absorb(m, a, b)
<1>1. \A x \in Addr : /\ n[x].used = m[x].used
                      /\ n[x].next = IF x = a THEN m[b].next ELSE m[x].next
  BY AbsorbValue
<1>2. \A x \in Addr : m[x] \in Header
  BY DEF Memory
<1>3. \A x \in Addr : m[x].next \in Addr
  BY <1>2 DEF Header
<1> HIDE DEF n
<1>4. ASSUME NEW x \in (B \ {b}) \ X, ~n[x].used, n[x].next # NULL, ~n[n[x].next].used
      PROVE  n[x].next \in S
  <2>1. CASE x = a
    BY <1>1, <1>3, <1>4, <2>1 DEF NoFragments
  <2>2. CASE x # a
    BY <1>1, <1>3, <1>4, <2>2 DEF NoFragments
  <2>3. QED
    BY <2>1, <2>2
<1>5. QED
  BY <1>4 DEF NoFragments, n

LEMMA FreeCoalesces ==
  ASSUME TypeOK, ListIntegrity, UsedIsHeld, NEW e \in live, NEW S,
         NoFragments(mem, blocks, S, {})
  PROVE  LET b == e.ptr - HeaderUnits
         IN  mem[b].magic /\ NoFragments(AfterFree(b), blocks \ Merged(b), S, {})
<1> DEFINE b == e.ptr - HeaderUnits
           c == mem[b].next
           p == mem[b].prev
           m0 == SetUsed(mem, b, FALSE)
           m1 == Released(b)
           m2 == AfterFree(b)
           B1 == IF FreeBlock(mem, c) THEN blocks \ {c} ELSE blocks
<1> USE DEF NULL
<1>1. /\ mem \in Memory /\ blocks \in SUBSET Addr /\ Linked(mem, head, blocks)
      /\ Ordered(mem, blocks) /\ \A x \in Addr : x \in Nat
  BY DEF TypeOK, ListIntegrity, Memory, Addr
<1>2. b \in blocks /\ b \in Addr /\ mem[b].magic
  BY <1>1 DEF UsedIsHeld, Held, Linked
<1>3. /\ c # NULL => c \in blocks /\ b < c /\ mem[c].prev = b
      /\ p # NULL => p \in blocks /\ p < b /\ mem[p].next = b
      /\ \A x \in blocks : mem[x].next = b => x = p
      /\ NULL \notin blocks
  BY <1>1, <1>2 DEF Linked, Ordered
<1>4. /\ m0 \in Memory
      /\ \A x \in Addr :
           /\ m0[x].magic = mem[x].magic
           /\ m0[x].used = IF x = b THEN FALSE ELSE mem[x].used
           /\ m0[x].size = mem[x].size
           /\ m0[x].next = mem[x].next
           /\ m0[x].prev = mem[x].prev
  <2>1. mem \in Memory /\ b \in Addr /\ FALSE \in BOOLEAN
    BY <1>1, <1>2
  <2> HIDE DEF b
  <2>2. QED
    BY <2>1, SetUsedValue
<1>5. /\ m1 = IF FreeBlock(m0, m0[b].next) THEN Absorb(m0, b, m0[b].next) ELSE m0
      /\ m2 = IF FreeBlock(m1, m1[b].prev) THEN Absorb(m1, m1[b].prev, b) ELSE m1
      /\ m2 = AfterFree(b) /\ b = e.ptr - HeaderUnits
      /\ B1 = IF FreeBlock(mem, c) THEN blocks \ {c} ELSE blocks
      /\ c = mem[b].next /\ p = mem[b].prev
  BY DEF Released, AfterFree
<1> HIDE DEF b, c, p, m0, m1, m2, B1
<1>6. NoFragments(m0, blocks, S, {p} \cup {b})
  <2>1. SUFFICES ASSUME NEW x \in blocks, x # p, x # b, ~m0[x].used, m0[x].next # NULL,
                        ~m0[m0[x].next].used
                 PROVE  m0[x].next \in S
    BY DEF NoFragments
  <2>2. mem[x].next \in blocks /\ mem[x].next # b /\ x \in Addr /\ mem[x].next \in Addr
    BY <1>1, <1>3, <1>4, <2>1 DEF Linked
  <2>3. QED
    BY <1>4, <2>1, <2>2 DEF NoFragments
<1>7. /\ c # NULL => m0[c].used = mem[c].used /\ c \in Addr /\ c # b /\ c # p
      /\ p # NULL => m0[p].used = mem[p].used /\ p \in Addr /\ p # b
      /\ m0[b].next = c /\ m0[b].prev = p /\ ~m0[b].used
  <2>1. /\ c # NULL => c \in Addr /\ c # b
        /\ p # NULL => p \in Addr /\ p # b
        /\ b # NULL
    BY <1>1, <1>2, <1>3
  <2>2. c # NULL => c # p
    BY <1>1, <1>2, <1>3, <2>1
  <2>3. (c # NULL => m0[c].used = mem[c].used) /\ (p # NULL => m0[p].used = mem[p].used)
    BY <1>4, <2>1
  <2>4. m0[b].next = c /\ m0[b].prev = p /\ ~m0[b].used
    BY <1>2, <1>4, <1>5
  <2>5. QED
    BY <2>1, <2>2, <2>3, <2>4
<1>8. /\ m1 \in Memory /\ B1 \in SUBSET Addr /\ b \in B1
      /\ NoFragments(m1, B1, S, {p})
      /\ m1[b].prev = p /\ ~m1[b].used
      /\ p # NULL => p \in B1 /\ m1[p].used = mem[p].used
  <2>1. CASE FreeBlock(mem, c)
    <3>1. c # NULL /\ ~m0[c].used /\ FreeBlock(m0, c)
      BY <1>7, <2>1 DEF FreeBlock
    <3>2. m1 = Absorb(m0, b, c) /\ B1 = blocks \ {c}
      BY <1>5, <1>7, <2>1, <3>1
    <3>3. NoFragments(m1, B1, S, {p})
      BY <1>1, <1>2, <1>3, <1>4, <1>6, <1>7, <3>1, <3>2, AbsorbFragments
    <3>4. m1 \in Memory /\ \A x \in Addr :
            /\ m1[x].used = m0[x].used
            /\ m1[x].prev = IF x = m0[c].next /\ x # NULL THEN b ELSE m0[x].prev
      <4> DEFINE n == Absorb(m0, b, c)
      <4>1. m0 \in Memory /\ b \in Addr /\ c \in Addr
        BY <1>2, <1>4, <1>7, <3>1
      <4>2. n \in Memory /\ \A x \in Addr :
              /\ n[x].used = m0[x].used
              /\ n[x].prev = IF x = m0[c].next /\ x # NULL THEN b ELSE m0[x].prev
        BY <4>1, AbsorbValue
      <4>3. m1 = n
        BY <3>2
      <4> HIDE DEF n
      <4>4. QED
        BY <4>2, <4>3
    <3>5. b # mem[c].next
      BY <1>3, <1>7, <3>1
    <3>6. m0[c].next = mem[c].next
      BY <1>4, <1>7, <3>1
    <3>7. QED
      BY <1>1, <1>2, <1>3, <1>7, <3>1, <3>2, <3>3, <3>4, <3>5, <3>6
  <2>2. CASE ~FreeBlock(mem, c)
    <3>1. ~FreeBlock(m0, c)
      BY <1>7, <2>2 DEF FreeBlock
    <3>2. m1 = m0 /\ B1 = blocks
      BY <1>5, <1>7, <2>2, <3>1
    <3>3. NoFragments(m0, blocks, S, {p})
      BY <1>6, <1>7, <3>1 DEF NoFragments, FreeBlock
    <3>4. QED
      BY <1>1, <1>2, <1>3, <1>4, <1>7, <3>2, <3>3
  <2>3. QED
    BY <2>1, <2>2
<1>9. FreeBlock(m1, p) <=> FreeBlock(mem, p)
  BY <1>8 DEF FreeBlock
<1>10. blocks \ Merged(b) = IF FreeBlock(mem, p) THEN B1 \ {b} ELSE B1
  BY <1>5 DEF Merged
<1>11. NoFragments(m2, blocks \ Merged(b), S, {})
  <2>1. CASE FreeBlock(mem, p)
    <3>1. p # NULL /\ ~m1[p].used /\ m2 = Absorb(m1, p, b)
      BY <1>5, <1>8, <1>9, <2>1 DEF FreeBlock
    <3>2. NoFragments(m1, B1, S, {} \cup {p})
      BY <1>8
    <3>3. p \in B1 /\ p # b
      BY <1>7, <1>8, <3>1
    <3>4. NoFragments(m2, B1 \ {b}, S, {})
      BY <1>8, <3>1, <3>2, <3>3, AbsorbFragments
    <3>5. QED
      BY <1>10, <2>1, <3>4
  <2>2. CASE ~FreeBlock(mem, p)
    <3>1. m2 = m1 /\ blocks \ Merged(b) = B1
      BY <1>5, <1>8, <1>9, <1>10, <2>2
    <3>2. \A x \in B1 : x = p => x # NULL
      BY <1>3, <1>5
    <3>3. QED
      BY <1>8, <2>2, <3>1, <3>2 DEF NoFragments, FreeBlock
  <2>3. QED
    BY <2>1, <2>2
<1>12. QED
  BY <1>2, <1>5, <1>11

LEMMA TakeCoalesces ==
  ASSUME IInv, MallocTake, NEW S, NoFragments(mem, blocks, S, {})
  PROVE  NoFragments(mem', blocks', S, {})
<1> DEFINE s == IF Splits(cur) THEN Split(cur) ELSE mem
           n == SetUsed(s, cur, TRUE)
           k == Cut(cur)
<1> USE DEF NULL
<1>1. /\ mem \in Memory /\ blocks \in SUBSET Addr /\ cur \in blocks /\ cur \in Addr
      /\ request \in Nat \ {0} /\ Linked(mem, head, blocks) /\ Ordered(mem, blocks)
      /\ ~mem[cur].used
  BY DEF IInv, TypeOK, Memory, WalkInv, ListIntegrity, MallocTake, Fits
<1>2. mem' = n /\ blocks' = IF Splits(cur) THEN blocks \cup {k} ELSE blocks
  BY DEF MallocTake
<1>3. Splits(cur) =>
        /\ k \in Addr /\ k \notin blocks
        /\ s \in Memory
        /\ \A x \in Addr :
             /\ s[x].used = IF x = k THEN FALSE ELSE mem[x].used
             /\ s[x].next = IF x = k THEN mem[cur].next
                            ELSE IF x = cur THEN k ELSE mem[x].next
  <2> DEFINE t == Split(cur)
  <2>1. SUFFICES ASSUME Splits(cur)
                 PROVE  /\ k \in Addr /\ k \notin blocks
                        /\ t \in Memory
                        /\ \A x \in Addr :
                             /\ t[x].used = IF x = k THEN FALSE ELSE mem[x].used
                             /\ t[x].next = IF x = k THEN mem[cur].next
                                            ELSE IF x = cur THEN k ELSE mem[x].next
    OBVIOUS
  <2>2. /\ k \in Addr /\ k \notin blocks /\ cur < k
        /\ k + HeaderUnits + (mem[cur].size - request - HeaderUnits) = EndIn(mem, cur)
        /\ mem[cur].next # NULL => EndIn(mem, cur) <= mem[cur].next
        /\ t \in Memory
        /\ \A x \in Addr :
             /\ t[x].magic = IF x = k THEN TRUE ELSE mem[x].magic
             /\ t[x].used = IF x = k THEN FALSE ELSE mem[x].used
             /\ t[x].size = IF x = k THEN mem[cur].size - request - HeaderUnits
                            ELSE IF x = cur THEN request ELSE mem[x].size
             /\ t[x].next = IF x = k THEN mem[cur].next
                            ELSE IF x = cur THEN k ELSE mem[x].next
             /\ t[x].prev = IF x = k THEN cur
                            ELSE IF x = mem[cur].next /\ x # NULL THEN k
                            ELSE mem[x].prev
    BY <1>1, <2>1, SplitValue
  <2> HIDE DEF t, k
  <2>3. QED
    BY <2>2
<1>4. ~Splits(cur) => s = mem
  OBVIOUS
<1>5. s \in Memory
  BY <1>1, <1>3, <1>4
<1> HIDE DEF s, k
<1>6. /\ n \in Memory
      /\ \A x \in Addr :
           /\ n[x].magic = s[x].magic
           /\ n[x].used = IF x = cur THEN TRUE ELSE s[x].used
           /\ n[x].size = s[x].size
           /\ n[x].next = s[x].next
           /\ n[x].prev = s[x].prev
  <2>1. s \in Memory /\ cur \in Addr /\ TRUE \in BOOLEAN
    BY <1>1, <1>5
  <2>2. QED
    BY <2>1, SetUsedValue
<1> HIDE DEF n
<1>7. ASSUME NEW x \in blocks', ~n[x].used, n[x].next # NULL, ~n[n[x].next].used
      PROVE  n[x].next \in S
  <2>1. \A y \in blocks : y \in Addr /\ (mem[y].next # NULL => mem[y].next \in blocks)
    BY <1>1 DEF Linked
  <2>2. CASE x \in blocks
    <3>1. x # cur /\ x \in Addr /\ n[x].next = s[x].next /\ ~s[x].used
      BY <1>1, <1>6, <1>7, <2>2
    <3>2. s[x].next = mem[x].next /\ ~mem[x].used
      BY <1>3, <1>4, <2>2, <3>1
    <3>3. mem[x].next \in blocks /\ mem[x].next \in Addr
      BY <1>7, <2>1, <2>2, <3>1, <3>2
    <3>4. mem[x].next # cur /\ ~s[mem[x].next].used
      BY <1>6, <1>7, <3>1, <3>2, <3>3
    <3>5. ~mem[mem[x].next].used
      BY <1>3, <1>4, <3>3, <3>4
    <3>6. QED
      BY <1>7, <2>2, <3>1, <3>2, <3>5 DEF NoFragments
  <2>3. CASE x \notin blocks
    <3>1. Splits(cur) /\ x = k /\ x \in Addr /\ x # cur
      BY <1>1, <1>2, <1>3, <2>3
    <3>2. n[x].next = mem[cur].next
      BY <1>3, <1>6, <3>1
    <3>3. mem[cur].next \in blocks /\ mem[cur].next \in Addr
      BY <1>1, <1>7, <2>1, <3>2
    <3>4. mem[cur].next # cur /\ ~s[mem[cur].next].used
      BY <1>6, <1>7, <3>2, <3>3
    <3>5. ~mem[mem[cur].next].used
      BY <1>3, <3>1, <3>3, <3>4
    <3>6. QED
      BY <1>1, <1>7, <3>2, <3>5 DEF NoFragments
  <2>4. QED
    BY <2>2, <2>3
<1>8. QED
  BY <1>2, <1>7 DEF NoFragments

(* While memory_init runs all blocks are free, and every one a region's.   *)
LEMMA RegionCoalesces ==
  ASSUME IInv, AddRegion, NoFragments(mem, blocks, Starts, {})
  PROVE  NoFragments(mem', blocks', Starts, {})
<1> DEFINE b == Base(map[region])
           z == Length(map[region]) - HeaderUnits
           h == [magic |-> TRUE, size |-> z, used |-> FALSE, next |-> NULL, prev |-> last]
           g == [mem EXCEPT ![b] = h]
<1> USE DEF NULL
<1>1. /\ mem' = SetNext(g, last, b) /\ blocks' = blocks \cup {b}
      /\ region \in DOMAIN map /\ Accepted(map[region]) /\ b \in Starts
      /\ mem \in Memory /\ last \in Addr /\ blocks \subseteq Addr /\ map \in MemoryMaps
      /\ Linked(mem, head, blocks)
      /\ \A x \in blocks : ~mem[x].used /\ x <= last /\ EndIn(mem, x) <= map[region].base
      /\ last # NULL => last \in blocks
  <2>1. region \in 1 .. Len(map)
    BY HeapAssumption DEF AddRegion, IInv, TypeOK
  <2>2. QED
    BY <2>1 DEF AddRegion, IInv, TypeOK, Memory, ListIntegrity, InitInv, Starts
<1>2. /\ b \in Addr /\ b # NULL /\ z \in Nat /\ map[region].base \in Nat
      /\ map[region].base <= b /\ HeaderUnits \in Nat \ {0}
  BY <1>1, RegionFacts, HeapAssumption
<1>3. h \in Header /\ h.used = FALSE /\ h.next = NULL
  <2> HIDE DEF b, z
  <2>1. NULL \in Addr
    BY HeapAssumption DEF Addr
  <2>2. QED
    BY <1>1, <1>2, <2>1 DEF Header
<1>4. b \notin blocks
  <2>0. b \in Nat
    BY <1>2 DEF Addr
  <2>1. ASSUME NEW x \in blocks
        PROVE  x < b
    <3>1. x \in Nat /\ mem[x] \in Header
      BY <1>1 DEF Memory, Addr
    <3>2. mem[x].size \in Nat
      BY <3>1 DEF Header
    <3>3. EndIn(mem, x) <= map[region].base
      BY <1>1
    <3> HIDE DEF b
    <3>4. QED
      BY <1>2, <2>0, <3>1, <3>2, <3>3 DEF EndIn
  <2> HIDE DEF b
  <2>2. QED
    BY <2>0, <2>1
<1> HIDE DEF h, b
<1>5. g \in Memory /\ \A x \in Addr : g[x] = IF x = b THEN h ELSE mem[x]
  BY <1>1, <1>2, <1>3 DEF Memory
<1> HIDE DEF g
<1> DEFINE n == SetNext(g, last, b)
<1>6. /\ n \in Memory
      /\ \A x \in Addr :
           /\ n[x].magic = g[x].magic
           /\ n[x].used = g[x].used
           /\ n[x].size = g[x].size
           /\ n[x].next = IF x = last /\ x # NULL THEN b ELSE g[x].next
           /\ n[x].prev = g[x].prev
  <2>1. g \in Memory /\ last \in Addr /\ b \in Addr
    BY <1>1, <1>2, <1>5
  <2>2. QED
    BY <2>1, SetNextValue
<1> HIDE DEF n
<1>7. ASSUME NEW x \in blocks', n[x].next # NULL
      PROVE  n[x].next \in Starts
  <2>1. CASE x \in blocks /\ x = last
    BY <1>1, <1>6, <1>7, <2>1 DEF Linked
  <2>2. CASE x \in blocks /\ x # last
    <3>1. n[x].next = mem[x].next /\ mem[x].next \in blocks
      BY <1>1, <1>4, <1>5, <1>6, <1>7, <2>2 DEF Linked
    <3>2. ~mem[x].used /\ ~mem[mem[x].next].used
      BY <1>1, <2>2, <3>1
    <3>3. QED
      BY <1>7, <2>2, <3>1, <3>2 DEF NoFragments
  <2>3. CASE x \notin blocks
    <3>1. x = b /\ b # last
      BY <1>1, <1>2, <1>4, <2>3
    <3>2. n[x].next = NULL
      BY <1>2, <1>3, <1>5, <1>6, <3>1
    <3>3. QED
      BY <1>7, <3>2
  <2>4. QED
    BY <2>1, <2>2, <2>3
<1>8. mem' = n
  BY <1>1 DEF n
<1>9. QED
  BY <1>7, <1>8 DEF NoFragments

LEMMA CoalescedKeeps == IInv /\ Coalesced /\ [Next]_vars => Coalesced'
<1> SUFFICES ASSUME IInv, Coalesced, [Next]_vars
             PROVE  Coalesced'
  OBVIOUS
<1> USE DEF NULL
<1>1. NoFragments(mem, blocks, Starts, {})
  BY DEF Coalesced, NoFragments, Starts
<1>2. SUFFICES map' = map /\ NoFragments(mem', blocks', Starts, {})
  BY <1>2 DEF Coalesced, NoFragments, Starts
<1>3. CASE AddRegion
  BY <1>1, <1>3, RegionCoalesces DEF AddRegion
<1>4. CASE MallocTake
  BY <1>1, <1>4, TakeCoalesces DEF MallocTake
<1>5. ASSUME NEW e \in live, Free(e.ptr)
      PROVE  map' = map /\ NoFragments(mem', blocks', Starts, {})
  <2> DEFINE b == e.ptr - HeaderUnits
  <2>1. mem[b].magic /\ NoFragments(AfterFree(b), blocks \ Merged(b), Starts, {})
    BY <1>1, FreeCoalesces DEF IInv
  <2>2. map' = map /\ mem' = AfterFree(b) /\ blocks' = blocks \ Merged(b)
    BY <1>5, <2>1 DEF Free
  <2>3. QED
    BY <2>1, <2>2
<1>6. ASSUME NEW e \in live, ClientWrite(e)
      PROVE  map' = map /\ NoFragments(mem', blocks', Starts, {})
  <2>1. /\ map' = map /\ blocks' = blocks /\ blocks \subseteq Addr
        /\ mem' = [x \in Addr |-> IF Overlaps(e, x) THEN NoHeader ELSE mem[x]]
    BY <1>6 DEF ClientWrite, IInv, TypeOK
  <2>2. \A x \in blocks : mem'[x] = mem[x]
    BY <2>1, WriteMissesHeaders DEF IInv
  <2>3. \A x \in blocks : mem[x].next # NULL => mem[x].next \in blocks
    BY DEF IInv, ListIntegrity, Linked
  <2>4. QED
    BY <1>1, <2>1, <2>2, <2>3 DEF NoFragments
<1>7. CASE \/ SkipRegion \/ InitDone \/ MallocVisit \/ MallocFail \/ Halted
           \/ \E n \in Requests : MallocCall(n)
           \/ UNCHANGED vars
  BY <1>1, <1>7
     DEF SkipRegion, InitDone, MallocVisit, MallocFail, Halted, MallocCall, vars
<1>8. QED
  BY <1>3, <1>4, <1>5, <1>6, <1>7 DEF Next, MemoryInit, MallocStep

(* free leaves no fragments: two free neighbours are never of one region,  *)
(* whatever was allocated and freed in whatever order.                     *)
THEOREM StaysCoalesced == Spec => []Coalesced
<1>1. Init => Coalesced
  BY DEF Init, Coalesced
<1>2. QED
  BY <1>1, CoalescedKeeps, Invariance, PTL DEF Spec
=============================================================================
