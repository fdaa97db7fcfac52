--------------------------- MODULE KeyQueueProofs ---------------------------
(***************************************************************************)
(* Proofs about the key ring, for every number of slots and set of keys.   *)
(* The invariant is TypeOK and CopyIsOldest: the guard of kb_push keeps    *)
(* key_write from catching up with key_read, so the slot the shell reads   *)
(* is not written until the shell gives it back.                           *)
(***************************************************************************)
EXTENDS KeyQueue, SequenceTheorems, TLAPS

IInv == TypeOK /\ CopyIsOldest

(* One index forward, a ring of the same reader is one longer, unless it   *)
(* was full; of the same writer one shorter, unless it was empty.          *)
LEMMA Forward ==
  ASSUME NEW r \in Index, NEW w \in Index
  PROVE  /\ Successor(r) \in Index
         /\ Distance(r, w) \in 0 .. Slots - 1
         /\ Distance(r, w) = 0 <=> r = w
         /\ Successor(w) # r =>
              /\ Distance(r, Successor(w)) = Distance(r, w) + 1
              /\ Slot(r, Distance(r, w)) = w
         /\ Successor(w) = r => Distance(r, w) = Slots - 1
         /\ r # w =>
              /\ Distance(Successor(r), w) = Distance(r, w) - 1
              /\ \A i \in 0 .. Slots - 2 : Slot(Successor(r), i) = Slot(r, i + 1)
  BY KeyQueueAssumption DEF Index, Successor, Distance, Slot

LEMMA SlotIsIndex ==
  ASSUME NEW r \in Index, NEW w \in Index, NEW i \in 0 .. Distance(r, w)
  PROVE  /\ Slot(r, i) \in Index
         /\ i < Distance(r, w) => Slot(r, i) # w
  BY KeyQueueAssumption DEF Index, Distance, Slot

LEMMA ContentsIsSeq ==
  ASSUME NEW b \in [Index -> Key], NEW r \in Index, NEW w \in Index
  PROVE  /\ Contents(b, r, w) \in Seq(Key)
         /\ Len(Contents(b, r, w)) = Distance(r, w)
         /\ \A i \in 1 .. Distance(r, w) : Contents(b, r, w)[i] = b[Slot(r, i - 1)]
<1>1. Distance(r, w) \in Nat
  BY Forward, KeyQueueAssumption
<1>2. \A i \in 1 .. Distance(r, w) : b[Slot(r, i - 1)] \in Key
  <2> TAKE i \in 1 .. Distance(r, w)
  <2>1. i - 1 \in 0 .. Distance(r, w)
    BY <1>1
  <2> QED
    BY <2>1, SlotIsIndex
<1>3. Contents(b, r, w) \in [1 .. Distance(r, w) -> Key]
  BY <1>2 DEF Contents
<1> QED
  BY <1>1, <1>3 DEF Contents

(* kb_push puts a key at the end of the queue.                             *)
LEMMA PushAppends ==
  ASSUME NEW b \in [Index -> Key], NEW r \in Index, NEW w \in Index, NEW k \in Key,
         Successor(w) # r
  PROVE  Contents([b EXCEPT ![w] = k], r, Successor(w)) = Append(Contents(b, r, w), k)
<1> DEFINE c1 == [b EXCEPT ![w] = k]
           s == Contents(b, r, w)
           t == Contents(c1, r, Successor(w))
           n == Distance(r, w)
<1>1. c1 \in [Index -> Key] /\ Successor(w) \in Index /\ n \in Nat
  <2>1. c1 \in [Index -> Key]
    OBVIOUS
  <2>2. Successor(w) \in Index /\ n \in Nat
    <3> HIDE DEF c1, s, t
    <3>1. Successor(w) \in Index /\ n \in 0 .. Slots - 1
      BY Forward
    <3> QED
      BY <3>1, KeyQueueAssumption
  <2> QED
    BY <2>1, <2>2
<1>2. s \in Seq(Key) /\ Len(s) = n /\ \A i \in 1 .. n : s[i] = b[Slot(r, i - 1)]
  BY ContentsIsSeq
<1>3. /\ Append(s, k) \in Seq(Key)
      /\ Len(Append(s, k)) = n + 1
      /\ \A i \in 1 .. n : Append(s, k)[i] = s[i]
      /\ Append(s, k)[n + 1] = k
  BY <1>2, AppendProperties
<1>4. Distance(r, Successor(w)) = n + 1 /\ Slot(r, n) = w
  BY Forward
<1>5. t \in Seq(Key) /\ Len(t) = n + 1 /\ \A i \in 1 .. n + 1 : t[i] = c1[Slot(r, i - 1)]
  <2> HIDE DEF c1, n, s
  <2>1. /\ t \in Seq(Key)
        /\ Len(t) = Distance(r, Successor(w))
        /\ \A i \in 1 .. Distance(r, Successor(w)) : t[i] = c1[Slot(r, i - 1)]
    BY <1>1, ContentsIsSeq
  <2> HIDE DEF t
  <2> QED
    BY <2>1, <1>4
<1>6. \A i \in 1 .. n + 1 : t[i] = Append(s, k)[i]
  <2> TAKE i \in 1 .. n + 1
  <2>1. CASE i = n + 1
    <3>1. t[i] = c1[w]
      <4> HIDE DEF c1, s, t, n
      <4>1. i - 1 = n
        BY <2>1, <1>1
      <4> QED
        BY <4>1, <1>4, <1>5
    <3>2. c1[w] = k
      OBVIOUS
    <3> QED
      BY <3>1, <3>2, <2>1, <1>3
  <2>2. CASE i # n + 1
    <3>1. i \in 1 .. n /\ i - 1 \in 0 .. n /\ i - 1 < n
      BY <2>2, <1>1
    <3>2. Slot(r, i - 1) # w /\ Slot(r, i - 1) \in Index
      BY <3>1, SlotIsIndex
    <3>3. t[i] = b[Slot(r, i - 1)]
      BY <3>2, <1>5
    <3> QED
      BY <3>1, <3>3, <1>2, <1>3
  <2> QED
    BY <2>1, <2>2
<1> HIDE DEF s, t, c1, n
<1>7. t = Append(s, k)
  BY <1>1, <1>3, <1>5, <1>6, SeqEqual
<1> QED
  BY <1>7 DEF s, t, c1

(* Advancing key_read takes the first key off the queue.                   *)
LEMMA AdvanceTakes ==
  ASSUME NEW b \in [Index -> Key], NEW r \in Index, NEW w \in Index, r # w
  PROVE  /\ Contents(b, r, w) # <<>>
         /\ Head(Contents(b, r, w)) = b[r]
         /\ Contents(b, Successor(r), w) = Tail(Contents(b, r, w))
<1> DEFINE s == Contents(b, r, w)
           t == Contents(b, Successor(r), w)
           n == Distance(r, w)
<1>1. n \in 1 .. Slots - 1 /\ Successor(r) \in Index /\ Slots \in Nat
  BY Forward, KeyQueueAssumption
<1>2. s \in Seq(Key) /\ Len(s) = n /\ \A i \in 1 .. n : s[i] = b[Slot(r, i - 1)]
  BY ContentsIsSeq
<1>3. s # <<>>
  BY <1>1, <1>2
<1>4. /\ Tail(s) \in Seq(Key)
      /\ Len(Tail(s)) = n - 1
      /\ \A i \in 1 .. n - 1 : Tail(s)[i] = s[i + 1]
  BY <1>2, <1>3, HeadTailProperties
<1>5. Distance(Successor(r), w) = n - 1
  BY Forward
<1>6. t \in Seq(Key) /\ Len(t) = n - 1 /\ \A i \in 1 .. n - 1 : t[i] = b[Slot(Successor(r), i - 1)]
  <2>1. /\ t \in Seq(Key) /\ Len(t) = Distance(Successor(r), w)
        /\ \A i \in 1 .. Distance(Successor(r), w) : t[i] = b[Slot(Successor(r), i - 1)]
    BY <1>1, ContentsIsSeq
  <2> HIDE DEF t, n
  <2> QED
    BY <1>5, <2>1
<1>7. \A i \in 1 .. n - 1 : t[i] = Tail(s)[i]
  <2> TAKE i \in 1 .. n - 1
  <2>1. i - 1 \in 0 .. Slots - 2 /\ i + 1 \in 1 .. n /\ (i - 1) + 1 = (i + 1) - 1
    BY <1>1
  <2>2. Slot(Successor(r), i - 1) = Slot(r, (i - 1) + 1)
    BY <2>1, Forward
  <2> HIDE DEF s, t, n
  <2>3. t[i] = b[Slot(Successor(r), i - 1)] /\ Tail(s)[i] = s[i + 1]
    BY <1>4, <1>6
  <2>4. s[i + 1] = b[Slot(r, (i + 1) - 1)]
    BY <1>2, <2>1
  <2> QED
    BY <2>1, <2>2, <2>3, <2>4
<1>8. Head(s) = b[r]
  <2>1. Head(s) = s[1]
    BY <1>2, <1>3
  <2>2. Slot(r, 1 - 1) = r
    BY KeyQueueAssumption DEF Slot, Index
  <2> QED
    BY <2>1, <2>2, <1>1, <1>2
<1> HIDE DEF s, t, n
<1>9. t = Tail(s)
  BY <1>1, <1>4, <1>6, <1>7, SeqEqual
<1> QED
  BY <1>3, <1>8, <1>9 DEF s, t
-----------------------------------------------------------------------------
LEMMA InitInv == Init => IInv
  BY KeyQueueAssumption DEF Init, IInv, TypeOK, CopyIsOldest, Index

LEMMA NextInv == IInv /\ [Next]_vars => IInv'
<1> SUFFICES ASSUME TypeOK, CopyIsOldest, [Next]_vars PROVE TypeOK' /\ CopyIsOldest'
  BY DEF IInv
<1> USE DEF TypeOK
<1>1. ASSUME NEW k \in Key, Push(k) PROVE TypeOK' /\ CopyIsOldest'
  <2>1. pc' \in {"look", "hlt", "fetch", "advance", "handle", "halted"}
        /\ (pc' \in {"fetch", "advance"} => pc = pc')
    BY <1>1 DEF Push, Woken
  <2>2. CASE HasRoom
    <3>1. TypeOK'
      BY <1>1, <2>1, <2>2, Forward DEF Push
    <3>2. Distance(key_read, Successor(key_write)) = Count + 1 /\ Count \in Nat
      BY <2>2, Forward, KeyQueueAssumption DEF HasRoom, Count
    <3>3. Count' = Count + 1
      BY <1>1, <2>2, <3>2 DEF Push, Count
    <3>4. ASSUME pc' = "advance" PROVE c' = key_buffer'[key_read']
      <4>1. key_read # key_write
        <5>1. Count > 0
          BY <2>1, <3>4 DEF CopyIsOldest
        <5>2. Distance(key_read, key_write) = 0 <=> key_read = key_write
          BY Forward
        <5> QED
          BY <5>1, <5>2 DEF Count
      <4> QED
        BY <4>1, <1>1, <2>1, <2>2, <3>4 DEF Push, CopyIsOldest
    <3> QED
      BY <3>1, <3>2, <3>3, <3>4 DEF CopyIsOldest
  <2>3. CASE ~HasRoom
    BY <1>1, <2>1, <2>3 DEF Push, CopyIsOldest, Count
  <2> QED
    BY <2>2, <2>3
<1>2. CASE Tick
  BY <1>2 DEF Tick, Woken, CopyIsOldest, Count
<1>3. CASE Shell /\ Look
  <2>1. Count' = Count /\ Count \in 0 .. Slots - 1
    BY <1>3, Forward DEF Shell, Look, Count
  <2>2. pc' = "fetch" => Count > 0
    <3>1. pc' = "fetch" => Count # 0
      BY <1>3, Forward DEF Shell, Look, IsEmpty, Count
    <3> QED
      BY <2>1, <3>1, KeyQueueAssumption
  <2>3. pc' # "advance" /\ TypeOK'
    BY <1>3 DEF Shell, Look
  <2> QED
    BY <2>1, <2>2, <2>3 DEF CopyIsOldest
<1>4. CASE Shell /\ Halt
  BY <1>4 DEF Shell, Halt, CopyIsOldest, Count
<1>5. CASE Shell /\ Fetch
  BY <1>5 DEF Shell, Fetch, NextToFetch, CopyIsOldest, Count
<1>6. CASE Shell /\ Advance
  BY <1>6, Forward DEF Shell, Advance, CopyIsOldest, Count
<1>7. CASE Shell /\ Handle
  BY <1>7 DEF Shell, Handle, CopyIsOldest, Count
<1>8. CASE UNCHANGED vars
  BY <1>8 DEF vars, CopyIsOldest, Count
<1> QED
  BY <1>1, <1>2, <1>3, <1>4, <1>5, <1>6, <1>7, <1>8 DEF Next, Shell

(* Every variable keeps to its type, key_read and key_write to the ring.   *)
THEOREM TypeCorrect == Spec => []TypeOK
<1>1. IInv => TypeOK
  BY DEF IInv
<1> QED
  BY <1>1, InitInv, NextInv, PTL DEF Spec

(* The key the shell has read is the oldest one until it gives its slot    *)
(* back, although interrupts push keys in between.                         *)
THEOREM CopyStaysOldest == Spec => []CopyIsOldest
<1>1. IInv => CopyIsOldest
  BY DEF IInv
<1> QED
  BY <1>1, InitInv, NextInv, PTL DEF Spec
-----------------------------------------------------------------------------
LEMMA InitFifo == Init => Fifo!Init
<1> SUFFICES ASSUME Init PROVE Fifo!Init
  OBVIOUS
<1>1. TypeOK /\ Count = 0
  BY KeyQueueAssumption DEF Init, TypeOK, Count, Distance, Index
<1>2. Waiting = <<>>
  BY <1>1, ContentsIsSeq DEF TypeOK, Waiting, Count
<1> QED
  BY <1>1, <1>2 DEF Fifo!Init, TypeOK

LEMMA StepFifo == IInv /\ [Next]_vars => [Fifo!Next]_(Fifo!vars)
<1> SUFFICES ASSUME IInv, [Next]_vars PROVE [Fifo!Next]_(Fifo!vars)
  OBVIOUS
<1> USE DEF IInv, TypeOK
<1>1. ASSUME NEW k \in Key, Push(k), HasRoom PROVE Fifo!Put(k)
  <2>1. Waiting' = Append(Waiting, k)
    <3>1. Contents([key_buffer EXCEPT ![key_write] = k], key_read, Successor(key_write))
            = Append(Contents(key_buffer, key_read, key_write), k)
      BY <1>1, PushAppends DEF HasRoom
    <3>2. /\ key_buffer' = [key_buffer EXCEPT ![key_write] = k]
          /\ key_write' = Successor(key_write) /\ key_read' = key_read
      BY <1>1 DEF Push
    <3> QED
      BY <3>1, <3>2 DEF Waiting
  <2>2. Count < Slots - 1
    <3>1. /\ Distance(key_read, Successor(key_write)) \in 0 .. Slots - 1
          /\ Distance(key_read, Successor(key_write)) = Count + 1
          /\ Count \in 0 .. Slots - 1
      BY <1>1, Forward DEF HasRoom, Count
    <3> QED
      BY <3>1, KeyQueueAssumption
  <2>3. Len(Waiting) = Count
    BY ContentsIsSeq DEF Waiting, Count
  <2> QED
    BY <2>1, <2>2, <2>3, <1>1 DEF Fifo!Put, Push
<1>2. ASSUME Shell /\ Advance PROVE Fifo!Get
  <2>1. key_read # key_write /\ c = key_buffer[key_read]
    BY <1>2, Forward DEF Advance, CopyIsOldest, Count
  <2>2. Waiting # <<>> /\ Head(Waiting) = key_buffer[key_read]
    BY <2>1, AdvanceTakes DEF Waiting
  <2>3. Waiting' = Tail(Waiting)
    BY <1>2, <2>1, AdvanceTakes DEF Advance, Waiting
  <2> QED
    BY <2>1, <2>2, <2>3, <1>2 DEF Fifo!Get, Advance
<1>3. ASSUME UNCHANGED <<key_buffer, key_write, key_read, handled>>
      PROVE  UNCHANGED Fifo!vars
  BY <1>3 DEF Fifo!vars, Waiting
<1>4. ASSUME NEW k \in Key, Push(k), ~HasRoom PROVE UNCHANGED Fifo!vars
  BY <1>3, <1>4 DEF Push
<1>5. CASE Tick \/ UNCHANGED vars
  BY <1>3, <1>5 DEF Tick, vars
<1>6. CASE Shell /\ ~Advance
  BY <1>3, <1>6 DEF Shell, Look, Halt, Fetch, Handle
<1> QED
  BY <1>1, <1>2, <1>4, <1>5, <1>6 DEF Next, Fifo!Next

(* The ring and the code on both sides of it implement a queue of          *)
(* Slots - 1 keys that drops what is typed while it is full.               *)
THEOREM RingIsQueue == Spec => FifoSpec
  BY InitInv, NextInv, InitFifo, StepFifo, PTL DEF Spec, FifoSpec, Fifo!Spec
=============================================================================
