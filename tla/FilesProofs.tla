---------------------------- MODULE FilesProofs -----------------------------
(***************************************************************************)
(* The disk table, the drive letters and the buffers of the commands, on   *)
(* every machine and for every size of the tables.  A table is what        *)
(* FoldLeft(Register, ...) makes of the controllers' disks: FoldLeftIs     *)
(* gives the fold as a function of sets of indexes, AddAll what the table  *)
(* has after it, entry by entry, and ScanInv relates the table to the      *)
(* shell's flags.  The drives are selected from the table in the order of  *)
(* numbers (InOrderIs) and put behind each other (FlattenIs): LettersInv   *)
(* says what they lead to, and CallInv what a call on one of them holds.   *)
(* What needs induction is shown by taking a smallest counterexample       *)
(* (Smallest).                                                             *)
(***************************************************************************)
EXTENDS Files, FiniteSetTheorems, WellFoundedInduction, TLAPS

(* A smallest set among some subsets of a finite set.                      *)
LEMMA Smallest ==
  ASSUME NEW U, IsFiniteSet(U), NEW Bad, Bad \subseteq SUBSET U, Bad # {}
  PROVE  \E u \in Bad : \A t \in SUBSET u : t # u => t \notin Bad
<1>1. IsWellFoundedOn(StrictSubsetOrdering(U), SUBSET U)
  BY FS_StrictSubsetOrderingWellFounded, FS_FiniteSubsetsOfFinite
<1>2. PICK u \in Bad : \A t \in Bad : <<t, u>> \notin StrictSubsetOrdering(U)
  BY <1>1, WFMin
<1>3. \A t \in SUBSET u : t # u => t \notin Bad
  <2> SUFFICES ASSUME NEW t \in SUBSET u, t # u, t \in Bad PROVE FALSE
    OBVIOUS
  <2>1. u \in SUBSET U /\ t \in SUBSET U
    OBVIOUS
  <2>2. <<t, u>> \in StrictSubsetOrdering(U)
    BY <2>1 DEF StrictSubsetOrdering
  <2> QED
    BY <1>2, <2>2
<1> QED
  BY <1>3

LEMMA MaxIs ==
  ASSUME NEW n \in Nat, NEW u \in SUBSET (1 .. n), u # {}
  PROVE  Max(u) \in u /\ \A y \in u : Max(u) >= y
<1> DEFINE Bad == {t \in SUBSET (1 .. n) : t # {} /\ ~ \E x \in t : \A y \in t : x >= y}
<1>1. Bad = {}
  <2> SUFFICES ASSUME Bad # {} PROVE FALSE
    OBVIOUS
  <2>1. IsFiniteSet(1 .. n) /\ Bad \subseteq SUBSET (1 .. n)
    BY FS_Interval
  <2>2. PICK t \in Bad : \A r \in SUBSET t : r # t => r \notin Bad
    <3> HIDE DEF Bad
    <3> QED
      BY <2>1, Smallest
  <2>3. PICK z \in t : TRUE
    OBVIOUS
  <2>4. \A x \in t : x \in Int
    OBVIOUS
  <2>5. CASE t \ {z} = {}
    <3>1. \A y \in t : z >= y
      BY <2>3, <2>4, <2>5
    <3> QED
      BY <2>2, <2>3, <3>1
  <2>6. CASE t \ {z} # {}
    <3>1. t \ {z} \in SUBSET t /\ t \ {z} # t /\ t \ {z} \in SUBSET (1 .. n)
      BY <2>3
    <3>2. PICK x \in t \ {z} : \A y \in t \ {z} : x >= y
      BY <2>2, <2>6, <3>1
    <3>3. (\A y \in t : x >= y) \/ (\A y \in t : z >= y)
      BY <2>3, <2>4, <3>2
    <3> QED
      BY <2>2, <2>3, <3>2, <3>3
  <2> QED
    BY <2>5, <2>6
<1>2. \E x : x \in u /\ \A y \in u : x >= y
  BY <1>1
<1>3. Max(u) = CHOOSE x : x \in u /\ \A y \in u : x >= y
  BY Zenon DEF Max
<1> QED
  BY <1>2, <1>3, Zenon

(* The fold of Register over the disks of a controller: a function of the  *)
(* sets of their numbers that takes the greatest out.                      *)
IsFold(fold, U, base, q) ==
  fold = [u \in SUBSET U |->
            IF u = {} THEN base ELSE Register(fold[u \ {Max(u)}], q[Max(u)])]

LEMMA MaxIn ==
  ASSUME NEW n \in Nat, NEW u \in SUBSET (1 .. n), u # {}
  PROVE  Max(u) \in u
BY MaxIs

LEMMA FoldUnique ==
  ASSUME NEW n \in Nat, NEW A \in SUBSET (1 .. n), NEW B \in SUBSET (1 .. n),
         NEW base, NEW q, NEW a, NEW b, IsFold(a, A, base, q), IsFold(b, B, base, q),
         NEW S \in SUBSET A, S \in SUBSET B
  PROVE  a[S] = b[S]
<1> DEFINE Bad == {u \in SUBSET S : a[u] # b[u]}
<1> SUFFICES ASSUME Bad # {} PROVE FALSE
  OBVIOUS
<1>1. Bad \subseteq SUBSET (1 .. n) /\ IsFiniteSet(1 .. n)
  <2>1. Bad \subseteq SUBSET (1 .. n)
    OBVIOUS
  <2> QED
    BY <2>1, FS_Interval
<1>2. PICK u \in Bad : \A t \in SUBSET u : t # u => t \notin Bad
  <2> HIDE DEF Bad
  <2> QED
    BY <1>1, Smallest
<1>3. u \in SUBSET A /\ u \in SUBSET B /\ u \in SUBSET (1 .. n)
  OBVIOUS
<1>4. CASE u = {}
  <2>1. a[u] = base /\ b[u] = base
    BY <1>3, <1>4 DEF IsFold
  <2> QED
    BY <1>2, <2>1
<1>5. CASE u # {}
  <2> DEFINE t == u \ {Max(u)}
  <2>1. t \in SUBSET u /\ t # u
    BY <1>3, <1>5, MaxIn
  <2>2. a[t] = b[t]
    BY <1>2, <1>3, <2>1
  <2>3. a[u] = Register(a[t], q[Max(u)]) /\ b[u] = Register(b[t], q[Max(u)])
    BY <1>3, <1>5 DEF IsFold
  <2> QED
    BY <1>2, <2>2, <2>3
<1> QED
  BY <1>4, <1>5

LEMMA FoldExists ==
  ASSUME NEW n \in Nat, NEW base, NEW q
  PROVE  \E fold : IsFold(fold, 1 .. n, base, q)
<1> DEFINE Bad == {u \in SUBSET (1 .. n) : ~ \E fold : IsFold(fold, u, base, q)}
<1> SUFFICES ASSUME Bad # {} PROVE FALSE
  OBVIOUS
<1>1. Bad \subseteq SUBSET (1 .. n) /\ IsFiniteSet(1 .. n)
  BY FS_Interval
<1>2. PICK T \in Bad : \A t \in SUBSET T : t # T => t \notin Bad
  <2> HIDE DEF Bad
  <2> QED
    BY <1>1, Smallest
<1> DEFINE Of(t) == CHOOSE fold : IsFold(fold, t, base, q)
           fold == [u \in SUBSET T |->
                      IF u = {} THEN base
                      ELSE Register(Of(u \ {Max(u)})[u \ {Max(u)}], q[Max(u)])]
<1>3. \A t \in SUBSET T : t # T => IsFold(Of(t), t, base, q)
  <2> TAKE t \in SUBSET T
  <2> HAVE t # T
  <2>1. \E h : IsFold(h, t, base, q)
    BY <1>2
  <2> QED
    BY <2>1
<1>4. \A t \in SUBSET T : t # T => fold[t] = Of(t)[t]
  <2> TAKE t \in SUBSET T
  <2> HAVE t # T
  <2>1. IsFold(Of(t), t, base, q) /\ t \in SUBSET (1 .. n)
    BY <1>3
  <2>2. CASE t = {}
    BY <2>1, <2>2 DEF IsFold
  <2>3. CASE t # {}
    <3> DEFINE r == t \ {Max(t)}
    <3>1. r \in SUBSET t /\ r # t /\ r # T
      BY <2>1, <2>3, MaxIn
    <3>2. IsFold(Of(r), r, base, q)
      BY <1>3, <3>1
    <3>3. Of(r)[r] = Of(t)[r]
      <4> HIDE DEF Of, r, fold, Bad
      <4>1. PICK g, h : g = Of(r) /\ h = Of(t)
        OBVIOUS
      <4>2. r \in SUBSET (1 .. n) /\ t \in SUBSET (1 .. n) /\ r \in SUBSET r /\ r \in SUBSET t
        BY <2>1, <3>1
      <4>3. IsFold(g, r, base, q) /\ IsFold(h, t, base, q)
        BY <2>1, <3>2, <4>1
      <4>4. n \in Nat
        OBVIOUS
      <4>5. \A a, b : IsFold(a, r, base, q) /\ IsFold(b, t, base, q) =>
              \A S \in SUBSET r : S \in SUBSET t => a[S] = b[S]
        <5> TAKE a, b
        <5> HAVE IsFold(a, r, base, q) /\ IsFold(b, t, base, q)
        <5> TAKE S \in SUBSET r
        <5> HAVE S \in SUBSET t
        <5> QED
          BY <4>2, <4>4, FoldUnique
      <4>6. g[r] = h[r]
        BY <4>2, <4>3, <4>5
      <4> QED
        BY <4>1, <4>6
    <3>4. Of(t)[t] = Register(Of(t)[r], q[Max(t)])
      <4> HIDE DEF Of
      <4> QED
        BY <2>1, <2>3 DEF IsFold
    <3>5. fold[t] = Register(Of(r)[r], q[Max(t)])
      BY <2>3
    <3> QED
      BY <3>3, <3>4, <3>5
  <2> QED
    BY <2>2, <2>3
<1>5. \E f : IsFold(f, T, base, q)
  <2>1. \A u \in SUBSET T : u # {} => u \ {Max(u)} \in SUBSET T /\ u \ {Max(u)} # T
    BY MaxIn
  <2>2. PICK f : f = fold
    OBVIOUS
  <2>3. /\ f = [u \in SUBSET T |-> f[u]] /\ f[{}] = base
        /\ \A u \in SUBSET T : u # {} =>
             f[u] = Register(Of(u \ {Max(u)})[u \ {Max(u)}], q[Max(u)])
    <3>1. {} \in SUBSET T
      OBVIOUS
    <3>2. f[{}] = base
      BY <2>2, <3>1
    <3>3. \A u \in SUBSET T : u # {} =>
            f[u] = Register(Of(u \ {Max(u)})[u \ {Max(u)}], q[Max(u)])
      <4> HIDE DEF Of
      <4> QED
        BY <2>2
    <3>4. f = [u \in SUBSET T |-> f[u]]
      <4> HIDE DEF Of
      <4> QED
        BY <2>2
    <3> QED
      BY <3>2, <3>3, <3>4
  <2>4. \A t \in SUBSET T : t # T => f[t] = Of(t)[t]
    BY <1>4, <2>2
  <2> HIDE DEF fold, Of
  <2>5. \A u \in SUBSET T : u # {} => f[u] = Register(f[u \ {Max(u)}], q[Max(u)])
    BY <2>1, <2>3, <2>4
  <2>6. \A u \in SUBSET T :
          f[u] = IF u = {} THEN base ELSE Register(f[u \ {Max(u)}], q[Max(u)])
    BY <2>3, <2>5
  <2> QED
    BY <2>3, <2>6 DEF IsFold
<1> QED
  BY <1>2, <1>5

LEMMA FoldLeftIs ==
  ASSUME NEW n \in Nat, NEW base, NEW q, DOMAIN q = 1 .. n
  PROVE  \E fold : IsFold(fold, 1 .. n, base, q) /\ FoldLeft(Register, base, q) = fold[1 .. n]
<1> DEFINE iter[u \in SUBSET (1 .. n)] ==
             IF u = {} THEN base
             ELSE LET x == Max(u) IN Register(iter[u \ {x}], q[x])
<1>1. ASSUME NEW fold
      PROVE  IsFold(fold, 1 .. n, base, q) <=>
             fold = [u \in SUBSET (1 .. n) |->
                IF u = {} THEN base
                ELSE LET x == Max(u) IN Register(fold[u \ {x}], q[x])]
  BY DEF IsFold
<1>2. IsFold(iter, 1 .. n, base, q)
  BY <1>1, FoldExists
<1>3. FoldLeft(Register, base, q) = iter[1 .. n]
  BY DEF FoldLeft, MapThenFoldSet
<1> QED
  BY <1>2, <1>3
-----------------------------------------------------------------------------
(* A table to which the first k disks of a controller are added.           *)
Added(table, base, q, k) ==
  /\ Len(table) = IF Len(base) + k < MaxDisks THEN Len(base) + k ELSE MaxDisks
  /\ \A i \in 1 .. Len(table) :
       table[i] = IF i <= Len(base) THEN base[i] ELSE Detected(q[i - Len(base)])

LEMMA MaxOfFirst ==
  ASSUME NEW n \in Nat, NEW k \in 1 .. n
  PROVE  Max(1 .. k) = k /\ (1 .. k) \ {k} = 1 .. k - 1
<1>1. k \in 1 .. k /\ \A y \in 1 .. k : k >= y
  OBVIOUS
<1>2. \E x : x \in 1 .. k /\ \A y \in 1 .. k : x >= y
  BY <1>1
<1>3. Max(1 .. k) = CHOOSE x : x \in 1 .. k /\ \A y \in 1 .. k : x >= y
  BY Zenon DEF Max
<1>4. Max(1 .. k) \in 1 .. k /\ \A y \in 1 .. k : Max(1 .. k) >= y
  BY <1>2, <1>3, Zenon
<1>5. Max(1 .. k) = k
  BY <1>1, <1>4
<1> QED
  BY <1>5

(* One disk more.                                                          *)
LEMMA AddOne ==
  ASSUME NEW S, NEW base \in Seq(S), Len(base) <= MaxDisks, NEW q, NEW k \in Nat \ {0},
         NEW table \in Seq(S), Added(table, base, q, k - 1), Detected(q[k]) \in S
  PROVE  Register(table, q[k]) \in Seq(S) /\ Added(Register(table, q[k]), base, q, k)
<1>1. MaxDisks \in Nat /\ Len(base) \in Nat /\ Len(table) \in Nat
  BY StorageAssumption
<1>2. CASE Len(table) >= MaxDisks
  <2>1. Register(table, q[k]) = table
    BY <1>2 DEF Register
  <2>2. Added(table, base, q, k)
    BY <1>1, <1>2 DEF Added
  <2> QED
    BY <2>1, <2>2
<1>3. CASE ~ Len(table) >= MaxDisks
  <2>1. Register(table, q[k]) = Append(table, Detected(q[k]))
    BY <1>3 DEF Register
  <2> DEFINE d == Detected(q[k])
             next == Append(table, d)
  <2>2. d \in S
    OBVIOUS
  <2>3. Len(table) = Len(base) + k - 1
    BY <1>1, <1>3 DEF Added
  <2>4. /\ next \in Seq(S) /\ Len(next) = Len(table) + 1 /\ next[Len(table) + 1] = d
        /\ \A i \in 1 .. Len(table) : next[i] = table[i]
    <3> HIDE DEF d
    <3> QED
      BY <2>2
  <2>5. \A i \in 1 .. Len(next) :
          next[i] = IF i <= Len(base) THEN base[i] ELSE Detected(q[i - Len(base)])
    <3> TAKE i \in 1 .. Len(next)
    <3>1. CASE i <= Len(table)
      <4> HIDE DEF next
      <4> QED
        BY <1>1, <2>4, <3>1 DEF Added
    <3>2. CASE i > Len(table)
      <4>1. i = Len(base) + k /\ ~ i <= Len(base) /\ i - Len(base) = k
        <5> HIDE DEF next
        <5> QED
          BY <1>1, <2>3, <2>4, <3>2
      <4>2. next[i] = Detected(q[k])
        <5> HIDE DEF next
        <5> QED
          BY <1>1, <2>3, <2>4, <4>1
      <4> QED
        BY <4>1, <4>2
    <3> QED
      <4> HIDE DEF next
      <4> QED
        BY <1>1, <2>4, <3>1, <3>2
  <2> HIDE DEF next
  <2>6. Added(next, base, q, k)
    BY <1>1, <1>3, <2>3, <2>4, <2>5 DEF Added
  <2> QED
    BY <2>1, <2>4, <2>6 DEF next
<1> QED
  BY <1>2, <1>3

(* All disks of a controller, one after the other.                         *)
LEMMA AddAll ==
  ASSUME NEW n \in Nat, NEW S, NEW base \in Seq(S), Len(base) <= MaxDisks,
         NEW q, DOMAIN q = 1 .. n, \A i \in 1 .. n : Detected(q[i]) \in S
  PROVE  /\ FoldLeft(Register, base, q) \in Seq(S)
         /\ Added(FoldLeft(Register, base, q), base, q, n)
<1>1. PICK fold : IsFold(fold, 1 .. n, base, q) /\ FoldLeft(Register, base, q) = fold[1 .. n]
  BY FoldLeftIs
<1> DEFINE Good(u) == \E k \in 0 .. n : u = 1 .. k /\ fold[u] \in Seq(S) /\ Added(fold[u], base, q, k)
           Bad == {u \in SUBSET (1 .. n) : (\E k \in 0 .. n : u = 1 .. k) /\ ~ Good(u)}
<1>2. Bad = {}
  <2> SUFFICES ASSUME Bad # {} PROVE FALSE
    OBVIOUS
  <2>1. Bad \subseteq SUBSET (1 .. n) /\ IsFiniteSet(1 .. n)
    <3>1. Bad \subseteq SUBSET (1 .. n)
      OBVIOUS
    <3> QED
      BY <3>1, FS_Interval
  <2>2. PICK u \in Bad : \A t \in SUBSET u : t # u => t \notin Bad
    <3> HIDE DEF Bad
    <3> QED
      BY <2>1, Smallest
  <2>3. PICK k \in 0 .. n : u = 1 .. k
    OBVIOUS
  <2>4. u \in SUBSET (1 .. n) /\ ~ Good(u)
    OBVIOUS
  <2> HIDE DEF Bad
  <2>5. CASE k = 0
    <3>1. u = {}
      BY <2>3, <2>5
    <3>2. fold[u] = base
      BY <1>1, <2>4, <3>1 DEF IsFold
    <3>3. Added(base, base, q, 0)
      BY StorageAssumption DEF Added
    <3> QED
      BY <2>3, <2>4, <2>5, <3>2, <3>3
  <2>6. CASE k # 0
    <3> DEFINE t == 1 .. k - 1
    <3>1. k \in 1 .. n /\ k - 1 \in 0 .. n /\ k \in Nat \ {0}
      BY <2>6
    <3>2. Max(u) = k /\ u \ {k} = t
      BY <2>3, <3>1, MaxOfFirst
    <3>3. t \in SUBSET u /\ t # u /\ t \in SUBSET (1 .. n) /\ u # {}
      <4>1. k \in u /\ k \notin t
        BY <2>3, <3>1
      <4>2. \A x \in t : x \in u
        BY <2>3, <3>1
      <4>3. u \in SUBSET (1 .. n)
        BY <2>4
      <4> HIDE DEF t
      <4> QED
        BY <4>1, <4>2, <4>3
    <3>4. t \notin Bad
      BY <2>2, <3>3
    <3>5. Good(t)
      BY <3>1, <3>3, <3>4 DEF Bad
    <3>6. PICK j \in 0 .. n : t = 1 .. j /\ fold[t] \in Seq(S) /\ Added(fold[t], base, q, j)
      BY <3>5
    <3>7. j = k - 1
      BY <3>1, <3>6
    <3>8. fold[u] = Register(fold[t], q[k])
      BY <1>1, <2>4, <3>2, <3>3 DEF IsFold
    <3>9. fold[t] \in Seq(S) /\ Added(fold[t], base, q, k - 1) /\ Detected(q[k]) \in S
      BY <3>1, <3>6, <3>7
    <3>10. Register(fold[t], q[k]) \in Seq(S) /\ Added(Register(fold[t], q[k]), base, q, k)
      <4> HIDE DEF t
      <4> QED
        BY <3>1, <3>9, AddOne
    <3> QED
      BY <2>3, <2>4, <3>8, <3>10
  <2> QED
    BY <2>5, <2>6
<1>3. 1 .. n \in SUBSET (1 .. n) /\ n \in 0 .. n
  OBVIOUS
<1>4. Good(1 .. n)
  BY <1>2, <1>3
<1>5. PICK k \in 0 .. n : 1 .. n = 1 .. k /\ fold[1 .. n] \in Seq(S) /\ Added(fold[1 .. n], base, q, k)
  BY <1>4
<1>6. k = n
  BY <1>5
<1> QED
  BY <1>1, <1>5, <1>6
-----------------------------------------------------------------------------
(* A set of numbers has a member of every rank: else take a smallest set   *)
(* that has not; its greatest member has the last rank, and the others     *)
(* have in it the rank that they have without that.                        *)
LEMMA NumbersFinite ==
  ASSUME NEW n \in Nat, NEW S \in SUBSET (1 .. n)
  PROVE  IsFiniteSet(S) /\ Cardinality(S) \in Nat
<1>1. 1 \in Int /\ n \in Int
  OBVIOUS
<1>2. IsFiniteSet(1 .. n)
  BY <1>1, FS_Interval
<1>3. IsFiniteSet(S)
  BY <1>2, FS_Subset
<1> QED
  BY <1>3, FS_CardinalityType

LEMMA Ranked ==
  ASSUME NEW n \in Nat, NEW S \in SUBSET (1 .. n), NEW k \in 1 .. Cardinality(S)
  PROVE  \E i \in S : Cardinality({j \in S : j <= i}) = k
<1> DEFINE Rank(T, i) == Cardinality({j \in T : j <= i})
           Bad == {T \in SUBSET S : ~ \A r \in 1 .. Cardinality(T) : \E i \in T : Rank(T, i) = r}
<1>1. IsFiniteSet(S)
  BY NumbersFinite
<1>2. Bad = {}
  <2> SUFFICES ASSUME Bad # {} PROVE FALSE
    OBVIOUS
  <2>1. Bad \subseteq SUBSET S
    OBVIOUS
  <2>2. PICK T \in Bad : \A t \in SUBSET T : t # T => t \notin Bad
    <3> HIDE DEF Bad
    <3> QED
      BY <1>1, <2>1, Smallest
  <2>3. PICK r \in 1 .. Cardinality(T) : ~ \E i \in T : Rank(T, i) = r
    OBVIOUS
  <2>4. T \in SUBSET S /\ T \in SUBSET (1 .. n) /\ \A i \in T : i \in Nat
    OBVIOUS
  <2>5. IsFiniteSet(T) /\ Cardinality(T) \in Nat
    BY <2>4, NumbersFinite
  <2>6. T # {}
    BY <2>5, FS_EmptySet
  <2> DEFINE m == Max(T)
             R == T \ {m}
  <2>7. m \in T /\ \A y \in T : m >= y
    BY <2>4, <2>6, MaxIs
  <2> HIDE DEF m
  <2>8. Cardinality(R) = Cardinality(T) - 1
    BY <2>5, <2>7, FS_RemoveElement
  <2>9. CASE r = Cardinality(T)
    <3>1. {j \in T : j <= m} = T
      BY <2>4, <2>7
    <3> QED
      BY <2>3, <2>7, <2>9, <3>1
  <2>10. CASE r # Cardinality(T)
    <3>1. r \in 1 .. Cardinality(R)
      BY <2>5, <2>8, <2>10
    <3>2. R \in SUBSET T /\ R # T /\ R \in SUBSET S
      BY <2>4, <2>7
    <3>3. R \notin Bad
      BY <2>2, <3>2
    <3> HIDE DEF R
    <3>4. PICK i \in R : Rank(R, i) = r
      BY <3>1, <3>2, <3>3
    <3>5. {j \in R : j <= i} = {j \in T : j <= i}
      BY <2>4, <2>7, <3>2, <3>4 DEF R
    <3> QED
      BY <2>3, <3>2, <3>4, <3>5
  <2> QED
    BY <2>9, <2>10
<1>3. S \in SUBSET S /\ S \notin Bad
  BY <1>2
<1> QED
  BY <1>3

(* InOrder gives members of the set, each once.                            *)
LEMMA InOrderIs ==
  ASSUME NEW n \in Nat, NEW S \in SUBSET (1 .. n)
  PROVE  /\ InOrder(S) \in Seq(S)
         /\ \A k, l \in DOMAIN InOrder(S) : InOrder(S)[k] = InOrder(S)[l] => k = l
<1> DEFINE c == Cardinality(S)
           At(k) == CHOOSE i \in S : Cardinality({j \in S : j <= i}) = k
<1>1. c \in Nat
  BY NumbersFinite
<1>2. \A k \in 1 .. c : At(k) \in S /\ Cardinality({j \in S : j <= At(k)}) = k
  <2> TAKE k \in 1 .. c
  <2>1. \E i \in S : Cardinality({j \in S : j <= i}) = k
    BY Ranked
  <2> QED
    BY <2>1
<1>3. InOrder(S) = [k \in 1 .. c |-> At(k)]
  BY DEF InOrder
<1> HIDE DEF At, c
<1>4. InOrder(S) \in Seq(S)
  <2>1. PICK f : f = [k \in 1 .. c |-> At(k)]
    OBVIOUS
  <2>2. f \in [1 .. c -> S]
    BY <1>2, <2>1
  <2>3. f \in Seq(S)
    BY <1>1, <2>2
  <2> QED
    BY <1>3, <2>1, <2>3
<1>5. ASSUME NEW k \in 1 .. c, NEW l \in 1 .. c, At(k) = At(l) PROVE k = l
  BY <1>2, <1>5
<1> QED
  BY <1>3, <1>4, <1>5

LEMMA FirstOfIs ==
  ASSUME NEW S, NEW q \in Seq(S), NEW n \in Nat
  PROVE  /\ FirstOf(q, n) \in Seq(S)
         /\ Len(FirstOf(q, n)) <= n
         /\ Len(FirstOf(q, n)) <= Len(q)
         /\ \A i \in 1 .. Len(FirstOf(q, n)) : FirstOf(q, n)[i] = q[i]
<1>1. PICK k : k = IF Len(q) < n THEN Len(q) ELSE n
  OBVIOUS
<1>2. Len(q) \in Nat /\ k \in Nat /\ k <= n /\ k <= Len(q)
  BY <1>1
<1>3. FirstOf(q, n) = SubSeq(q, 1, k)
  BY <1>1 DEF FirstOf
<1>4. SubSeq(q, 1, k) \in Seq(S) /\ Len(SubSeq(q, 1, k)) = k
      /\ \A i \in 1 .. k : SubSeq(q, 1, k)[i] = q[i]
  BY <1>2
<1> QED
  BY <1>2, <1>3, <1>4
(* The sequences 1 to i of q behind each other, for each i.                *)
IsFlat(f, q, n) == f = [i \in 1 .. n |-> IF i = 1 THEN q[i] ELSE f[i - 1] \o q[i]]

LEMMA FlatExists ==
  ASSUME NEW n \in Nat, NEW q
  PROVE  \E f : IsFlat(f, q, n)
<1> DEFINE Bad == {T \in SUBSET (1 .. n) : \E k \in 0 .. n : T = 1 .. k /\ ~ \E f : IsFlat(f, q, k)}
<1>1. Bad = {}
  <2> SUFFICES ASSUME Bad # {} PROVE FALSE
    OBVIOUS
  <2>1. Bad \subseteq SUBSET (1 .. n) /\ IsFiniteSet(1 .. n)
    BY FS_Interval
  <2>2. PICK T \in Bad : \A t \in SUBSET T : t # T => t \notin Bad
    <3> HIDE DEF Bad
    <3> QED
      BY <2>1, Smallest
  <2>3. PICK k \in 0 .. n : T = 1 .. k /\ ~ \E f : IsFlat(f, q, k)
    OBVIOUS
  <2>4. CASE k = 0
    <3> DEFINE g == [i \in 1 .. 0 |-> q[i]]
    <3>1. g = [i \in 1 .. 0 |-> IF i = 1 THEN q[i] ELSE g[i - 1] \o q[i]]
      OBVIOUS
    <3>2. IsFlat(g, q, k)
      BY <2>4, <3>1 DEF IsFlat
    <3> QED
      BY <2>3, <3>2
  <2>5. CASE k # 0
    <3> DEFINE l == k - 1
    <3>1. l \in 0 .. n /\ k \in 1 .. n /\ l \in Nat
      BY <2>5
    <3>2. 1 .. l \in SUBSET T /\ 1 .. l # T
      <4>1. k \in T /\ k \notin 1 .. l
        BY <2>3, <3>1
      <4>2. \A x \in 1 .. l : x \in T
        BY <2>3, <3>1
      <4> QED
        BY <4>1, <4>2
    <3>3. 1 .. l \notin Bad /\ 1 .. l \in SUBSET (1 .. n)
      BY <2>2, <3>1, <3>2
    <3>4. PICK f : IsFlat(f, q, l)
      BY <3>1, <3>3
    <3> HIDE DEF Bad
    <3>5. PICK last : last = IF k = 1 THEN q[k] ELSE f[l] \o q[k]
      OBVIOUS
    <3>6. PICK g : g = [i \in 1 .. k |-> IF i = k THEN last ELSE f[i]]
      OBVIOUS
    <3>7. \A i \in 1 .. l : i # k /\ i \in 1 .. k
      BY <3>1
    <3>8. \A i \in 1 .. l : g[i] = f[i]
      BY <3>6, <3>7
    <3>9. ASSUME NEW i \in 1 .. k PROVE g[i] = IF i = 1 THEN q[i] ELSE g[i - 1] \o q[i]
      <4>1. CASE i = k
        <5>1. g[i] = last
          BY <3>1, <3>6, <4>1
        <5>2. k # 1 => l \in 1 .. l
          BY <3>1
        <5>3. k # 1 => g[l] = f[l]
          BY <3>8, <5>2
        <5>4. i - 1 = l
          BY <4>1
        <5> QED
          BY <3>5, <4>1, <5>1, <5>3, <5>4
      <4>2. CASE i # k
        <5>1. i \in 1 .. l /\ (i # 1 => i - 1 \in 1 .. l)
          BY <3>1, <4>2
        <5>2. g[i] = f[i] /\ (i # 1 => g[i - 1] = f[i - 1])
          BY <3>8, <5>1
        <5>3. f[i] = IF i = 1 THEN q[i] ELSE f[i - 1] \o q[i]
          BY <3>4, <5>1 DEF IsFlat
        <5> QED
          BY <5>2, <5>3
      <4> QED
        BY <4>1, <4>2
    <3>10. g = [i \in 1 .. k |-> g[i]]
      BY <3>6
    <3>11. IsFlat(g, q, k)
      BY <3>9, <3>10 DEF IsFlat
    <3> QED
      BY <2>3, <3>11
  <2> QED
    BY <2>4, <2>5
<1>2. 1 .. n \in SUBSET (1 .. n) /\ n \in 0 .. n
  OBVIOUS
<1> QED
  BY <1>1, <1>2

LEMMA FlattenSeqIs ==
  ASSUME NEW n \in Nat \ {0}, NEW q, Len(q) = n
  PROVE  \E f : IsFlat(f, q, n) /\ FlattenSeq(q) = f[n]
<1> DEFINE flatten[i \in 1 .. n] == IF i = 1 THEN q[i] ELSE flatten[i - 1] \o q[i]
<1>1. ASSUME NEW f
      PROVE  IsFlat(f, q, n) <=> f = [i \in 1 .. n |-> IF i = 1 THEN q[i] ELSE f[i - 1] \o q[i]]
  BY DEF IsFlat
<1>2. IsFlat(flatten, q, n)
  BY <1>1, FlatExists
<1>3. FlattenSeq(q) = flatten[n]
  BY DEF FlattenSeq
<1> QED
  BY <1>2, <1>3

(* It has their elements, each as often as they have it together: where    *)
(* no two have one in common and none has one twice, neither has it.       *)
Distinct(q) == \A i, j \in DOMAIN q : q[i] = q[j] => i = j

LEMMA ConcatDistinct ==
  ASSUME NEW A, NEW B, A \intersect B = {}, NEW a \in Seq(A), NEW b \in Seq(B),
         Distinct(a), Distinct(b)
  PROVE  a \o b \in Seq(A \union B) /\ Distinct(a \o b)
<1>1. PICK c : c = a \o b
  OBVIOUS
<1>2. /\ Len(a) \in Nat /\ Len(b) \in Nat
      /\ DOMAIN a = 1 .. Len(a) /\ DOMAIN b = 1 .. Len(b)
      /\ \A i \in 1 .. Len(a) : a[i] \in A
      /\ \A i \in 1 .. Len(b) : b[i] \in B
  OBVIOUS
<1>3. a \in Seq(A \union B) /\ b \in Seq(A \union B)
  OBVIOUS
<1>4. /\ c \in Seq(A \union B) /\ DOMAIN c = 1 .. Len(a) + Len(b)
      /\ \A i \in 1 .. Len(a) + Len(b) : c[i] = IF i <= Len(a) THEN a[i] ELSE b[i - Len(a)]
  BY <1>1, <1>2, <1>3
<1>5. ASSUME NEW i \in DOMAIN c, NEW j \in DOMAIN c, c[i] = c[j] PROVE i = j
  <2>1. \A k \in DOMAIN c : \/ k \in DOMAIN a /\ c[k] = a[k] /\ c[k] \in A
                            \/ k - Len(a) \in DOMAIN b /\ c[k] = b[k - Len(a)] /\ c[k] \in B
    <3> TAKE k \in DOMAIN c
    <3>1. CASE k <= Len(a)
      BY <1>2, <1>4, <3>1
    <3>2. CASE k > Len(a)
      <4>1. k - Len(a) \in 1 .. Len(b) /\ ~ k <= Len(a)
        BY <1>2, <1>4, <3>2
      <4> QED
        BY <1>2, <1>4, <4>1
    <3> QED
      BY <1>2, <1>4, <3>1, <3>2
  <2>2. i \in Nat /\ j \in Nat
    BY <1>2, <1>4
  <2>3. CASE c[i] \in A
    <3>1. c[j] \notin B
      BY <1>5, <2>3
    <3>2. c[i] \notin B
      BY <2>3
    <3>3. i \in DOMAIN a /\ j \in DOMAIN a /\ a[i] = a[j]
      BY <1>5, <2>1, <3>1, <3>2
    <3> QED
      BY <3>3 DEF Distinct
  <2>4. CASE c[i] \notin A
    <3>1. /\ i - Len(a) \in DOMAIN b /\ j - Len(a) \in DOMAIN b
          /\ b[i - Len(a)] = b[j - Len(a)]
      BY <1>5, <2>1, <2>4
    <3>2. i - Len(a) = j - Len(a)
      BY <3>1 DEF Distinct
    <3> QED
      BY <1>2, <2>2, <3>2
  <2> QED
    BY <2>3, <2>4
<1> QED
  BY <1>1, <1>4, <1>5 DEF Distinct

(* The elements of parts 1 to k, where those of part d are in D[d].        *)
Parts(D, k) == UNION {D[d] : d \in 1 .. k}
Apart(D, q, n) ==
  /\ \A d, e \in 1 .. n : d # e => D[d] \intersect D[e] = {}
  /\ \A d \in 1 .. n : Distinct(q[d])

LEMMA FlatIs ==
  ASSUME NEW n \in Nat, NEW q, NEW f, IsFlat(f, q, n), NEW D,
         \A d \in 1 .. n : q[d] \in Seq(D[d]), NEW k \in 1 .. n
  PROVE  f[k] \in Seq(Parts(D, k)) /\ (Apart(D, q, n) => Distinct(f[k]))
<1> DEFINE Good(j) == f[j] \in Seq(Parts(D, j)) /\ (Apart(D, q, n) => Distinct(f[j]))
           Bad == {T \in SUBSET (1 .. n) : \E j \in 1 .. n : T = 1 .. j /\ ~ Good(j)}
<1>1. Bad = {}
  <2> SUFFICES ASSUME Bad # {} PROVE FALSE
    OBVIOUS
  <2>1. Bad \subseteq SUBSET (1 .. n) /\ IsFiniteSet(1 .. n)
    BY FS_Interval
  <2>2. PICK T \in Bad : \A t \in SUBSET T : t # T => t \notin Bad
    <3> HIDE DEF Bad
    <3> QED
      BY <2>1, Smallest
  <2>3. PICK j \in 1 .. n : T = 1 .. j /\ ~ Good(j)
    OBVIOUS
  <2>4. f[j] = IF j = 1 THEN q[j] ELSE f[j - 1] \o q[j]
    BY DEF IsFlat
  <2>5. CASE j = 1
    <3>1. Parts(D, 1) = D[1]
      <4>1. 1 .. 1 = {1}
        OBVIOUS
      <4> QED
        BY <4>1 DEF Parts
    <3>2. f[j] = q[j]
      BY <2>4, <2>5
    <3>3. q[j] \in Seq(Parts(D, j))
      BY <2>5, <3>1
    <3>4. Apart(D, q, n) => Distinct(q[j])
      BY DEF Apart
    <3> QED
      BY <2>3, <3>2, <3>3, <3>4
  <2>6. CASE j # 1
    <3> DEFINE l == j - 1
    <3>1. l \in 1 .. n /\ j \in 1 .. n /\ l \in Nat
      BY <2>6
    <3>2. 1 .. l \in SUBSET T /\ 1 .. l # T
      <4>1. j \in T /\ j \notin 1 .. l
        BY <2>3, <3>1
      <4>2. \A x \in 1 .. l : x \in T
        BY <2>3, <3>1
      <4> QED
        BY <4>1, <4>2
    <3>3. 1 .. l \notin Bad /\ 1 .. l \in SUBSET (1 .. n)
      BY <2>2, <3>1, <3>2
    <3>4. Good(l)
      BY <3>1, <3>3
    <3>5. f[j] = f[l] \o q[j]
      BY <2>4, <2>6
    <3>6. Parts(D, j) = Parts(D, l) \union D[j]
      <4>1. 1 .. j = (1 .. l) \union {j}
        BY <3>1
      <4> HIDE DEF l
      <4> QED
        BY <4>1 DEF Parts
    <3>7. \A d \in 1 .. l : d \in 1 .. n /\ d # j
      BY <3>1
    <3> HIDE DEF l, Bad
    <3>8. PICK A, B, a, b : A = Parts(D, l) /\ B = D[j] /\ a = f[l] /\ b = q[j]
      OBVIOUS
    <3>9. a \in Seq(A) /\ b \in Seq(B)
      BY <3>4, <3>8
    <3>10. a \o b \in Seq(A \union B)
      <4>1. a \in Seq(A \union B) /\ b \in Seq(A \union B)
        BY <3>9
      <4> QED
        BY <4>1
    <3>11. ASSUME Apart(D, q, n) PROVE Distinct(a \o b)
      <4>1. \A d \in 1 .. l : D[d] \intersect D[j] = {}
        BY <3>7, <3>11 DEF Apart
      <4>2. A \intersect B = {}
        BY <3>8, <4>1 DEF Parts
      <4>3. Distinct(a) /\ Distinct(b)
        BY <3>4, <3>8, <3>11 DEF Apart
      <4> QED
        BY <3>9, <4>2, <4>3, ConcatDistinct
    <3> QED
      BY <2>3, <3>5, <3>6, <3>8, <3>10, <3>11
  <2> QED
    BY <2>5, <2>6
<1>2. 1 .. k \in SUBSET (1 .. n)
  OBVIOUS
<1> QED
  BY <1>1, <1>2

(* FlattenSeq itself; of no sequences it is the empty one.                 *)
LEMMA FlattenIs ==
  ASSUME NEW n \in Nat, NEW R, NEW q \in Seq(R), Len(q) = n, NEW D,
         \A d \in 1 .. n : q[d] \in Seq(D[d])
  PROVE  /\ FlattenSeq(q) \in Seq(Parts(D, n))
         /\ Apart(D, q, n) => Distinct(FlattenSeq(q))
<1>1. CASE n = 0
  <2>1. FlattenSeq(q) = q
    BY <1>1 DEF FlattenSeq
  <2>2. q = <<>>
    BY <1>1
  <2> QED
    BY <2>1, <2>2 DEF Distinct
<1>2. CASE n # 0
  <2>1. n \in Nat \ {0} /\ n \in 1 .. n
    BY <1>2
  <2>2. PICK f : IsFlat(f, q, n) /\ FlattenSeq(q) = f[n]
    BY <2>1, FlattenSeqIs
  <2>3. f[n] \in Seq(Parts(D, n)) /\ (Apart(D, q, n) => Distinct(f[n]))
    BY <2>1, <2>2, FlatIs
  <2> QED
    BY <2>2, <2>3
<1> QED
  BY <1>1, <1>2
-----------------------------------------------------------------------------
(* A function of the places of a sequence is as long as that.              *)
LEMMA MapIs ==
  ASSUME NEW S, NEW q \in Seq(S), NEW f, f = [k \in DOMAIN q |-> f[k]]
  PROVE  f \in Seq({f[k] : k \in DOMAIN q}) /\ Len(f) = Len(q)
<1> DEFINE R == {f[k] : k \in DOMAIN q}
<1>1. DOMAIN q = 1 .. Len(q) /\ Len(q) \in Nat
  OBVIOUS
<1>2. \A k \in DOMAIN q : f[k] \in R
  OBVIOUS
<1>3. f = [k \in 1 .. Len(q) |-> f[k]]
  BY <1>1
<1> HIDE DEF R
<1>4. f \in [1 .. Len(q) -> R]
  BY <1>1, <1>2, <1>3
<1>5. f \in Seq(R) /\ Len(f) = Len(q)
  BY <1>1, <1>4
<1> QED
  BY <1>5 DEF R

(* A disk in the table is one of a controller, or the boot volume, so what *)
(* can be read of it are sectors.                                          *)
IsAttached(disk) ==
  \/ disk.kind = "internal" /\ disk.index \in DOMAIN machine.internal
  \/ disk.kind = "usb" /\ disk.index \in DOMAIN machine.usb
  \/ disk.kind = "boot"

LEMMA ReadsSectors ==
  ASSUME machine \in Machines, NEW disk, IsAttached(disk), NEW lba, Readable(disk, lba)
  PROVE  IsSector(Sector(disk, lba))
<1>1. \A devices \in {machine.internal, machine.usb} :
        \A i \in DOMAIN devices : \A l \in DOMAIN devices[i].sectors :
          IsSector(devices[i].sectors[l])
  BY StorageAssumption
<1> HIDE DEF IsSector
<1>2. CASE disk.kind = "internal" /\ disk.index \in DOMAIN machine.internal
  <2>1. Sectors(disk) = machine.internal[disk.index].sectors
    BY <1>2 DEF Sectors
  <2> QED
    BY <1>1, <1>2, <2>1 DEF Readable, Sector
<1>3. CASE disk.kind = "usb" /\ disk.index \in DOMAIN machine.usb
  <2>1. Sectors(disk) = machine.usb[disk.index].sectors
    BY <1>3 DEF Sectors
  <2> QED
    BY <1>1, <1>3, <2>1 DEF Readable, Sector
<1>4. CASE disk.kind = "boot"
  <2>1. Sectors(disk) = <<>>
    BY <1>4 DEF Sectors
  <2>2. lba \in DOMAIN <<>>
    BY <2>1 DEF Readable
  <2> QED
    BY <2>2
<1> QED
  BY <1>2, <1>3, <1>4 DEF IsAttached

(* What is selected of a list, and cut off where the room ends.            *)
Fitting(parts) == (\E S : parts \in Seq(S)) /\ Len(parts) <= MaxPartitions

LEMMA SelectedFits ==
  ASSUME NEW list, NEW L, list \in Seq(L), NEW S \in SUBSET DOMAIN list, NEW used, NEW f,
         used = FirstOf(InOrder(S), MaxPartitions), f = [k \in DOMAIN used |-> f[k]]
  PROVE  Fitting(f)
<1>1. Len(list) \in Nat /\ S \in SUBSET (1 .. Len(list)) /\ MaxPartitions \in Nat
  BY StorageAssumption
<1>2. InOrder(S) \in Seq(S)
  BY <1>1, InOrderIs
<1>3. used \in Seq(S) /\ Len(used) <= MaxPartitions
  BY <1>1, <1>2, FirstOfIs
<1>4. f \in Seq({f[k] : k \in DOMAIN used}) /\ Len(f) = Len(used)
  BY <1>3, MapIs
<1> QED
  BY <1>3, <1>4 DEF Fitting

LEMMA MbrFits ==
  ASSUME NEW disk, NEW table, IsList(table)
  PROVE  Fitting(MbrPartitions(disk, table))
<1> DEFINE S == {i \in DOMAIN table : InUse(table[i])}
           used == FirstOf(InOrder(S), MaxPartitions)
           f == MbrPartitions(disk, table)
<1>1. S \in SUBSET DOMAIN table
  OBVIOUS
<1>2. f = [k \in DOMAIN used |-> Partition(disk, table[used[k]].first, table[used[k]].count)]
  BY Zenon DEF MbrPartitions
<1> HIDE DEF S, used, f
<1>3. f = [k \in DOMAIN used |-> f[k]]
  BY <1>2
<1>4. PICK L : table \in Seq(L)
  BY DEF IsList
<1>5. used = FirstOf(InOrder(S), MaxPartitions)
  BY DEF used
<1>6. Fitting(f)
  BY <1>1, <1>3, <1>4, <1>5, SelectedFits
<1> QED
  BY <1>6 DEF f

LEMMA NoneFits == Fitting(<<>>)
<1>1. <<>> \in Seq({}) /\ Len(<<>>) = 0 /\ MaxPartitions \in Nat
  BY StorageAssumption
<1> QED
  BY <1>1 DEF Fitting

LEMMA GptFits ==
  ASSUME machine \in Machines, NEW disk, IsAttached(disk), NEW header, header.sectors \in Nat
  PROVE  Fitting(GptPartitions(disk, header))
<1> DEFINE n == IF header.sectors < GptSectors THEN header.sectors ELSE GptSectors
           ok == \A i \in 1 .. n : Readable(disk, header.lba + i - 1)
           q == [i \in 1 .. n |-> Sector(disk, header.lba + i - 1).guids]
           guids == FlattenSeq(q)
           S == {i \in DOMAIN guids : IsVolume(guids[i])}
           used == FirstOf(InOrder(S), MaxPartitions)
           volume(guid) == Partition(disk, guid.first, guid.last - guid.first + 1)
           f == [k \in DOMAIN used |-> volume(guids[used[k]])]
<1>1. GptPartitions(disk, header) = IF header.wide /\ ok THEN f ELSE <<>>
  BY Zenon DEF GptPartitions
<1>2. n \in Nat
  BY StorageAssumption
<1>3. ASSUME ok PROVE Fitting(f)
  <2>1. \A i \in 1 .. n : IsList(q[i])
    <3> TAKE i \in 1 .. n
    <3>1. IsSector(Sector(disk, header.lba + i - 1))
      BY <1>3, ReadsSectors
    <3> QED
      BY <3>1 DEF IsSector
  <2>2. q = [i \in 1 .. n |-> q[i]]
    OBVIOUS
  <2> HIDE DEF n, ok, q
  <2> DEFINE D == [i \in 1 .. n |-> Range(q[i])]
  <2>3. \A i \in 1 .. n : q[i] \in Seq(D[i])
    BY <2>1 DEF IsList
  <2>4. q \in Seq({q[i] : i \in 1 .. n}) /\ Len(q) = n
    <3>1. PICK R : R = {q[i] : i \in 1 .. n}
      OBVIOUS
    <3>2. q \in [1 .. n -> R]
      BY <2>2, <3>1
    <3>3. q \in Seq(R) /\ Len(q) = n
      BY <1>2, <3>2
    <3> QED
      BY <3>1, <3>3
  <2> HIDE DEF D
  <2>5. guids \in Seq(Parts(D, n))
    BY <1>2, <2>3, <2>4, FlattenIs
  <2>6. S \in SUBSET DOMAIN guids
    OBVIOUS
  <2>7. f = [k \in DOMAIN used |-> f[k]]
    OBVIOUS
  <2> HIDE DEF guids, S, f
  <2>8. used = FirstOf(InOrder(S), MaxPartitions)
    OBVIOUS
  <2> HIDE DEF used
  <2> QED
    BY <2>5, <2>6, <2>7, <2>8, SelectedFits
<1> HIDE DEF f, ok
<1> QED
  BY <1>1, <1>3, NoneFits

(* The partitions found on a disk fit, with a table of either kind.        *)
LEMMA DetectedFits ==
  ASSUME machine \in Machines, NEW disk, IsAttached(disk), Fitting(disk.partitions)
  PROVE  Fitting(Detected(disk).partitions)
<1> DEFINE table == Sector(disk, 0).table
           gpt == Protective(table) /\ Readable(disk, 1)
           header == Sector(disk, 1).gpt
           mbr == IF gpt THEN Sector(disk, 1).table ELSE table
<1>1. \/ Detected(disk) = disk
      \/ /\ Readable(disk, 0) /\ gpt
         /\ Detected(disk) = [disk EXCEPT !.style = "GPT", !.partitions = GptPartitions(disk, header)]
      \/ /\ Readable(disk, 0)
         /\ Detected(disk) = [disk EXCEPT !.style = "MBR", !.partitions = MbrPartitions(disk, mbr)]
  BY Zenon DEF Detected
<1>2. ASSUME NEW style, NEW parts, Fitting(parts),
             Detected(disk) = [disk EXCEPT !.style = style, !.partitions = parts]
      PROVE  Fitting(Detected(disk).partitions)
  <2>1. PICK d : d = [disk EXCEPT !.style = style, !.partitions = parts]
    OBVIOUS
  <2>2. d.partitions \in {parts, disk.partitions}
    BY <2>1
  <2>3. Fitting(d.partitions)
    BY <1>2, <2>2
  <2> QED
    BY <1>2, <2>1, <2>3, Zenon
<1>3. ASSUME Readable(disk, 0), gpt PROVE Fitting(GptPartitions(disk, header))
  <2>1. IsSector(Sector(disk, 1))
    BY <1>3, ReadsSectors
  <2>2. header.sectors \in Nat
    BY <2>1 DEF IsSector
  <2> QED
    BY <2>2, GptFits
<1>4. ASSUME Readable(disk, 0) PROVE Fitting(MbrPartitions(disk, mbr))
  <2>1. IsSector(Sector(disk, 0)) /\ (gpt => IsSector(Sector(disk, 1)))
    BY <1>4, ReadsSectors
  <2>2. IsList(mbr)
    BY <2>1 DEF IsSector
  <2> QED
    BY <2>2, MbrFits
<1>5. CASE Detected(disk) = disk
  BY <1>5, Zenon
<1> HIDE DEF table, gpt, header, mbr
<1> QED
  BY <1>1, <1>2, <1>3, <1>4, <1>5, Zenon
-----------------------------------------------------------------------------
(* Which disk an entry of the table stands for: detection leaves it alone. *)
Is(e, kind, i) == e.kind = kind /\ e.index = i /\ Fitting(e.partitions)

LEMMA DetectedIs ==
  ASSUME machine \in Machines, NEW kind, NEW i, IsAttached(Disk(kind, i))
  PROVE  Is(Detected(Disk(kind, i)), kind, i)
<1> DEFINE Same(e) == e.kind = kind /\ e.index = i
<1>1. PICK d : d = Disk(kind, i)
  OBVIOUS
<1>2. d = [kind |-> kind, index |-> i, filesystem |-> "", style |-> "none", partitions |-> <<>>]
  BY <1>1 DEF Disk
<1>3. Same(d) /\ Fitting(d.partitions)
  BY <1>2, NoneFits
<1>4. \A style, parts : Same([d EXCEPT !.style = style, !.partitions = parts])
  BY <1>2
<1>5. \/ Detected(d) = d
      \/ \E style, parts : Detected(d) = [d EXCEPT !.style = style, !.partitions = parts]
  BY Zenon DEF Detected
<1> HIDE DEF Same
<1>6. ASSUME Detected(d) = d
      PROVE  Same(Detected(d))
  BY <1>3, <1>6, Zenon
<1>7. ASSUME NEW style, NEW parts, Detected(d) = [d EXCEPT !.style = style, !.partitions = parts]
      PROVE  Same(Detected(d))
  <2>1. Same([d EXCEPT !.style = style, !.partitions = parts])
    BY <1>4
  <2> QED
    BY <1>7, <2>1, Zenon
<1>8. Fitting(Detected(d).partitions)
  BY <1>1, <1>3, DetectedFits
<1>9. Same(Detected(d))
  BY <1>3, <1>5, <1>6, <1>7
<1> QED
  BY <1>1, <1>8, <1>9 DEF Is, Same

LEMMA BootIs ==
  ASSUME NEW fs
  PROVE  Is([Disk("boot", 1) EXCEPT !.filesystem = fs], "boot", 1)
BY NoneFits DEF Is, Disk

(* The disks of a controller are numbered from 1 on.                       *)
LEMMA Numbered ==
  ASSUME NEW kind, NEW devices, IsList(devices)
  PROVE  \E n \in Nat : /\ DOMAIN devices = 1 .. n /\ DOMAIN DisksOf(kind, devices) = 1 .. n
                        /\ \A i \in 1 .. n : DisksOf(kind, devices)[i] = Disk(kind, i)
<1>1. PICK n \in Nat : DOMAIN devices = 1 .. n
  <2>1. DOMAIN devices = 1 .. Len(devices) /\ Len(devices) \in Nat
    BY DEF IsList
  <2> QED
    BY <2>1
<1>2. DisksOf(kind, devices) = [i \in 1 .. n |-> Disk(kind, i)]
  BY <1>1 DEF DisksOf
<1> QED
  BY <1>1, <1>2

(* A table in which l entries are the internal disks, numbered as they     *)
(* are, and perhaps the boot volume, and the others are the USB disks; it  *)
(* is full or has all n and m of them.                                     *)
InOrderOf(t, n, m, l) ==
  /\ Len(t) <= MaxDisks /\ l \in 0 .. Len(t)
  /\ \A i \in 1 .. l : IF i <= n THEN Is(t[i], "internal", i) ELSE i = n + 1 /\ Is(t[i], "boot", 1)
  /\ \A i \in l + 1 .. Len(t) : Is(t[i], "usb", i - l) /\ i - l <= m
  /\ Len(t) = MaxDisks \/ (l >= n /\ Len(t) = l + m)

(* storage_init and storage_register_boot_volume.                          *)
LEMMA InternalFirst ==
  ASSUME machine \in Machines, NEW x
  PROVE  \E n, S : LET t == BootVolume(StorageInit(x)) IN
           /\ n \in Nat /\ DOMAIN machine.internal = 1 .. n /\ t \in Seq(S) /\ InOrderOf(t, n, 0, Len(t))
<1>1. IsList(machine.internal) /\ MaxDisks \in Nat \ {0}
  BY StorageAssumption
<1> DEFINE q == DisksOf("internal", machine.internal)
<1>2. PICK n \in Nat : /\ DOMAIN machine.internal = 1 .. n /\ DOMAIN q = 1 .. n
                       /\ \A i \in 1 .. n : q[i] = Disk("internal", i)
  BY <1>1, Numbered
<1> DEFINE boot == [Disk("boot", 1) EXCEPT !.filesystem = machine.boot]
           S == {Detected(q[i]) : i \in 1 .. n} \union {boot}
           t1 == StorageInit(x)
<1>3. t1 = FoldLeft(Register, <<>>, q)
  BY Zenon DEF StorageInit
<1> HIDE DEF q, t1
<1>4. <<>> \in Seq(S) /\ Len(<<>>) = 0 /\ Len(<<>>) <= MaxDisks /\ \A i \in 1 .. n : Detected(q[i]) \in S
  <2>1. \A i \in 1 .. n : Detected(q[i]) \in S
    OBVIOUS
  <2> HIDE DEF S
  <2> QED
    BY <1>1, <2>1
<1>5. boot \in S /\ Is(boot, "boot", 1)
  BY BootIs
<1> HIDE DEF S, boot
<1>6. t1 \in Seq(S) /\ Added(t1, <<>>, q, n)
  BY <1>2, <1>3, <1>4, AddAll
<1>7. /\ Len(t1) \in Nat /\ Len(t1) <= MaxDisks /\ Len(t1) <= n
      /\ Len(t1) = MaxDisks \/ Len(t1) = n
      /\ \A i \in 1 .. Len(t1) : Is(t1[i], "internal", i)
  <2>1. /\ Len(t1) \in Nat /\ Len(t1) <= MaxDisks /\ Len(t1) <= n
        /\ Len(t1) = MaxDisks \/ Len(t1) = n
    BY <1>1, <1>4, <1>6 DEF Added
  <2>2. \A i \in 1 .. Len(t1) : t1[i] = Detected(q[i])
    BY <1>1, <1>4, <1>6 DEF Added
  <2>3. \A i \in 1 .. Len(t1) : t1[i] = Detected(Disk("internal", i))
    BY <1>2, <2>1, <2>2
  <2>4. \A i \in 1 .. Len(t1) : IsAttached(Disk("internal", i))
    <3> TAKE i \in 1 .. Len(t1)
    <3>1. i \in DOMAIN machine.internal
      BY <1>2, <2>1
    <3> QED
      BY <3>1 DEF IsAttached, Disk
  <2> QED
    BY <2>1, <2>3, <2>4, DetectedIs
<1> DEFINE t == BootVolume(StorageInit(x))
<1>8. \/ t = t1
      \/ Len(t1) < MaxDisks /\ t = Append(t1, boot)
  BY <1>1, <1>7, SMT DEF BootVolume, t1, boot
<1> HIDE DEF t
<1>9. t \in Seq(S) /\ InOrderOf(t, n, 0, Len(t))
  <2>1. CASE t = t1
    BY <1>1, <1>6, <1>7, <2>1 DEF InOrderOf
  <2>2. CASE Len(t1) < MaxDisks /\ t = Append(t1, boot)
    <3>1. /\ t \in Seq(S) /\ Len(t) = n + 1 /\ t[n + 1] = boot /\ Len(t1) = n
          /\ \A i \in 1 .. n : t[i] = t1[i]
      BY <1>1, <1>5, <1>6, <1>7, <2>2
    <3>2. \A i \in 1 .. Len(t) :
            IF i <= n THEN Is(t[i], "internal", i) ELSE i = n + 1 /\ Is(t[i], "boot", 1)
      BY <1>5, <1>7, <3>1
    <3> QED
      BY <1>1, <2>2, <3>1, <3>2 DEF InOrderOf
  <2> QED
    BY <1>8, <2>1, <2>2
<1> QED
  BY <1>2, <1>9 DEF t

(* usb_init, which adds its disks behind those that are there.             *)
LEMMA UsbBehind ==
  ASSUME machine \in Machines, NEW S, NEW t \in Seq(S), NEW n \in Nat, InOrderOf(t, n, 0, Len(t))
  PROVE  \E m, R : /\ m \in Nat /\ DOMAIN machine.usb = 1 .. m /\ UsbInit(t) \in Seq(R)
                   /\ InOrderOf(UsbInit(t), n, m, Len(t))
<1>1. IsList(machine.usb) /\ MaxDisks \in Nat \ {0}
  BY StorageAssumption
<1> DEFINE q == DisksOf("usb", machine.usb)
<1>2. PICK m \in Nat : /\ DOMAIN machine.usb = 1 .. m /\ DOMAIN q = 1 .. m
                       /\ \A i \in 1 .. m : q[i] = Disk("usb", i)
  BY <1>1, Numbered
<1> DEFINE R == {Detected(q[i]) : i \in 1 .. m} \union S
           u == UsbInit(t)
<1>3. u = FoldLeft(Register, t, q)
  BY Zenon DEF UsbInit
<1> HIDE DEF q, u
<1>4. \A i \in 1 .. m : Detected(q[i]) \in R
  OBVIOUS
<1>5. S \subseteq R
  OBVIOUS
<1> HIDE DEF R
<1>6. t \in Seq(R) /\ Len(t) \in Nat /\ Len(t) <= MaxDisks
  BY <1>5 DEF InOrderOf
<1>7. u \in Seq(R) /\ Added(u, t, q, m)
  BY <1>2, <1>3, <1>4, <1>6, AddAll
<1> DEFINE l == Len(t)
<1>8. /\ Len(u) \in Nat /\ Len(u) <= MaxDisks /\ l \in 0 .. Len(u) /\ Len(u) - l <= m
      /\ Len(u) = MaxDisks \/ Len(u) = l + m
  BY <1>1, <1>6, <1>7 DEF Added
<1>9. \A i \in 1 .. Len(u) : u[i] = IF i <= l THEN t[i] ELSE Detected(q[i - l])
  BY <1>7 DEF Added
<1>10. \A i \in 1 .. l : IF i <= n THEN Is(u[i], "internal", i)
                         ELSE i = n + 1 /\ Is(u[i], "boot", 1)
  BY <1>6, <1>8, <1>9 DEF InOrderOf
<1>11. \A i \in l + 1 .. Len(u) : Is(u[i], "usb", i - l) /\ i - l <= m
  <2> TAKE i \in l + 1 .. Len(u)
  <2>1. i \in 1 .. Len(u) /\ ~ i <= l /\ i - l \in 1 .. m
    BY <1>6, <1>8
  <2>2. u[i] = Detected(Disk("usb", i - l))
    BY <1>2, <1>9, <2>1
  <2>3. IsAttached(Disk("usb", i - l))
    BY <1>2, <2>1 DEF IsAttached, Disk
  <2> QED
    BY <2>1, <2>2, <2>3, DetectedIs
<1>12. Len(u) = MaxDisks \/ (l >= n /\ Len(u) = l + m)
  BY <1>1, <1>6, <1>8 DEF InOrderOf
<1>13. InOrderOf(u, n, m, l)
  BY <1>8, <1>10, <1>11, <1>12 DEF InOrderOf
<1> QED
  BY <1>2, <1>7, <1>13 DEF u, l

(* DisksOnce of a table.                                                   *)
OnceIn(t, first) ==
  LET table == {<<t[i].kind, t[i].index>> : i \in DOMAIN t} \ {<<"boot", 1>>}
  IN  /\ table \subseteq Internal \union External
      /\ \/ Len(t) = MaxDisks
         \/ Internal \union (IF first THEN {} ELSE External) \subseteq table
      /\ \A i, j \in DOMAIN t :
           <<t[i].kind, t[i].index>> = <<t[j].kind, t[j].index>> => i = j

LEMMA OrderIsOnce ==
  ASSUME NEW n \in Nat, NEW m \in Nat, NEW k \in Nat, NEW S, NEW t \in Seq(S), NEW l,
         DOMAIN machine.internal = 1 .. n, DOMAIN machine.usb = 1 .. k, InOrderOf(t, n, m, l),
         NEW first \in BOOLEAN, m = k \/ (m = 0 /\ first)
  PROVE  OnceIn(t, first)
<1> DEFINE Name(i) == <<t[i].kind, t[i].index>>
           table == {Name(i) : i \in DOMAIN t} \ {<<"boot", 1>>}
<1>1. /\ Len(t) \in Nat /\ DOMAIN t = 1 .. Len(t) /\ l \in 0 .. Len(t)
  BY DEF InOrderOf
<1>2. \A i \in DOMAIN t :
        \/ i <= l /\ i <= n /\ Name(i) = <<"internal", i>>
        \/ i <= l /\ i = n + 1 /\ Name(i) = <<"boot", 1>>
        \/ i > l /\ i - l \in 1 .. m /\ Name(i) = <<"usb", i - l>>
  <2> TAKE i \in DOMAIN t
  <2>1. i \in 1 .. Len(t) /\ (i \in 1 .. l \/ i \in l + 1 .. Len(t))
    BY <1>1
  <2>2. CASE i \in 1 .. l /\ i <= n
    <3>1. Is(t[i], "internal", i)
      BY <2>2 DEF InOrderOf
    <3> QED
      BY <2>2, <3>1 DEF Is
  <2>3. CASE i \in 1 .. l /\ ~ i <= n
    <3>1. i = n + 1 /\ Is(t[i], "boot", 1)
      BY <2>3 DEF InOrderOf
    <3> QED
      BY <2>3, <3>1 DEF Is
  <2>4. CASE i \in l + 1 .. Len(t)
    <3>1. Is(t[i], "usb", i - l) /\ i - l <= m
      BY <2>4 DEF InOrderOf
    <3>2. i > l /\ i - l \in 1 .. m
      BY <1>1, <2>4, <3>1
    <3> QED
      BY <3>1, <3>2 DEF Is
  <2> QED
    BY <2>1, <2>2, <2>3, <2>4
<1>3. \A x \in table : x \in Internal \union External
  <2> TAKE x \in table
  <2>1. PICK i \in DOMAIN t : x = Name(i) /\ x # <<"boot", 1>>
    OBVIOUS
  <2> HIDE DEF Name, table
  <2>2. CASE i <= n /\ x = <<"internal", i>>
    <3>1. i \in DOMAIN machine.internal
      BY <1>1, <2>2
    <3> QED
      BY <2>2, <3>1 DEF Internal
  <2>3. CASE i - l \in 1 .. m /\ x = <<"usb", i - l>>
    <3>1. i - l \in DOMAIN machine.usb
      BY <2>3
    <3> QED
      BY <2>3, <3>1 DEF External
  <2> QED
    BY <1>2, <2>1, <2>2, <2>3
<1>4. \A i, j \in DOMAIN t : Name(i) = Name(j) => i = j
  <2> TAKE i, j \in DOMAIN t
  <2> HAVE Name(i) = Name(j)
  <2> HIDE DEF Name
  <2> QED
    BY <1>1, <1>2
<1>5. ASSUME Len(t) # MaxDisks
      PROVE  Internal \union (IF first THEN {} ELSE External) \subseteq table
  <2>1. l >= n /\ Len(t) = l + m
    BY <1>5 DEF InOrderOf
  <2>2. \A x \in Internal : x \in table
    <3> TAKE x \in Internal
    <3>1. PICK i \in 1 .. n : x = <<"internal", i>>
      BY DEF Internal
    <3>2. i \in DOMAIN t /\ i <= l /\ i <= n /\ ~ i > l /\ i # n + 1
      BY <1>1, <2>1
    <3>3. Name(i) = <<"internal", i>>
      BY <1>2, <3>2
    <3> QED
      BY <3>1, <3>2, <3>3
  <2>3. ASSUME ~ first PROVE \A x \in External : x \in table
    <3> TAKE x \in External
    <3>1. PICK i \in 1 .. m : x = <<"usb", i>>
      BY <2>3 DEF External
    <3>2. l + i \in DOMAIN t /\ l + i > l /\ ~ l + i <= l /\ (l + i) - l = i
      BY <1>1, <2>1
    <3>3. Name(l + i) = <<"usb", i>>
      BY <1>2, <3>2
    <3> QED
      BY <3>1, <3>2, <3>3
  <2> QED
    BY <2>2, <2>3
<1> QED
  BY <1>3, <1>4, <1>5 DEF OnceIn

(* The partitions of each have room.                                       *)
Roomy(t) == \A i \in DOMAIN t : Fitting(t[i].partitions)

LEMMA OrderIsRoomy ==
  ASSUME NEW n, NEW m, NEW S, NEW t \in Seq(S), NEW l, InOrderOf(t, n, m, l)
  PROVE  Roomy(t)
<1>1. /\ Len(t) \in Nat /\ DOMAIN t = 1 .. Len(t) /\ l \in 0 .. Len(t)
  BY DEF InOrderOf
<1>2. ASSUME NEW i \in DOMAIN t PROVE Fitting(t[i].partitions)
  <2>1. i \in 1 .. l \/ i \in l + 1 .. Len(t)
    BY <1>1
  <2>2. Is(t[i], "internal", i) \/ Is(t[i], "boot", 1) \/ Is(t[i], "usb", i - l)
    BY <2>1 DEF InOrderOf
  <2> QED
    BY <2>2 DEF Is
<1> QED
  BY <1>2 DEF Roomy
-----------------------------------------------------------------------------
(* What the shell's flags say of the table: the storage is not scanned     *)
(* without USB, and where USB was scanned alone the history knows.  Once   *)
(* both are, the table stays, and with it the letters made from it.        *)
ScanInv ==
  /\ machine \in Machines
  /\ {storage_scanned, usb_scanned, usb_first} \subseteq BOOLEAN
  /\ \E S : disks \in Seq(S)
  /\ Len(disks) <= MaxDisks /\ Roomy(disks)
  /\ storage_scanned => usb_scanned /\ OnceIn(disks, usb_first)
  /\ ~storage_scanned => IF usb_scanned THEN usb_first ELSE disks = <<>>
ReadyInv == vfs_ready \in BOOLEAN /\ (vfs_ready => storage_scanned)

(* The table after ScanAll.                                                *)
LEMMA AllScanned ==
  ASSUME ScanInv
  PROVE  LET t == UsbReady(StorageReady(disks)) IN
           (\E S : t \in Seq(S)) /\ Len(t) <= MaxDisks /\ Roomy(t) /\ OnceIn(t, usb_first)
<1> DEFINE t == UsbReady(StorageReady(disks))
<1>1. CASE storage_scanned
  <2>1. t = disks
    BY <1>1 DEF ScanInv, UsbReady, StorageReady
  <2> QED
    BY <1>1, <2>1 DEF ScanInv
<1>2. CASE ~storage_scanned
  <2> DEFINE b == BootVolume(StorageInit(disks))
  <2>1. machine \in Machines /\ usb_first \in BOOLEAN /\ usb_scanned \in BOOLEAN
    BY DEF ScanInv
  <2>2. PICK n, S : /\ n \in Nat /\ DOMAIN machine.internal = 1 .. n /\ b \in Seq(S)
                    /\ InOrderOf(b, n, 0, Len(b))
    BY <2>1, InternalFirst
  <2> HIDE DEF b
  <2>3. IsList(machine.usb)
    BY <2>1, StorageAssumption
  <2>4. PICK k \in Nat : DOMAIN machine.usb = 1 .. k
    BY <2>3, Numbered
  <2>5. CASE usb_scanned
    <3>1. t = b /\ usb_first
      BY <1>2, <2>5 DEF ScanInv, UsbReady, StorageReady, b
    <3>2. 0 \in Nat /\ (0 = k \/ (0 = 0 /\ usb_first))
      BY <3>1
    <3>3. OnceIn(b, usb_first)
      BY <2>1, <2>2, <2>4, <3>2, OrderIsOnce
    <3>4. Roomy(b)
      BY <2>2, OrderIsRoomy
    <3> QED
      BY <2>2, <3>1, <3>3, <3>4 DEF InOrderOf
  <2>6. CASE ~usb_scanned
    <3> DEFINE u == UsbInit(b)
    <3>1. t = u
      BY <1>2, <2>6 DEF UsbReady, StorageReady, b
    <3>2. PICK m, R : /\ m \in Nat /\ DOMAIN machine.usb = 1 .. m /\ u \in Seq(R)
                      /\ InOrderOf(u, n, m, Len(b))
      BY <2>1, <2>2, UsbBehind
    <3> HIDE DEF u
    <3>3. OnceIn(u, usb_first)
      BY <2>1, <2>2, <3>2, OrderIsOnce
    <3>4. Roomy(u)
      BY <3>2, OrderIsRoomy
    <3> QED
      BY <3>1, <3>2, <3>3, <3>4 DEF InOrderOf
  <2> QED
    BY <2>1, <2>5, <2>6
<1> QED
  BY <1>1, <1>2 DEF ScanInv

(* The table after ScanUsb in the beginning.                               *)
LEMMA UsbAlone ==
  ASSUME machine \in Machines
  PROVE  /\ \E S : UsbInit(<<>>) \in Seq(S)
         /\ Len(UsbInit(<<>>)) <= MaxDisks /\ Roomy(UsbInit(<<>>))
<1>1. /\ <<>> \in Seq({}) /\ Len(<<>>) = 0 /\ 0 \in Nat /\ MaxDisks \in Nat
  BY StorageAssumption
<1>2. InOrderOf(<<>>, 0, 0, Len(<<>>))
  BY <1>1 DEF InOrderOf
<1>3. PICK m, R : m \in Nat /\ UsbInit(<<>>) \in Seq(R) /\ InOrderOf(UsbInit(<<>>), 0, m, Len(<<>>))
  BY <1>1, <1>2, UsbBehind
<1>4. Roomy(UsbInit(<<>>))
  BY <1>3, OrderIsRoomy
<1> QED
  BY <1>3, <1>4 DEF InOrderOf

LEMMA ScanInit == Init => ScanInv /\ ReadyInv
<1> SUFFICES ASSUME Init PROVE ScanInv /\ ReadyInv
  OBVIOUS
<1> USE DEF Init, StorageStart
<1>1. \E S : disks \in Seq(S)
  <2>1. disks \in Seq({})
    OBVIOUS
  <2> QED
    BY <2>1
<1>2. Len(disks) <= MaxDisks
  BY StorageAssumption
<1>3. Roomy(disks)
  BY DEF Roomy
<1> QED
  BY <1>1, <1>2, <1>3 DEF ScanInv, ReadyInv

LEMMA ScanAllStep ==
  ASSUME ScanInv, ScanAll
  PROVE  ScanInv' /\ (storage_scanned => disks' = disks) /\ storage_scanned'
<1> DEFINE t == UsbReady(StorageReady(disks))
<1>1. /\ disks' = t /\ storage_scanned' = TRUE /\ usb_scanned' = TRUE
      /\ machine' = machine /\ usb_first' = usb_first
  BY DEF ScanAll
<1>2. (\E S : t \in Seq(S)) /\ Len(t) <= MaxDisks /\ Roomy(t) /\ OnceIn(t, usb_first)
  BY AllScanned
<1>3. storage_scanned => t = disks
  BY DEF ScanInv, UsbReady, StorageReady
<1> HIDE DEF t
<1>4. OnceIn(disks, usb_first)' /\ Roomy(disks)'
  BY <1>1, <1>2 DEF OnceIn, Internal, External, Roomy, Fitting
<1> QED
  BY <1>1, <1>2, <1>3, <1>4 DEF ScanInv

LEMMA ScanUsbStep ==
  ASSUME ScanInv, ScanUsb
  PROVE  ScanInv' /\ (storage_scanned => disks' = disks) /\ storage_scanned' = storage_scanned
<1>1. /\ disks' = UsbReady(disks) /\ usb_scanned' = TRUE /\ storage_scanned' = storage_scanned
      /\ machine' = machine /\ usb_first' = (usb_first \/ ~storage_scanned)
  BY DEF ScanUsb
<1>2. CASE usb_scanned
  <2>1. disks' = disks
    BY <1>1, <1>2 DEF UsbReady
  <2>2. usb_first' = usb_first
    BY <1>1, <1>2 DEF ScanInv
  <2>3. /\ OnceIn(disks, usb_first)' <=> OnceIn(disks, usb_first)
        /\ Roomy(disks)' <=> Roomy(disks)
    BY <1>1, <2>1, <2>2 DEF OnceIn, Internal, External, Roomy, Fitting
  <2> QED
    BY <1>1, <1>2, <2>1, <2>2, <2>3 DEF ScanInv
<1>3. CASE ~usb_scanned
  <2>1. ~storage_scanned /\ disks = <<>>
    BY <1>3 DEF ScanInv
  <2>2. disks' = UsbInit(<<>>) /\ usb_first' = TRUE
    BY <1>1, <1>3, <2>1 DEF UsbReady
  <2>3. /\ \E S : UsbInit(<<>>) \in Seq(S)
        /\ Len(UsbInit(<<>>)) <= MaxDisks /\ Roomy(UsbInit(<<>>))
    BY UsbAlone DEF ScanInv
  <2>4. Roomy(disks)'
    BY <2>2, <2>3 DEF Roomy, Fitting
  <2> QED
    BY <1>1, <2>1, <2>2, <2>3, <2>4 DEF ScanInv
<1> QED
  BY <1>2, <1>3

(* No other step touches the table or the letters.                         *)
LEMMA OthersRead ==
  ASSUME (\E what \in {"list", "read", "stat"}, typed \in Paths : Command(what, typed))
           \/ Proceed \/ UNCHANGED vars
  PROVE  UNCHANGED <<storage, drives, vfs_ready>>
<1>1. ASSUME NEW what, NEW typed, Command(what, typed)
      PROVE  UNCHANGED <<storage, drives, vfs_ready>>
  BY <1>1 DEF Command
<1>2. CASE UNCHANGED vars
  BY <1>2 DEF vars, files
<1>3. CASE Proceed
  <2>1. Step
    BY <1>3 DEF Proceed
  <2>2. ASSUME NEW ok, NEW value, Return(ok, value)
        PROVE  UNCHANGED <<storage, drives, vfs_ready>>
    BY <2>2 DEF Return
  <2>3. ASSUME NEW label, NEW c, Walk(label, c)
        PROVE  UNCHANGED <<storage, drives, vfs_ready>>
    BY <2>3 DEF Walk
  <2>4. NextSector => UNCHANGED <<storage, drives, vfs_ready>>
    BY DEF NextSector
  <2>5. NextCluster => UNCHANGED <<storage, drives, vfs_ready>>
    BY DEF NextCluster
  <2>6. Resolve \/ Open => UNCHANGED <<storage, drives, vfs_ready>>
    BY <2>3 DEF Resolve, Open
  <2>7. SectorFails \/ FatFails \/ NotFound \/ Stat \/ Refuse \/ ListEnds \/ ReadEnds
          => UNCHANGED <<storage, drives, vfs_ready>>
    BY <2>2, Zenon DEF SectorFails, FatFails, NotFound, Stat, Refuse, ListEnds, ReadEnds
  <2>8. FindInSector => UNCHANGED <<storage, drives, vfs_ready>>
    BY <2>2, <2>3, <2>4, Zenon DEF FindInSector
  <2>9. ListSector => UNCHANGED <<storage, drives, vfs_ready>>
    BY <2>2, <2>4, Zenon DEF ListSector
  <2>10. ReadSector => UNCHANGED <<storage, drives, vfs_ready>>
    BY <2>4 DEF ReadSector
  <2> QED
    BY <2>1, <2>5, <2>6, <2>7, <2>8, <2>9, <2>10 DEF Step
<1> QED
  BY <1>1, <1>2, <1>3

(* The letters are made once, from the table at that time, and neither     *)
(* they nor the table change any more.                                     *)
LettersStep ==
  IF vfs_ready THEN UNCHANGED <<disks, drives, vfs_ready>>
  ELSE vfs_ready' => storage_scanned' /\ usb_scanned' /\ drives' = DrivesOf(disks')

LEMMA ScanNext ==
  ASSUME ScanInv, ReadyInv, [Next]_vars
  PROVE  ScanInv' /\ ReadyInv' /\ LettersStep
<1>1. CASE CmdDisk
  <2>1. ScanAll /\ UNCHANGED <<drives, vfs_ready>>
    BY <1>1 DEF CmdDisk, files
  <2>2. ScanInv' /\ (storage_scanned => disks' = disks) /\ storage_scanned'
    BY <2>1, ScanAllStep
  <2> QED
    BY <2>1, <2>2 DEF ReadyInv, LettersStep
<1>2. CASE CmdUsb
  <2>1. ScanUsb /\ UNCHANGED <<drives, vfs_ready>>
    BY <1>2 DEF CmdUsb, files
  <2>2. ScanInv' /\ (storage_scanned => disks' = disks) /\ storage_scanned' = storage_scanned
    BY <2>1, ScanUsbStep
  <2> QED
    BY <2>1, <2>2 DEF ReadyInv, LettersStep
<1>3. CASE CmdVol
  <2>1. ScanAll /\ ~vfs_ready /\ vfs_ready' = TRUE /\ drives' = DrivesOf(disks')
    BY <1>3, Zenon DEF CmdVol
  <2>2. ScanInv' /\ storage_scanned' /\ usb_scanned'
    BY <2>1, ScanAllStep DEF ScanAll
  <2> HIDE DEF DrivesOf
  <2> QED
    BY <2>1, <2>2 DEF ReadyInv, LettersStep
<1>4. CASE (\E what \in {"list", "read", "stat"}, typed \in Paths : Command(what, typed))
             \/ Proceed \/ UNCHANGED vars
  <2>1. UNCHANGED <<storage, drives, vfs_ready>>
    BY <1>4, OthersRead
  <2>2. UNCHANGED <<machine, disks, storage_scanned, usb_scanned, usb_first, drives, vfs_ready>>
    BY <2>1 DEF storage
  <2>3. /\ OnceIn(disks, usb_first)' <=> OnceIn(disks, usb_first)
        /\ Roomy(disks)' <=> Roomy(disks)
    BY <2>2 DEF OnceIn, Internal, External, Roomy, Fitting
  <2> QED
    BY <2>2, <2>3 DEF ScanInv, ReadyInv, LettersStep
<1> QED
  BY <1>1, <1>2, <1>3, <1>4, Zenon DEF Next

LEMMA ScanInductive == Spec => [](ScanInv /\ ReadyInv) /\ [][LettersStep]_vars
<1>1. ScanInv /\ ReadyInv /\ [Next]_vars => (ScanInv /\ ReadyInv)'
  BY ScanNext
<1>2. ScanInv /\ ReadyInv /\ [Next]_vars => [LettersStep]_vars
  BY ScanNext
<1> QED
  BY <1>1, <1>2, ScanInit, PTL DEF Spec

(* In whatever order the commands scan, on every machine: no disk is twice *)
(* in g_disks, none is there that is not attached, and all are there that  *)
(* there is room for, but the USB disks where usb came before storage.     *)
THEOREM EachDiskOnce == Spec => []DisksOnce
<1>1. ScanInv => DisksOnce
  BY DEF ScanInv, DisksOnce, OnceIn
<1> QED
  BY <1>1, ScanInductive, PTL

(* storage_register_usb_disk and the others never write behind g_disks.    *)
THEOREM TableFits == Spec => [](Len(disks) \in 0 .. MaxDisks)
<1>1. ScanInv => Len(disks) \in 0 .. MaxDisks
  BY StorageAssumption DEF ScanInv
<1> QED
  BY <1>1, ScanInductive, PTL

(* A letter stands for the same volume for ever: vfs_init makes the drives *)
(* after all scans, and no command changes g_disks or g_drives after it,   *)
(* though every drive is kept as two indexes into g_disks.                 *)
THEOREM LettersStay == Spec => [][LettersStep]_vars
BY ScanInductive, PTL
-----------------------------------------------------------------------------
(* A drive is a pair of indexes that lead to a partition, and the boot     *)
(* sector there is readable and that of a volume.                          *)
MountedIn(table, drive) ==
  /\ drive.disk \in DOMAIN table
  /\ drive.partition \in DOMAIN table[drive.disk].partitions
  /\ Mountable(table[drive.disk], table[drive.disk].partitions[drive.partition])
MadeFrom(table, letters) ==
  /\ \E S : letters \in Seq(S)
  /\ Len(letters) <= MaxDrives
  /\ \A i \in DOMAIN letters : MountedIn(table, letters[i])
  /\ Distinct(letters)

LEMMA PartitionsOfIs ==
  ASSUME NEW table, NEW d \in DOMAIN table, Fitting(table[d].partitions)
  PROVE  /\ PartitionsOf(table, d) \in Seq({x \in {Drive(d, p) : p \in DOMAIN table[d].partitions} :
                                              MountedIn(table, x)})
         /\ Distinct(PartitionsOf(table, d))
<1> DEFINE parts == table[d].partitions
           S == {p \in DOMAIN parts : Mountable(table[d], parts[p])}
           order == InOrder(S)
           f == PartitionsOf(table, d)
           G == {x \in {Drive(d, p) : p \in DOMAIN parts} : MountedIn(table, x)}
<1>1. f = [k \in DOMAIN order |-> Drive(d, order[k])]
  BY Zenon DEF PartitionsOf
<1>2. ASSUME NEW p \in S PROVE Drive(d, p) \in G
  <2>1. Drive(d, p).disk = d /\ Drive(d, p).partition = p
    BY DEF Drive
  <2>2. MountedIn(table, Drive(d, p))
    BY <2>1 DEF MountedIn
  <2> QED
    BY <2>2
<1>3. \A p, r : Drive(d, p) = Drive(d, r) => p = r
  BY DEF Drive
<1>4. PICK n \in Nat : S \in SUBSET (1 .. n)
  <2>1. PICK R : parts \in Seq(R)
    BY DEF Fitting
  <2>2. Len(parts) \in Nat /\ DOMAIN parts = 1 .. Len(parts)
    BY <2>1
  <2> QED
    BY <2>2
<1> HIDE DEF S, f, G
<1>5. /\ order \in Seq(S)
      /\ \A k, l \in DOMAIN order : order[k] = order[l] => k = l
  BY <1>4, InOrderIs
<1> HIDE DEF order
<1>6. \A k \in DOMAIN order : order[k] \in S
  BY <1>5
<1>7. f \in Seq(G)
  <2>1. DOMAIN order = 1 .. Len(order) /\ Len(order) \in Nat
    BY <1>5
  <2>2. f \in [1 .. Len(order) -> G]
    BY <1>1, <1>2, <1>6, <2>1
  <2> QED
    BY <2>1, <2>2
<1>8. Distinct(f)
  <2> SUFFICES ASSUME NEW k \in DOMAIN f, NEW l \in DOMAIN f, f[k] = f[l] PROVE k = l
    BY DEF Distinct
  <2>1. k \in DOMAIN order /\ l \in DOMAIN order
    BY <1>1
  <2>2. Drive(d, order[k]) = Drive(d, order[l])
    BY <1>1, <2>1
  <2> QED
    BY <1>3, <1>5, <2>1, <2>2
<1> QED
  BY <1>7, <1>8 DEF f, G

(* vfs_init.                                                               *)
LEMMA DrivesOfIs ==
  ASSUME NEW S, NEW table \in Seq(S), Roomy(table)
  PROVE  MadeFrom(table, DrivesOf(table))
<1> DEFINE n == Len(table)
           q == [d \in DOMAIN table |-> PartitionsOf(table, d)]
           Of(d) == {x \in {Drive(d, p) : p \in DOMAIN table[d].partitions} : MountedIn(table, x)}
           D == [d \in 1 .. n |-> Of(d)]
           all == FlattenSeq(q)
<1>1. n \in Nat /\ DOMAIN table = 1 .. n /\ MaxDrives \in Nat
  BY Fat32Assumption
<1>2. \A d \in 1 .. n : PartitionsOf(table, d) \in Seq(Of(d)) /\ Distinct(PartitionsOf(table, d))
  <2> TAKE d \in 1 .. n
  <2>1. d \in DOMAIN table /\ Fitting(table[d].partitions)
    BY <1>1 DEF Roomy
  <2> QED
    BY <2>1, PartitionsOfIs
<1>3. \A d \in 1 .. n : \A x \in Of(d) : x.disk = d /\ MountedIn(table, x)
  BY DEF Drive
<1>4. q = [d \in 1 .. n |-> PartitionsOf(table, d)]
  BY <1>1
<1>5. DrivesOf(table) = FirstOf(all, MaxDrives)
  BY Zenon DEF DrivesOf
<1> HIDE DEF n, q, Of, all
<1>6. \A d \in 1 .. n : q[d] \in Seq(D[d]) /\ Distinct(q[d])
  BY <1>2, <1>4
<1>7. \A d, e \in 1 .. n : d # e => D[d] \intersect D[e] = {}
  BY <1>3
<1>8. \A d \in 1 .. n : \A x \in D[d] : MountedIn(table, x)
  BY <1>3
<1> HIDE DEF D
<1>9. q \in Seq({PartitionsOf(table, d) : d \in 1 .. n}) /\ Len(q) = n
  <2>1. PICK R : R = {PartitionsOf(table, d) : d \in 1 .. n}
    OBVIOUS
  <2>2. q \in [1 .. n -> R]
    BY <1>4, <2>1
  <2>3. q \in Seq(R) /\ Len(q) = n
    BY <1>1, <2>2
  <2> QED
    BY <2>1, <2>3
<1>10. Apart(D, q, n)
  BY <1>6, <1>7 DEF Apart
<1>11. all \in Seq(Parts(D, n)) /\ Distinct(all)
  <2>1. \A d \in 1 .. n : q[d] \in Seq(D[d])
    BY <1>6
  <2>2. FlattenSeq(q) \in Seq(Parts(D, n)) /\ (Apart(D, q, n) => Distinct(FlattenSeq(q)))
    BY <1>1, <1>9, <2>1, FlattenIs
  <2> QED
    BY <1>10, <2>2 DEF all
<1>12. PICK A, a, b : A = Parts(D, n) /\ a = all /\ b = FirstOf(all, MaxDrives)
  OBVIOUS
<1>13. /\ b \in Seq(A) /\ Len(b) <= MaxDrives /\ Len(b) <= Len(a)
       /\ \A i \in 1 .. Len(b) : b[i] = a[i]
  BY <1>1, <1>11, <1>12, FirstOfIs
<1>14. \A x \in A : MountedIn(table, x)
  BY <1>8, <1>12 DEF Parts
<1>15. DOMAIN b = 1 .. Len(b) /\ DOMAIN a = 1 .. Len(a) /\ \A i \in DOMAIN b : b[i] \in A /\ i \in DOMAIN a
  <2>1. a \in Seq(A)
    BY <1>11, <1>12
  <2>2. Len(a) \in Nat /\ Len(b) \in Nat
    BY <1>13, <2>1
  <2> QED
    BY <1>13, <2>1, <2>2
<1>16. Distinct(b)
  BY <1>11, <1>12, <1>13, <1>15 DEF Distinct
<1>17. MadeFrom(table, b)
  BY <1>13, <1>14, <1>15, <1>16 DEF MadeFrom
<1> QED
  BY <1>5, <1>12, <1>17

(* The drives at every moment.                                             *)
LettersInv == IF vfs_ready THEN MadeFrom(disks, drives) ELSE drives = <<>>

LEMMA LettersNext ==
  ASSUME ScanInv, ReadyInv, LettersInv, [Next]_vars
  PROVE  LettersInv'
<1>1. ScanInv' /\ ReadyInv' /\ LettersStep
  BY ScanNext
<1>2. machine' = machine /\ (vfs_ready \/ vfs_ready' \/ drives' = drives)
  <2>1. CASE CmdDisk
    BY <2>1 DEF CmdDisk, ScanAll, files
  <2>2. CASE CmdUsb
    BY <2>2 DEF CmdUsb, ScanUsb, files
  <2>3. CASE CmdVol
    <3>1. ScanAll /\ vfs_ready' = TRUE
      BY <2>3, Zenon DEF CmdVol
    <3> QED
      BY <3>1 DEF ScanAll
  <2>4. CASE (\E what \in {"list", "read", "stat"}, typed \in Paths : Command(what, typed))
               \/ Proceed \/ UNCHANGED vars
    <3>1. UNCHANGED <<storage, drives, vfs_ready>>
      BY <2>4, OthersRead
    <3> QED
      BY <3>1 DEF storage
  <2> QED
    BY <2>1, <2>2, <2>3, <2>4, Zenon DEF Next
<1>3. ASSUME NEW t, NEW x, MadeFrom(t, x), disks' = t, drives' = x PROVE MadeFrom(disks, drives)'
  <2>1. \A drive : MountedIn(disks, drive)' <=> MountedIn(t, drive)
    BY <1>2, <1>3 DEF MountedIn, Mountable, Readable, Sector, Sectors
  <2> QED
    BY <1>3, <2>1 DEF MadeFrom, Distinct
<1>4. CASE vfs_ready
  <2>1. disks' = disks /\ drives' = drives /\ vfs_ready' = vfs_ready
    BY <1>1, <1>4 DEF LettersStep
  <2>2. MadeFrom(disks, drives)'
    BY <1>3, <1>4, <2>1 DEF LettersInv
  <2> QED
    BY <1>4, <2>1, <2>2 DEF LettersInv
<1>5. CASE ~vfs_ready /\ ~vfs_ready'
  BY <1>2, <1>5 DEF LettersInv
<1>6. CASE ~vfs_ready /\ vfs_ready'
  <2>1. PICK t, x : t = disks' /\ x = drives'
    OBVIOUS
  <2>2. x = DrivesOf(t)
    BY <1>1, <1>6, <2>1, Zenon DEF LettersStep
  <2>3. (\E S : t \in Seq(S)) /\ Roomy(t)
    BY <1>1, <2>1 DEF ScanInv, Roomy, Fitting
  <2>4. MadeFrom(t, DrivesOf(t))
    BY <2>3, DrivesOfIs
  <2>5. MadeFrom(disks, drives)'
    BY <1>3, <2>1, <2>2, <2>4
  <2> QED
    BY <1>6, <2>5 DEF LettersInv
<1> QED
  BY <1>4, <1>5, <1>6
-----------------------------------------------------------------------------
(* What the call at work holds of its caller's buffer, and what it gave.   *)
(* A read goes on only below the size of the entry, which is not above     *)
(* that of the buffer; a listing gives up when there is no room.           *)
Holding ==
  /\ pc # "idle" => vfs_ready /\ call.drive \in DOMAIN drives
  /\ entry.size \in Nat
  /\ pc \in {"list", "read"} => call.what = pc /\ \E S : out \in Seq(S)
  /\ pc = "read" => entry.size <= BufferSize /\ Len(out) <= entry.size
  /\ pc = "list" => Len(out) <= MaxEntries
GivenFits ==
  /\ call.what = "read" => Len(answer.value) <= BufferSize
  /\ call.what = "list" => Len(answer.value) <= MaxEntries
CallInv == Holding /\ GivenFits

LEMMA Sizes == {MaxEntries, BufferSize} \subseteq Nat
BY Fat32Assumption

(* The sectors of a drive, wherever they are.                              *)
LEMMA VolumeSectors ==
  ASSUME ScanInv, ReadyInv, LettersInv, Holding, pc # "idle", NEW lba, CanRead(lba)
  PROVE  IsSector(Read(lba))
<1> DEFINE d == Mount.disk
<1>1. vfs_ready /\ storage_scanned /\ machine \in Machines /\ OnceIn(disks, usb_first)
  BY DEF Holding, ReadyInv, ScanInv
<1>2. MountedIn(disks, Mount)
  BY <1>1 DEF Holding, LettersInv, MadeFrom, Mount
<1>3. d \in DOMAIN disks
  BY <1>2 DEF MountedIn
<1>4. IsAttached(disks[d])
  <2> HIDE DEF d
  <2>1. \A i \in DOMAIN disks : <<disks[i].kind, disks[i].index>> \in
          Internal \union External \union {<<"boot", 1>>}
    BY <1>1 DEF OnceIn
  <2>2. PICK k, i : k = disks[d].kind /\ i = disks[d].index
    OBVIOUS
  <2>3. <<k, i>> \in Internal \union External \union {<<"boot", 1>>}
    BY <1>3, <2>1, <2>2
  <2>4. \/ k = "internal" /\ i \in DOMAIN machine.internal
        \/ k = "usb" /\ i \in DOMAIN machine.usb
        \/ k = "boot"
    BY <2>3 DEF Internal, External
  <2> QED
    BY <2>2, <2>4 DEF IsAttached
<1>5. Volume = disks[d] /\ Readable(Volume, Start + lba)
  BY Zenon DEF Volume, CanRead
<1>6. IsSector(Sector(Volume, Start + lba))
  BY <1>1, <1>4, <1>5, ReadsSectors
<1> QED
  BY <1>6 DEF Read

(* A call that returns, and one that goes on with the next chain.          *)
LEMMA ReturnFits ==
  ASSUME CallInv, NEW ok, NEW value, Return(ok, value),
         call.what = "read" => Len(value) <= BufferSize,
         call.what = "list" => Len(value) <= MaxEntries
  PROVE  CallInv'
<1>1. /\ pc' = "idle" /\ answer'.value = value /\ call' = call /\ entry' = entry
  BY DEF Return, walk
<1> QED
  BY <1>1 DEF CallInv, Holding, GivenFits

LEMMA EmptyFits ==
  ASSUME CallInv, NEW ok, Return(ok, <<>>)
  PROVE  CallInv'
<1>1. Len(<<>>) <= BufferSize /\ Len(<<>>) <= MaxEntries
  BY Sizes
<1> QED
  BY <1>1, ReturnFits

LEMMA WalkFits ==
  ASSUME CallInv, pc # "idle", NEW label, NEW c, Walk(label, c), entry'.size \in Nat,
         label \in {"list", "read"} => call.what = label,
         label = "read" => entry'.size <= BufferSize
  PROVE  CallInv'
<1>1. /\ pc' = label /\ out' = <<>> /\ answer' = answer /\ call' = call
      /\ drives' = drives /\ vfs_ready' = vfs_ready
  BY DEF Walk
<1>2. out' \in Seq({}) /\ Len(out') = 0 /\ {MaxEntries, BufferSize} \subseteq Nat
  BY <1>1, Sizes
<1> QED
  BY <1>1, <1>2 DEF CallInv, Holding, GivenFits

LEMMA EarliestIs ==
  ASSUME NEW n \in Nat, NEW S \in SUBSET (1 .. n), S # {}
  PROVE  Earliest(S) \in S
<1>1. S \subseteq Nat
  OBVIOUS
<1>2. PICK i \in S : \A j \in S : ~ (<<j, i>> \in OpToRel(<, Nat))
  BY <1>1, NatLessThanWellFounded, WFMin
<1>3. \A j \in S : i <= j
  <2> TAKE j \in S
  <2>1. i \in Nat /\ j \in Nat
    BY <1>1
  <2>2. ~ (j < i)
    BY <1>2, <2>1 DEF OpToRel
  <2> QED
    BY <2>1, <2>2
<1> QED
  BY <1>2, <1>3 DEF Earliest

(* One lemma for each of the loops over sectors.                           *)
LEMMA FindFits ==
  ASSUME ScanInv, ReadyInv, LettersInv, CallInv, FindInSector
  PROVE  CallInv'
<1> DEFINE entries == Read(Here).entries
           stops == Ends(entries) \union Matches(entries)
           found == entries[Earliest(stops)]
<1>1. pc = "find" /\ CanRead(Here)
  BY Zenon DEF FindInSector, In
<1>2. IsSector(Read(Here))
  BY <1>1, VolumeSectors DEF CallInv
<1>3. IsList(entries) /\ \A i \in DOMAIN entries : entries[i].size \in Nat
  BY <1>2 DEF IsSector
<1>4. stops \in SUBSET DOMAIN entries
  BY DEF Ends, Matches
<1>5. \/ NextSector /\ UNCHANGED <<todo, entry, out>>
      \/ Return(FALSE, <<>>)
      \/ /\ stops # {} /\ entry' = found
         /\ \E label \in {"resolved", "find"} : \E c : Walk(label, c)
  BY Zenon DEF FindInSector
<1> HIDE DEF entries, stops
<1>6. CASE NextSector /\ UNCHANGED <<todo, entry, out>>
  BY <1>1, <1>6 DEF NextSector, CallInv, Holding, GivenFits
<1>7. CASE Return(FALSE, <<>>)
  BY <1>7, EmptyFits
<1>8. ASSUME stops # {}, entry' = found, NEW label \in {"resolved", "find"}, NEW c, Walk(label, c)
      PROVE  CallInv'
  <2>1. PICK L : entries \in Seq(L)
    BY <1>3 DEF IsList
  <2>2. Len(entries) \in Nat /\ stops \in SUBSET (1 .. Len(entries))
    BY <1>4, <2>1
  <2>3. Earliest(stops) \in stops
    BY <1>8, <2>2, EarliestIs
  <2>4. found.size \in Nat
    BY <1>3, <1>4, <2>3
  <2>5. entry'.size \in Nat
    BY <1>8, <2>4
  <2> QED
    BY <1>1, <1>8, <2>5, WalkFits
<1> QED
  BY <1>5, <1>6, <1>7, <1>8

LEMMA ListFits ==
  ASSUME ScanInv, ReadyInv, LettersInv, CallInv, ListSector
  PROVE  CallInv'
<1> DEFINE entries == Read(Here).entries
           ends == Ends(entries) # {}
           S == {i \in DOMAIN entries : IsFile(entries[i]) /\ \A j \in Ends(entries) : i < j}
           shown == InOrder(S)
           more == [k \in DOMAIN shown |-> Listed(entries[shown[k]], Gathered(entries)[shown[k] - 1])]
           all == out \o more
<1>1. pc = "list" /\ CanRead(Here)
  BY Zenon DEF ListSector, In
<1>2. IsSector(Read(Here))
  BY <1>1, VolumeSectors DEF CallInv
<1>3. IsList(entries)
  BY <1>2 DEF IsSector
<1>4. S \in SUBSET DOMAIN entries
  OBVIOUS
<1>5. \/ Return(TRUE, FirstOf(all, MaxEntries))
      \/ /\ ~ Len(all) > MaxEntries
         /\ out' = all /\ NextSector /\ UNCHANGED <<todo, entry>>
  BY Zenon DEF ListSector
<1>6. more = [k \in DOMAIN shown |-> more[k]]
  OBVIOUS
<1> HIDE DEF entries, S, more
<1>7. \E R : all \in Seq(R)
  <2>1. PICK L : entries \in Seq(L)
    BY <1>3 DEF IsList
  <2>2. Len(entries) \in Nat /\ S \in SUBSET (1 .. Len(entries))
    BY <1>4, <2>1
  <2>3. shown \in Seq(S)
    BY <2>2, InOrderIs
  <2> HIDE DEF shown
  <2>4. PICK A : more \in Seq(A)
    BY <1>6, <2>3, MapIs
  <2>5. PICK B : out \in Seq(B)
    BY <1>1 DEF CallInv, Holding
  <2>6. more \in Seq(A \union B) /\ out \in Seq(A \union B)
    BY <2>4, <2>5
  <2>7. out \o more \in Seq(A \union B)
    BY <2>6
  <2> QED
    BY <2>7
<1>8. call.what = "list"
  BY <1>1 DEF CallInv, Holding
<1> HIDE DEF all
<1>9. CASE Return(TRUE, FirstOf(all, MaxEntries))
  <2>1. Len(FirstOf(all, MaxEntries)) <= MaxEntries
    BY <1>7, Sizes, FirstOfIs
  <2> QED
    BY <1>8, <1>9, <2>1, ReturnFits
<1>10. CASE ~ Len(all) > MaxEntries /\ out' = all /\ NextSector /\ UNCHANGED <<todo, entry>>
  <2>1. Len(all) \in Nat /\ MaxEntries \in Nat
    BY <1>7, Sizes
  <2>2. Len(out') <= MaxEntries
    BY <1>10, <2>1
  <2>3. \E R : out' \in Seq(R)
    BY <1>7, <1>10
  <2> QED
    BY <1>1, <1>8, <1>10, <2>2, <2>3 DEF NextSector, CallInv, Holding, GivenFits
<1> QED
  BY <1>5, <1>9, <1>10

LEMMA ReadFits ==
  ASSUME ScanInv, ReadyInv, LettersInv, CallInv, ReadSector
  PROVE  CallInv'
<1> DEFINE data == Read(Here).data
           room == entry.size - Len(out)
<1>1. /\ pc = "read" /\ CanRead(Here) /\ Len(out) < entry.size
      /\ out' = out \o FirstOf(data, room)
      /\ NextSector /\ UNCHANGED <<todo, entry, long_name>>
  BY DEF ReadSector, In, Inside, More
<1>2. IsSector(Read(Here))
  BY <1>1, VolumeSectors DEF CallInv
<1>3. PICK A : data \in Seq(A)
  BY <1>2 DEF IsSector, IsList
<1>4. PICK B : out \in Seq(B)
  BY <1>1 DEF CallInv, Holding
<1>5. entry.size \in Nat /\ Len(out) \in Nat /\ room \in Nat
  BY <1>1, <1>4 DEF CallInv, Holding
<1> HIDE DEF data
<1>6. PICK x : x = FirstOf(data, room)
  OBVIOUS
<1>7. x \in Seq(A) /\ Len(x) <= room
  BY <1>3, <1>5, <1>6, FirstOfIs
<1>8. x \in Seq(A \union B) /\ out \in Seq(A \union B)
  BY <1>4, <1>7
<1>9. out \o x \in Seq(A \union B) /\ Len(out \o x) = Len(out) + Len(x)
  BY <1>8
<1>10. out' \in Seq(A \union B) /\ Len(out') <= entry.size
  <2>1. Len(x) \in Nat
    BY <1>7
  <2> QED
    BY <1>1, <1>5, <1>6, <1>7, <1>9, <2>1
<1> QED
  BY <1>1, <1>10 DEF NextSector, CallInv, Holding, GivenFits

LEMMA StepFits ==
  ASSUME ScanInv, ReadyInv, LettersInv, CallInv, Step
  PROVE  CallInv'
<1>1. CASE Resolve
  <2>1. /\ pc = "resolve" /\ entry'.size = 0
        /\ \E label \in {"resolved", "find"} : \E c : Walk(label, c)
    BY <1>1, Zenon DEF Resolve, Root
  <2> QED
    BY <2>1, WalkFits
<1>2. CASE SectorFails \/ FatFails \/ NotFound \/ Refuse
  <2>1. Return(FALSE, <<>>)
    BY <1>2, Zenon DEF SectorFails, FatFails, NotFound, Refuse
  <2> QED
    BY <2>1, EmptyFits
<1>3. CASE NextCluster
  BY <1>3 DEF NextCluster, CallInv, Holding, GivenFits
<1>4. CASE Stat
  <2>1. call.what = "stat" /\ \E value : Return(TRUE, value)
    BY <1>4, Zenon DEF Stat
  <2> QED
    BY <2>1, ReturnFits
<1>5. CASE Open
  <2>1. /\ pc = "resolved" /\ entry' = entry /\ Walk(call.what, entry.cluster)
        /\ call.what = "read" => entry.size <= BufferSize
    BY <1>5 DEF Open, Allowed
  <2>2. entry'.size \in Nat /\ (call.what = "read" => entry'.size <= BufferSize)
    BY <2>1 DEF CallInv, Holding
  <2> QED
    BY <2>1, <2>2, WalkFits
<1>6. CASE ListEnds
  <2>1. pc = "list" /\ Return(TRUE, out)
    BY <1>6, Zenon DEF ListEnds
  <2>2. call.what = "list" /\ Len(out) <= MaxEntries
    BY <2>1 DEF CallInv, Holding
  <2> QED
    BY <2>1, <2>2, ReturnFits
<1>7. CASE ReadEnds
  <2>1. pc = "read" /\ \E ok : Return(ok, out)
    BY <1>7, Zenon DEF ReadEnds
  <2>2. PICK S : out \in Seq(S)
    BY <2>1 DEF CallInv, Holding
  <2>3. call.what = "read" /\ Len(out) <= BufferSize
    <3>1. Len(out) \in Nat /\ BufferSize \in Nat
      BY <2>2, Sizes
    <3> QED
      BY <2>1, <3>1 DEF CallInv, Holding
  <2> QED
    BY <2>1, <2>3, ReturnFits
<1> QED
  BY <1>1, <1>2, <1>3, <1>4, <1>5, <1>6, <1>7, FindFits, ListFits, ReadFits DEF Step

LEMMA CallInit == Init => LettersInv /\ CallInv
<1> SUFFICES ASSUME Init PROVE LettersInv /\ CallInv
  OBVIOUS
<1>1. /\ pc = "idle" /\ ~vfs_ready /\ drives = <<>> /\ call.what = "none" /\ entry.size = 0
  BY DEF Init, End
<1> QED
  BY <1>1 DEF LettersInv, CallInv, Holding, GivenFits

LEMMA CallNext ==
  ASSUME ScanInv, ReadyInv, LettersInv, CallInv, [Next]_vars
  PROVE  CallInv'
<1>1. CASE CmdDisk \/ CmdUsb
  <2>1. pc = "idle" /\ UNCHANGED files
    BY <1>1 DEF CmdDisk, CmdUsb
  <2> QED
    BY <2>1 DEF files, walk, CallInv, Holding, GivenFits
<1>2. CASE CmdVol
  <2>1. pc = "idle" /\ UNCHANGED <<pc, call, walk, answer>>
    BY <1>2, Zenon DEF CmdVol
  <2> QED
    BY <2>1 DEF walk, CallInv, Holding, GivenFits
<1>3. ASSUME NEW what, NEW typed, Command(what, typed) PROVE CallInv'
  <2>1. \E drive, path : Call(what, drive, path)
    BY <1>3, Zenon DEF Command
  <2>2. PICK drive, path : Call(what, drive, path)
    BY <2>1
  <2>3. /\ call'.drive = drive /\ answer'.value = <<>> /\ pc' \in {"idle", "resolve"}
        /\ pc' # "idle" => drive \in DOMAIN drives
    BY <2>2 DEF Call
  <2>4. /\ vfs_ready /\ vfs_ready' = vfs_ready /\ drives' = drives /\ entry' = entry
    BY <1>3 DEF Command
  <2>5. Len(<<>>) <= BufferSize /\ Len(<<>>) <= MaxEntries
    BY Sizes
  <2>6. Holding'
    BY <2>3, <2>4 DEF CallInv, Holding
  <2>7. GivenFits'
    BY <2>3, <2>5 DEF GivenFits
  <2> QED
    BY <2>6, <2>7 DEF CallInv
<1>4. CASE Proceed
  <2>1. Step
    BY <1>4 DEF Proceed
  <2> QED
    BY <2>1, StepFits
<1>5. CASE UNCHANGED vars
  BY <1>5 DEF vars, files, walk, CallInv, Holding, GivenFits
<1> QED
  BY <1>1, <1>2, <1>3, <1>4, <1>5, Zenon DEF Next

LEMMA CallInductive == Spec => [](ScanInv /\ ReadyInv /\ LettersInv /\ CallInv)
<1>1. ScanInv /\ ReadyInv /\ LettersInv /\ CallInv /\ [Next]_vars
        => (ScanInv /\ ReadyInv /\ LettersInv /\ CallInv)'
  BY ScanNext, LettersNext, CallNext
<1> QED
  BY <1>1, ScanInit, CallInit, PTL DEF Spec

(* detect_mbr_partitions and detect_gpt_partitions never write behind the  *)
(* table of partitions in DiskInfo, whatever is in the sectors they read.  *)
THEOREM PartitionsFit ==
  Spec => [](\A i \in DOMAIN disks : Len(disks[i].partitions) <= MaxPartitions)
<1>1. ScanInv => \A i \in DOMAIN disks : Len(disks[i].partitions) <= MaxPartitions
  BY DEF ScanInv, Roomy, Fitting
<1> QED
  BY <1>1, CallInductive, PTL

(* There are no more drives than letters; each is a pair of indexes into   *)
(* g_disks and its partitions with a good boot sector behind them, also    *)
(* when commands scan again later; and no two letters stand for the same.  *)
THEOREM LettersAreMounted == Spec => [](vfs_ready => MadeFrom(disks, drives))
<1>1. LettersInv => (vfs_ready => MadeFrom(disks, drives))
  BY DEF LettersInv
<1> QED
  BY <1>1, CallInductive, PTL

(* fat32.cpp works on such a volume only: mount_for_drive finds the letter *)
(* that parse_drive_path let through, at each step of the call.            *)
THEOREM CallsAreMounted == Spec => [](pc # "idle" => MountedIn(disks, Mount))
<1>1. LettersInv /\ CallInv => (pc # "idle" => MountedIn(disks, Mount))
  BY DEF LettersInv, MadeFrom, CallInv, Holding, Mount
<1> QED
  BY <1>1, CallInductive, PTL

(* What is written at this moment, and what a command was told of it.      *)
BuffersHold ==
  /\ pc = "read" => Len(out) <= entry.size /\ entry.size <= BufferSize
  /\ pc = "list" => Len(out) <= MaxEntries
  /\ GivenFits

(* fat32_read_file never writes more than file_size bytes, which the       *)
(* buffer of cmd_type has, and fat32_list_dir no more than max_entries, at *)
(* no sector of a chain, however long it is and wherever it leads; nor do  *)
(* they tell the command of more.                                          *)
THEOREM NoOverrun == Spec => []BuffersHold
<1>1. CallInv => BuffersHold
  BY DEF CallInv, Holding, BuffersHold
<1> QED
  BY <1>1, CallInductive, PTL
=============================================================================
