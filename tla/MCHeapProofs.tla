---------------------------- MODULE MCHeapProofs ----------------------------
(***************************************************************************)
(* The heap loses no memory and invents none, for every memory map, header *)
(* size and set of requests: Conserved of MCHeap.                          *)
(*                                                                         *)
(* The two statistics are sums over the list, so the proof first gives     *)
(* sums over finite sets the laws they need: Total(g, s) is the sum of     *)
(* g[x] over s, and it can take any element out of s, be split in two and  *)
(* be compared with another sum.  Each law is shown by taking a smallest   *)
(* set that breaks it (Smallest: strict inclusion is well founded on the   *)
(* subsets of a finite set) and taking one element out of that.            *)
(*                                                                         *)
(* The invariant is then IInv /\ ConsInv: with each block weighing its     *)
(* header and its payload, the list weighs what the regions taken so far   *)
(* gave.  A split divides one weight in two, a merge adds two up, and      *)
(* nothing else changes a weight.  Conserved follows by splitting the sum  *)
(* into used blocks, free blocks and headers.                              *)
(***************************************************************************)
EXTENDS MCHeap, HeapProofs, FiniteSetTheorems, WellFoundedInduction

(* The sum that the fold over sets of the community modules computes: a    *)
(* function of the subsets of U that takes one element out at a time.      *)
Chosen(s) == CHOOSE x \in s : TRUE
IsSum(sum, U, g) ==
  sum = [s \in SUBSET U |->
           IF s = {} THEN 0 ELSE g[Chosen(s)] + sum[s \ {Chosen(s)}]]

LEMMA ChosenIn ==
  ASSUME NEW s, s # {}
  PROVE  Chosen(s) \in s
  BY DEF Chosen

(* The sums of MCHeap, as that function.                                   *)
LEMMA SizesSum ==
  ASSUME NEW U, NEW g, \A x \in U : g[x] = mem[x].size,
         \E sum : IsSum(sum, U, g)
  PROVE  \E sum : IsSum(sum, U, g) /\ MapThenSumSet(LAMBDA b : mem[b].size, U) = sum[U]
<1>1. ASSUME NEW sum
      PROVE IsSum(sum, U, g) <=>
            sum = [s \in SUBSET U |->
               IF s = {} THEN 0
               ELSE LET x == CHOOSE x \in s : TRUE IN mem[x].size + sum[s \ {x}]]
  <2>1. \A s \in SUBSET U :
          (IF s = {} THEN 0 ELSE g[Chosen(s)] + sum[s \ {Chosen(s)}])
            = IF s = {} THEN 0
              ELSE LET x == CHOOSE x \in s : TRUE IN mem[x].size + sum[s \ {x}]
    <3> TAKE s \in SUBSET U
    <3>1. s # {} => Chosen(s) \in U
      BY ChosenIn
    <3>2. Chosen(s) = CHOOSE x \in s : TRUE
      BY DEF Chosen
    <3>3. s # {} => g[Chosen(s)] = mem[CHOOSE x \in s : TRUE].size
      BY <3>1, <3>2
    <3> QED
      BY <3>2, <3>3, Zenon
  <2>2. [s \in SUBSET U |-> IF s = {} THEN 0 ELSE g[Chosen(s)] + sum[s \ {Chosen(s)}]]
          = [s \in SUBSET U |->
               IF s = {} THEN 0
               ELSE LET x == CHOOSE x \in s : TRUE IN mem[x].size + sum[s \ {x}]]
    BY <2>1, Zenon
  <2> QED
    BY <2>2, Zenon DEF IsSum
<1> DEFINE iter[s \in SUBSET U] ==
             IF s = {} THEN 0
             ELSE LET x == CHOOSE x \in s : TRUE IN mem[x].size + iter[s \ {x}]
<1>2. IsSum(iter, U, g)
  <2>1. \E f : f = [s \in SUBSET U |->
                 IF s = {} THEN 0
                 ELSE LET x == CHOOSE x \in s : TRUE IN mem[x].size + f[s \ {x}]]
    <3>1. PICK f : IsSum(f, U, g)
      OBVIOUS
    <3>2. f = [s \in SUBSET U |->
                 IF s = {} THEN 0
                 ELSE LET x == CHOOSE x \in s : TRUE IN mem[x].size + f[s \ {x}]]
      BY <1>1, <3>1, Zenon
    <3> QED
      BY <3>2, Zenon
  <2>2. iter = [s \in SUBSET U |->
               IF s = {} THEN 0
               ELSE LET x == CHOOSE x \in s : TRUE IN mem[x].size + iter[s \ {x}]]
    BY <2>1, Zenon
  <2> QED
    BY <1>1, <2>2, Zenon
<1>3. MapThenSumSet(LAMBDA b : mem[b].size, U) = iter[U]
  BY DEF MapThenSumSet, MapThenFoldSet
<1> QED
  BY <1>2, <1>3

LEMMA LengthsSum ==
  ASSUME NEW U, NEW g, \A x \in U : g[x] = Length(map[x]),
         \E sum : IsSum(sum, U, g)
  PROVE  \E sum : IsSum(sum, U, g) /\ MapThenSumSet(LAMBDA i : Length(map[i]), U) = sum[U]
<1>1. ASSUME NEW sum
      PROVE IsSum(sum, U, g) <=>
            sum = [s \in SUBSET U |->
               IF s = {} THEN 0
               ELSE LET x == CHOOSE x \in s : TRUE IN Length(map[x]) + sum[s \ {x}]]
  <2>1. \A s \in SUBSET U :
          (IF s = {} THEN 0 ELSE g[Chosen(s)] + sum[s \ {Chosen(s)}])
            = IF s = {} THEN 0
              ELSE LET x == CHOOSE x \in s : TRUE IN Length(map[x]) + sum[s \ {x}]
    <3> TAKE s \in SUBSET U
    <3>1. s # {} => Chosen(s) \in U
      BY ChosenIn
    <3>2. Chosen(s) = CHOOSE x \in s : TRUE
      BY DEF Chosen
    <3>3. s # {} => g[Chosen(s)] = Length(map[CHOOSE x \in s : TRUE])
      BY <3>1, <3>2
    <3> QED
      BY <3>2, <3>3, Zenon
  <2>2. [s \in SUBSET U |-> IF s = {} THEN 0 ELSE g[Chosen(s)] + sum[s \ {Chosen(s)}]]
          = [s \in SUBSET U |->
               IF s = {} THEN 0
               ELSE LET x == CHOOSE x \in s : TRUE IN Length(map[x]) + sum[s \ {x}]]
    BY <2>1, Zenon
  <2> QED
    BY <2>2, Zenon DEF IsSum
<1> DEFINE iter[s \in SUBSET U] ==
             IF s = {} THEN 0
             ELSE LET x == CHOOSE x \in s : TRUE IN Length(map[x]) + iter[s \ {x}]
<1>2. IsSum(iter, U, g)
  <2>1. \E f : f = [s \in SUBSET U |->
                 IF s = {} THEN 0
                 ELSE LET x == CHOOSE x \in s : TRUE IN Length(map[x]) + f[s \ {x}]]
    <3>1. PICK f : IsSum(f, U, g)
      OBVIOUS
    <3>2. f = [s \in SUBSET U |->
                 IF s = {} THEN 0
                 ELSE LET x == CHOOSE x \in s : TRUE IN Length(map[x]) + f[s \ {x}]]
      BY <1>1, <3>1, Zenon
    <3> QED
      BY <3>2, Zenon
  <2>2. iter = [s \in SUBSET U |->
               IF s = {} THEN 0
               ELSE LET x == CHOOSE x \in s : TRUE IN Length(map[x]) + iter[s \ {x}]]
    BY <2>1, Zenon
  <2> QED
    BY <1>1, <2>2, Zenon
<1>3. MapThenSumSet(LAMBDA i : Length(map[i]), U) = iter[U]
  BY DEF MapThenSumSet, MapThenFoldSet
<1> QED
  BY <1>2, <1>3

(* A minimal counterexample.                                               *)
LEMMA Smallest ==
  ASSUME NEW U, IsFiniteSet(U), NEW Bad, Bad \subseteq SUBSET U, Bad # {}
  PROVE  \E s \in Bad : \A t \in SUBSET s : t # s => t \notin Bad
<1>1. IsWellFoundedOn(StrictSubsetOrdering(U), SUBSET U)
  BY FS_StrictSubsetOrderingWellFounded, FS_FiniteSubsetsOfFinite
<1>2. PICK s \in Bad : \A t \in Bad : <<t, s>> \notin StrictSubsetOrdering(U)
  BY <1>1, WFMin
<1>3. \A t \in SUBSET s : t # s => t \notin Bad
  <2> SUFFICES ASSUME NEW t \in SUBSET s, t # s, t \in Bad PROVE FALSE
    OBVIOUS
  <2>1. s \in SUBSET U /\ t \in SUBSET U
    OBVIOUS
  <2>2. <<t, s>> \in StrictSubsetOrdering(U)
    BY <2>1 DEF StrictSubsetOrdering
  <2> QED
    BY <1>2, <2>2
<1> QED
  BY <1>3

(* The sum of S depends on nothing but what g is on S.                     *)
LEMMA SumUnique ==
  ASSUME NEW A, NEW B, NEW g, NEW h, IsFiniteSet(A), NEW a, NEW b,
         IsSum(a, A, g), IsSum(b, B, h), NEW S, S \subseteq A, S \subseteq B,
         \A x \in S : g[x] = h[x]
  PROVE  a[S] = b[S]
<1> DEFINE Bad == {s \in SUBSET S : a[s] # b[s]}
<1> SUFFICES ASSUME Bad # {} PROVE FALSE
  OBVIOUS
<1>1. Bad \subseteq SUBSET A
  OBVIOUS
<1>2. PICK s \in Bad : \A t \in SUBSET s : t # s => t \notin Bad
  <2> HIDE DEF Bad
  <2> QED
    BY <1>1, Smallest
<1>3. s \in SUBSET A /\ s \in SUBSET B
  OBVIOUS
<1>4. CASE s = {}
  <2>1. a[s] = 0 /\ b[s] = 0
    BY <1>3, <1>4 DEF IsSum
  <2> QED
    BY <1>2, <2>1
<1>5. CASE s # {}
  <2> DEFINE t == s \ {Chosen(s)}
  <2>1. t \in SUBSET s /\ t # s
    BY <1>5, ChosenIn
  <2>2. a[t] = b[t]
    BY <1>2, <1>3, <2>1
  <2>3. a[s] = g[Chosen(s)] + a[t] /\ b[s] = h[Chosen(s)] + b[t]
    BY <1>3, <1>5 DEF IsSum
  <2>4. g[Chosen(s)] = h[Chosen(s)]
    BY <1>5, ChosenIn
  <2> QED
    BY <1>2, <2>2, <2>3, <2>4
<1> QED
  BY <1>4, <1>5

(* There is such a function, for every finite set.                         *)
LEMMA SumExists ==
  ASSUME NEW U, NEW g, IsFiniteSet(U)
  PROVE  \E sum : IsSum(sum, U, g)
<1> DEFINE Bad == {s \in SUBSET U : ~ \E sum : IsSum(sum, s, g)}
<1> SUFFICES ASSUME Bad # {} PROVE FALSE
  OBVIOUS
<1>1. Bad \subseteq SUBSET U
  OBVIOUS
<1>2. PICK T \in Bad : \A t \in SUBSET T : t # T => t \notin Bad
  <2> HIDE DEF Bad
  <2> QED
    BY <1>1, Smallest
<1> DEFINE Of(t) == CHOOSE sum : IsSum(sum, t, g)
           sum == [s \in SUBSET T |->
                     IF s = {} THEN 0
                     ELSE g[Chosen(s)] + Of(s \ {Chosen(s)})[s \ {Chosen(s)}]]
<1>3. \A t \in SUBSET T : t # T => IsSum(Of(t), t, g)
  <2> TAKE t \in SUBSET T
  <2> HAVE t # T
  <2>1. \E h : IsSum(h, t, g)
    BY <1>2
  <2> QED
    BY <2>1
<1>4. \A t \in SUBSET T : t # T => sum[t] = Of(t)[t]
  <2> TAKE t \in SUBSET T
  <2> HAVE t # T
  <2>1. IsSum(Of(t), t, g)
    BY <1>3
  <2>2. CASE t = {}
    BY <2>1, <2>2 DEF IsSum
  <2>3. CASE t # {}
    <3> DEFINE r == t \ {Chosen(t)}
    <3>1. r \in SUBSET t /\ r # t /\ r # T
      BY <2>3, ChosenIn
    <3>2. IsSum(Of(r), r, g) /\ IsFiniteSet(r)
      BY <1>3, <3>1, FS_Subset
    <3>3. Of(r)[r] = Of(t)[r]
      <4> HIDE DEF Of, r
      <4> QED BY <2>1, <3>1, <3>2, SumUnique
    <3>4. Of(t)[t] = g[Chosen(t)] + Of(t)[r]
      <4> HIDE DEF Of
      <4> QED BY <2>1, <2>3 DEF IsSum
    <3>5. sum[t] = g[Chosen(t)] + Of(r)[r]
      BY <2>3
    <3> QED
      BY <3>3, <3>4, <3>5
  <2> QED
    BY <2>2, <2>3
<1>5. \E f : IsSum(f, T, g)
  <2>1. \A s \in SUBSET T : s # {} => s \ {Chosen(s)} \in SUBSET T /\ s \ {Chosen(s)} # T
    BY ChosenIn
  <2>2. PICK f : f = sum
    OBVIOUS
  <2>3. /\ f = [s \in SUBSET T |-> f[s]] /\ f[{}] = 0
        /\ \A s \in SUBSET T : s # {} =>
             f[s] = g[Chosen(s)] + Of(s \ {Chosen(s)})[s \ {Chosen(s)}]
    BY <2>2
  <2>4. \A t \in SUBSET T : t # T => f[t] = Of(t)[t]
    BY <1>4, <2>2
  <2> HIDE DEF sum, Of
  <2>5. \A s \in SUBSET T : s # {} => f[s] = g[Chosen(s)] + f[s \ {Chosen(s)}]
    BY <2>1, <2>3, <2>4
  <2>6. \A s \in SUBSET T :
          f[s] = IF s = {} THEN 0 ELSE g[Chosen(s)] + f[s \ {Chosen(s)}]
    BY <2>3, <2>5
  <2> QED
    BY <2>3, <2>6 DEF IsSum
<1> QED
  BY <1>2, <1>5
-----------------------------------------------------------------------------
(* The sum of g over s.                                                    *)
Total(g, s) == (CHOOSE sum : IsSum(sum, DOMAIN g, g))[s]

LEMMA TotalIsSum ==
  ASSUME NEW D, IsFiniteSet(D), NEW g \in [D -> Nat]
  PROVE  \E sum : IsSum(sum, D, g) /\ \A s : Total(g, s) = sum[s]
<1>1. \E sum : IsSum(sum, D, g)
  BY SumExists
<1>2. IsSum(CHOOSE sum : IsSum(sum, DOMAIN g, g), D, g)
  BY <1>1
<1> QED
  BY <1>2 DEF Total

LEMMA TotalSame ==
  ASSUME NEW D, IsFiniteSet(D), NEW g \in [D -> Nat], NEW h \in [D -> Nat],
         NEW s \in SUBSET D, \A x \in s : g[x] = h[x]
  PROVE  Total(g, s) = Total(h, s)
<1>1. PICK a : IsSum(a, D, g) /\ \A t : Total(g, t) = a[t]
  BY TotalIsSum
<1>2. PICK b : IsSum(b, D, h) /\ \A t : Total(h, t) = b[t]
  BY TotalIsSum
<1>3. a[s] = b[s]
  BY <1>1, <1>2, SumUnique
<1> QED
  BY <1>1, <1>2, <1>3

(* The sums of the two statistics are totals.                              *)
LEMMA SizesTotal ==
  ASSUME NEW D, IsFiniteSet(D), NEW g \in [D -> Nat], NEW S \in SUBSET D,
         \A x \in S : g[x] = mem[x].size
  PROVE  MapThenSumSet(LAMBDA b : mem[b].size, S) = Total(g, S)
<1>1. IsFiniteSet(S)
  BY FS_Subset
<1>2. PICK sum : IsSum(sum, S, g) /\ MapThenSumSet(LAMBDA b : mem[b].size, S) = sum[S]
  BY <1>1, SizesSum, SumExists
<1>3. PICK a : IsSum(a, D, g) /\ \A t : Total(g, t) = a[t]
  BY TotalIsSum
<1>4. IsSum(sum, S, g) /\ IsSum(a, D, g) /\ S \subseteq S /\ S \subseteq D
  BY <1>2, <1>3
<1>5. sum[S] = a[S]
  BY <1>1, <1>4, SumUnique
<1> QED
  BY <1>2, <1>3, <1>5

LEMMA LengthsTotal ==
  ASSUME NEW D, IsFiniteSet(D), NEW g \in [D -> Nat], NEW S \in SUBSET D,
         \A x \in S : g[x] = Length(map[x])
  PROVE  MapThenSumSet(LAMBDA i : Length(map[i]), S) = Total(g, S)
<1>1. IsFiniteSet(S)
  BY FS_Subset
<1>2. PICK sum : IsSum(sum, S, g) /\ MapThenSumSet(LAMBDA i : Length(map[i]), S) = sum[S]
  BY <1>1, LengthsSum, SumExists
<1>3. PICK a : IsSum(a, D, g) /\ \A t : Total(g, t) = a[t]
  BY TotalIsSum
<1>4. IsSum(sum, S, g) /\ IsSum(a, D, g) /\ S \subseteq S /\ S \subseteq D
  BY <1>2, <1>3
<1>5. sum[S] = a[S]
  BY <1>1, <1>4, SumUnique
<1> QED
  BY <1>2, <1>3, <1>5

LEMMA TotalEmpty ==
  ASSUME NEW D, IsFiniteSet(D), NEW g \in [D -> Nat]
  PROVE  Total(g, {}) = 0
<1>1. PICK a : IsSum(a, D, g) /\ \A t : Total(g, t) = a[t]
  BY TotalIsSum
<1> QED
  BY <1>1 DEF IsSum

LEMMA TotalChosen ==
  ASSUME NEW D, IsFiniteSet(D), NEW g \in [D -> Nat], NEW s \in SUBSET D, s # {}
  PROVE  Total(g, s) = g[Chosen(s)] + Total(g, s \ {Chosen(s)})
<1>1. PICK a : IsSum(a, D, g) /\ \A t : Total(g, t) = a[t]
  BY TotalIsSum
<1> QED
  BY <1>1 DEF IsSum

LEMMA TotalNat ==
  ASSUME NEW D, IsFiniteSet(D), NEW g \in [D -> Nat], NEW S \in SUBSET D
  PROVE  Total(g, S) \in Nat
<1> DEFINE Bad == {s \in SUBSET D : Total(g, s) \notin Nat}
<1> SUFFICES ASSUME Bad # {} PROVE FALSE
  OBVIOUS
<1>2. PICK s \in Bad : \A t \in SUBSET s : t # s => t \notin Bad
  <2>1. Bad \subseteq SUBSET D
    OBVIOUS
  <2> HIDE DEF Bad
  <2> QED
    BY <2>1, Smallest
<1>3. s # {}
  BY TotalEmpty
<1> DEFINE t == s \ {Chosen(s)}
<1>4. t \in SUBSET s /\ t # s /\ Chosen(s) \in s
  BY <1>3, ChosenIn
<1>5. Total(g, t) \in Nat /\ g[Chosen(s)] \in Nat
  BY <1>2, <1>4
<1>6. Total(g, s) = g[Chosen(s)] + Total(g, t)
  BY <1>3, TotalChosen
<1>7. Total(g, s) \in Nat
  BY <1>5, <1>6
<1> QED
  BY <1>2, <1>7

(* Any element can be taken out, not just the chosen one.                  *)
LEMMA TotalRemove ==
  ASSUME NEW D, IsFiniteSet(D), NEW g \in [D -> Nat], NEW S \in SUBSET D, NEW y \in S
  PROVE  Total(g, S) = g[y] + Total(g, S \ {y})
<1> DEFINE Bad == {s \in SUBSET D : \E x \in s : Total(g, s) # g[x] + Total(g, s \ {x})}
<1> SUFFICES ASSUME Bad # {} PROVE FALSE
  OBVIOUS
<1>2. PICK s \in Bad : \A t \in SUBSET s : t # s => t \notin Bad
  <2>1. Bad \subseteq SUBSET D
    OBVIOUS
  <2> HIDE DEF Bad
  <2> QED
    BY <2>1, Smallest
<1>3. PICK x \in s : Total(g, s) # g[x] + Total(g, s \ {x})
  OBVIOUS
<1> DEFINE z == Chosen(s)
<1>4. z \in s /\ Total(g, s) = g[z] + Total(g, s \ {z})
  BY TotalChosen, ChosenIn
<1> HIDE DEF z
<1>a. \A t \in SUBSET s : t # s => \A v \in t : Total(g, t) = g[v] + Total(g, t \ {v})
  BY <1>2
<1>5. x # z
  BY <1>3, <1>4
<1> DEFINE r == (s \ {z}) \ {x}
<1>6. r = (s \ {x}) \ {z}
  OBVIOUS
<1>7. Total(g, s \ {z}) = g[x] + Total(g, r)
  <2>1. s \ {z} \in SUBSET s /\ s \ {z} # s /\ x \in s \ {z}
    BY <1>4, <1>5
  <2> QED
    BY <1>a, <2>1
<1>8. Total(g, s \ {x}) = g[z] + Total(g, r)
  <2>1. s \ {x} \in SUBSET s /\ s \ {x} # s /\ z \in s \ {x}
    BY <1>4, <1>5
  <2>2. Total(g, s \ {x}) = g[z] + Total(g, (s \ {x}) \ {z})
    BY <1>a, <2>1
  <2> QED
    BY <1>6, <2>2
<1>9. g[x] \in Nat /\ g[z] \in Nat /\ Total(g, r) \in Nat
  BY <1>4, TotalNat
<1>10. g[x] + (g[z] + Total(g, r)) = g[z] + (g[x] + Total(g, r))
  BY <1>9
<1> QED
  BY <1>3, <1>4, <1>7, <1>8, <1>10

(* A sum splits in two.                                                    *)
LEMMA TotalSplit ==
  ASSUME NEW D, IsFiniteSet(D), NEW g \in [D -> Nat], NEW S \in SUBSET D, NEW Q \in SUBSET D
  PROVE  Total(g, S) = Total(g, S \cap Q) + Total(g, S \ Q)
<1> DEFINE Bad == {s \in SUBSET D : Total(g, s) # Total(g, s \cap Q) + Total(g, s \ Q)}
<1> SUFFICES ASSUME Bad # {} PROVE FALSE
  OBVIOUS
<1>2. PICK s \in Bad : \A t \in SUBSET s : t # s => t \notin Bad
  <2>1. Bad \subseteq SUBSET D
    OBVIOUS
  <2> HIDE DEF Bad
  <2> QED
    BY <2>1, Smallest
<1>3. s # {}
  <2> SUFFICES ASSUME s = {} PROVE FALSE
    OBVIOUS
  <2>1. s \cap Q = {} /\ s \ Q = {}
    OBVIOUS
  <2>2. Total(g, {}) = 0
    BY TotalEmpty
  <2> QED
    BY <1>2, <2>1, <2>2
<1>4. PICK x \in s : TRUE
  BY <1>3
<1> DEFINE t == s \ {x}
<1>5. Total(g, s) = g[x] + Total(g, t)
  BY TotalRemove
<1>6. Total(g, t) = Total(g, t \cap Q) + Total(g, t \ Q)
  BY <1>2, <1>4
<1>7. /\ g[x] \in Nat /\ Total(g, t \cap Q) \in Nat /\ Total(g, t \ Q) \in Nat
  BY TotalNat
<1>8. CASE x \in Q
  <2>1. s \cap Q \in SUBSET D /\ x \in s \cap Q /\ t \cap Q = (s \cap Q) \ {x} /\ t \ Q = s \ Q
    BY <1>8
  <2>2. Total(g, s \cap Q) = g[x] + Total(g, t \cap Q)
    BY <2>1, TotalRemove
  <2>a. \A p, q, u \in Nat : u + (p + q) = (u + p) + q /\ u + (p + q) = p + (u + q)
    OBVIOUS
  <2>3. Total(g, s) = Total(g, s \cap Q) + Total(g, s \ Q)
    <3>1. Total(g, s) = g[x] + (Total(g, t \cap Q) + Total(g, t \ Q))
      BY <1>5, <1>6
    <3>2. Total(g, s \cap Q) + Total(g, s \ Q) = (g[x] + Total(g, t \cap Q)) + Total(g, t \ Q)
      BY <2>1, <2>2
    <3> QED
      BY <1>7, <2>a, <3>1, <3>2
  <2> QED
    BY <1>2, <2>3
<1>9. CASE x \notin Q
  <2>1. s \ Q \in SUBSET D /\ x \in s \ Q /\ t \ Q = (s \ Q) \ {x} /\ t \cap Q = s \cap Q
    BY <1>9
  <2>2. Total(g, s \ Q) = g[x] + Total(g, t \ Q)
    BY <2>1, TotalRemove
  <2>a. \A p, q, u \in Nat : u + (p + q) = (u + p) + q /\ u + (p + q) = p + (u + q)
    OBVIOUS
  <2>3. Total(g, s) = Total(g, s \cap Q) + Total(g, s \ Q)
    <3>1. Total(g, s) = g[x] + (Total(g, t \cap Q) + Total(g, t \ Q))
      BY <1>5, <1>6
    <3>2. Total(g, s \cap Q) + Total(g, s \ Q) = Total(g, t \cap Q) + (g[x] + Total(g, t \ Q))
      BY <2>1, <2>2
    <3> QED
      BY <1>7, <2>a, <3>1, <3>2
  <2> QED
    BY <1>2, <2>3
<1> QED
  BY <1>8, <1>9

(* Adding c to every summand adds c as often as there are elements.        *)
LEMMA TotalAndCount ==
  ASSUME NEW D, IsFiniteSet(D), NEW g \in [D -> Nat], NEW c \in Nat,
         NEW h \in [D -> Nat], \A x \in D : h[x] = c + g[x], NEW S \in SUBSET D
  PROVE  Total(h, S) = Total(g, S) + c * Cardinality(S)
<1> DEFINE Bad == {s \in SUBSET D : Total(h, s) # Total(g, s) + c * Cardinality(s)}
<1> SUFFICES ASSUME Bad # {} PROVE FALSE
  OBVIOUS
<1>2. PICK s \in Bad : \A t \in SUBSET s : t # s => t \notin Bad
  <2>1. Bad \subseteq SUBSET D
    OBVIOUS
  <2> HIDE DEF Bad
  <2> QED
    BY <2>1, Smallest
<1>3. s # {}
  <2> SUFFICES ASSUME s = {} PROVE FALSE
    OBVIOUS
  <2>1. Cardinality(s) = 0
    BY FS_EmptySet
  <2>2. Total(g, {}) = 0 /\ Total(h, {}) = 0
    BY TotalEmpty
  <2>3. c * 0 = 0
    OBVIOUS
  <2> QED
    BY <1>2, <2>1, <2>2, <2>3
<1>4. PICK x \in s : TRUE
  BY <1>3
<1> DEFINE t == s \ {x}
<1>5. Total(g, s) = g[x] + Total(g, t) /\ Total(h, s) = h[x] + Total(h, t)
  BY TotalRemove
<1>6. Total(h, t) = Total(g, t) + c * Cardinality(t)
  BY <1>2, <1>4
<1>7. IsFiniteSet(s) /\ IsFiniteSet(t)
  BY FS_Subset
<1>8. Cardinality(s) \in Nat /\ Cardinality(t) \in Nat /\ Cardinality(t) = Cardinality(s) - 1
  BY <1>7, FS_CardinalityType, FS_RemoveElement
<1>9. g[x] \in Nat /\ Total(g, t) \in Nat /\ h[x] = c + g[x]
  BY TotalNat
<1>10. c * Cardinality(s) = c + c * Cardinality(t)
  <2>1. \A n \in Nat : c * (n + 1) = c + c * n
    OBVIOUS
  <2>2. Cardinality(s) = Cardinality(t) + 1
    BY <1>8
  <2> QED
    BY <1>8, <2>1, <2>2
<1>11. c * Cardinality(t) \in Nat
  BY <1>8
<1>12. Total(h, s) = Total(g, s) + c * Cardinality(s)
  <2> DEFINE k == c * Cardinality(t)
  <2>1. Total(h, s) = (c + g[x]) + (Total(g, t) + k)
    BY <1>5, <1>6, <1>9
  <2>2. Total(g, s) + c * Cardinality(s) = (g[x] + Total(g, t)) + (c + k)
    BY <1>5, <1>10
  <2>3. k \in Nat
    BY <1>11
  <2> HIDE DEF k
  <2> QED
    BY <2>1, <2>2, <2>3, <1>9
<1> QED
  BY <1>2, <1>12
-----------------------------------------------------------------------------
(* What each block takes of memory m, and what each region gives.          *)
Weights(m) == [a \in Addr |-> HeaderUnits + m[a].size]
Sizes(m) == [a \in Addr |-> m[a].size]
Lengths(M) == [i \in DOMAIN M |-> IF Accepted(M[i]) THEN Length(M[i]) ELSE 0]

(* The regions memory_init takes, and those it has taken so far.           *)
AcceptedIn(M) == {i \in DOMAIN M : Accepted(M[i])}
Taken == {i \in AcceptedIn(map) : i < region}

(* The list weighs what the regions taken so far gave.                     *)
ConsInv ==
  /\ Total(Weights(mem), blocks) = Total(Lengths(map), Taken)
  /\ pc # "init" => region \notin DOMAIN map

LEMMA AddrFinite == IsFiniteSet(Addr) /\ \A x \in Addr : x \in Nat
<1>1. Top \in Int /\ 0 \in Int
  BY HeapAssumption
<1>2. IsFiniteSet(0 .. Top)
  BY <1>1, FS_Interval
<1>3. QED
  BY <1>2 DEF Addr

LEMMA WeightsType ==
  ASSUME NEW m \in Memory
  PROVE  /\ Weights(m) \in [Addr -> Nat] /\ Sizes(m) \in [Addr -> Nat]
         /\ \A x \in Addr : /\ m[x].size \in Nat /\ Sizes(m)[x] = m[x].size
                            /\ Weights(m)[x] = HeaderUnits + m[x].size
<1>1. \A x \in Addr : m[x] \in Header
  BY DEF Memory
<1>2. HeaderUnits \in Nat /\ \A x \in Addr : m[x].size \in Nat
  BY <1>1, HeapAssumption DEF Header
<1>3. QED
  BY <1>2 DEF Weights, Sizes

LEMMA LengthsType ==
  ASSUME NEW M \in MemoryMaps
  PROVE  /\ IsFiniteSet(DOMAIN M) /\ DOMAIN M = 1 .. Len(M) /\ Len(M) \in Nat
         /\ Lengths(M) \in [DOMAIN M -> Nat]
         /\ \A i \in AcceptedIn(M) : Lengths(M)[i] = Length(M[i])
<1>1. M \in Seq(Region)
  BY HeapAssumption
<1>2. DOMAIN M = 1 .. Len(M) /\ Len(M) \in Nat
  BY <1>1
<1>3. IsFiniteSet(1 .. Len(M))
  BY <1>2, FS_Interval
<1>4. ASSUME NEW i \in DOMAIN M, Accepted(M[i])
      PROVE  Length(M[i]) \in Nat
  <2>1. M[i] \in Region
    BY <1>1, <1>4
  <2>2. M[i].base \in Nat /\ M[i].length \in Nat
    BY <2>1 DEF Region
  <2>3. QED
    BY <1>4, <2>2, HeapAssumption DEF Accepted, Length, Base
<1>5. QED
  BY <1>2, <1>3, <1>4 DEF Lengths, AcceptedIn

(* Two blocks and their weight: what the others weigh does not matter.     *)
LEMMA TotalOfTwo ==
  ASSUME NEW D, IsFiniteSet(D), NEW g \in [D -> Nat], NEW S \in SUBSET D,
         NEW x \in S, NEW y \in S, x # y
  PROVE  Total(g, S) = g[x] + g[y] + Total(g, S \ {x, y})
<1>1. Total(g, S) = g[x] + Total(g, S \ {x})
  BY TotalRemove
<1>2. S \ {x} \in SUBSET D /\ y \in S \ {x} /\ (S \ {x}) \ {y} = S \ {x, y}
  OBVIOUS
<1>3. Total(g, S \ {x}) = g[y] + Total(g, (S \ {x}) \ {y})
  BY <1>2, TotalRemove
<1>4. g[x] \in Nat /\ g[y] \in Nat /\ Total(g, S \ {x, y}) \in Nat
  BY TotalNat
<1>5. Total(g, S) = g[x] + (g[y] + Total(g, S \ {x, y}))
  BY <1>1, <1>2, <1>3
<1>6. QED
  BY <1>4, <1>5

(* Merging two blocks loses nothing and invents nothing.                   *)
LEMMA AbsorbTotal ==
  ASSUME NEW m \in Memory, NEW B \in SUBSET Addr, NEW a \in B, NEW b \in B, a # b
  PROVE  Total(Weights(Absorb(m, a, b)), B \ {b}) = Total(Weights(m), B)
<1> DEFINE n == Absorb(m, a, b)
           w == Weights(m)
           v == Weights(n)
           R == B \ {a, b}
<1>1. n \in Memory /\ \A x \in Addr :
        n[x].size = IF x = a THEN m[a].size + HeaderUnits + m[b].size ELSE m[x].size
  BY AbsorbValue
<1> HIDE DEF n
<1>2. /\ w \in [Addr -> Nat] /\ v \in [Addr -> Nat]
      /\ \A x \in Addr : /\ m[x].size \in Nat /\ w[x] = HeaderUnits + m[x].size
                         /\ v[x] = HeaderUnits + n[x].size
  BY <1>1, WeightsType
<1> HIDE DEF w, v
<1>3. v[a] = w[a] + w[b] /\ \A x \in R : v[x] = w[x]
  <2>1. \A x \in R : x \in Addr /\ x # a
    OBVIOUS
  <2>2. \A x \in R : v[x] = w[x]
    BY <1>1, <1>2, <2>1
  <2>3. m[a].size \in Nat /\ m[b].size \in Nat /\ HeaderUnits \in Nat
    BY <1>2, HeapAssumption
  <2>4. v[a] = HeaderUnits + (m[a].size + HeaderUnits + m[b].size)
    BY <1>1, <1>2
  <2>5. w[a] = HeaderUnits + m[a].size /\ w[b] = HeaderUnits + m[b].size
    BY <1>2
  <2>6. QED
    BY <2>2, <2>3, <2>4, <2>5
<1>4. Total(w, B) = w[a] + w[b] + Total(w, R)
  BY <1>2, AddrFinite, TotalOfTwo
<1>5. Total(v, R) = Total(w, R)
  <2> HIDE DEF R
  <2>1. R \in SUBSET Addr
    BY DEF R
  <2>2. QED
    BY <1>2, <1>3, <2>1, AddrFinite, TotalSame
<1>6. Total(v, B \ {b}) = v[a] + Total(v, R)
  <2>1. B \ {b} \in SUBSET Addr /\ a \in B \ {b} /\ (B \ {b}) \ {a} = R
    OBVIOUS
  <2>2. Total(v, B \ {b}) = v[a] + Total(v, (B \ {b}) \ {a})
    BY <1>2, <2>1, AddrFinite, TotalRemove
  <2>3. QED
    BY <2>1, <2>2
<1>7. Total(v, B \ {b}) = Total(w, B)
  BY <1>3, <1>4, <1>5, <1>6
<1>8. QED
  BY <1>7 DEF v, w, n

(* The total depends on sizes only.                                        *)
LEMMA SameSizes ==
  ASSUME NEW m \in Memory, NEW n \in Memory, NEW B \in SUBSET Addr,
         \A x \in B : n[x].size = m[x].size
  PROVE  Total(Weights(n), B) = Total(Weights(m), B)
<1>1. /\ Weights(m) \in [Addr -> Nat] /\ Weights(n) \in [Addr -> Nat]
      /\ \A x \in B : Weights(n)[x] = Weights(m)[x]
  BY WeightsType
<1>2. QED
  BY <1>1, AddrFinite, TotalSame

(* free keeps the total: what it merges it adds up.                        *)
LEMMA FreeTotal ==
  ASSUME TypeOK, ListIntegrity, UsedIsHeld, NEW e \in live
  PROVE  LET b == e.ptr - HeaderUnits
         IN  /\ mem[b].magic
             /\ Total(Weights(AfterFree(b)), blocks \ Merged(b)) = Total(Weights(mem), blocks)
<1> DEFINE b == e.ptr - HeaderUnits
           c == mem[b].next
           p == mem[b].prev
           m0 == SetUsed(mem, b, FALSE)
           m1 == Released(b)
           m2 == AfterFree(b)
           B1 == IF FreeBlock(mem, c) THEN blocks \ {c} ELSE blocks
<1> USE DEF NULL
<1>1. /\ mem \in Memory /\ blocks \in SUBSET Addr /\ Linked(mem, head, blocks)
      /\ Ordered(mem, blocks) /\ \A x \in Addr : x \in Nat
  BY DEF TypeOK, ListIntegrity, Memory, Addr
<1>2. b \in blocks /\ b \in Addr /\ mem[b].magic
  BY <1>1 DEF UsedIsHeld, Held, Linked
<1>3. /\ c # NULL => c \in blocks /\ b < c /\ mem[c].prev = b
      /\ p # NULL => p \in blocks /\ p < b /\ mem[p].next = b
      /\ \A x \in blocks : mem[x].next = b => x = p
      /\ NULL \notin blocks
  BY <1>1, <1>2 DEF Linked, Ordered
<1>4. /\ m0 \in Memory
      /\ \A x \in Addr :
           /\ m0[x].magic = mem[x].magic
           /\ m0[x].used = IF x = b THEN FALSE ELSE mem[x].used
           /\ m0[x].size = mem[x].size
           /\ m0[x].next = mem[x].next
           /\ m0[x].prev = mem[x].prev
  <2>1. mem \in Memory /\ b \in Addr /\ FALSE \in BOOLEAN
    BY <1>1, <1>2
  <2> HIDE DEF b
  <2>2. QED
    BY <2>1, SetUsedValue
<1>5. /\ m1 = IF FreeBlock(m0, m0[b].next) THEN Absorb(m0, b, m0[b].next) ELSE m0
      /\ m2 = IF FreeBlock(m1, m1[b].prev) THEN Absorb(m1, m1[b].prev, b) ELSE m1
      /\ m2 = AfterFree(b) /\ b = e.ptr - HeaderUnits
      /\ B1 = IF FreeBlock(mem, c) THEN blocks \ {c} ELSE blocks
      /\ c = mem[b].next /\ p = mem[b].prev
  BY DEF Released, AfterFree
<1> HIDE DEF b, c, p, m0, m1, m2, B1
<1>6. /\ c # NULL => m0[c].used = mem[c].used /\ c \in Addr /\ c # b /\ c # p
      /\ p # NULL => m0[p].used = mem[p].used /\ p \in Addr /\ p # b
      /\ m0[b].next = c /\ m0[b].prev = p /\ ~m0[b].used
  <2>1. /\ c # NULL => c \in Addr /\ c # b
        /\ p # NULL => p \in Addr /\ p # b
        /\ b # NULL
    BY <1>1, <1>2, <1>3
  <2>2. c # NULL => c # p
    BY <1>1, <1>2, <1>3, <2>1
  <2>3. (c # NULL => m0[c].used = mem[c].used) /\ (p # NULL => m0[p].used = mem[p].used)
    BY <1>4, <2>1
  <2>4. m0[b].next = c /\ m0[b].prev = p /\ ~m0[b].used
    BY <1>2, <1>4, <1>5
  <2>5. QED
    BY <2>1, <2>2, <2>3, <2>4
<1>7. Total(Weights(m0), blocks) = Total(Weights(mem), blocks)
  BY <1>1, <1>4, SameSizes
<1>8. /\ m1 \in Memory /\ B1 \in SUBSET Addr /\ b \in B1
      /\ Total(Weights(m1), B1) = Total(Weights(m0), blocks)
      /\ m1[b].prev = p
      /\ p # NULL => p \in B1 /\ m1[p].used = mem[p].used
  <2>1. CASE FreeBlock(mem, c)
    <3>1. c # NULL /\ ~m0[c].used /\ FreeBlock(m0, c)
      BY <1>6, <2>1 DEF FreeBlock
    <3>2. m1 = Absorb(m0, b, c) /\ B1 = blocks \ {c}
      BY <1>5, <1>6, <2>1, <3>1
    <3>3. Total(Weights(m1), B1) = Total(Weights(m0), blocks)
      <4>1. m0 \in Memory /\ blocks \in SUBSET Addr /\ b \in blocks /\ c \in blocks /\ b # c
        BY <1>1, <1>2, <1>3, <1>4, <1>6, <3>1
      <4>2. Total(Weights(Absorb(m0, b, c)), blocks \ {c}) = Total(Weights(m0), blocks)
        BY <4>1, AbsorbTotal
      <4>3. QED
        BY <3>2, <4>2
    <3>4. m1 \in Memory /\ \A x \in Addr :
            /\ m1[x].used = m0[x].used
            /\ m1[x].prev = IF x = m0[c].next /\ x # NULL THEN b ELSE m0[x].prev
      <4> DEFINE n == Absorb(m0, b, c)
      <4>1. m0 \in Memory /\ b \in Addr /\ c \in Addr
        BY <1>2, <1>4, <1>6, <3>1
      <4>2. n \in Memory /\ \A x \in Addr :
              /\ n[x].used = m0[x].used
              /\ n[x].prev = IF x = m0[c].next /\ x # NULL THEN b ELSE m0[x].prev
        BY <4>1, AbsorbValue
      <4>3. m1 = n
        BY <3>2
      <4> HIDE DEF n
      <4>4. QED
        BY <4>2, <4>3
    <3>5. b # mem[c].next
      BY <1>3, <1>6, <3>1
    <3>6. m0[c].next = mem[c].next
      BY <1>4, <1>6, <3>1
    <3>7. QED
      BY <1>1, <1>2, <1>3, <1>6, <3>1, <3>2, <3>3, <3>4, <3>5, <3>6
  <2>2. CASE ~FreeBlock(mem, c)
    <3>1. ~FreeBlock(m0, c)
      BY <1>6, <2>2 DEF FreeBlock
    <3>2. m1 = m0 /\ B1 = blocks
      BY <1>5, <1>6, <2>2, <3>1
    <3>3. QED
      BY <1>1, <1>2, <1>3, <1>4, <1>6, <3>2
  <2>3. QED
    BY <2>1, <2>2
<1>9. FreeBlock(m1, p) <=> FreeBlock(mem, p)
  BY <1>8 DEF FreeBlock
<1>10. blocks \ Merged(b) = IF FreeBlock(mem, p) THEN B1 \ {b} ELSE B1
  BY <1>5 DEF Merged
<1>11. Total(Weights(m2), blocks \ Merged(b)) = Total(Weights(m1), B1)
  <2>1. CASE FreeBlock(mem, p)
    <3>1. p # NULL /\ m2 = Absorb(m1, p, b)
      BY <1>5, <1>8, <1>9, <2>1 DEF FreeBlock
    <3>2. p \in B1 /\ p # b
      BY <1>6, <1>8, <3>1
    <3>3. Total(Weights(Absorb(m1, p, b)), B1 \ {b}) = Total(Weights(m1), B1)
      BY <1>8, <3>2, AbsorbTotal
    <3>4. QED
      BY <1>10, <2>1, <3>1, <3>3
  <2>2. CASE ~FreeBlock(mem, p)
    <3>1. m2 = m1 /\ blocks \ Merged(b) = B1
      BY <1>5, <1>8, <1>9, <1>10, <2>2
    <3>2. QED
      BY <3>1
  <2>3. QED
    BY <2>1, <2>2
<1>12. QED
  BY <1>2, <1>5, <1>7, <1>8, <1>11

(* malloc keeps the total: a split gives the rest a header of its own out  *)
(* of what it divides.                                                     *)
LEMMA TakeTotal ==
  ASSUME IInv, MallocTake
  PROVE  \A m \in {mem'} : \A B \in {blocks'} :
           Total(Weights(m), B) = Total(Weights(mem), blocks)
<1> DEFINE s == IF Splits(cur) THEN Split(cur) ELSE mem
           n == SetUsed(s, cur, TRUE)
           k == Cut(cur)
<1> USE DEF NULL
<1>1. /\ mem \in Memory /\ blocks \in SUBSET Addr /\ cur \in blocks /\ cur \in Addr
      /\ request \in Nat \ {0} /\ Linked(mem, head, blocks) /\ Ordered(mem, blocks)
  BY DEF IInv, TypeOK, Memory, WalkInv, ListIntegrity, MallocTake
<1>2. mem' = n /\ blocks' = IF Splits(cur) THEN blocks \cup {k} ELSE blocks
  BY DEF MallocTake
<1>3. Splits(cur) =>
        /\ k \in Addr /\ k \notin blocks
        /\ s \in Memory
        /\ \A x \in Addr :
             s[x].size = IF x = k THEN mem[cur].size - request - HeaderUnits
                         ELSE IF x = cur THEN request ELSE mem[x].size
  <2> DEFINE t == Split(cur)
  <2>1. SUFFICES ASSUME Splits(cur)
                 PROVE  /\ k \in Addr /\ k \notin blocks
                        /\ t \in Memory
                        /\ \A x \in Addr :
                             t[x].size = IF x = k THEN mem[cur].size - request - HeaderUnits
                                         ELSE IF x = cur THEN request ELSE mem[x].size
    OBVIOUS
  <2>2. /\ k \in Addr /\ k \notin blocks /\ cur < k
        /\ k + HeaderUnits + (mem[cur].size - request - HeaderUnits) = EndIn(mem, cur)
        /\ mem[cur].next # NULL => EndIn(mem, cur) <= mem[cur].next
        /\ t \in Memory
        /\ \A x \in Addr :
             /\ t[x].magic = IF x = k THEN TRUE ELSE mem[x].magic
             /\ t[x].used = IF x = k THEN FALSE ELSE mem[x].used
             /\ t[x].size = IF x = k THEN mem[cur].size - request - HeaderUnits
                            ELSE IF x = cur THEN request ELSE mem[x].size
             /\ t[x].next = IF x = k THEN mem[cur].next
                            ELSE IF x = cur THEN k ELSE mem[x].next
             /\ t[x].prev = IF x = k THEN cur
                            ELSE IF x = mem[cur].next /\ x # NULL THEN k
                            ELSE mem[x].prev
    BY <1>1, <2>1, SplitValue
  <2> HIDE DEF t, k
  <2>3. QED
    BY <2>2
<1>4. ~Splits(cur) => s = mem
  OBVIOUS
<1>5. s \in Memory
  BY <1>1, <1>3, <1>4
<1> HIDE DEF s, k
<1>6. /\ n \in Memory
      /\ \A x \in Addr :
           /\ n[x].magic = s[x].magic
           /\ n[x].used = IF x = cur THEN TRUE ELSE s[x].used
           /\ n[x].size = s[x].size
           /\ n[x].next = s[x].next
           /\ n[x].prev = s[x].prev
  <2>1. s \in Memory /\ cur \in Addr /\ TRUE \in BOOLEAN
    BY <1>1, <1>5
  <2>2. QED
    BY <2>1, SetUsedValue
<1> HIDE DEF n
<1>7. CASE Splits(cur)
  <2> DEFINE w == Weights(mem)
             v == Weights(n)
             R == blocks \ {cur}
  <2>1. /\ w \in [Addr -> Nat] /\ v \in [Addr -> Nat]
        /\ \A x \in Addr : /\ mem[x].size \in Nat /\ w[x] = HeaderUnits + mem[x].size
                           /\ v[x] = HeaderUnits + n[x].size
    BY <1>1, <1>6, WeightsType
  <2> HIDE DEF w, v
  <2>2. k # cur /\ k \in Addr /\ k \notin blocks
    BY <1>1, <1>3, <1>7
  <2>3. \A x \in R : v[x] = w[x]
    <3>1. \A x \in R : x \in Addr /\ x # cur /\ x # k
      BY <1>1, <2>2
    <3>2. \A x \in R : n[x].size = mem[x].size
      BY <1>3, <1>6, <1>7, <3>1
    <3>3. QED
      BY <2>1, <3>1, <3>2
  <2>4. v[cur] + v[k] = w[cur]
    <3>1. n[cur].size = request /\ n[k].size = mem[cur].size - request - HeaderUnits
      BY <1>1, <1>3, <1>6, <1>7, <2>2
    <3>2. mem[cur].size \in Nat /\ HeaderUnits \in Nat /\ request \in Nat
      BY <1>1, <2>1, HeapAssumption
    <3>3. /\ w[cur] = HeaderUnits + mem[cur].size
          /\ v[cur] = HeaderUnits + request
          /\ v[k] = HeaderUnits + (mem[cur].size - request - HeaderUnits)
      BY <1>1, <2>1, <2>2, <3>1
    <3>4. QED
      BY <3>2, <3>3
  <2>5. Total(w, blocks) = w[cur] + Total(w, R)
    BY <1>1, <2>1, AddrFinite, TotalRemove
  <2>6. Total(v, blocks \cup {k}) = v[cur] + v[k] + Total(v, R)
    <3>1. /\ blocks \cup {k} \in SUBSET Addr /\ cur \in blocks \cup {k} /\ k \in blocks \cup {k}
          /\ (blocks \cup {k}) \ {cur, k} = R
      BY <1>1, <2>2
    <3>2. Total(v, blocks \cup {k})
            = v[cur] + v[k] + Total(v, (blocks \cup {k}) \ {cur, k})
      BY <2>1, <2>2, <3>1, AddrFinite, TotalOfTwo
    <3>3. QED
      BY <3>1, <3>2
  <2>7. Total(v, R) = Total(w, R)
    <3>1. R \in SUBSET Addr
      BY <1>1
    <3> HIDE DEF R
    <3>2. QED
      BY <2>1, <2>3, <3>1, AddrFinite, TotalSame
  <2>8. Total(v, blocks \cup {k}) = Total(w, blocks)
    BY <2>4, <2>5, <2>6, <2>7
  <2>9. QED
    BY <1>2, <1>7, <2>8 DEF v, w
<1>8. CASE ~Splits(cur)
  <2>1. Total(Weights(n), blocks) = Total(Weights(mem), blocks)
    <3>1. n \in Memory /\ mem \in Memory /\ blocks \in SUBSET Addr
      BY <1>1, <1>6
    <3>2. \A x \in blocks : n[x].size = mem[x].size
      BY <1>4, <1>6, <1>8, <3>1
    <3>3. QED
      BY <3>1, <3>2, SameSizes
  <2>2. QED
    BY <1>2, <1>8, <2>1
<1>9. QED
  BY <1>7, <1>8
(* A region's block weighs what the region gives.                          *)
LEMMA RegionTotal ==
  ASSUME IInv, AddRegion
  PROVE  \A m \in {mem'} : \A B \in {blocks'} :
           Total(Weights(m), B)
             = Length(map[region]) + Total(Weights(mem), blocks)
<1> DEFINE b == Base(map[region])
           z == Length(map[region]) - HeaderUnits
           h == [magic |-> TRUE, size |-> z, used |-> FALSE, next |-> NULL, prev |-> last]
           g == [mem EXCEPT ![b] = h]
<1> USE DEF NULL
<1>1. /\ mem' = SetNext(g, last, b) /\ blocks' = blocks \cup {b}
      /\ region \in DOMAIN map /\ Accepted(map[region])
      /\ mem \in Memory /\ last \in Addr /\ blocks \subseteq Addr /\ map \in MemoryMaps
      /\ Linked(mem, head, blocks)
      /\ \A x \in blocks : ~mem[x].used /\ x <= last /\ EndIn(mem, x) <= map[region].base
      /\ last # NULL => last \in blocks
  <2>1. region \in 1 .. Len(map)
    BY HeapAssumption DEF AddRegion, IInv, TypeOK
  <2>2. QED
    BY <2>1 DEF AddRegion, IInv, TypeOK, Memory, ListIntegrity, InitInv
<1>2. /\ b \in Addr /\ b # NULL /\ z \in Nat /\ map[region].base \in Nat
      /\ map[region].base <= b /\ HeaderUnits \in Nat \ {0}
  BY <1>1, RegionFacts, HeapAssumption
<1>3. h \in Header /\ h.size = z
  <2> HIDE DEF b, z
  <2>1. NULL \in Addr
    BY HeapAssumption DEF Addr
  <2>2. QED
    BY <1>1, <1>2, <2>1 DEF Header
<1>4. b \notin blocks
  <2>0. b \in Nat
    BY <1>2 DEF Addr
  <2>1. ASSUME NEW x \in blocks
        PROVE  x < b
    <3>1. x \in Nat /\ mem[x] \in Header
      BY <1>1 DEF Memory, Addr
    <3>2. mem[x].size \in Nat
      BY <3>1 DEF Header
    <3>3. EndIn(mem, x) <= map[region].base
      BY <1>1
    <3> HIDE DEF b
    <3>4. QED
      BY <1>2, <2>0, <3>1, <3>2, <3>3 DEF EndIn
  <2> HIDE DEF b
  <2>2. QED
    BY <2>0, <2>1
<1> HIDE DEF h, b
<1>5. g \in Memory /\ \A x \in Addr : g[x] = IF x = b THEN h ELSE mem[x]
  BY <1>1, <1>2, <1>3 DEF Memory
<1> HIDE DEF g
<1> DEFINE n == SetNext(g, last, b)
<1>6. /\ n \in Memory
      /\ \A x \in Addr :
           /\ n[x].magic = g[x].magic
           /\ n[x].used = g[x].used
           /\ n[x].size = g[x].size
           /\ n[x].next = IF x = last /\ x # NULL THEN b ELSE g[x].next
           /\ n[x].prev = g[x].prev
  <2>1. g \in Memory /\ last \in Addr /\ b \in Addr
    BY <1>1, <1>2, <1>5
  <2>2. QED
    BY <2>1, SetNextValue
<1> HIDE DEF n
<1> DEFINE w == Weights(mem)
           v == Weights(n)
<1>7. /\ w \in [Addr -> Nat] /\ v \in [Addr -> Nat]
      /\ \A x \in Addr : /\ w[x] = HeaderUnits + mem[x].size
                         /\ v[x] = HeaderUnits + n[x].size
  BY <1>1, <1>6, WeightsType
<1> HIDE DEF w, v
<1>8. \A x \in blocks : x \in Addr /\ v[x] = w[x]
  BY <1>1, <1>4, <1>5, <1>6, <1>7
<1>9. Total(v, blocks) = Total(w, blocks)
  BY <1>1, <1>7, <1>8, AddrFinite, TotalSame
<1>10. Total(v, blocks \cup {b}) = v[b] + Total(v, blocks)
  <2>1. /\ blocks \cup {b} \in SUBSET Addr /\ b \in blocks \cup {b}
        /\ (blocks \cup {b}) \ {b} = blocks
    BY <1>1, <1>2, <1>4
  <2>2. Total(v, blocks \cup {b}) = v[b] + Total(v, (blocks \cup {b}) \ {b})
    BY <1>7, <2>1, AddrFinite, TotalRemove
  <2>3. QED
    BY <2>1, <2>2
<1>11. v[b] = HeaderUnits + z
  BY <1>2, <1>3, <1>5, <1>6, <1>7
<1>12. HeaderUnits + z = Length(map[region])
  <2>1. map[region] \in Region
    BY <1>1, HeapAssumption
  <2>2. map[region].base \in Nat /\ map[region].length \in Nat /\ LowEnd \in Nat
    BY <2>1, HeapAssumption DEF Region
  <2>3. Length(map[region]) \in Int
    BY <2>2 DEF Length, Base
  <2>4. QED
    BY <1>2, <2>3
<1>13. Total(v, blocks \cup {b}) = Length(map[region]) + Total(w, blocks)
  BY <1>9, <1>10, <1>11, <1>12
<1>14. mem' = n /\ blocks' = blocks \cup {b}
  BY <1>1 DEF n
<1>15. QED
  BY <1>13, <1>14 DEF v, w

LEMMA ConsInit == Init => ConsInv
<1> SUFFICES ASSUME Init PROVE ConsInv
  OBVIOUS
<1>1. /\ mem \in Memory /\ blocks = {} /\ region = 1 /\ map \in MemoryMaps /\ pc = "init"
  <2>1. Init => IInv
    BY InitKeeps
  <2>2. QED
    BY <2>1 DEF Init, IInv, TypeOK, Memory
<1>2. Total(Weights(mem), blocks) = 0
  BY <1>1, WeightsType, AddrFinite, TotalEmpty
<1>3. Taken = {}
  <2>1. DOMAIN map = 1 .. Len(map) /\ Len(map) \in Nat
    BY <1>1, LengthsType
  <2>2. QED
    BY <1>1, <2>1 DEF Taken, AcceptedIn
<1>4. Total(Lengths(map), Taken) = 0
  BY <1>1, <1>3, LengthsType, TotalEmpty
<1>5. QED
  BY <1>1, <1>2, <1>4 DEF ConsInv

(* The weights follow the regions taken, action by action.                 *)
LEMMA ConsKeeps == IInv /\ ConsInv /\ [Next]_vars => ConsInv'
<1> SUFFICES ASSUME IInv, ConsInv, [Next]_vars
             PROVE  ConsInv'
  OBVIOUS
<1>1. /\ mem \in Memory /\ blocks \in SUBSET Addr /\ map \in MemoryMaps
      /\ region \in 1 .. Len(map) + 1
  BY DEF IInv, TypeOK, Memory
<1>2. mem' \in Memory
  BY Inductive DEF IInv, TypeOK, Memory
<1>3. /\ DOMAIN map = 1 .. Len(map) /\ Len(map) \in Nat /\ IsFiniteSet(DOMAIN map)
      /\ Lengths(map) \in [DOMAIN map -> Nat]
      /\ \A i \in AcceptedIn(map) : Lengths(map)[i] = Length(map[i])
  BY <1>1, LengthsType
<1>4. CASE AddRegion
  <2>1. /\ region \in DOMAIN map /\ Accepted(map[region]) /\ region' = region + 1
        /\ map' = map /\ pc' = "init"
    BY <1>4 DEF AddRegion
  <2>2. \A m \in {mem'} : \A B \in {blocks'} :
          Total(Weights(m), B)
            = Length(map[region]) + Total(Weights(mem), blocks)
    BY <1>4, RegionTotal
  <2> DEFINE L == Lengths(map)
             S == Taken \cup {region}
  <2>3. /\ S \in SUBSET DOMAIN map /\ region \in S /\ S \ {region} = Taken
        /\ Taken' = S
    <3>1. Taken' = {i \in AcceptedIn(map) : i < region + 1}
      BY <2>1 DEF Taken
    <3>2. region \in AcceptedIn(map) /\ region \in Nat
      BY <1>3, <2>1 DEF AcceptedIn
    <3>3. \A i \in AcceptedIn(map) : i \in Nat /\ i \in DOMAIN map
      BY <1>3 DEF AcceptedIn
    <3>4. \A i \in Nat : i < region + 1 <=> i < region \/ i = region
      BY <3>2
    <3>5. \A i : i \in {k \in AcceptedIn(map) : k < region + 1} <=> i \in Taken \cup {region}
      BY <3>2, <3>3, <3>4 DEF Taken
    <3>6. Taken' = S
      BY <3>1, <3>5
    <3>7. region \notin Taken /\ \A i \in Taken : i \in DOMAIN map
      BY <3>2, <3>3 DEF Taken
    <3>8. QED
      BY <2>1, <3>6, <3>7
  <2>4. Total(L, S) = L[region] + Total(L, Taken)
    <3> HIDE DEF L, S
    <3>1. Total(L, S) = L[region] + Total(L, S \ {region})
      BY <1>3, <2>3, TotalRemove DEF L
    <3>2. QED
      BY <2>3, <3>1
  <2>5. L[region] = Length(map[region])
    BY <1>3, <2>1 DEF AcceptedIn
  <2>6. Total(Weights(mem), blocks) = Total(L, Taken)
    BY DEF ConsInv
  <2>7. \A m \in {mem'} : \A B \in {blocks'} : Total(Weights(m), B) = Total(L, S)
    BY <2>2, <2>4, <2>5, <2>6
  <2>8. QED
    BY <2>1, <2>3, <2>7 DEF ConsInv
<1>5. CASE SkipRegion
  <2>1. /\ ~Accepted(map[region]) /\ region' = region + 1 /\ map' = map
        /\ mem' = mem /\ blocks' = blocks /\ pc' = "init"
    BY <1>5 DEF SkipRegion
  <2>2. Taken' = Taken
    <3>1. Taken' = {i \in AcceptedIn(map) : i < region + 1}
      BY <2>1 DEF Taken
    <3>2. \A i \in AcceptedIn(map) : i \in Nat /\ i # region
      BY <1>3, <2>1 DEF AcceptedIn
    <3>3. region \in Nat
      BY <1>1, <1>3
    <3>4. \A i \in Nat : i # region => (i < region + 1 <=> i < region)
      BY <3>3
    <3>5. QED
      BY <3>1, <3>2, <3>4 DEF Taken
  <2>3. QED
    BY <2>1, <2>2 DEF ConsInv
<1>6. SUFFICES ASSUME ~AddRegion, ~SkipRegion
               PROVE  /\ map' = map /\ region' = region
                      /\ pc' # "init" => region \notin DOMAIN map
                      /\ \A m \in {mem'} : \A B \in {blocks'} :
                           Total(Weights(m), B) = Total(Weights(mem), blocks)
  <2>1. CASE ~AddRegion /\ ~SkipRegion
    <3>1. /\ map' = map /\ region' = region
          /\ pc' # "init" => region \notin DOMAIN map
          /\ \A m \in {mem'} : \A B \in {blocks'} :
               Total(Weights(m), B) = Total(Weights(mem), blocks)
      BY <1>6, <2>1
    <3>2. Taken' = Taken
      BY <3>1 DEF Taken
    <3>3. QED
      BY <3>1, <3>2 DEF ConsInv
  <2>2. QED
    BY <1>4, <1>5, <2>1
<1>7. CASE InitDone
  BY <1>7 DEF InitDone
<1>8. CASE MallocTake
  <2>1. map' = map /\ region' = region /\ region \notin DOMAIN map
    BY <1>8 DEF MallocTake, ConsInv
  <2>2. QED
    BY <1>8, <2>1, TakeTotal
<1>9. CASE \E e \in live : Free(e.ptr)
  <2>1. PICK e \in live : Free(e.ptr)
    BY <1>9
  <2> DEFINE b == e.ptr - HeaderUnits
  <2>2. /\ mem[b].magic
        /\ Total(Weights(AfterFree(b)), blocks \ Merged(b)) = Total(Weights(mem), blocks)
    BY FreeTotal DEF IInv
  <2>3. /\ map' = map /\ region' = region /\ mem' = AfterFree(b)
        /\ blocks' = blocks \ Merged(b) /\ pc = "idle" /\ pc' = pc
    BY <2>1, <2>2 DEF Free
  <2>4. QED
    BY <2>2, <2>3 DEF ConsInv
<1>10. CASE \E e \in live : ClientWrite(e)
  <2>1. PICK e \in live : ClientWrite(e)
    BY <1>10
  <2>2. /\ map' = map /\ region' = region /\ blocks' = blocks /\ pc = "idle" /\ pc' = pc
        /\ mem' = [x \in Addr |-> IF Overlaps(e, x) THEN NoHeader ELSE mem[x]]
    BY <2>1 DEF ClientWrite
  <2>3. \A x \in blocks : mem'[x] = mem[x]
    BY <1>1, <2>2, WriteMissesHeaders DEF IInv
  <2>4. \A m \in {mem'} : Total(Weights(m), blocks) = Total(Weights(mem), blocks)
    <3>1. SUFFICES ASSUME NEW m \in Memory, \A x \in blocks : m[x] = mem[x]
                   PROVE  Total(Weights(m), blocks) = Total(Weights(mem), blocks)
      BY <1>2, <2>3, <3>1
    <3>2. QED
      BY <1>1, <3>1, SameSizes
  <2>5. QED
    BY <2>2, <2>4 DEF ConsInv
<1>11. CASE \/ \E n \in Requests : MallocCall(n)
            \/ MallocVisit \/ MallocFail \/ Halted \/ UNCHANGED vars
  BY <1>11 DEF MallocCall, MallocVisit, MallocFail, Return, Halted, vars, ConsInv
<1>12. QED
  BY <1>6, <1>7, <1>8, <1>9, <1>10, <1>11 DEF Next, MemoryInit, MallocStep

(* What the invariant says of the two statistics and the headers.          *)
LEMMA ConsImplies == IInv /\ ConsInv => Conserved
<1> SUFFICES ASSUME IInv, ConsInv, pc # "init"
             PROVE  FreeUnits + UsedUnits + HeaderUnits * Cardinality(blocks) = RegionUnits
  BY DEF Conserved
<1> DEFINE g == Sizes(mem)
           h == Weights(mem)
           L == Lengths(map)
           F == {b \in blocks : ~mem[b].used}
           U == {b \in blocks : mem[b].used}
           A == {i \in DOMAIN map : Accepted(map[i])}
<1>1. /\ mem \in Memory /\ blocks \in SUBSET Addr /\ map \in MemoryMaps
      /\ region \in 1 .. Len(map) + 1 /\ region \notin DOMAIN map
  BY DEF IInv, TypeOK, Memory, ConsInv
<1>2. /\ g \in [Addr -> Nat] /\ h \in [Addr -> Nat]
      /\ \A x \in Addr : g[x] = mem[x].size /\ h[x] = HeaderUnits + mem[x].size
  BY <1>1, WeightsType
<1>3. /\ DOMAIN map = 1 .. Len(map) /\ Len(map) \in Nat /\ IsFiniteSet(DOMAIN map)
      /\ L \in [DOMAIN map -> Nat] /\ \A i \in A : L[i] = Length(map[i])
  BY <1>1, LengthsType DEF AcceptedIn
<1>4. FreeUnits = Total(g, F)
  <2> HIDE DEF g
  <2>1. F \in SUBSET Addr /\ \A x \in F : g[x] = mem[x].size
    BY <1>1, <1>2
  <2> HIDE DEF F
  <2>2. MapThenSumSet(LAMBDA b : mem[b].size, F) = Total(g, F)
    BY <1>2, <2>1, AddrFinite, SizesTotal
  <2>3. QED
    BY <2>2 DEF F, FreeUnits
<1>5. UsedUnits = Total(g, U)
  <2> HIDE DEF g
  <2>1. U \in SUBSET Addr /\ \A x \in U : g[x] = mem[x].size
    BY <1>1, <1>2
  <2> HIDE DEF U
  <2>2. MapThenSumSet(LAMBDA b : mem[b].size, U) = Total(g, U)
    BY <1>2, <2>1, AddrFinite, SizesTotal
  <2>3. QED
    BY <2>2 DEF U, UsedUnits
<1>6. RegionUnits = Total(L, A)
  <2> HIDE DEF L
  <2>1. A \in SUBSET DOMAIN map
    OBVIOUS
  <2> HIDE DEF A
  <2>2. MapThenSumSet(LAMBDA i : Length(map[i]), A) = Total(L, A)
    BY <1>3, <2>1, LengthsTotal
  <2>3. QED
    BY <2>2 DEF A, RegionUnits
<1>7. Taken = A
  <2>1. region = Len(map) + 1
    BY <1>1, <1>3
  <2>2. \A i \in DOMAIN map : i < region
    BY <1>3, <2>1
  <2>3. QED
    BY <2>2 DEF Taken, AcceptedIn
<1> HIDE DEF g, h, L
<1>8. Total(g, blocks) = Total(g, U) + Total(g, F)
  <2>1. blocks \cap U = U /\ blocks \ U = F
    OBVIOUS
  <2> HIDE DEF U, F
  <2>2. /\ IsFiniteSet(Addr) /\ g \in [Addr -> Nat] /\ blocks \in SUBSET Addr
        /\ U \in SUBSET Addr
    BY <1>1, <1>2, AddrFinite DEF U
  <2>3. QED
    BY <2>1, <2>2, TotalSplit, SMT
<1>9. Total(h, blocks) = Total(g, blocks) + HeaderUnits * Cardinality(blocks)
  <2>1. HeaderUnits \in Nat /\ \A x \in Addr : h[x] = HeaderUnits + g[x]
    BY <1>2, HeapAssumption
  <2>2. /\ IsFiniteSet(Addr) /\ g \in [Addr -> Nat] /\ h \in [Addr -> Nat]
        /\ blocks \in SUBSET Addr
    BY <1>1, <1>2, AddrFinite
  <2>3. QED
    BY <2>1, <2>2, TotalAndCount
<1>10. Total(h, blocks) = Total(L, A)
  BY <1>7 DEF ConsInv, h, L
<1>11. Total(g, U) \in Nat /\ Total(g, F) \in Nat
  <2>1. U \in SUBSET Addr /\ F \in SUBSET Addr
    BY <1>1
  <2> HIDE DEF U, F
  <2>2. QED
    BY <1>2, <2>1, AddrFinite, TotalNat
<1> HIDE DEF F, U, A
<1>12. Total(g, U) + Total(g, F) = Total(g, F) + Total(g, U)
  BY <1>11
<1>13. QED
  BY <1>4, <1>5, <1>6, <1>8, <1>9, <1>10, <1>12

(* No byte is lost or invented: whatever is allocated and freed, headers   *)
(* and the two statistics of the `mem' command (memory.cpp:164-182) add up *)
(* to the memory that memory_init found.                                   *)
THEOREM StaysConserved == Spec => []Conserved
<1>1. QED
  BY ConsInit, ConsKeeps, ConsImplies, Invariance, PTL DEF Spec
=============================================================================
