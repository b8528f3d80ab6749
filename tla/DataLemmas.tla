------------------------------ MODULE DataLemmas ------------------------------
(***************************************************************************)
(* Induction and recursion over the natural numbers, stated with sets and  *)
(* functions in place of operators: the least element of a set takes the   *)
(* part of the induction rule.  With them, sums, the powers of two and the *)
(* queues of a lock.                                                       *)
(***************************************************************************)
EXTENDS PowersOfTwo, LockQueue, Integers, SequenceTheorems, NaturalsInduction, WellFoundedInduction, TLAPS

LEMMA LeastNat ==
  ASSUME NEW T, T \subseteq Nat, T # {}
  PROVE  \E x \in T : \A y \in T : x <= y
<1> DEFINE Less == {p \in Nat \X Nat : p[1] < p[2]}
<1>1. IsWellFoundedOn(Less, Nat)
  BY NatLessThanWellFounded DEF OpToRel
<1>2. \E x \in T : \A y \in T : <<y, x>> \notin Less
  <2> HIDE DEF Less
  <2> QED BY <1>1, WFMin
<1>3. PICK x \in T : \A y \in T : <<y, x>> \notin Less
  BY <1>2
<1>4. ASSUME NEW y \in T PROVE x <= y
  <2>1. x \in Nat /\ y \in Nat /\ <<y, x>> \notin Less
    BY <1>3
  <2>2. ~(y < x)
    BY <2>1
  <2> QED BY <2>1, <2>2
<1> QED BY <1>4

(* A set that holds 0 and the successor of each of its members. *)
LEMMA SetInduction ==
  ASSUME NEW T, 0 \in T, \A n \in Nat : n \in T => n + 1 \in T
  PROVE  Nat \subseteq T
<1> SUFFICES ASSUME Nat \ T # {} PROVE FALSE
  OBVIOUS
<1>1. PICK n \in Nat \ T : \A m \in Nat \ T : n <= m
  <2> DEFINE Rest == Nat \ T
  <2>1. Rest \subseteq Nat /\ Rest # {}
    OBVIOUS
  <2> HIDE DEF Rest
  <2>2. \E n \in Rest : \A m \in Rest : n <= m
    BY <2>1, LeastNat
  <2> QED BY <2>2 DEF Rest
<1>2. n # 0 /\ n - 1 \in Nat /\ n - 1 \in T
  BY <1>1
<1>3. (n - 1) + 1 = n
  BY <1>1
<1> QED BY <1>1, <1>2, <1>3

(* ... and of each number all of whose predecessors it holds.              *)
LEMMA StrongInduction ==
  ASSUME NEW T, \A n \in Nat : (\A m \in Nat : m < n => m \in T) => n \in T
  PROVE  Nat \subseteq T
<1> SUFFICES ASSUME Nat \ T # {} PROVE FALSE
  OBVIOUS
<1>1. PICK n \in Nat \ T : \A m \in Nat \ T : n <= m
  <2> DEFINE Rest == Nat \ T
  <2>1. Rest \subseteq Nat /\ Rest # {}
    OBVIOUS
  <2> HIDE DEF Rest
  <2>2. \E n \in Rest : \A m \in Rest : n <= m
    BY <2>1, LeastNat
  <2> QED BY <2>2 DEF Rest
<1>2. \A m \in Nat : m < n => m \in T
  BY <1>1
<1> QED BY <1>1, <1>2

(* A function on the natural numbers exists by its first value and a step. *)
LEMMA PrimitiveRecursion ==
  ASSUME NEW S, NEW a \in S, NEW step \in [S -> S]
  PROVE  \E f \in [Nat -> S] : f[0] = a /\ \A n \in Nat : f[n + 1] = step[f[n]]
<1> DEFINE Begins(n, f) == /\ f \in [0..n -> S] /\ f[0] = a
                           /\ \A i \in 0..n : i < n => f[i + 1] = step[f[i]]
<1>1. \A n \in Nat : \E f : Begins(n, f)
  <2> DEFINE T == {n \in Nat : \E f : Begins(n, f)}
  <2>1. 0 \in T
    <3>1. Begins(0, [i \in 0..0 |-> a])
      OBVIOUS
    <3> QED BY <3>1
  <2>2. ASSUME NEW n \in Nat, n \in T PROVE n + 1 \in T
    <3>1. PICK f : Begins(n, f)
      BY <2>2
    <3> DEFINE g == [i \in 0..(n + 1) |-> IF i <= n THEN f[i] ELSE step[f[n]]]
    <3>2. Begins(n + 1, g)
      BY <3>1
    <3> QED BY <3>2
  <2>3. Nat \subseteq T
    <3> HIDE DEF T
    <3> QED BY <2>1, <2>2, SetInduction
  <2> QED BY <2>3
<1>2. ASSUME NEW n \in Nat, NEW m \in Nat, NEW f, NEW g, Begins(n, f), Begins(m, g)
      PROVE  \A i \in 0..n \cap 0..m : f[i] = g[i]
  <2> DEFINE T == {i \in Nat : i \in 0..n \cap 0..m => f[i] = g[i]}
  <2>1. 0 \in T
    BY <1>2
  <2>2. ASSUME NEW i \in Nat, i \in T PROVE i + 1 \in T
    BY <1>2, <2>2
  <2>3. Nat \subseteq T
    <3> HIDE DEF T
    <3> QED BY <2>1, <2>2, SetInduction
  <2> QED BY <2>3
<1> DEFINE Upto(n) == CHOOSE f : Begins(n, f)
           F == [n \in Nat |-> Upto(n)[n]]
<1>3. \A n \in Nat : Begins(n, Upto(n))
  BY <1>1
<1> HIDE DEF Upto
<1>4. F \in [Nat -> S] /\ F[0] = a
  BY <1>3
<1>5. ASSUME NEW n \in Nat PROVE F[n + 1] = step[F[n]]
  <2>1. Begins(n, Upto(n)) /\ Begins(n + 1, Upto(n + 1)) /\ n + 1 \in Nat
    BY <1>3
  <2>2. Upto(n)[n] = Upto(n + 1)[n]
    <3> HIDE DEF Begins
    <3>1. \A i \in 0..n \cap 0..(n + 1) : Upto(n)[i] = Upto(n + 1)[i]
      BY <2>1, <1>2
    <3> QED BY <3>1
  <2> QED BY <2>1, <2>2
<1> QED BY <1>4, <1>5

(* Data of a recursion that goes down: the value is base[n] outside of     *)
(* More, and within it make[n] of the value at down[n].                    *)
Descends(S, More, base, down, make) ==
  /\ More \subseteq Nat /\ base \in [Nat -> S] /\ make \in [Nat -> [S -> S]]
  /\ down \in [Nat -> Nat] /\ \A n \in More : down[n] < n

(* There is a function of every such data.                                 *)
LEMMA DescendingRecursion ==
  ASSUME NEW S, NEW More, NEW base, NEW down, NEW make, Descends(S, More, base, down, make)
  PROVE  \E f \in [Nat -> S] :
           \A n \in Nat : f[n] = IF n \in More THEN make[n][f[down[n]]] ELSE base[n]
<1>0. /\ More \subseteq Nat /\ base \in [Nat -> S] /\ make \in [Nat -> [S -> S]]
      /\ down \in [Nat -> Nat] /\ \A n \in More : down[n] < n
  BY DEF Descends
<1> USE <1>0
<1> DEFINE Deeper(f) ==
             [n \in Nat |-> IF n \in More THEN make[n][f[down[n]]] ELSE base[n]]
<1>1. PICK F : F = [Nat -> S]
  OBVIOUS
<1>2. PICK g \in [Nat -> F] : g[0] = base /\ \A k \in Nat : g[k + 1] = Deeper(g[k])
  <2>1. PICK step : step = [f \in F |-> Deeper(f)]
    OBVIOUS
  <2>2. base \in F /\ step \in [F -> F]
    BY <1>1, <2>1
  <2>3. \E f \in [Nat -> F] : f[0] = base /\ \A n \in Nat : f[n + 1] = step[f[n]]
    BY ONLY <2>2, PrimitiveRecursion
  <2>4. PICK g \in [Nat -> F] : g[0] = base /\ \A k \in Nat : g[k + 1] = step[g[k]]
    BY <2>3
  <2>5. \A k \in Nat : g[k] \in F
    OBVIOUS
  <2> QED BY <2>1, <2>4, <2>5
<1>3. ASSUME NEW k \in Nat, NEW n \in Nat
      PROVE  g[k + 1][n] = IF n \in More THEN make[n][g[k][down[n]]] ELSE base[n]
  <2>1. g[k] \in F /\ g[k + 1] = Deeper(g[k])
    BY <1>2
  <2> QED BY <2>1
<1>4. \A k \in Nat : \A n \in Nat : n <= k => g[k + 1][n] = g[k][n]
  <2> DEFINE T == {k \in Nat : \A n \in Nat : n <= k => g[k + 1][n] = g[k][n]}
  <2>1. 0 \in T
    <3>1. 0 \notin More
      OBVIOUS
    <3>2. g[0] = base /\ g[0 + 1][0] = base[0]
      BY <1>2, <1>3, <3>1
    <3>3. \A n \in Nat : n <= 0 => n = 0
      OBVIOUS
    <3> QED BY <3>2, <3>3
  <2>2. ASSUME NEW k \in Nat, k \in T PROVE k + 1 \in T
    <3>1. ASSUME NEW n \in Nat, n <= k + 1 PROVE g[(k + 1) + 1][n] = g[k + 1][n]
      <4>1. CASE n \notin More
        <5> DEFINE next == k + 1
        <5>0. next \in Nat
          OBVIOUS
        <5> HIDE DEF next
        <5>1. g[next + 1][n] = base[n]
          BY <4>1, <5>0, <1>3
        <5>2. g[k + 1][n] = base[n]
          BY <4>1, <1>3
        <5> QED BY <5>1, <5>2 DEF next
      <4>2. CASE n \in More
        <5>1. down[n] \in Nat /\ down[n] <= k
          BY <3>1, <4>2
        <5>2. g[k + 1][down[n]] = g[k][down[n]]
          BY <2>2, <5>1
        <5> QED BY <4>2, <5>2, <1>3
      <4> QED BY <4>1, <4>2
    <3> QED BY <3>1
  <2>3. Nat \subseteq T
    <3> HIDE DEF T
    <3> QED BY <2>1, <2>2, SetInduction
  <2> QED BY <2>3
<1>5. ASSUME NEW n \in Nat PROVE \A d \in Nat : g[n + d][n] = g[n][n]
  <2> DEFINE T == {d \in Nat : g[n + d][n] = g[n][n]}
  <2>1. 0 \in T
    OBVIOUS
  <2>2. ASSUME NEW d \in Nat, d \in T PROVE d + 1 \in T
    <3>1. n + d \in Nat /\ n <= n + d /\ (n + d) + 1 = n + (d + 1)
      OBVIOUS
    <3> QED BY <3>1, <2>2, <1>4
  <2>3. Nat \subseteq T
    <3> HIDE DEF T
    <3> QED BY <2>1, <2>2, SetInduction
  <2> QED BY <2>3
<1> DEFINE f == [n \in Nat |-> g[n][n]]
<1>6. f \in [Nat -> S]
  BY <1>1, <1>2
<1>7. ASSUME NEW n \in Nat
      PROVE  f[n] = IF n \in More THEN make[n][f[down[n]]] ELSE base[n]
  <2>1. CASE n \notin More
    <3>1. g[n + 1][n] = g[n][n]
      BY <1>4
    <3> QED BY <2>1, <3>1, <1>3
  <2>2. CASE n \in More
    <3>1. down[n] \in Nat /\ n - down[n] \in Nat /\ n = down[n] + (n - down[n])
      BY <2>2
    <3>2. g[down[n] + (n - down[n])][down[n]] = g[down[n]][down[n]]
      BY <3>1, <1>5
    <3>3. g[n][down[n]] = f[down[n]]
      BY <3>1, <3>2
    <3>4. g[n + 1][n] = make[n][g[n][down[n]]]
      BY <2>2, <1>3
    <3>5. g[n + 1][n] = g[n][n]
      BY <1>4
    <3> QED BY <2>2, <3>3, <3>4, <3>5
  <2> QED BY <2>1, <2>2
<1> QED BY <1>6, <1>7

(* The sums of what a function gives for 1, 2, ...                         *)
LEMMA RunningSum ==
  ASSUME NEW w, \A n \in Nat : w[n] \in Nat
  PROVE  \E f \in [Nat -> Nat] : f[0] = 0 /\ \A n \in Nat : f[n + 1] = f[n] + w[n + 1]
<1>1. PICK More, first, down, more :
        /\ More = Nat \ {0} /\ first = [n \in Nat |-> 0]
        /\ down = [n \in Nat |-> IF n = 0 THEN 0 ELSE n - 1]
        /\ more = [n \in Nat |-> [x \in Nat |-> x + w[n]]]
  OBVIOUS
<1>2. Descends(Nat, More, first, down, more)
  BY <1>1 DEF Descends
<1>3. \E f \in [Nat -> Nat] :
        \A n \in Nat : f[n] = IF n \in More THEN more[n][f[down[n]]] ELSE first[n]
  BY ONLY <1>2, DescendingRecursion
<1>4. PICK f \in [Nat -> Nat] :
        \A n \in Nat : f[n] = IF n \in More THEN more[n][f[down[n]]] ELSE first[n]
  BY <1>3
<1>5. f[0] = 0
  BY <1>1, <1>4
<1>6. ASSUME NEW n \in Nat PROVE f[n + 1] = f[n] + w[n + 1]
  <2>1. n + 1 \in More /\ down[n + 1] = n /\ f[n] \in Nat
    BY <1>1
  <2>2. f[n + 1] = more[n + 1][f[n]]
    BY <1>4, <2>1
  <2> QED BY <1>1, <2>1, <2>2
<1> QED BY <1>5, <1>6

(* A function on 0..n exists by its first value and a step to each other.  *)
Steps(S, a, n, step) == a \in S /\ n \in Nat /\ step \in [1..n -> [S -> S]]

LEMMA StepRecursion ==
  ASSUME NEW S, NEW a, NEW n, NEW step, Steps(S, a, n, step)
  PROVE  \E f \in [0..n -> S] :
           \A i \in 0..n : f[i] = IF i = 0 THEN a ELSE step[i][f[i - 1]]
<1>0. a \in S /\ n \in Nat /\ step \in [1..n -> [S -> S]]
  BY DEF Steps
<1> USE <1>0
<1>1. PICK More, first, down, make :
        /\ More = 1..n /\ first = [i \in Nat |-> a]
        /\ down = [i \in Nat |-> IF i = 0 THEN 0 ELSE i - 1]
        /\ make = [i \in Nat |-> IF i \in 1..n THEN step[i] ELSE [x \in S |-> x]]
  OBVIOUS
<1>2. Descends(S, More, first, down, make)
  BY <1>1 DEF Descends
<1>3. \E f \in [Nat -> S] :
        \A i \in Nat : f[i] = IF i \in More THEN make[i][f[down[i]]] ELSE first[i]
  BY ONLY <1>2, DescendingRecursion
<1>4. PICK f \in [Nat -> S] :
        \A i \in Nat : f[i] = IF i \in More THEN make[i][f[down[i]]] ELSE first[i]
  BY <1>3
<1> DEFINE g == [i \in 0..n |-> f[i]]
<1>5. ASSUME NEW i \in 0..n PROVE g[i] = IF i = 0 THEN a ELSE step[i][g[i - 1]]
  <2>1. CASE i = 0
    BY <1>1, <1>4, <2>1
  <2>2. CASE i # 0
    <3>1. i \in More /\ down[i] = i - 1 /\ i - 1 \in 0..n /\ make[i] = step[i]
      BY <1>1, <2>2
    <3>2. f[i] = make[i][f[down[i]]]
      BY <1>4, <3>1
    <3> QED BY <2>2, <3>1, <3>2
  <2> QED BY <2>1, <2>2
<1>6. g \in [0..n -> S]
  OBVIOUS
<1> HIDE DEF g
<1> QED BY <1>5, <1>6

(* A recursion from each element to two of lower rank: outside of More the *)
(* value is base[b], within it make[b] of the pair of theirs.              *)
Branches(D, S, rank, More, base, left, right, make) ==
  /\ rank \in [D -> Nat] /\ More \subseteq D /\ base \in [D -> S]
  /\ left \in [More -> D] /\ right \in [More -> D] /\ make \in [More -> [S \X S -> S]]
  /\ \A b \in More : rank[left[b]] < rank[b] /\ rank[right[b]] < rank[b]

LEMMA BranchingRecursion ==
  ASSUME NEW D, NEW S, NEW rank, NEW More, NEW base, NEW left, NEW right, NEW make,
         Branches(D, S, rank, More, base, left, right, make)
  PROVE  \E f \in [D -> S] :
           \A b \in D : f[b] = IF b \in More THEN make[b][<<f[left[b]], f[right[b]]>>] ELSE base[b]
<1>0. /\ rank \in [D -> Nat] /\ More \subseteq D /\ base \in [D -> S]
      /\ left \in [More -> D] /\ right \in [More -> D] /\ make \in [More -> [S \X S -> S]]
      /\ \A b \in More : rank[left[b]] < rank[b] /\ rank[right[b]] < rank[b]
  BY DEF Branches
<1> USE <1>0
<1> DEFINE Deeper(f) ==
             [b \in D |-> IF b \in More THEN make[b][<<f[left[b]], f[right[b]]>>] ELSE base[b]]
<1>1. PICK F : F = [D -> S]
  OBVIOUS
<1>2. PICK g \in [Nat -> F] : g[0] = base /\ \A k \in Nat : g[k + 1] = Deeper(g[k])
  <2>1. PICK step : step = [f \in F |-> Deeper(f)]
    OBVIOUS
  <2>2. base \in F /\ step \in [F -> F]
    <3>1. ASSUME NEW f \in F PROVE Deeper(f) \in F
      <4>1. ASSUME NEW b \in More PROVE make[b][<<f[left[b]], f[right[b]]>>] \in S
        <5>1. left[b] \in D /\ right[b] \in D
          OBVIOUS
        <5>2. <<f[left[b]], f[right[b]]>> \in S \X S
          BY <1>1, <5>1
        <5>3. make[b] \in [S \X S -> S]
          OBVIOUS
        <5> QED BY <5>2, <5>3
      <4> QED BY <1>1, <4>1
    <3> QED BY <1>1, <2>1, <3>1
  <2>3. \E f \in [Nat -> F] : f[0] = base /\ \A n \in Nat : f[n + 1] = step[f[n]]
    BY ONLY <2>2, PrimitiveRecursion
  <2>4. PICK g \in [Nat -> F] : g[0] = base /\ \A k \in Nat : g[k + 1] = step[g[k]]
    BY <2>3
  <2>5. \A k \in Nat : g[k] \in F
    OBVIOUS
  <2> QED BY <2>1, <2>4, <2>5
<1>3. ASSUME NEW k \in Nat, NEW b \in D
      PROVE  g[k + 1][b] = IF b \in More THEN make[b][<<g[k][left[b]], g[k][right[b]]>>] ELSE base[b]
  <2>1. g[k] \in F /\ g[k + 1] = Deeper(g[k])
    BY <1>2
  <2> QED BY <2>1
<1>4. \A k \in Nat : \A b \in D : rank[b] <= k => g[k + 1][b] = g[k][b]
  <2> DEFINE T == {k \in Nat : \A b \in D : rank[b] <= k => g[k + 1][b] = g[k][b]}
  <2>1. 0 \in T
    <3> SUFFICES ASSUME NEW b \in D, rank[b] <= 0 PROVE g[0 + 1][b] = g[0][b]
      OBVIOUS
    <3>1. b \notin More
      <4> SUFFICES ASSUME b \in More PROVE FALSE
        OBVIOUS
      <4>1. rank[left[b]] \in Nat /\ rank[b] \in Nat /\ rank[left[b]] < rank[b]
        OBVIOUS
      <4> QED BY <4>1
    <3> QED BY <3>1, <1>2, <1>3
  <2>2. ASSUME NEW k \in Nat, k \in T PROVE k + 1 \in T
    <3>1. ASSUME NEW b \in D, rank[b] <= k + 1 PROVE g[(k + 1) + 1][b] = g[k + 1][b]
      <4> DEFINE next == k + 1
      <4>0. next \in Nat
        OBVIOUS
      <4> HIDE DEF next
      <4>1. CASE b \notin More
        <5>1. g[next + 1][b] = base[b]
          BY <4>0, <4>1, <1>3
        <5>2. g[k + 1][b] = base[b]
          BY <4>1, <1>3
        <5> QED BY <5>1, <5>2 DEF next
      <4>2. CASE b \in More
        <5>1. /\ left[b] \in D /\ rank[left[b]] \in Nat /\ right[b] \in D /\ rank[right[b]] \in Nat
              /\ rank[b] \in Nat
          BY <4>2
        <5>2. rank[left[b]] <= k /\ rank[right[b]] <= k
          BY <3>1, <4>2, <5>1
        <5>3. g[k + 1][left[b]] = g[k][left[b]] /\ g[k + 1][right[b]] = g[k][right[b]]
          BY <2>2, <5>1, <5>2
        <5>4. g[next + 1][b] = make[b][<<g[next][left[b]], g[next][right[b]]>>]
          BY <4>0, <4>2, <1>3
        <5>5. g[k + 1][b] = make[b][<<g[k][left[b]], g[k][right[b]]>>]
          BY <4>2, <1>3
        <5> QED BY <5>3, <5>4, <5>5 DEF next
      <4> QED BY <4>1, <4>2
    <3> QED BY <3>1
  <2>3. Nat \subseteq T
    <3> HIDE DEF T
    <3> QED BY <2>1, <2>2, SetInduction
  <2> QED BY <2>3
<1>5. ASSUME NEW b \in D PROVE \A d \in Nat : g[rank[b] + d][b] = g[rank[b]][b]
  <2> DEFINE T == {d \in Nat : g[rank[b] + d][b] = g[rank[b]][b]}
  <2>0. rank[b] \in Nat
    OBVIOUS
  <2>1. 0 \in T
    BY <2>0
  <2>2. ASSUME NEW d \in Nat, d \in T PROVE d + 1 \in T
    <3>1. rank[b] + d \in Nat /\ rank[b] <= rank[b] + d /\ (rank[b] + d) + 1 = rank[b] + (d + 1)
      BY <2>0
    <3>2. g[(rank[b] + d) + 1][b] = g[rank[b] + d][b]
      BY <1>4, <3>1
    <3> QED BY <3>1, <3>2, <2>2
  <2>3. Nat \subseteq T
    <3> HIDE DEF T
    <3> QED BY <2>1, <2>2, SetInduction
  <2> QED BY <2>3
<1> DEFINE f == [b \in D |-> g[rank[b]][b]]
<1>6. f \in [D -> S]
  <2>1. \A b \in D : g[rank[b]] \in F
    BY <1>2
  <2> QED BY <1>1, <2>1
<1>7. ASSUME NEW b \in D
      PROVE  f[b] = IF b \in More THEN make[b][<<f[left[b]], f[right[b]]>>] ELSE base[b]
  <2>0. rank[b] \in Nat /\ g[rank[b] + 1][b] = g[rank[b]][b]
    <3>1. rank[b] \in Nat /\ rank[b] <= rank[b]
      OBVIOUS
    <3> QED BY <3>1, <1>4
  <2>1. CASE b \notin More
    BY <2>0, <2>1, <1>3
  <2>2. CASE b \in More
    <3>1. ASSUME NEW c \in D, rank[c] < rank[b] PROVE g[rank[b]][c] = f[c]
      <4>1. rank[c] \in Nat /\ rank[b] - rank[c] \in Nat /\ rank[c] + (rank[b] - rank[c]) = rank[b]
        BY <2>0, <3>1
      <4>2. g[rank[c] + (rank[b] - rank[c])][c] = g[rank[c]][c]
        BY <4>1, <1>5
      <4> QED BY <4>1, <4>2
    <3>2. left[b] \in D /\ right[b] \in D /\ rank[left[b]] < rank[b] /\ rank[right[b]] < rank[b]
      BY <2>2
    <3>3. g[rank[b]][left[b]] = f[left[b]] /\ g[rank[b]][right[b]] = f[right[b]]
      BY <3>1, <3>2
    <3>4. g[rank[b] + 1][b] = make[b][<<g[rank[b]][left[b]], g[rank[b]][right[b]]>>]
      BY <2>0, <2>2, <1>3
    <3>5. f[b] = g[rank[b]][b]
      OBVIOUS
    <3> HIDE DEF f
    <3> QED BY <2>0, <2>2, <3>3, <3>4, <3>5
  <2> QED BY <2>1, <2>2
<1> HIDE DEF f
<1> QED BY <1>6, <1>7

(* The powers of two are positive numbers, each twice the one before. *)
LEMMA PowerOfTwoFacts ==
  /\ PowerOfTwo \in [Nat -> Nat \ {0}]
  /\ PowerOfTwo[0] = 1
  /\ \A n \in Nat : PowerOfTwo[n + 1] = 2 * PowerOfTwo[n]
<1> DEFINE Pos == Nat \ {0}
           twice == [x \in Pos |-> 2 * x]
<1>1. 1 \in Pos /\ twice \in [Pos -> Pos]
  OBVIOUS
<1>2. PICK f \in [Nat -> Pos] : f[0] = 1 /\ \A n \in Nat : f[n + 1] = twice[f[n]]
  <2> DEFINE one == 1
  <2>1. one \in Pos /\ twice \in [Pos -> Pos]
    BY <1>1
  <2> HIDE DEF Pos, twice, one
  <2>2. \E f \in [Nat -> Pos] : f[0] = one /\ \A n \in Nat : f[n + 1] = twice[f[n]]
    BY <2>1, PrimitiveRecursion
  <2> QED BY <2>2 DEF one
<1>3. f = [n \in Nat |-> IF n = 0 THEN 1 ELSE 2 * f[n - 1]]
  <2>1. ASSUME NEW n \in Nat PROVE f[n] = IF n = 0 THEN 1 ELSE 2 * f[n - 1]
    <3>1. CASE n = 0
      BY <3>1, <1>2
    <3>2. CASE n # 0
      <4>1. n - 1 \in Nat /\ (n - 1) + 1 = n
        BY <3>2
      <4>2. f[(n - 1) + 1] = twice[f[n - 1]]
        BY <4>1, <1>2
      <4> QED BY <4>1, <4>2, <1>2
    <3> QED BY <3>1, <3>2
  <2> QED BY <2>1, <1>2
<1>4. PowerOfTwo = [n \in Nat |-> IF n = 0 THEN 1 ELSE 2 * PowerOfTwo[n - 1]]
  BY <1>3 DEF PowerOfTwo
<1>5. \A n \in Nat : PowerOfTwo[n] = IF n = 0 THEN 1 ELSE 2 * PowerOfTwo[n - 1]
  BY <1>4
<1>6. \A n \in Nat : PowerOfTwo[n] \in Pos
  <2> DEFINE T == {n \in Nat : PowerOfTwo[n] \in Pos}
  <2>1. 0 \in T
    BY <1>5
  <2>2. \A n \in Nat : n \in T => n + 1 \in T
    BY <1>5
  <2>3. Nat \subseteq T
    <3> HIDE DEF T
    <3> QED BY <2>1, <2>2, SetInduction
  <2> QED BY <2>3
<1>7. \A n \in Nat : PowerOfTwo[n + 1] = 2 * PowerOfTwo[n]
  BY <1>5
<1>8. PowerOfTwo \in [Nat -> Pos] /\ PowerOfTwo[0] = 1
  BY <1>4, <1>5, <1>6
<1> QED BY <1>7, <1>8
------------------------------------------------------------------------------
(* Queues of tasks.                                                        *)

NoneTwice(queue) == \A i, j \in DOMAIN queue : queue[i] = queue[j] => i = j

LEMMA RemoveAtFacts ==
  ASSUME NEW S, NEW queue \in Seq(S), NEW i \in 1..Len(queue)
  PROVE  /\ RemoveAt(queue, i) \in Seq(S) /\ Len(RemoveAt(queue, i)) = Len(queue) - 1
         /\ \A j \in 1..Len(queue) - 1 :
              RemoveAt(queue, i)[j] = IF j < i THEN queue[j] ELSE queue[j + 1]
<1> DEFINE front == SubSeq(queue, 1, i - 1)
           back == SubSeq(queue, i + 1, Len(queue))
<1>1. /\ front \in Seq(S) /\ Len(front) = i - 1
      /\ \A j \in 1..i - 1 : front[j] = queue[j]
  OBVIOUS
<1>2. /\ back \in Seq(S) /\ Len(back) = Len(queue) - i
      /\ \A j \in 1..Len(queue) - i : back[j] = queue[i + j]
  OBVIOUS
<1>3. RemoveAt(queue, i) = front \o back
  BY DEF RemoveAt
<1> HIDE DEF front, back
<1>4. /\ front \o back \in Seq(S) /\ Len(front \o back) = Len(queue) - 1
  BY <1>1, <1>2
<1>5. ASSUME NEW j \in 1..Len(queue) - 1
      PROVE  (front \o back)[j] = IF j < i THEN queue[j] ELSE queue[j + 1]
  <2>1. CASE j < i
    BY <1>1, <1>2, <2>1
  <2>2. CASE ~(j < i)
    <3>1. j - Len(front) \in 1..Len(queue) - i /\ i + (j - Len(front)) = j + 1
      BY <1>1, <2>2
    <3>2. (front \o back)[j] = back[j - Len(front)]
      BY <1>1, <1>2, <2>2
    <3> QED BY <1>2, <2>2, <3>1, <3>2
  <2> QED BY <2>1, <2>2
<1> QED BY <1>3, <1>4, <1>5

(* The queue stays one without repetition, the task is out of it, all      *)
(* others are still in it, and the head remains if it was another.         *)
LEMMA WithoutFacts ==
  ASSUME NEW S, NEW queue \in Seq(S), NoneTwice(queue), NEW c
  PROVE  /\ Without(queue, c) \in Seq(S) /\ NoneTwice(Without(queue, c))
         /\ \A i \in DOMAIN Without(queue, c) :
              Without(queue, c)[i] # c /\ \E j \in DOMAIN queue : Without(queue, c)[i] = queue[j]
         /\ \A j \in DOMAIN queue :
              queue[j] # c => \E i \in DOMAIN Without(queue, c) : Without(queue, c)[i] = queue[j]
         /\ queue # <<>> /\ queue[1] # c => Without(queue, c) # <<>> /\ Without(queue, c)[1] = queue[1]
<1>1. CASE ~ \E i \in DOMAIN queue : queue[i] = c
  BY <1>1 DEF Without
<1>2. CASE \E i \in DOMAIN queue : queue[i] = c
  <2>1. PICK i : i \in DOMAIN queue /\ queue[i] = c /\ Without(queue, c) = RemoveAt(queue, i)
    BY <1>2 DEF Without
  <2> DEFINE rest == RemoveAt(queue, i)
  <2>2. /\ i \in 1..Len(queue) /\ rest \in Seq(S) /\ Len(rest) = Len(queue) - 1
        /\ \A j \in 1..Len(queue) - 1 : rest[j] = IF j < i THEN queue[j] ELSE queue[j + 1]
    <3>1. queue \in Seq(S) /\ i \in 1..Len(queue)
      BY <2>1
    <3> QED BY ONLY <3>1, RemoveAtFacts DEF rest
  <2> HIDE DEF rest
  <2>3. DOMAIN rest = 1..Len(queue) - 1 /\ DOMAIN queue = 1..Len(queue) /\ Len(queue) \in Nat
    BY <2>2
  <2>4. \A j, k \in DOMAIN queue : j # k => queue[j] # queue[k]
    BY DEF NoneTwice
  <2>5. NoneTwice(rest)
    <3> DEFINE from(j) == IF j < i THEN j ELSE j + 1
    <3>1. ASSUME NEW j \in DOMAIN rest PROVE from(j) \in DOMAIN queue /\ rest[j] = queue[from(j)]
      BY <2>2, <2>3
    <3>2. ASSUME NEW j \in DOMAIN rest, NEW k \in DOMAIN rest, j # k PROVE from(j) # from(k)
      BY <2>2, <2>3, <3>2
    <3> HIDE DEF from
    <3> QED BY <2>4, <3>1, <3>2 DEF NoneTwice
  <2>6. ASSUME NEW j \in DOMAIN rest
        PROVE  rest[j] # c /\ \E k \in DOMAIN queue : rest[j] = queue[k]
    <3>1. CASE j < i
      BY <2>1, <2>2, <2>3, <2>4, <3>1
    <3>2. CASE ~(j < i)
      BY <2>1, <2>2, <2>3, <2>4, <3>2
    <3> QED BY <3>1, <3>2
  <2>7. queue[1] # c => rest # <<>> /\ rest[1] = queue[1]
    <3>1. ASSUME queue[1] # c PROVE 1 < i /\ 1 \in 1..Len(queue) - 1
      BY <2>1, <2>2, <2>3, <3>1
    <3> QED BY <2>2, <2>3, <3>1
  <2>8. ASSUME NEW j \in DOMAIN queue, queue[j] # c
        PROVE  \E k \in DOMAIN rest : rest[k] = queue[j]
    <3>1. CASE j < i
      <4>1. j \in DOMAIN rest /\ rest[j] = queue[j]
        BY <2>2, <2>3, <3>1
      <4> QED BY <4>1
    <3>2. CASE ~(j < i)
      <4>1. j # i
        BY <2>1, <2>8
      <4>2. j - 1 \in DOMAIN rest /\ ~(j - 1 < i) /\ (j - 1) + 1 = j
        BY <2>2, <2>3, <3>2, <4>1
      <4>3. rest[j - 1] = queue[j]
        BY <2>2, <2>3, <4>2
      <4> QED BY <4>2, <4>3
    <3> QED BY <3>1, <3>2
  <2> QED BY <2>1, <2>2, <2>5, <2>6, <2>7, <2>8 DEF rest
<1> QED BY <1>1, <1>2

(* Without the head it is the tail.                                        *)
LEMMA WithoutHead ==
  ASSUME NEW S, NEW queue \in Seq(S), NoneTwice(queue), queue # <<>>
  PROVE  Without(queue, Head(queue)) = Tail(queue)
<1>1. /\ 1 \in DOMAIN queue /\ 1 \in 1..Len(queue) /\ Head(queue) = queue[1]
      /\ \A i \in DOMAIN queue : queue[i] = queue[1] => i = 1
  BY DEF NoneTwice
<1>2. Without(queue, Head(queue)) = RemoveAt(queue, 1)
  <2>1. (CHOOSE i \in DOMAIN queue : queue[i] = queue[1]) = 1
    BY <1>1
  <2> QED BY <1>1, <2>1 DEF Without
<1> DEFINE rest == RemoveAt(queue, 1)
<1>3. /\ rest \in Seq(S) /\ Len(rest) = Len(queue) - 1
      /\ \A j \in 1..Len(queue) - 1 : rest[j] = IF j < 1 THEN queue[j] ELSE queue[j + 1]
  BY <1>1, RemoveAtFacts
<1>4. /\ Tail(queue) \in Seq(S) /\ Len(Tail(queue)) = Len(queue) - 1
      /\ \A j \in 1..Len(queue) - 1 : Tail(queue)[j] = queue[j + 1]
  OBVIOUS
<1>5. rest = Tail(queue)
  <2> DEFINE tail == Tail(queue)
  <2>1. tail \in Seq(S) /\ Len(rest) = Len(tail) /\ \A j \in 1..Len(rest) : rest[j] = tail[j]
    BY <1>3, <1>4
  <2> HIDE DEF rest, tail
  <2>2. rest \in Seq(S)
    BY <1>3
  <2>3. rest = tail
    BY <2>1, <2>2, SeqEqual
  <2> QED BY <2>3 DEF tail
<1> QED BY <1>2, <1>5
==============================================================================
