-------------------------- MODULE BlockScannerProofs --------------------------
(***************************************************************************)
(* Theorems about BlockScanner, for shard ids of any width, chains of any  *)
(* length and any number of shards: first the arithmetic of shard ids,     *)
(* then what the network keeps true of the chain (ChainInv), then what the *)
(* walk back from a tip finds, then what the scanner keeps (ScanInv).      *)
(*                                                                         *)
(* ScanInv holds however stop() is called, but for NothingMissed: a stop() *)
(* while blocks are on the queue loses them (see the run of BlockScanner   *)
(* with StopsAnywhere).  The theorems that rest on NothingMissed say so.   *)
(***************************************************************************)
EXTENDS BlockScanner, DataLemmas

(* Numbers.                                                                *)

LEMMA Quotients ==
  ASSUME NEW d \in Nat \ {0}, NEW k \in Int, NEW r \in 0..d - 1
  PROVE  (k * d + r) % d = r /\ (k * d + r) \div d = k
<1> DEFINE x == k * d + r
           q == x \div d
           m == x % d
<1>1. k * d \in Int /\ x \in Int
  OBVIOUS
<1>2. q \in Int /\ m \in 0..d - 1 /\ x = d * q + m
  BY <1>1
<1> HIDE DEF q, m
<1>3. d * q \in Int
  BY <1>2
<1>4. ~(q > k)
  <2> SUFFICES ASSUME q >= k + 1 PROVE FALSE
    BY <1>2
  <2>1. d * q >= d * (k + 1)
    BY <1>2
  <2>2. d * (k + 1) = k * d + d
    OBVIOUS
  <2> QED BY <1>1, <1>2, <1>3, <2>1, <2>2
<1>5. ~(q < k)
  <2> SUFFICES ASSUME q + 1 <= k PROVE FALSE
    BY <1>2
  <2>1. d * (q + 1) <= d * k
    BY <1>2
  <2>2. d * (q + 1) = d * q + d /\ d * k = k * d
    BY <1>2
  <2> QED BY <1>1, <1>2, <1>3, <2>1, <2>2
<1>6. q = k
  BY <1>2, <1>4, <1>5
<1>7. d * q = k * d
  BY <1>6
<1>8. m = r
  BY <1>1, <1>2, <1>3, <1>7
<1> QED BY <1>6, <1>8 DEF q, m

LEMMA Powers ==
  /\ Half \in Nat \ {0}
  /\ \A k \in Nat : PowerOfTwo[k] \in Nat \ {0} /\ PowerOfTwo[k + 1] = 2 * PowerOfTwo[k]
BY PowerOfTwoFacts, WidthAssumption DEF Half

(* A larger power of two is a multiple of a smaller one. *)
LEMMA PowersDivide ==
  \A i, j \in Nat : \E c \in Nat \ {0} : PowerOfTwo[i + j] = c * PowerOfTwo[i]
<1> TAKE i \in Nat
<1> DEFINE T == {j \in Nat : \E c \in Nat \ {0} : PowerOfTwo[i + j] = c * PowerOfTwo[i]}
<1>1. 0 \in T
  BY Powers
<1>2. ASSUME NEW j \in Nat, j \in T PROVE j + 1 \in T
  <2>1. PICK c \in Nat \ {0} : PowerOfTwo[i + j] = c * PowerOfTwo[i]
    BY <1>2
  <2>2. PowerOfTwo[i + (j + 1)] = 2 * PowerOfTwo[i + j]
    BY Powers
  <2>3. 2 * (c * PowerOfTwo[i]) = (2 * c) * PowerOfTwo[i] /\ 2 * c \in Nat \ {0}
    BY Powers
  <2> QED BY <2>1, <2>2, <2>3
<1>3. Nat \subseteq T
  <2> HIDE DEF T
  <2> QED BY <1>1, <1>2, SetInduction
<1> QED BY <1>3

(* The 2 * Half numbers that fit: what a number becomes when it wraps.     *)
Signed(u) == IF u >= Half THEN u - 2 * Half ELSE u

LEMMA Overflows ==
  ASSUME NEW u \in 0..2 * Half - 1, NEW c \in {-1, 0}
  PROVE  OverflowI64(u + c * (2 * Half)) = Signed(u)
<1> DEFINE all == 2 * Half
           x == u + c * all
<1>1. Half \in Nat \ {0} /\ all \in Nat \ {0} /\ all = 2 * Half /\ x \in Int
  BY Powers
<1>2. OverflowI64(x) = ((x + Half) % all) - Half
  BY DEF OverflowI64
<1> SUFFICES OverflowI64(x) = Signed(u)
  OBVIOUS
<1>3. CASE u < Half
  <2>1. u + Half \in 0..all - 1 /\ x + Half = c * all + (u + Half)
    BY <1>1, <1>3
  <2> HIDE DEF x, all
  <2>2. (x + Half) % all = u + Half
    BY <1>1, <2>1, Quotients
  <2> QED BY <1>1, <1>2, <1>3, <2>2 DEF Signed
<1>4. CASE u >= Half
  <2>1. u - Half \in 0..all - 1 /\ c + 1 \in Int /\ x + Half = (c + 1) * all + (u - Half)
    BY <1>1, <1>4
  <2> HIDE DEF x
  <2>2. (x + Half) % all = u - Half
    <3> HIDE DEF all
    <3> QED BY <1>1, <2>1, Quotients
  <2> QED BY <1>1, <1>2, <1>4, <2>2 DEF Signed
<1> QED BY <1>1, <1>3, <1>4

(* The lowest bit of an odd multiple of a power of two is that power.      *)
LEMMA LowBitOf ==
  ASSUME NEW i \in 0..Width - 1, NEW m \in Int
  PROVE  LowBit((2 * m + 1) * PowerOfTwo[i]) = PowerOfTwo[i]
<1> DEFINE p == PowerOfTwo[i]
           x == (2 * m + 1) * p
           all == {PowerOfTwo[k] : k \in 0..Width - 1}
<1>1. i \in Nat /\ p \in Nat \ {0} /\ p \in all /\ x \in Int
  BY Powers, WidthAssumption
<1>2. x % (2 * p) = p
  <2>1. 2 * p \in Nat \ {0} /\ p \in 0..2 * p - 1
    BY <1>1
  <2>2. x = m * (2 * p) + p
    BY <1>1
  <2> HIDE DEF p, x
  <2> QED BY <2>1, <2>2, Quotients
<1>3. ASSUME NEW q \in all, x % (2 * q) = q PROVE q = p
  <2>1. PICK j \in 0..Width - 1 : q = PowerOfTwo[j]
    OBVIOUS
  <2>2. j \in Nat /\ q \in Nat \ {0} /\ 2 * q \in Nat \ {0}
    BY <2>1, Powers, WidthAssumption
  <2>3. ASSUME j < i PROVE FALSE
    <3>1. j + 1 \in Nat /\ i - (j + 1) \in Nat /\ (j + 1) + (i - (j + 1)) = i
      BY <1>1, <2>2, <2>3
    <3>2. \E c \in Nat \ {0} : PowerOfTwo[(j + 1) + (i - (j + 1))] = c * PowerOfTwo[j + 1]
      BY <3>1, PowersDivide
    <3>0. PICK c \in Nat \ {0} : p = c * PowerOfTwo[j + 1]
      BY <3>1, <3>2
    <3>3. p = c * (2 * q)
      BY <2>1, <2>2, <3>0, Powers
    <3>4. x = ((2 * m + 1) * c) * (2 * q) + 0 /\ (2 * m + 1) * c \in Int
      BY <2>2, <3>3
    <3>5. 0 \in 0..2 * q - 1
      BY <2>2
    <3>6. x % (2 * q) = 0
      <4> HIDE DEF x
      <4> QED BY <2>2, <3>4, <3>5, Quotients
    <3> QED BY <1>3, <2>2, <3>6
  <2>4. ASSUME i < j PROVE FALSE
    <3>1. i + 1 \in Nat /\ j - (i + 1) \in Nat /\ (i + 1) + (j - (i + 1)) = j
      BY <1>1, <2>2, <2>4
    <3>2. \E c \in Nat \ {0} : PowerOfTwo[(i + 1) + (j - (i + 1))] = c * PowerOfTwo[i + 1]
      BY <3>1, PowersDivide
    <3>0. PICK c \in Nat \ {0} : q = c * PowerOfTwo[i + 1]
      BY <2>1, <3>1, <3>2
    <3>3. q = (2 * c) * p
      BY <1>1, <3>0, Powers
    <3> DEFINE h == x \div (2 * q)
    <3>4. h \in Int /\ x = (2 * q) * h + q
      BY <1>1, <1>3, <2>2
    <3> HIDE DEF h
    <3> DEFINE e == 2 * c * h + c
    <3>5. e \in Int /\ (2 * q) * h + q = (2 * e) * p
      BY <1>1, <3>3, <3>4
    <3> HIDE DEF e
    <3>6. 2 * e = 2 * m + 1
      <4> DEFINE a == 2 * e
                 b == 2 * m + 1
      <4>1. a \in Int /\ b \in Int /\ a * p = b * p
        BY <3>4, <3>5
      <4> HIDE DEF a, b, p
      <4>2. a = b
        BY <1>1, <4>1
      <4> QED BY <4>2 DEF a, b
    <3> QED BY <3>5, <3>6
  <2>5. i = j
    BY <1>1, <2>2, <2>3, <2>4
  <2> QED BY <2>1, <2>5
<1>4. LowBit(x) = CHOOSE q \in all : x % (2 * q) = q
  BY DEF LowBit
<1> HIDE DEF p, x, all
<1>5. LowBit(x) = p
  BY <1>1, <1>2, <1>3, <1>4
<1> QED BY <1>5 DEF p, x
------------------------------------------------------------------------------
(* Shard ids.  Id is what ShardId makes signed.                            *)

Id(p) == FirstBits(p)[Len(p)] + PowerOfTwo[Width - 1 - Len(p)]
IsShardPrefix(p) == p \in Seq({0, 1}) /\ Len(p) <= Width - 1

LEMMA FirstBitsSum ==
  ASSUME NEW p, IsShardPrefix(p)
  PROVE  /\ FirstBits(p)[0] = 0
         /\ \A n \in 1..Len(p) : FirstBits(p)[n] = FirstBits(p)[n - 1] + p[n] * PowerOfTwo[Width - n]
<1> DEFINE d == Len(p)
           next(f, n) == IF n = 0 THEN 0 ELSE f[n - 1] + p[n] * PowerOfTwo[Width - n]
           step == [n \in 1..d |-> [x \in Nat |-> x + p[n] * PowerOfTwo[Width - n]]]
           first == 0
           bits == FirstBits(p)
<1>1. d \in Nat /\ d <= Width - 1 /\ \A n \in 1..d : p[n] \in {0, 1}
  BY DEF IsShardPrefix
<1>2. ASSUME NEW n \in 1..d PROVE p[n] * PowerOfTwo[Width - n] \in Nat
  <2>1. Width - n \in Nat /\ p[n] \in {0, 1}
    BY <1>1, WidthAssumption
  <2>2. PowerOfTwo[Width - n] \in Nat
    BY <2>1, Powers
  <2> QED BY <2>1, <2>2
<1>3. step \in [1..d -> [Nat -> Nat]] /\ first \in Nat
  BY <1>2
<1>4. Steps(Nat, first, d, step)
  BY <1>1, <1>3 DEF Steps
<1> HIDE DEF step, first
<1>5. \E f \in [0..d -> Nat] : \A i \in 0..d : f[i] = IF i = 0 THEN first ELSE step[i][f[i - 1]]
  BY <1>4, StepRecursion
<1>6. PICK f \in [0..d -> Nat] : \A i \in 0..d : f[i] = IF i = 0 THEN first ELSE step[i][f[i - 1]]
  BY <1>5
<1>7. ASSUME NEW i \in 0..d PROVE f[i] = next(f, i)
  <2>1. CASE i = 0
    BY <1>6, <2>1 DEF first
  <2>2. CASE i # 0
    <3>1. i \in 1..d /\ i - 1 \in 0..d
      BY <1>1, <2>2
    <3>2. f[i] = step[i][f[i - 1]] /\ f[i - 1] \in Nat
      BY <1>6, <2>2, <3>1
    <3> QED BY <2>2, <3>1, <3>2 DEF step
  <2> QED BY <2>1, <2>2
<1> HIDE DEF next
<1>8. f = [n \in 0..d |-> next(f, n)]
  BY <1>6, <1>7
<1>9. bits = CHOOSE g : g = [n \in 0..d |-> next(g, n)]
  BY DEF FirstBits, next
<1> HIDE DEF bits
<1>10. bits = [n \in 0..d |-> next(bits, n)]
  BY <1>8, <1>9
<1>11. \A n \in 0..d : bits[n] = next(bits, n)
  BY <1>10
<1>12. bits[0] = 0
  BY <1>1, <1>11 DEF next
<1>13. ASSUME NEW n \in 1..d PROVE bits[n] = bits[n - 1] + p[n] * PowerOfTwo[Width - n]
  <2>1. n \in 0..d /\ n # 0
    BY <1>1
  <2> QED BY <1>11, <2>1 DEF next
<1> QED BY <1>12, <1>13 DEF bits

(* The first n bits leave the others free. *)
LEMMA FirstBitsFit ==
  ASSUME NEW p, IsShardPrefix(p)
  PROVE  \A n \in 0..Len(p) :
           \E k \in Nat : /\ FirstBits(p)[n] = k * PowerOfTwo[Width - n]
                          /\ (k + 1) * PowerOfTwo[Width - n] <= 2 * Half
<1> DEFINE d == Len(p)
           Fits(n) == \E k \in Nat : /\ FirstBits(p)[n] = k * PowerOfTwo[Width - n]
                                     /\ (k + 1) * PowerOfTwo[Width - n] <= 2 * Half
           T == {n \in Nat : n <= d => Fits(n)}
<1>1. d \in Nat /\ d <= Width - 1 /\ \A n \in 1..d : p[n] \in {0, 1}
  BY DEF IsShardPrefix
<1>2. PowerOfTwo[Width] = 2 * Half
  <2>1. Width - 1 \in Nat /\ (Width - 1) + 1 = Width
    BY WidthAssumption
  <2> QED BY <2>1, Powers DEF Half
<1>3. 0 \in T
  <2>1. FirstBits(p)[0] = 0 /\ Width - 0 = Width
    BY FirstBitsSum, WidthAssumption
  <2>2. Fits(0)
    BY <1>2, <2>1, Powers
  <2> QED BY <2>2
<1>4. ASSUME NEW n \in Nat, n \in T PROVE n + 1 \in T
  <2> SUFFICES ASSUME n + 1 <= d PROVE Fits(n + 1)
    OBVIOUS
  <2>1. n + 1 \in 1..d /\ (n + 1) - 1 = n /\ n <= d
    BY <1>1
  <2>2. PICK k \in Nat : /\ FirstBits(p)[n] = k * PowerOfTwo[Width - n]
                         /\ (k + 1) * PowerOfTwo[Width - n] <= 2 * Half
    BY <1>4, <2>1
  <2> DEFINE w == PowerOfTwo[Width - (n + 1)]
             b == p[n + 1]
  <2>3. Width - (n + 1) \in Nat /\ (Width - (n + 1)) + 1 = Width - n
    BY <1>1, <2>1, WidthAssumption
  <2>4. w \in Nat \ {0} /\ PowerOfTwo[Width - n] = 2 * w
    BY <2>3, Powers
  <2>5. FirstBits(p)[n + 1] = FirstBits(p)[n] + b * w
    <3>1. \A m \in 1..Len(p) : FirstBits(p)[m] = FirstBits(p)[m - 1] + p[m] * PowerOfTwo[Width - m]
      BY FirstBitsSum
    <3> QED BY <2>1, <3>1
  <2>6. b \in {0, 1}
    BY <1>1, <2>1
  <2> HIDE DEF w, b
  <2>7. FirstBits(p)[n + 1] = (2 * k + b) * w
    BY <2>2, <2>4, <2>5, <2>6
  <2>8. ((2 * k + b) + 1) * w <= (k + 1) * (2 * w)
    BY <2>4, <2>6
  <2>9. 2 * Half \in Nat /\ (k + 1) * (2 * w) <= 2 * Half
    BY <2>2, <2>4, Powers
  <2>10. ((2 * k + b) + 1) * w <= 2 * Half
    <3> DEFINE x == ((2 * k + b) + 1) * w
               y == (k + 1) * (2 * w)
    <3>1. x \in Int /\ y \in Int /\ x <= y /\ y <= 2 * Half
      BY <2>4, <2>6, <2>8, <2>9
    <3> HIDE DEF x, y
    <3>2. x <= 2 * Half
      BY <2>9, <3>1
    <3> QED BY <3>2 DEF x
  <2>11. 2 * k + b \in Nat
    BY <2>6
  <2> QED BY <2>7, <2>10, <2>11 DEF w
<1>5. Nat \subseteq T
  <2> HIDE DEF T
  <2> QED BY <1>3, <1>4, SetInduction
<1> HIDE DEF Fits
<1>6. \A n \in 0..d : Fits(n)
  BY <1>5
<1> QED BY <1>6 DEF Fits

LEMMA IdFacts ==
  ASSUME NEW p, IsShardPrefix(p)
  PROVE  /\ \E k \in Nat : Id(p) = (2 * k + 1) * PowerOfTwo[Width - 1 - Len(p)]
         /\ Id(p) \in 0..2 * Half - 1 /\ ShardId(p) = Signed(Id(p))
<1> DEFINE d == Len(p)
           w == PowerOfTwo[Width - 1 - d]
<1>1. d \in Nat /\ Width - 1 - d \in Nat /\ (Width - 1 - d) + 1 = Width - d
  BY WidthAssumption DEF IsShardPrefix
<1>2. w \in Nat \ {0} /\ PowerOfTwo[Width - d] = 2 * w /\ Half \in Nat
  BY <1>1, Powers
<1>3. PICK k \in Nat : /\ FirstBits(p)[d] = k * PowerOfTwo[Width - d]
                       /\ (k + 1) * PowerOfTwo[Width - d] <= 2 * Half
  <2>1. d \in 0..Len(p)
    BY <1>1
  <2> QED BY <2>1, FirstBitsFit
<1>4. Id(p) = k * (2 * w) + w /\ (k + 1) * (2 * w) <= 2 * Half
  BY <1>2, <1>3 DEF Id
<1>5. ShardId(p) = Signed(Id(p))
  BY DEF ShardId, Id, Signed
<1> HIDE DEF w
<1>6. k * (2 * w) + w = (2 * k + 1) * w /\ k * (2 * w) + w \in Nat
      /\ k * (2 * w) + w < (k + 1) * (2 * w)
  BY <1>2
<1>7. Id(p) \in 0..2 * Half - 1
  <2> DEFINE x == k * (2 * w) + w
             y == (k + 1) * (2 * w)
  <2>1. x \in Nat /\ y \in Int /\ x < y /\ y <= 2 * Half
    BY <1>2, <1>4, <1>6
  <2> HIDE DEF x, y
  <2>2. x \in 0..2 * Half - 1
    BY <1>2, <2>1
  <2> QED BY <1>4, <2>2 DEF x
<1> QED BY <1>4, <1>5, <1>6, <1>7 DEF w

(* A child's id is half the lowest bit below or above its parent's.        *)
LEMMA AppendedBits ==
  ASSUME NEW q, NEW b \in {0, 1}, IsShardPrefix(Append(q, b)), q \in Seq({0, 1})
  PROVE  /\ IsShardPrefix(q) /\ Width - 2 - Len(q) \in Nat
         /\ Id(Append(q, b)) = Id(q) + (2 * b - 1) * PowerOfTwo[Width - 2 - Len(q)]
         /\ PowerOfTwo[Width - 1 - Len(q)] = 2 * PowerOfTwo[Width - 2 - Len(q)]
<1> DEFINE p == Append(q, b)
           d == Len(q)
<1>1. d \in Nat /\ p \in Seq({0, 1}) /\ Len(p) = d + 1 /\ p[d + 1] = b /\ \A i \in 1..d : p[i] = q[i]
  OBVIOUS
<1>2. d + 1 <= Width - 1 /\ IsShardPrefix(q) /\ IsShardPrefix(p)
  BY <1>1, WidthAssumption DEF IsShardPrefix
<1> HIDE DEF p
<1> DEFINE T == {n \in Nat : n <= d => FirstBits(p)[n] = FirstBits(q)[n]}
<1>3. 0 \in T
  BY <1>2, FirstBitsSum
<1>4. ASSUME NEW n \in Nat, n \in T PROVE n + 1 \in T
  <2> SUFFICES ASSUME n + 1 <= d PROVE FirstBits(p)[n + 1] = FirstBits(q)[n + 1]
    OBVIOUS
  <2>1. n + 1 \in 1..d /\ n + 1 \in 1..Len(p) /\ (n + 1) - 1 = n /\ n <= d
    BY <1>1
  <2>2. \A m \in 1..Len(p) : FirstBits(p)[m] = FirstBits(p)[m - 1] + p[m] * PowerOfTwo[Width - m]
    BY <1>2, FirstBitsSum
  <2>3. \A m \in 1..d : FirstBits(q)[m] = FirstBits(q)[m - 1] + q[m] * PowerOfTwo[Width - m]
    BY <1>2, FirstBitsSum
  <2>4. p[n + 1] = q[n + 1] /\ FirstBits(p)[n] = FirstBits(q)[n]
    BY <1>1, <1>4, <2>1
  <2>5. FirstBits(p)[n + 1] = FirstBits(p)[n] + p[n + 1] * PowerOfTwo[Width - (n + 1)]
    BY <2>1, <2>2
  <2>6. FirstBits(q)[n + 1] = FirstBits(q)[n] + q[n + 1] * PowerOfTwo[Width - (n + 1)]
    BY <2>1, <2>3
  <2> QED BY <2>4, <2>5, <2>6
<1>5. Nat \subseteq T
  <2> HIDE DEF T
  <2> QED BY <1>3, <1>4, SetInduction
<1>6. FirstBits(p)[d] = FirstBits(q)[d]
  BY <1>1, <1>5
<1> DEFINE w == PowerOfTwo[Width - 2 - d]
<1>7. /\ Width - 2 - d \in Nat /\ (Width - 2 - d) + 1 = Width - 1 - d
      /\ Width - (d + 1) = Width - 1 - d /\ Width - 1 - (d + 1) = Width - 2 - d
  BY <1>1, <1>2, WidthAssumption
<1>8. w \in Nat \ {0} /\ PowerOfTwo[Width - 1 - d] = 2 * w
  BY <1>7, Powers
<1>9. FirstBits(p)[d + 1] = FirstBits(p)[d] + b * (2 * w)
  <2>1. \A m \in 1..Len(p) : FirstBits(p)[m] = FirstBits(p)[m - 1] + p[m] * PowerOfTwo[Width - m]
    BY <1>2, FirstBitsSum
  <2>2. d + 1 \in 1..Len(p) /\ (d + 1) - 1 = d
    BY <1>1
  <2> QED BY <1>1, <1>7, <1>8, <2>1, <2>2
<1>10. Id(p) = FirstBits(q)[d] + b * (2 * w) + w
  BY <1>1, <1>6, <1>7, <1>9 DEF Id
<1>11. Id(q) = FirstBits(q)[d] + 2 * w /\ Id(q) \in Nat
  BY <1>2, <1>8, IdFacts DEF Id
<1>12. FirstBits(q)[d] \in Int
  <2>1. d \in 0..Len(q)
    BY <1>1
  <2>2. PICK k \in Nat : FirstBits(q)[d] = k * PowerOfTwo[Width - d]
    BY <1>2, <2>1, FirstBitsFit
  <2>3. Width - d \in Nat
    BY <1>1, <1>2, WidthAssumption
  <2>4. PowerOfTwo[Width - d] \in Nat
    BY <2>3, Powers
  <2> QED BY <2>2, <2>4
<1> HIDE DEF w
<1>13. Id(p) = Id(q) + (2 * b - 1) * w
  <2>1. CASE b = 0
    BY <1>8, <1>10, <1>11, <1>12, <2>1
  <2>2. CASE b = 1
    BY <1>8, <1>10, <1>11, <1>12, <2>2
  <2> QED BY <2>1, <2>2
<1> QED BY <1>2, <1>7, <1>8, <1>13 DEF w, p

(* An id is that of the unsigned one, less what wraps. *)
LEMMA SignedWraps ==
  ASSUME NEW p, IsShardPrefix(p)
  PROVE  /\ \E c \in {-1, 0} : ShardId(p) = Id(p) + c * (2 * Half)
         /\ LowBit(ShardId(p)) = PowerOfTwo[Width - 1 - Len(p)]
<1> DEFINE d == Len(p)
           i == Width - 1 - d
           w == PowerOfTwo[i]
<1>1. d \in Nat /\ i \in 0..Width - 1 /\ i \in Nat /\ i + 1 \in Nat /\ (i + 1) + d = Width
  BY WidthAssumption DEF IsShardPrefix
<1>2. w \in Nat \ {0} /\ PowerOfTwo[i + 1] = 2 * w /\ Half \in Nat
  BY <1>1, Powers
<1>3. PICK k \in Nat : Id(p) = (2 * k + 1) * w
  BY IdFacts
<1>4. Id(p) \in 0..2 * Half - 1 /\ ShardId(p) = Signed(Id(p))
  BY IdFacts
<1>5. PICK c \in {-1, 0} : ShardId(p) = Id(p) + c * (2 * Half)
  <2>1. ShardId(p) = Id(p) + 0 * (2 * Half) \/ ShardId(p) = Id(p) + (-1) * (2 * Half)
    BY <1>2, <1>4 DEF Signed
  <2> QED BY <2>1
<1>6. PICK e \in Nat : 2 * Half = e * (2 * w)
  <2>1. \E e \in Nat \ {0} : PowerOfTwo[(i + 1) + d] = e * PowerOfTwo[i + 1]
    BY <1>1, PowersDivide
  <2>2. PowerOfTwo[Width] = 2 * Half
    <3>1. Width - 1 \in Nat /\ (Width - 1) + 1 = Width
      BY WidthAssumption
    <3> QED BY <3>1, Powers DEF Half
  <2> QED BY <1>1, <1>2, <2>1, <2>2
<1> DEFINE m == k + c * e
<1>7. m \in Int /\ ShardId(p) = (2 * m + 1) * w
  <2>1. m \in Int
    OBVIOUS
  <2>2. c * (2 * Half) = c * (e * (2 * w))
    BY <1>6
  <2>3. (2 * k + 1) * w + c * (e * (2 * w)) = (2 * (k + c * e) + 1) * w
    BY <1>2
  <2> HIDE DEF w
  <2> QED BY <1>3, <1>5, <2>1, <2>2, <2>3
<1>8. LowBit(ShardId(p)) = w
  <2> HIDE DEF m, i, d
  <2>1. LowBit((2 * m + 1) * PowerOfTwo[i]) = PowerOfTwo[i]
    BY <1>1, <1>7, LowBitOf
  <2> QED BY <1>7, <2>1
<1> QED BY <1>5, <1>8

LEMMA SignedOneToOne ==
  ASSUME NEW u \in 0..2 * Half - 1, NEW v \in 0..2 * Half - 1, Signed(u) = Signed(v)
  PROVE  u = v
<1>1. Half \in Nat
  BY Powers
<1> QED BY <1>1 DEF Signed

(* _child_shard() and _parent_shard() follow the prefixes, and after_split *)
(* can be told from the ids.                                               *)
LEMMA ChildAndParent ==
  ASSUME NEW q \in Seq({0, 1}), NEW b \in {0, 1}, IsShardPrefix(Append(q, b))
  PROVE  /\ ChildShard(ShardId(q), b = 0) = ShardId(Append(q, b))
         /\ ParentShard(ShardId(Append(q, b))) = ShardId(q)
         /\ ShardId(Append(q, b)) # ShardId(q)
<1> DEFINE p == Append(q, b)
           d == Len(q)
           i == Width - 2 - d
           w == PowerOfTwo[i]
           all == 2 * Half
<1>1. Len(p) = d + 1 /\ d \in Nat
  OBVIOUS
<1>2. /\ IsShardPrefix(p) /\ IsShardPrefix(q) /\ i \in Nat
      /\ Id(p) = Id(q) + (2 * b - 1) * w /\ PowerOfTwo[Width - 1 - d] = 2 * w
  BY AppendedBits
<1>3. Width - 1 - (d + 1) = i /\ i + 2 = Width - d /\ w \in Nat \ {0} /\ all \in Nat \ {0}
  BY <1>1, <1>2, Powers, WidthAssumption
<1>4. /\ Id(p) \in 0..all - 1 /\ ShardId(p) = Signed(Id(p))
      /\ Id(q) \in 0..all - 1 /\ ShardId(q) = Signed(Id(q))
  BY <1>2, IdFacts
<1>5. LowBit(ShardId(q)) = 2 * w
  BY <1>2, SignedWraps
<1>6. LowBit(ShardId(p)) = w
  BY <1>1, <1>2, <1>3, SignedWraps
<1>7. PICK c \in {-1, 0} : ShardId(q) = Id(q) + c * all
  BY <1>2, SignedWraps
<1>8. PICK e \in {-1, 0} : ShardId(p) = Id(p) + e * all
  BY <1>2, SignedWraps
<1> HIDE DEF p, w, i, d, all
<1>9. ChildShard(ShardId(q), b = 0) = ShardId(p)
  <2>1. (2 * w) \div 2 = w
    BY <1>3
  <2>2. ChildShard(ShardId(q), b = 0) =
          OverflowI64(IF b = 0 THEN ShardId(q) - w ELSE ShardId(q) + w)
    BY <1>5, <2>1 DEF ChildShard
  <2>3. (IF b = 0 THEN ShardId(q) - w ELSE ShardId(q) + w) = Id(p) + c * all
    <3>1. CASE b = 0
      BY <1>2, <1>3, <1>4, <1>7, <3>1
    <3>2. CASE b = 1
      BY <1>2, <1>3, <1>4, <1>7, <3>2
    <3> QED BY <3>1, <3>2
  <2>4. OverflowI64(Id(p) + c * all) = Signed(Id(p))
    BY <1>4, Overflows DEF all
  <2> QED BY <1>4, <2>2, <2>3, <2>4
<1>10. ShardId(p) # ShardId(q)
  <2>1. Id(p) # Id(q)
    <3>1. CASE b = 0
      BY <1>2, <1>3, <1>4, <3>1
    <3>2. CASE b = 1
      BY <1>2, <1>3, <1>4, <3>2
    <3> QED BY <3>1, <3>2
  <2> QED BY <1>4, <2>1, SignedOneToOne DEF all
<1>11. PICK m \in Int : Id(q) + e * all = (2 * m + 1) * (2 * w)
  <2>1. PICK k \in Nat : Id(q) = (2 * k + 1) * (2 * w)
    <3>1. \E k \in Nat : Id(q) = (2 * k + 1) * PowerOfTwo[Width - 1 - Len(q)]
      BY <1>2, IdFacts
    <3> QED BY <1>2, <3>1 DEF d
  <2>2. PICK f \in Nat : all = f * (4 * w)
    <3>1. i + 1 \in Nat /\ (i + 1) + 1 = i + 2 /\ i + 2 \in Nat /\ d \in Nat
      BY <1>1, <1>2
    <3>2. \E f \in Nat \ {0} : PowerOfTwo[(i + 2) + d] = f * PowerOfTwo[i + 2]
      BY <3>1, PowersDivide
    <3>3. PowerOfTwo[i + 1] = 2 * PowerOfTwo[i] /\ PowerOfTwo[i + 2] = 2 * PowerOfTwo[i + 1]
      BY <1>2, <3>1, Powers
    <3>4. PowerOfTwo[i + 2] = 4 * w
      BY <1>3, <3>3 DEF w
    <3>5. (i + 2) + d = Width
      BY <1>1, <1>3, WidthAssumption
    <3>6. PowerOfTwo[Width] = all
      <4>1. Width - 1 \in Nat /\ (Width - 1) + 1 = Width
        BY WidthAssumption
      <4> QED BY <4>1, Powers DEF Half, all
    <3> QED BY <3>2, <3>4, <3>5, <3>6
  <2>3. k + e * f \in Int
    OBVIOUS
  <2>4. (2 * k + 1) * (2 * w) + e * (f * (4 * w)) = (2 * (k + e * f) + 1) * (2 * w)
    BY <1>3
  <2> QED BY <2>1, <2>2, <2>3, <2>4
<1>12. ParentShard(ShardId(p)) = ShardId(q)
  <2> DEFINE rest == ShardId(p) - w
             n == 2 * m + b
  <2>1. n \in Int /\ rest = n * (2 * w)
    <3>1. rest = Id(q) + e * all + (2 * b - 1) * w - w
      BY <1>2, <1>3, <1>4, <1>8
    <3>2. (2 * m + 1) * (2 * w) + (2 * b - 1) * w - w = (2 * m + b) * (2 * w)
      BY <1>3
    <3>3. rest = (2 * m + 1) * (2 * w) + (2 * b - 1) * w - w
      BY <1>11, <3>1
    <3> QED BY <3>2, <3>3
  <2>2. rest \div (2 * w) = n
    <3>1. 2 * w \in Nat \ {0} /\ 0 \in 0..2 * w - 1 /\ rest = n * (2 * w) + 0
      BY <1>3, <2>1
    <3> HIDE DEF rest, n
    <3>2. (n * (2 * w) + 0) \div (2 * w) = n
      BY <2>1, <3>1, Quotients
    <3> QED BY <3>1, <3>2
  <2>3. n % 2 = b
    <3>1. n = m * 2 + b /\ b \in 0..2 - 1 /\ 2 \in Nat \ {0}
      OBVIOUS
    <3> HIDE DEF n
    <3>2. (m * 2 + b) % 2 = b
      BY <3>1, Quotients
    <3> QED BY <3>1, <3>2
  <2>4. (IF b = 1 THEN rest ELSE rest + 2 * w) = Id(q) + e * all
    <3> DEFINE x == IF b = 1 THEN n * (2 * w) ELSE n * (2 * w) + 2 * w
    <3>1. x = (2 * m + 1) * (2 * w)
      <4>1. CASE b = 1
        BY <1>3, <4>1
      <4>2. CASE b = 0
        BY <1>3, <4>2
      <4> QED BY <4>1, <4>2
    <3>2. x = IF b = 1 THEN rest ELSE rest + 2 * w
      BY <2>1
    <3> HIDE DEF x, rest
    <3> QED BY <1>11, <3>1, <3>2
  <2>5. OverflowI64(Id(q) + e * all) = Signed(Id(q))
    BY <1>4, Overflows DEF all
  <2>6. ParentShard(ShardId(p)) = OverflowI64(IF (rest \div (2 * w)) % 2 = 1 THEN rest ELSE rest + 2 * w)
    BY <1>6 DEF ParentShard
  <2> HIDE DEF rest
  <2> QED BY <1>4, <2>2, <2>3, <2>4, <2>5, <2>6
<1> QED BY <1>9, <1>10, <1>12 DEF p

LEMMA PowersDiffer ==
  ASSUME NEW i \in Nat, NEW j \in Nat, PowerOfTwo[i] = PowerOfTwo[j]
  PROVE  i = j
<1>1. ASSUME NEW k \in Nat, NEW l \in Nat, k < l PROVE PowerOfTwo[k] # PowerOfTwo[l]
  <2>1. k + 1 \in Nat /\ l - (k + 1) \in Nat /\ (k + 1) + (l - (k + 1)) = l
    BY <1>1
  <2>2. \E c \in Nat \ {0} : PowerOfTwo[(k + 1) + (l - (k + 1))] = c * PowerOfTwo[k + 1]
    BY <2>1, PowersDivide
  <2>3. PICK c \in Nat \ {0} : PowerOfTwo[l] = c * PowerOfTwo[k + 1]
    BY <2>1, <2>2
  <2>4. PowerOfTwo[k] \in Nat \ {0} /\ PowerOfTwo[k + 1] = 2 * PowerOfTwo[k]
    BY Powers
  <2> DEFINE w == PowerOfTwo[k]
  <2>5. w \in Nat \ {0} /\ PowerOfTwo[l] = c * (2 * w)
    BY <2>3, <2>4
  <2> HIDE DEF w
  <2>6. c * (2 * w) > w
    BY <2>5
  <2> QED BY <2>5, <2>6 DEF w
<1> QED BY <1>1

LEMMA ShardsOneToOne ==
  \A p, q : IsShardPrefix(p) /\ IsShardPrefix(q) /\ ShardId(p) = ShardId(q) => p = q
<1> DEFINE Same(p, q) == IsShardPrefix(p) /\ IsShardPrefix(q) /\ ShardId(p) = ShardId(q)
           T == {n \in Nat : \A p, q : Same(p, q) /\ Len(p) = n => p = q}
<1>1. ASSUME NEW p, NEW q, Same(p, q) PROVE Len(p) = Len(q) /\ Len(p) \in Nat
  <2>1. Width - 1 - Len(p) \in Nat /\ Width - 1 - Len(q) \in Nat
    BY <1>1, WidthAssumption DEF IsShardPrefix
  <2>2. PowerOfTwo[Width - 1 - Len(p)] = PowerOfTwo[Width - 1 - Len(q)]
    BY <1>1, SignedWraps
  <2>3. Width - 1 - Len(p) = Width - 1 - Len(q)
    BY <2>1, <2>2, PowersDiffer
  <2> QED BY <1>1, <2>3, WidthAssumption DEF IsShardPrefix
<1>2. 0 \in T
  <2> SUFFICES ASSUME NEW p, NEW q, Same(p, q), Len(p) = 0 PROVE p = q
    OBVIOUS
  <2>1. Len(q) = 0 /\ p \in Seq({0, 1}) /\ q \in Seq({0, 1})
    BY <1>1 DEF IsShardPrefix
  <2> QED BY <2>1
<1>3. ASSUME NEW n \in Nat, n \in T PROVE n + 1 \in T
  <2> SUFFICES ASSUME NEW p, NEW q, Same(p, q), Len(p) = n + 1 PROVE p = q
    OBVIOUS
  <2>1. Len(q) = n + 1 /\ p \in Seq({0, 1}) /\ q \in Seq({0, 1})
    BY <1>1 DEF IsShardPrefix
  <2>2. ASSUME NEW s \in Seq({0, 1}), Len(s) = n + 1
        PROVE  \E r \in Seq({0, 1}), b \in {0, 1} : s = Append(r, b) /\ Len(r) = n
    <3>1. s[n + 1] \in {0, 1} /\ SubSeq(s, 1, n) \in Seq({0, 1}) /\ Len(SubSeq(s, 1, n)) = n
      BY <2>2
    <3>2. s = Append(SubSeq(s, 1, n), s[n + 1])
      BY <2>2
    <3> QED BY <3>1, <3>2
  <2>3. PICK p1 \in Seq({0, 1}), b \in {0, 1} : p = Append(p1, b) /\ Len(p1) = n
    BY <2>1, <2>2
  <2>4. PICK q1 \in Seq({0, 1}), c \in {0, 1} : q = Append(q1, c) /\ Len(q1) = n
    BY <2>1, <2>2
  <2>5. IsShardPrefix(Append(p1, b)) /\ IsShardPrefix(Append(q1, c)) /\ ShardId(Append(p1, b)) = ShardId(Append(q1, c))
    BY <2>3, <2>4
  <2>6. IsShardPrefix(p1) /\ IsShardPrefix(q1)
    BY <2>5, AppendedBits
  <2>7. /\ ParentShard(ShardId(Append(p1, b))) = ShardId(p1)
        /\ ParentShard(ShardId(Append(q1, c))) = ShardId(q1)
    BY <2>5, ChildAndParent
  <2>8. p1 = q1
    BY <1>3, <2>3, <2>5, <2>6, <2>7
  <2>9. Id(Append(p1, b)) = Id(Append(p1, c))
    <3>1. /\ Id(Append(p1, b)) \in 0..2 * Half - 1 /\ ShardId(Append(p1, b)) = Signed(Id(Append(p1, b)))
          /\ Id(Append(p1, c)) \in 0..2 * Half - 1 /\ ShardId(Append(p1, c)) = Signed(Id(Append(p1, c)))
      BY <2>5, <2>8, IdFacts
    <3> QED BY <2>5, <2>8, <3>1, SignedOneToOne
  <2>10. b = c
    <3> DEFINE w == PowerOfTwo[Width - 2 - Len(p1)]
               u == Id(p1)
    <3>1. /\ Id(Append(p1, b)) = u + (2 * b - 1) * w /\ Id(Append(p1, c)) = u + (2 * c - 1) * w
          /\ Width - 2 - Len(p1) \in Nat
      BY <2>5, <2>8, AppendedBits
    <3>2. w \in Nat \ {0} /\ u \in Int
      <4>1. Id(p1) \in 0..2 * Half - 1 /\ Half \in Nat
        BY <2>6, IdFacts, Powers
      <4>2. Width - 2 - Len(p1) \in Nat
        BY <3>1
      <4>3. w \in Nat \ {0}
        BY <4>2, Powers
      <4>4. u \in Int
        BY <4>1
      <4> QED BY <4>3, <4>4
    <3> HIDE DEF w, u
    <3>3. u + (2 * b - 1) * w = u + (2 * c - 1) * w
      BY <2>9, <3>1
    <3> QED BY <3>2, <3>3
  <2> QED BY <2>3, <2>4, <2>8, <2>10
<1>4. Nat \subseteq T
  <2> HIDE DEF T
  <2> QED BY <1>2, <1>3, SetInduction
<1>5. ASSUME NEW p, NEW q, Same(p, q) PROVE p = q
  BY <1>1, <1>4, <1>5
<1> QED BY <1>5
------------------------------------------------------------------------------
(* The chain.  Two blocks are of the same accounts when the prefix of one  *)
(* shard is the beginning of the other's.                                  *)
Overlap(p, q) == \A i \in DOMAIN p \cap DOMAIN q : p[i] = q[i]
PrefixOf(shard) == CHOOSE p \in ShardPrefixes : ShardId(p) = shard
SameAccounts(b, c) == Overlap(PrefixOf(b.shard), PrefixOf(c.shard))

(* The blocks that masterchain block n brings. *)
Fresh(n) == UpTo(n) \ UpTo(n - 1)

ChainTypes ==
  /\ mc \in Seq([tips : SUBSET Blocks, blocks : SUBSET Blocks]) /\ height \in Nat
  /\ Blocks \subseteq [shard : Shards, seqno : Nat] /\ UpTo(height) = Blocks
  /\ \A n \in 0..height : Tips(n) \subseteq UpTo(n)
  /\ \A n, m \in 0..height : m <= n => UpTo(m) \subseteq UpTo(n)

(* Blocks build on blocks with lower seqnos. *)
Grounded ==
  \A b \in Blocks :
    /\ prev[b] \in Seq(Blocks) /\ Len(prev[b]) <= 2
    /\ \A i \in DOMAIN prev[b] : prev[b][i].seqno < b.seqno

(* The tips of a masterchain block share no accounts. *)
TipsApart ==
  \A n \in 0..height : \A t, u \in Tips(n) : SameAccounts(t, u) => t = u

(* No block is ahead of the last tip of its accounts. *)
TipsLead == \A t \in Tips(height), b \in Blocks : SameAccounts(t, b) => b.seqno <= t.seqno

(* What a masterchain block brings is above what its shards had. *)
SeqnosGrow ==
  \A n \in 1..height : \A x \in Fresh(n), b \in UpTo(n - 1) :
    x.shard = b.shard => b.seqno < x.seqno

(* Tips are new or remain, and what is new is below one of its shard. *)
TipsCover ==
  \A n \in 1..height :
    /\ Tips(n) \subseteq Tips(n - 1) \cup Fresh(n)
    /\ \A x \in Fresh(n) : \E t \in Tips(n) : t.shard = x.shard /\ x.seqno <= t.seqno

(* Within one masterchain block a shard gets a chain of blocks, which      *)
(* begins right above tips of the one before.                              *)
ShardsGrow ==
  \A n \in 1..height : \A x \in Fresh(n) :
    /\ prev[x] # <<>>
    /\ \A i \in DOMAIN prev[x] :
         prev[x][i] \in Tips(n - 1) \/ (prev[x][i] \in Fresh(n) /\ prev[x][i].shard = x.shard)
    /\ \A y \in Fresh(n) : y.shard = x.shard /\ y.seqno < x.seqno =>
         prev[x] = <<Block(x.shard, x.seqno - 1)>> /\ Block(x.shard, x.seqno - 1) \in Fresh(n)

ChainInv ==
  /\ ChainTypes /\ Grounded /\ WalksTheChain
  /\ TipsApart /\ TipsLead /\ SeqnosGrow /\ TipsCover /\ ShardsGrow

LEMMA PrefixFacts ==
  /\ \A p \in ShardPrefixes : IsShardPrefix(p) /\ Len(p) \in 0..MaxDepth /\ ShardId(p) \in Shards
  /\ \A p \in ShardPrefixes, b \in {0, 1} : Len(p) < MaxDepth => Append(p, b) \in ShardPrefixes
  /\ \A p \in ShardPrefixes : PrefixOf(ShardId(p)) = p
  /\ \A s \in Shards : PrefixOf(s) \in ShardPrefixes /\ ShardId(PrefixOf(s)) = s
<1>1. ASSUME NEW p \in ShardPrefixes PROVE p \in Seq({0, 1}) /\ Len(p) \in 0..MaxDepth
  BY ChainAssumption DEF ShardPrefixes
<1>2. ASSUME NEW p \in ShardPrefixes PROVE IsShardPrefix(p)
  BY <1>1, ChainAssumption, WidthAssumption DEF IsShardPrefix
<1>3. ASSUME NEW p \in ShardPrefixes, NEW b \in {0, 1}, Len(p) < MaxDepth
      PROVE  Append(p, b) \in ShardPrefixes
  <2> DEFINE q == Append(p, b)
  <2>1. p \in Seq({0, 1}) /\ Len(p) \in 0..MaxDepth /\ MaxDepth \in Nat
    BY <1>1, ChainAssumption, WidthAssumption
  <2>2. Len(p) + 1 \in 0..MaxDepth
    BY <1>3, <2>1
  <2>3. q \in Seq({0, 1}) /\ Len(q) = Len(p) + 1
    BY <2>1
  <2> HIDE DEF q
  <2>4. q \in [1..Len(p) + 1 -> {0, 1}]
    BY <2>3
  <2> QED BY <2>2, <2>4 DEF ShardPrefixes, q
<1>4. ASSUME NEW p \in ShardPrefixes PROVE PrefixOf(ShardId(p)) = p
  <2>1. \A q \in ShardPrefixes : ShardId(q) = ShardId(p) => q = p
    BY <1>2, ShardsOneToOne
  <2> QED BY <2>1 DEF PrefixOf
<1>5. ASSUME NEW s \in Shards PROVE PrefixOf(s) \in ShardPrefixes /\ ShardId(PrefixOf(s)) = s
  BY DEF Shards, PrefixOf
<1> QED BY <1>1, <1>2, <1>3, <1>4, <1>5 DEF Shards

(* What the network may add to the chain with a masterchain block.         *)
Extends(fresh, tips) ==
  LET new == DOMAIN fresh
      all == Blocks \cup new
  IN /\ new \subseteq [shard : Shards, seqno : Nat] /\ tips \subseteq Tips(height) \cup new
     /\ \A b \in new :
          /\ fresh[b] # <<>>
          /\ \A i \in DOMAIN fresh[b] :
               /\ fresh[b][i].seqno < b.seqno
               /\ fresh[b][i] \in Tips(height) \/ (fresh[b][i] \in new /\ fresh[b][i].shard = b.shard)
          /\ \A c \in Blocks : SameAccounts(b, c) => c.seqno < b.seqno
          /\ \E t \in tips : t.shard = b.shard /\ b.seqno <= t.seqno
          /\ \A c \in new : c.shard = b.shard /\ c.seqno < b.seqno =>
               fresh[b] = <<Block(b.shard, b.seqno - 1)>> /\ Block(b.shard, b.seqno - 1) \in new
     /\ \A t, u \in tips : SameAccounts(t, u) => t = u
     /\ \A t \in tips, b \in all : SameAccounts(t, b) => b.seqno <= t.seqno

(* The ids that the scanner computes of the predecessors.                  *)
RightIds(fresh) ==
  \A b \in DOMAIN fresh :
    \/ \E n : fresh[b] = <<Block(b.shard, n)>>
    \/ \E q \in Seq({0, 1}), bit \in {0, 1} : \E n :
         /\ IsShardPrefix(Append(q, bit)) /\ b.shard = ShardId(Append(q, bit))
         /\ fresh[b] = <<Block(ShardId(q), n)>>
    \/ \E q \in Seq({0, 1}) : \E m, n :
         /\ IsShardPrefix(Append(q, 0)) /\ IsShardPrefix(Append(q, 1)) /\ b.shard = ShardId(q)
         /\ fresh[b] = <<Block(ShardId(Append(q, 0)), m), Block(ShardId(Append(q, 1)), n)>>

LEMMA IdsStayRight ==
  ASSUME WalksTheChain, NEW fresh, NEW tips, Extend(fresh, tips), RightIds(fresh)
  PROVE  WalksTheChain'
<1> SUFFICES ASSUME NEW b \in Blocks' PROVE PrevIds(b)' = prev'[b]
  BY DEF WalksTheChain
<1>1. prev' = [x \in Blocks \cup DOMAIN fresh |-> IF x \in Blocks THEN prev[x] ELSE fresh[x]]
  BY DEF Extend
<1>2. CASE b \in Blocks
  <2>1. prev'[b] = prev[b] /\ PrevIds(b) = prev[b]
    BY <1>1, <1>2 DEF WalksTheChain, Blocks
  <2>2. PrevIds(b)' = PrevIds(b)
    BY <2>1 DEF PrevIds, AfterSplit
  <2> QED BY <2>1, <2>2
<1>3. CASE b \notin Blocks
  <2>1. b \in DOMAIN fresh /\ prev'[b] = fresh[b]
    BY <1>1, <1>3 DEF Blocks
  <2>2. ASSUME NEW n, fresh[b] = <<Block(b.shard, n)>> PROVE PrevIds(b)' = prev'[b]
    <3>1. prev'[b] = <<Block(b.shard, n)>>
      BY <2>1, <2>2
    <3> QED BY <3>1 DEF PrevIds, AfterSplit, Block
  <2>3. ASSUME NEW q \in Seq({0, 1}), NEW bit \in {0, 1}, NEW n,
               IsShardPrefix(Append(q, bit)), b.shard = ShardId(Append(q, bit)),
               fresh[b] = <<Block(ShardId(q), n)>>
        PROVE  PrevIds(b)' = prev'[b]
    <3>1. prev'[b] = <<Block(ShardId(q), n)>>
      BY <2>1, <2>3
    <3>2. ParentShard(b.shard) = ShardId(q) /\ b.shard # ShardId(q)
      BY <2>3, ChildAndParent
    <3> QED BY <3>1, <3>2 DEF PrevIds, AfterSplit, Block
  <2>4. ASSUME NEW q \in Seq({0, 1}), NEW m, NEW n,
               IsShardPrefix(Append(q, 0)), IsShardPrefix(Append(q, 1)), b.shard = ShardId(q),
               fresh[b] = <<Block(ShardId(Append(q, 0)), m), Block(ShardId(Append(q, 1)), n)>>
        PROVE  PrevIds(b)' = prev'[b]
    <3>1. prev'[b] = <<Block(ShardId(Append(q, 0)), m), Block(ShardId(Append(q, 1)), n)>>
      BY <2>1, <2>4
    <3>2. ChildShard(ShardId(q), TRUE) = ShardId(Append(q, 0))
      <4>1. ChildShard(ShardId(q), 0 = 0) = ShardId(Append(q, 0))
        BY <2>4, ChildAndParent
      <4>2. (0 = 0) = TRUE
        OBVIOUS
      <4> QED BY <4>1, <4>2
    <3>3. ChildShard(ShardId(q), FALSE) = ShardId(Append(q, 1))
      <4>1. ChildShard(ShardId(q), 1 = 0) = ShardId(Append(q, 1))
        BY <2>4, ChildAndParent
      <4>2. (1 = 0) = FALSE
        OBVIOUS
      <4> QED BY <4>1, <4>2
    <3>4. Len(prev'[b]) = 2 /\ prev'[b][1].seqno = m /\ prev'[b][2].seqno = n
      BY <3>1 DEF Block
    <3>5. PrevIds(b)' = <<Block(ChildShard(b.shard, TRUE), prev'[b][1].seqno),
                          Block(ChildShard(b.shard, FALSE), prev'[b][2].seqno)>>
      BY <3>4 DEF PrevIds
    <3> QED BY <2>4, <3>1, <3>2, <3>3, <3>4, <3>5
  <2> QED BY <2>1, <2>2, <2>3, <2>4 DEF RightIds
<1> QED BY <1>2, <1>3

LEMMA SeqOfMore ==
  ASSUME NEW S, NEW R, S \subseteq R, NEW s \in Seq(S)
  PROVE  s \in Seq(R)
<1>1. \A i \in 1..Len(s) : s[i] \in R
  OBVIOUS
<1> QED BY <1>1

LEMMA ChainExtends ==
  ASSUME ChainInv, NEW fresh, NEW tips, Extend(fresh, tips), Extends(fresh, tips), RightIds(fresh)
  PROVE  ChainInv'
<1> DEFINE new == DOMAIN fresh
<1>0. PICK h : h = Len(mc)
  OBVIOUS
<1>1. /\ prev' = [x \in Blocks \cup new |-> IF x \in Blocks THEN prev[x] ELSE fresh[x]]
      /\ mc' = Append(mc, [tips |-> tips, blocks |-> UpTo(height) \cup new])
  BY DEF Extend
<1>2. ChainTypes
  BY DEF ChainInv
<1>3. /\ Blocks' = Blocks \cup new /\ new \subseteq [shard : Shards, seqno : Nat]
      /\ tips \subseteq Tips(height) \cup new /\ Tips(height) \subseteq Blocks
      /\ \A b \in Blocks : prev'[b] = prev[b]
  <2>1. height \in 0..height
    BY <1>2 DEF ChainTypes
  <2>2. Tips(height) \subseteq Blocks
    BY <1>2, <2>1 DEF ChainTypes
  <2> QED BY <1>1, <2>2 DEF Blocks, Extends
<1>4. /\ h \in Nat /\ height = h - 1 /\ height' = h /\ 0..height' = 0..height \cup {h} /\ h - 1 \in Nat
      /\ \A n \in 0..height : mc'[n + 1] = mc[n + 1]
      /\ mc'[h + 1] = [tips |-> tips, blocks |-> Blocks \cup new]
  <2> DEFINE entry == [tips |-> tips, blocks |-> Blocks \cup new]
  <2>1. mc' = Append(mc, entry)
    BY <1>1, <1>2 DEF ChainTypes
  <2>2. PICK S : mc \in Seq(S)
    BY <1>2 DEF ChainTypes
  <2>3. h \in Nat /\ height = h - 1 /\ h - 1 \in Nat
    BY <1>0, <1>2, <2>2 DEF ChainTypes, height
  <2> HIDE DEF entry
  <2>4. /\ Len(mc') = h + 1 /\ mc'[h + 1] = entry
        /\ \A i \in 1..h : mc'[i] = mc[i]
    BY <1>0, <2>1, <2>2
  <2>5. height' = h
    BY <2>3, <2>4 DEF height
  <2>6. \A n \in 0..height : n + 1 \in 1..h
    BY <2>3
  <2>7. 0..height' = 0..height \cup {h}
    BY <2>3, <2>5
  <2> QED BY <2>3, <2>4, <2>5, <2>6, <2>7 DEF entry
<1>5. /\ \A n \in 0..height : Tips(n)' = Tips(n) /\ UpTo(n)' = UpTo(n)
      /\ Tips(h)' = tips /\ UpTo(h)' = Blocks \cup new
  <2>1. \A n : Tips(n)' = mc'[n + 1].tips /\ UpTo(n)' = mc'[n + 1].blocks
    BY DEF Tips, UpTo
  <2>2. \A n : Tips(n) = mc[n + 1].tips /\ UpTo(n) = mc[n + 1].blocks
    BY DEF Tips, UpTo
  <2> QED BY <1>4, <2>1, <2>2
<1>6. Blocks \cap new = {}
  <2> SUFFICES ASSUME NEW b \in Blocks \cap new PROVE FALSE
    OBVIOUS
  <2>1. SameAccounts(b, b)
    BY DEF SameAccounts, Overlap
  <2>2. b.seqno < b.seqno /\ b.seqno \in Nat
    BY <1>3, <2>1 DEF Extends
  <2> QED BY <2>2
<1>7. \A b \in new : prev'[b] = fresh[b]
  BY <1>1, <1>6
<1>8. ChainTypes'
  <2>1. mc' \in Seq([tips : SUBSET Blocks', blocks : SUBSET Blocks']) /\ height' \in Nat
    <3>0. PICK S, R : /\ S = [tips : SUBSET Blocks', blocks : SUBSET Blocks']
                      /\ R = [tips : SUBSET Blocks, blocks : SUBSET Blocks]
      OBVIOUS
    <3>1. mc \in Seq(S)
      <4>1. R \subseteq S
        BY <1>3, <3>0
      <4>2. mc \in Seq(R)
        BY <1>2, <3>0 DEF ChainTypes
      <4>3. \A i \in 1..Len(mc) : mc[i] \in S
        BY <4>1, <4>2
      <4> QED BY <4>2, <4>3
    <3>2. [tips |-> tips, blocks |-> UpTo(height) \cup new] \in S
      BY <1>2, <1>3, <3>0 DEF ChainTypes
    <3>3. Append(mc, [tips |-> tips, blocks |-> UpTo(height) \cup new]) \in Seq(S)
      BY ONLY <3>1, <3>2
    <3> QED BY <1>1, <1>4, <3>0, <3>3
  <2>2. Blocks' \subseteq [shard : Shards, seqno : Nat] /\ UpTo(height)' = Blocks'
    BY <1>2, <1>3, <1>4, <1>5 DEF ChainTypes
  <2>3. \A n \in 0..height' : Tips(n)' \subseteq UpTo(n)'
    BY <1>2, <1>3, <1>4, <1>5 DEF ChainTypes
  <2>4. ASSUME NEW n \in 0..height', NEW m \in 0..height', m <= n
        PROVE  UpTo(m)' \subseteq UpTo(n)'
    <3>1. CASE n # h
      <4>1. n \in 0..height /\ m \in 0..height
        BY <1>4, <2>4, <3>1
      <4> QED BY <1>2, <1>5, <2>4, <4>1 DEF ChainTypes
    <3>2. CASE n = h /\ m # h
      <4>1. m \in 0..height /\ height \in 0..height /\ m <= height
        BY <1>4, <2>4, <3>2
      <4>2. UpTo(m) \subseteq Blocks
        BY <1>2, <4>1 DEF ChainTypes
      <4> QED BY <1>5, <3>2, <4>1, <4>2
    <3>3. CASE n = h /\ m = h
      BY <3>3
    <3> QED BY <3>1, <3>2, <3>3
  <2> QED BY <2>1, <2>2, <2>3, <2>4 DEF ChainTypes
<1>9. /\ \A n \in 1..height : n \in 0..height /\ n - 1 \in 0..height /\ Fresh(n)' = Fresh(n)
      /\ Fresh(h)' = new /\ 1..height' = 1..height \cup {h} /\ UpTo(h - 1)' = Blocks
      /\ Tips(h - 1)' = Tips(height) /\ height \in 0..height
  <2>1. /\ \A n \in 1..height : n \in 0..height /\ n - 1 \in 0..height
        /\ 1..height' = 1..height \cup {h} /\ height \in 0..height /\ h - 1 = height
    BY <1>4
  <2>2. UpTo(height) = Blocks
    BY <1>2 DEF ChainTypes
  <2>3. \A n \in 1..height : Fresh(n)' = Fresh(n)
    BY <1>5, <2>1 DEF Fresh
  <2>4. Fresh(h)' = new
    BY <1>5, <1>6, <2>1, <2>2 DEF Fresh
  <2> QED BY <1>5, <2>1, <2>2, <2>3, <2>4
<1>10. Grounded'
  <2> SUFFICES ASSUME NEW b \in Blocks'
               PROVE  /\ prev'[b] \in Seq(Blocks') /\ Len(prev'[b]) <= 2
                      /\ \A i \in DOMAIN prev'[b] : prev'[b][i].seqno < b.seqno
    BY DEF Grounded
  <2>1. CASE b \in Blocks
    <3>1. prev'[b] = prev[b] /\ prev[b] \in Seq(Blocks) /\ Blocks \subseteq Blocks'
      BY <1>3, <2>1 DEF ChainInv, Grounded
    <3>2. prev[b] \in Seq(Blocks')
      BY <3>1, SeqOfMore
    <3> QED BY <2>1, <3>1, <3>2 DEF ChainInv, Grounded
  <2>2. CASE b \in new
    <3>1. prev'[b] = fresh[b]
      BY <1>7, <2>2
    <3>2. \/ \E x : fresh[b] = <<x>>
          \/ \E x, y : fresh[b] = <<x, y>>
      BY <2>2 DEF RightIds
    <3>3. \A i \in DOMAIN fresh[b] : fresh[b][i] \in Blocks' /\ fresh[b][i].seqno < b.seqno
      BY <1>3, <2>2 DEF Extends
    <3>4. CASE \E x : fresh[b] = <<x>>
      <4>1. PICK x : fresh[b] = <<x>>
        BY <3>4
      <4>2. x \in Blocks' /\ x.seqno < b.seqno
        BY <3>3, <4>1
      <4> QED BY <3>1, <4>1, <4>2
    <3>5. CASE \E x, y : fresh[b] = <<x, y>>
      <4>1. PICK x, y : fresh[b] = <<x, y>>
        BY <3>5
      <4>2. x \in Blocks' /\ x.seqno < b.seqno /\ y \in Blocks' /\ y.seqno < b.seqno
        BY <3>3, <4>1
      <4> QED BY <3>1, <4>1, <4>2
    <3> QED BY <3>2, <3>4, <3>5
  <2> QED BY <1>3, <2>1, <2>2
<1>11. TipsApart'
  <2>1. \A n \in 0..height : \A t, u \in Tips(n) : SameAccounts(t, u) => t = u
    BY DEF ChainInv, TipsApart
  <2>2. \A t, u \in tips : SameAccounts(t, u) => t = u
    BY DEF Extends
  <2> QED BY <1>4, <1>5, <2>1, <2>2 DEF TipsApart
<1>12. TipsLead'
  <2>1. \A t \in tips, b \in Blocks \cup new : SameAccounts(t, b) => b.seqno <= t.seqno
    BY DEF Extends
  <2> QED BY <1>3, <1>4, <1>5, <2>1 DEF TipsLead
<1>13. SeqnosGrow'
  <2> SUFFICES ASSUME NEW n \in 1..height', NEW x \in Fresh(n)', NEW b \in UpTo(n - 1)', x.shard = b.shard
               PROVE  b.seqno < x.seqno
    BY DEF SeqnosGrow
  <2>1. CASE n \in 1..height
    BY <1>5, <1>9, <2>1 DEF ChainInv, SeqnosGrow
  <2>2. CASE n = h
    <3>1. SameAccounts(x, b)
      BY DEF SameAccounts, Overlap
    <3> QED BY <1>9, <2>2, <3>1 DEF Extends
  <2> QED BY <1>9, <2>1, <2>2
<1>14. TipsCover'
  <2>1. \A n \in 1..height :
          /\ Tips(n) \subseteq Tips(n - 1) \cup Fresh(n)
          /\ \A x \in Fresh(n) : \E t \in Tips(n) : t.shard = x.shard /\ x.seqno <= t.seqno
    BY DEF ChainInv, TipsCover
  <2>2. /\ \A x \in new : \E t \in tips : t.shard = x.shard /\ x.seqno <= t.seqno
        /\ tips \subseteq Tips(height) \cup new
    BY DEF Extends
  <2>3. \A n \in 1..height :
          Tips(n)' = Tips(n) /\ Tips(n - 1)' = Tips(n - 1) /\ Fresh(n)' = Fresh(n)
    BY <1>5, <1>9
  <2>4. Tips(h)' = tips /\ Tips(h - 1)' = Tips(height) /\ Fresh(h)' = new
    BY <1>5, <1>9
  <2> SUFFICES ASSUME NEW n \in 1..height'
               PROVE  /\ Tips(n)' \subseteq Tips(n - 1)' \cup Fresh(n)'
                      /\ \A x \in Fresh(n)' : \E t \in Tips(n)' : t.shard = x.shard /\ x.seqno <= t.seqno
    BY DEF TipsCover
  <2>5. n \in 1..height \/ n = h
    BY <1>9
  <2> QED BY <2>1, <2>2, <2>3, <2>4, <2>5
<1>15. ShardsGrow'
  <2> SUFFICES ASSUME NEW n \in 1..height', NEW x \in Fresh(n)'
               PROVE  /\ prev'[x] # <<>>
                      /\ \A i \in DOMAIN prev'[x] :
                           \/ prev'[x][i] \in Tips(n - 1)'
                           \/ prev'[x][i] \in Fresh(n)' /\ prev'[x][i].shard = x.shard
                      /\ \A y \in Fresh(n)' : y.shard = x.shard /\ y.seqno < x.seqno =>
                           prev'[x] = <<Block(x.shard, x.seqno - 1)>> /\ Block(x.shard, x.seqno - 1) \in Fresh(n)'
    BY DEF ShardsGrow, Block
  <2>1. CASE n \in 1..height
    <3>1. x \in Fresh(n) /\ x \in Blocks
      BY <1>2, <1>9, <2>1 DEF Fresh, ChainTypes
    <3>2. prev'[x] = prev[x] /\ Tips(n - 1)' = Tips(n - 1) /\ Fresh(n)' = Fresh(n)
      BY <1>3, <1>5, <1>9, <2>1, <3>1
    <3> QED BY <2>1, <3>1, <3>2 DEF ChainInv, ShardsGrow
  <2>2. CASE n = h
    <3>1. x \in new /\ prev'[x] = fresh[x] /\ Tips(n - 1)' = Tips(height) /\ Fresh(n)' = new
      BY <1>7, <1>9, <2>2
    <3> QED BY <3>1 DEF Extends
  <2> QED BY <1>9, <2>1, <2>2
<1>16. WalksTheChain'
  BY IdsStayRight DEF ChainInv
<1> QED BY <1>8, <1>10, <1>11, <1>12, <1>13, <1>14, <1>15, <1>16 DEF ChainInv

LEMMA OverlapFacts ==
  /\ \A p : Overlap(p, p)
  /\ \A p, q : Overlap(p, q) => Overlap(q, p)
  /\ \A p, q \in Seq({0, 1}), b \in {0, 1} : Overlap(Append(p, b), q) => Overlap(p, q)
  /\ \A p, q \in Seq({0, 1}) :
       Overlap(p, q) => Overlap(Append(p, 0), q) \/ Overlap(Append(p, 1), q)
  /\ \A p \in Seq({0, 1}), b, c \in {0, 1} : Overlap(Append(p, b), Append(p, c)) => b = c
<1>1. \A p : Overlap(p, p)
  BY DEF Overlap
<1>2. \A p, q : Overlap(p, q) => Overlap(q, p)
  BY DEF Overlap
<1>3. ASSUME NEW p \in Seq({0, 1}), NEW b \in {0, 1}
      PROVE  /\ DOMAIN p = 1..Len(p) /\ DOMAIN Append(p, b) = 1..Len(p) + 1 /\ Len(p) \in Nat
             /\ Append(p, b)[Len(p) + 1] = b /\ \A i \in 1..Len(p) : Append(p, b)[i] = p[i]
  OBVIOUS
<1>4. ASSUME NEW p \in Seq({0, 1}), NEW q \in Seq({0, 1}), NEW b \in {0, 1}, Overlap(Append(p, b), q)
      PROVE  Overlap(p, q)
  BY <1>3, <1>4 DEF Overlap
<1>5. ASSUME NEW p \in Seq({0, 1}), NEW q \in Seq({0, 1}), Overlap(p, q)
      PROVE  Overlap(Append(p, 0), q) \/ Overlap(Append(p, 1), q)
  <2>1. DOMAIN q = 1..Len(q) /\ \A i \in DOMAIN q : q[i] \in {0, 1}
    OBVIOUS
  <2>2. \E b \in {0, 1} : Len(p) + 1 \in DOMAIN q => q[Len(p) + 1] = b
    BY <2>1
  <2>3. PICK b \in {0, 1} : Len(p) + 1 \in DOMAIN q => q[Len(p) + 1] = b
    BY <2>2
  <2>4. ASSUME NEW i \in DOMAIN Append(p, b) \cap DOMAIN q PROVE Append(p, b)[i] = q[i]
    <3>1. CASE i = Len(p) + 1
      BY <1>3, <2>3, <3>1
    <3>2. CASE i # Len(p) + 1
      <4>1. i \in 1..Len(p)
        BY <1>3, <3>2
      <4> QED BY <1>3, <1>5, <4>1 DEF Overlap
    <3> QED BY <3>1, <3>2
  <2>5. Overlap(Append(p, b), q)
    BY <2>4 DEF Overlap
  <2> QED BY <2>5
<1>6. ASSUME NEW p \in Seq({0, 1}), NEW b \in {0, 1}, NEW c \in {0, 1},
             Overlap(Append(p, b), Append(p, c))
      PROVE  b = c
  <2>1. Len(p) + 1 \in 1..Len(p) + 1
    BY <1>3
  <2> QED BY <1>3, <1>6, <2>1 DEF Overlap
<1> QED BY <1>1, <1>2, <1>4, <1>5, <1>6

(* What is used of the tips. *)
LEMMA TipFacts ==
  ASSUME ChainInv
  PROVE  /\ Tips(height) \subseteq Blocks /\ Blocks \subseteq [shard : Shards, seqno : Nat]
         /\ \A t, u \in Tips(height) : SameAccounts(t, u) => t = u
         /\ \A t \in Tips(height), b \in Blocks : SameAccounts(t, b) => b.seqno <= t.seqno
         /\ \A b, c : b.shard = c.shard => SameAccounts(b, c)
         /\ \A b, c : SameAccounts(b, c) => SameAccounts(c, b)
<1>1. height \in 0..height
  BY DEF ChainInv, ChainTypes
<1> QED BY <1>1, OverlapFacts DEF ChainInv, ChainTypes, TipsApart, TipsLead, SameAccounts

LEMMA AdvanceExtends ==
  ASSUME ChainInv, Advance
  PROVE  \E fresh, tips : Extend(fresh, tips) /\ Extends(fresh, tips) /\ RightIds(fresh)
<1> DEFINE T == Tips(height)
<1>2. PICK steps \in [T -> 0..MaxSteps] :
        Extend([b \in UNION {{Block(t.shard, t.seqno + i) : i \in 1..steps[t]} : t \in T}
                  |-> <<Block(b.shard, b.seqno - 1)>>],
               {Block(t.shard, t.seqno + steps[t]) : t \in T})
  BY DEF Advance
<1> HIDE DEF T
<1>a. PICK N : N = UNION {{Block(t.shard, t.seqno + i) : i \in 1..steps[t]} : t \in T}
  OBVIOUS
<1>b. PICK fresh : fresh = [b \in N |-> <<Block(b.shard, b.seqno - 1)>>]
  OBVIOUS
<1>c. PICK tips : tips = {Block(t.shard, t.seqno + steps[t]) : t \in T}
  OBVIOUS
<1>d. Extend(fresh, tips)
  BY <1>2, <1>a, <1>b, <1>c
<1> DEFINE new == DOMAIN fresh
<1>4. MaxSteps \in Nat /\ \A t \in T : steps[t] \in 0..MaxSteps
  BY ChainAssumption
<1>5. /\ \A t \in T, i \in 1..MaxSteps : i <= steps[t] => Block(t.shard, t.seqno + i) \in new
      /\ \A b \in new : \E t \in T : \E i \in 1..steps[t] : b = Block(t.shard, t.seqno + i)
      /\ \A b \in new : fresh[b] = <<Block(b.shard, b.seqno - 1)>>
  <2>1. ASSUME NEW t \in T, NEW i \in 1..MaxSteps, i <= steps[t]
        PROVE  Block(t.shard, t.seqno + i) \in new
    <3>1. i \in 1..steps[t]
      BY <1>4, <2>1
    <3> QED BY <1>a, <1>b, <3>1
  <2> QED BY <1>a, <1>b, <2>1
<1>6. /\ T \subseteq Blocks /\ T \subseteq [shard : Shards, seqno : Nat]
      /\ Blocks \subseteq [shard : Shards, seqno : Nat]
      /\ \A t, u \in T : SameAccounts(t, u) => t = u
      /\ \A t \in T, b \in Blocks : SameAccounts(t, b) => b.seqno <= t.seqno
      /\ \A b, c : b.shard = c.shard => SameAccounts(b, c)
      /\ \A b, c : SameAccounts(b, c) => SameAccounts(c, b)
  BY TipFacts DEF T
<1>7. \A t \in T : t = Block(t.shard, t.seqno) /\ t.seqno \in Nat /\ t.shard \in Shards
  BY <1>6 DEF Block
<1>8. \A s, n : Block(s, n).shard = s /\ Block(s, n).seqno = n
  BY DEF Block
<1>9. ASSUME NEW b, NEW c, NEW d, b.shard = c.shard, SameAccounts(b, d) PROVE SameAccounts(c, d)
  BY <1>9 DEF SameAccounts
<1>10. new \subseteq [shard : Shards, seqno : Nat]
  <2> SUFFICES ASSUME NEW b \in new PROVE b \in [shard : Shards, seqno : Nat]
    OBVIOUS
  <2>1. PICK t, i : t \in T /\ i \in 1..steps[t] /\ b = Block(t.shard, t.seqno + i)
    BY <1>5
  <2>2. t.seqno + i \in Nat /\ t.shard \in Shards
    BY <1>4, <1>7, <2>1
  <2> QED BY <2>1, <2>2 DEF Block
<1>11. tips \subseteq T \cup new
  <2> SUFFICES ASSUME NEW t \in T PROVE Block(t.shard, t.seqno + steps[t]) \in T \cup new
    BY <1>c
  <2>1. CASE steps[t] = 0
    BY <1>6, <1>7, <2>1
  <2>2. CASE steps[t] # 0
    <3>1. steps[t] \in 1..MaxSteps /\ steps[t] <= steps[t]
      BY <1>4, <2>2
    <3> QED BY <1>5, <3>1
  <2> QED BY <2>1, <2>2
<1>12. ASSUME NEW b \in new
       PROVE  /\ fresh[b] # <<>>
              /\ \A i \in DOMAIN fresh[b] :
                   /\ fresh[b][i].seqno < b.seqno
                   /\ fresh[b][i] \in T \/ (fresh[b][i] \in new /\ fresh[b][i].shard = b.shard)
              /\ \A c \in Blocks : SameAccounts(b, c) => c.seqno < b.seqno
              /\ \E t \in tips : t.shard = b.shard /\ b.seqno <= t.seqno
              /\ \A c \in new : c.shard = b.shard /\ c.seqno < b.seqno =>
                   fresh[b] = <<Block(b.shard, b.seqno - 1)>> /\ Block(b.shard, b.seqno - 1) \in new
  <2>1. PICK t, i : t \in T /\ i \in 1..steps[t] /\ b = Block(t.shard, t.seqno + i)
    BY <1>5
  <2>2. t \in T /\ b.shard = t.shard /\ b.seqno = t.seqno + i /\ t.seqno \in Nat /\ i \in 1..MaxSteps
        /\ i <= steps[t] /\ steps[t] \in 0..MaxSteps
    BY <1>4, <1>7, <1>8, <2>1
  <2>3. fresh[b] = <<Block(b.shard, b.seqno - 1)>>
    BY <1>5
  <2>4. CASE i = 1
    <3>1. Block(b.shard, b.seqno - 1) = t
      BY <1>7, <2>2, <2>4
    <3>2. ASSUME NEW c \in new, c.shard = b.shard, c.seqno < b.seqno PROVE FALSE
      <4>1. PICK u, j : u \in T /\ j \in 1..steps[u] /\ c = Block(u.shard, u.seqno + j)
        BY <1>5
      <4>2. u = t
        BY <1>6, <1>8, <2>2, <3>2, <4>1
      <4> QED BY <1>8, <2>2, <2>4, <3>2, <4>1, <4>2
    <3>3. \A c \in Blocks : SameAccounts(b, c) => c.seqno < b.seqno
      <4> SUFFICES ASSUME NEW c \in Blocks, SameAccounts(b, c) PROVE c.seqno < b.seqno
        OBVIOUS
      <4>1. c.seqno <= t.seqno /\ c.seqno \in Nat
        BY <1>6, <1>9, <2>2
      <4> QED BY <2>2, <4>1
    <3>4. \E v \in tips : v.shard = b.shard /\ b.seqno <= v.seqno
      <4>1. Block(t.shard, t.seqno + steps[t]) \in tips /\ b.seqno <= t.seqno + steps[t]
        BY <1>c, <2>2
      <4> QED BY <1>8, <2>2, <4>1
    <3>5. t.seqno < b.seqno
      BY <2>2
    <3>6. fresh[b] # <<>> /\ DOMAIN fresh[b] = {1} /\ fresh[b][1] = t
      BY <2>3, <3>1
    <3>7. t \in T
      BY <2>2
    <3> QED BY <3>2, <3>3, <3>4, <3>5, <3>6, <3>7
  <2>5. CASE i # 1
    <3>1. i - 1 \in 1..MaxSteps /\ i - 1 <= steps[t] /\ t.seqno + (i - 1) = b.seqno - 1 /\ b.seqno - 1 < b.seqno
      <4>1. i \in Nat /\ i >= 2 /\ MaxSteps \in Nat /\ i <= MaxSteps /\ i <= steps[t] /\ steps[t] \in Nat
        BY <1>4, <2>2, <2>5
      <4>2. b.seqno = t.seqno + i /\ t.seqno \in Nat
        BY <2>2
      <4>3. i - 1 \in 1..MaxSteps /\ i - 1 <= steps[t]
        BY <4>1
      <4>4. t.seqno + (i - 1) = b.seqno - 1 /\ b.seqno - 1 < b.seqno
        BY <4>1, <4>2
      <4> QED BY <4>3, <4>4
    <3>2. Block(b.shard, b.seqno - 1) \in new
      BY <1>5, <2>2, <3>1
    <3>3. \A c \in Blocks : SameAccounts(b, c) => c.seqno < b.seqno
      <4> SUFFICES ASSUME NEW c \in Blocks, SameAccounts(b, c) PROVE c.seqno < b.seqno
        OBVIOUS
      <4>1. c.seqno <= t.seqno /\ c.seqno \in Nat
        BY <1>6, <1>9, <2>2
      <4> QED BY <2>2, <4>1
    <3>4. \E v \in tips : v.shard = b.shard /\ b.seqno <= v.seqno
      <4>1. Block(t.shard, t.seqno + steps[t]) \in tips /\ b.seqno <= t.seqno + steps[t]
        BY <1>c, <2>2
      <4> QED BY <1>8, <2>2, <4>1
    <3> QED BY <1>8, <2>3, <3>1, <3>2, <3>3, <3>4
  <2> QED BY <2>4, <2>5
<1>13. ASSUME NEW v \in tips, NEW w \in tips, SameAccounts(v, w) PROVE v = w
  <2>1. PICK t \in T : v = Block(t.shard, t.seqno + steps[t])
    BY <1>c
  <2>2. PICK u \in T : w = Block(u.shard, u.seqno + steps[u])
    BY <1>c
  <2>3. SameAccounts(t, w)
    BY <1>8, <1>9, <1>13, <2>1
  <2>4. SameAccounts(t, u)
    BY <1>6, <1>8, <1>9, <2>2, <2>3
  <2> QED BY <1>6, <2>1, <2>2, <2>4
<1>14. ASSUME NEW v \in tips, NEW b \in Blocks \cup new, SameAccounts(v, b) PROVE b.seqno <= v.seqno
  <2>1. PICK t \in T : v = Block(t.shard, t.seqno + steps[t])
    BY <1>c
  <2>2. t \in T /\ SameAccounts(t, b) /\ v.seqno = t.seqno + steps[t] /\ t.seqno \in Nat /\ steps[t] \in Nat
    BY <1>4, <1>7, <1>8, <1>9, <1>14, <2>1
  <2>3. CASE b \in Blocks
    <3>1. b.seqno <= t.seqno /\ b.seqno \in Nat
      BY <1>6, <2>2, <2>3
    <3> QED BY <2>2, <3>1
  <2>4. CASE b \in new
    <3>1. PICK u, i : u \in T /\ i \in 1..steps[u] /\ b = Block(u.shard, u.seqno + i)
      BY <1>5, <2>4
    <3>2. SameAccounts(t, u)
      BY <1>6, <1>8, <1>9, <2>2, <3>1
    <3>3. u = t
      BY <1>6, <2>2, <3>1, <3>2
    <3> QED BY <1>8, <2>2, <3>1, <3>3
  <2> QED BY <2>3, <2>4
<1>15. Extends(fresh, tips)
  BY <1>10, <1>11, <1>12, <1>13, <1>14 DEF Extends, T
<1>16. RightIds(fresh)
  BY <1>5 DEF RightIds
<1> QED BY <1>d, <1>15, <1>16

LEMMA SplitExtends ==
  ASSUME ChainInv, Split
  PROVE  \E fresh, tips : Extend(fresh, tips) /\ Extends(fresh, tips) /\ RightIds(fresh)
<1> DEFINE T == Tips(height)
<1>1. PICK p \in ShardPrefixes, t \in T :
        /\ Len(p) < MaxDepth /\ t.shard = ShardId(p)
        /\ LET children == {Block(ShardId(Append(p, bit)), t.seqno + 1) : bit \in {0, 1}}
           IN Extend([b \in children |-> <<t>>], (T \ {t}) \cup children)
  BY DEF Split
<1> HIDE DEF T
<1>2. PICK new : new = {Block(ShardId(Append(p, bit)), t.seqno + 1) : bit \in {0, 1}}
  OBVIOUS
<1>3. PICK fresh : fresh = [b \in new |-> <<t>>]
  OBVIOUS
<1>4. PICK tips : tips = (T \ {t}) \cup new
  OBVIOUS
<1>5. Extend(fresh, tips) /\ DOMAIN fresh = new
  BY <1>1, <1>2, <1>3, <1>4
<1>6. /\ T \subseteq Blocks /\ Blocks \subseteq [shard : Shards, seqno : Nat]
      /\ \A u, v \in T : SameAccounts(u, v) => u = v
      /\ \A u \in T, b \in Blocks : SameAccounts(u, b) => b.seqno <= u.seqno
      /\ \A b, c : b.shard = c.shard => SameAccounts(b, c)
      /\ \A b, c : SameAccounts(b, c) => SameAccounts(c, b)
  BY TipFacts DEF T
<1>7. t \in Blocks /\ t.seqno \in Nat /\ t = Block(ShardId(p), t.seqno)
  BY <1>1, <1>6 DEF Block
<1>8. /\ p \in Seq({0, 1}) /\ PrefixOf(t.shard) = p /\ PrefixOf(t.shard) \in Seq({0, 1})
      /\ \A bit \in {0, 1} : /\ IsShardPrefix(Append(p, bit)) /\ ShardId(Append(p, bit)) \in Shards
                             /\ PrefixOf(ShardId(Append(p, bit))) = Append(p, bit)
  <2>1. \A bit \in {0, 1} : Append(p, bit) \in ShardPrefixes
    BY <1>1, PrefixFacts
  <2>2. p \in Seq({0, 1}) /\ PrefixOf(t.shard) = p
    BY <1>1, PrefixFacts DEF IsShardPrefix
  <2> QED BY <2>1, <2>2, PrefixFacts
<1>9. \A s, n : Block(s, n).shard = s /\ Block(s, n).seqno = n
  BY DEF Block
<1>10. ASSUME NEW b \in new
       PROVE  \E bit \in {0, 1} : /\ b = Block(ShardId(Append(p, bit)), t.seqno + 1)
                                  /\ b.shard = ShardId(Append(p, bit)) /\ b.seqno = t.seqno + 1
                                  /\ PrefixOf(b.shard) = Append(p, bit)
  BY <1>2, <1>8, <1>9
<1>11. ASSUME NEW b \in new, NEW c \in Blocks \cup new, SameAccounts(b, c) PROVE SameAccounts(t, c)
  <2>1. PICK bit \in {0, 1} : PrefixOf(b.shard) = Append(p, bit)
    BY <1>10
  <2>2. c.shard \in Shards
    BY <1>6, <1>8, <1>10
  <2>3. PrefixOf(c.shard) \in Seq({0, 1})
    BY <2>2, PrefixFacts DEF IsShardPrefix
  <2> QED BY <1>8, <1>11, <2>1, <2>3, OverlapFacts DEF SameAccounts
<1>12. ASSUME NEW b \in new, NEW c \in new, SameAccounts(b, c) PROVE b = c
  <2>1. PICK bit \in {0, 1} : b = Block(ShardId(Append(p, bit)), t.seqno + 1)
                              /\ PrefixOf(b.shard) = Append(p, bit)
    BY <1>10
  <2>2. PICK other \in {0, 1} : c = Block(ShardId(Append(p, other)), t.seqno + 1)
                                /\ PrefixOf(c.shard) = Append(p, other)
    BY <1>10
  <2>3. bit = other
    <3>1. Overlap(Append(p, bit), Append(p, other))
      BY <1>12, <2>1, <2>2 DEF SameAccounts
    <3>2. p \in Seq({0, 1})
      BY <1>8
    <3> QED BY ONLY <3>1, <3>2, OverlapFacts
  <2> QED BY <2>1, <2>2, <2>3
<1>13. new \subseteq [shard : Shards, seqno : Nat]
  <2> SUFFICES ASSUME NEW b \in new PROVE b \in [shard : Shards, seqno : Nat]
    OBVIOUS
  <2>1. PICK bit \in {0, 1} : b = Block(ShardId(Append(p, bit)), t.seqno + 1)
    BY <1>10
  <2> QED BY <1>7, <1>8, <2>1 DEF Block
<1>14. ASSUME NEW b \in new
       PROVE  /\ fresh[b] # <<>>
              /\ \A i \in DOMAIN fresh[b] :
                   /\ fresh[b][i].seqno < b.seqno
                   /\ fresh[b][i] \in T \/ (fresh[b][i] \in new /\ fresh[b][i].shard = b.shard)
              /\ \A c \in Blocks : SameAccounts(b, c) => c.seqno < b.seqno
              /\ \E u \in tips : u.shard = b.shard /\ b.seqno <= u.seqno
              /\ \A c \in new : c.shard = b.shard /\ c.seqno < b.seqno =>
                   fresh[b] = <<Block(b.shard, b.seqno - 1)>> /\ Block(b.shard, b.seqno - 1) \in new
  <2>1. b.seqno = t.seqno + 1 /\ t.seqno < b.seqno /\ b.seqno <= b.seqno /\ ~(b.seqno < b.seqno)
    BY <1>7, <1>10
  <2>2. fresh[b] = <<t>> /\ fresh[b] # <<>> /\ DOMAIN fresh[b] = {1} /\ fresh[b][1] = t
    BY <1>3
  <2>3. ASSUME NEW c \in Blocks, SameAccounts(b, c) PROVE c.seqno < b.seqno
    <3>1. c.seqno <= t.seqno /\ c.seqno \in Nat
      BY <1>1, <1>6, <1>11, <2>3
    <3> QED BY <1>7, <2>1, <3>1
  <2>4. \A c \in new : c.seqno = b.seqno
    BY <1>10, <2>1
  <2> QED BY <1>1, <1>4, <2>1, <2>2, <2>3, <2>4
<1>15. ASSUME NEW u \in tips, NEW v \in tips, SameAccounts(u, v) PROVE u = v
  <2>1. CASE u \in new /\ v \in new
    BY <1>12, <1>15, <2>1
  <2>2. CASE u \in T /\ v \in T
    BY <1>6, <1>15, <2>2
  <2>3. ASSUME NEW b \in new, NEW w \in T \ {t}, SameAccounts(b, w) PROVE FALSE
    BY <1>1, <1>6, <1>11, <2>3
  <2> QED BY <1>4, <1>6, <1>15, <2>1, <2>2, <2>3
<1>16. ASSUME NEW u \in tips, NEW b \in Blocks \cup new, SameAccounts(u, b) PROVE b.seqno <= u.seqno
  <2>1. CASE u \in new /\ b \in new
    <3>1. u = b /\ b.seqno \in Nat
      BY <1>12, <1>13, <1>16, <2>1
    <3> QED BY <3>1
  <2>2. CASE u \in new /\ b \in Blocks
    <3>1. b.seqno < u.seqno /\ b.seqno \in Nat /\ u.seqno \in Nat
      BY <1>6, <1>13, <1>14, <1>16, <2>2
    <3> QED BY <3>1
  <2>3. CASE u \in T /\ b \in Blocks
    BY <1>6, <1>16, <2>3
  <2>4. CASE u \in T \ {t} /\ b \in new
    <3>1. u \in Blocks /\ SameAccounts(t, u)
      BY <1>6, <1>11, <1>16, <2>4
    <3> QED BY <1>1, <1>6, <2>4, <3>1
  <2> QED BY <1>4, <2>1, <2>2, <2>3, <2>4
<1>17. Extends(fresh, tips)
  <2>1. tips \subseteq T \cup new
    BY <1>4
  <2> QED BY <1>5, <1>13, <1>14, <1>15, <1>16, <2>1 DEF Extends, T
<1>18. RightIds(fresh)
  <2> SUFFICES ASSUME NEW b \in new
               PROVE  \E q \in Seq({0, 1}), bit \in {0, 1} : \E n :
                        /\ IsShardPrefix(Append(q, bit)) /\ b.shard = ShardId(Append(q, bit))
                        /\ fresh[b] = <<Block(ShardId(q), n)>>
    BY <1>5 DEF RightIds
  <2>1. PICK bit \in {0, 1} : b.shard = ShardId(Append(p, bit))
    BY <1>10
  <2>2. fresh[b] = <<Block(ShardId(p), t.seqno)>>
    BY <1>3, <1>7
  <2> QED BY <1>8, <2>1, <2>2
<1> QED BY <1>5, <1>17, <1>18

LEMMA MergeExtends ==
  ASSUME ChainInv, Merge
  PROVE  \E fresh, tips : Extend(fresh, tips) /\ Extends(fresh, tips) /\ RightIds(fresh)
<1> DEFINE T == Tips(height)
<1>1. PICK p \in ShardPrefixes, l \in T, r \in T :
        /\ Len(p) < MaxDepth
        /\ l.shard = ShardId(Append(p, 0)) /\ r.shard = ShardId(Append(p, 1))
        /\ LET b == Block(ShardId(p), (IF l.seqno > r.seqno THEN l.seqno ELSE r.seqno) + 1)
           IN Extend([x \in {b} |-> <<l, r>>], (T \ {l, r}) \cup {b})
  BY DEF Merge
<1> HIDE DEF T
<1>2. PICK b : b = Block(ShardId(p), (IF l.seqno > r.seqno THEN l.seqno ELSE r.seqno) + 1)
  OBVIOUS
<1>3. PICK fresh : fresh = [x \in {b} |-> <<l, r>>]
  OBVIOUS
<1>4. PICK tips : tips = (T \ {l, r}) \cup {b}
  OBVIOUS
<1>5. Extend(fresh, tips) /\ DOMAIN fresh = {b} /\ fresh[b] = <<l, r>>
  BY <1>1, <1>2, <1>3, <1>4
<1>6. /\ T \subseteq Blocks /\ Blocks \subseteq [shard : Shards, seqno : Nat]
      /\ \A u, v \in T : SameAccounts(u, v) => u = v
      /\ \A u \in T, c \in Blocks : SameAccounts(u, c) => c.seqno <= u.seqno
      /\ \A c, d : c.shard = d.shard => SameAccounts(c, d)
      /\ \A c, d : SameAccounts(c, d) => SameAccounts(d, c)
  BY TipFacts DEF T
<1>7. /\ l.seqno \in Nat /\ l = Block(ShardId(Append(p, 0)), l.seqno)
      /\ r.seqno \in Nat /\ r = Block(ShardId(Append(p, 1)), r.seqno)
  BY <1>1, <1>6 DEF Block
<1>8. b.shard = ShardId(p) /\ b.seqno \in Nat /\ l.seqno < b.seqno /\ r.seqno < b.seqno
      /\ \A n \in Nat : n <= l.seqno \/ n <= r.seqno => n < b.seqno
  <2>1. b.shard = ShardId(p) /\ b.seqno = (IF l.seqno > r.seqno THEN l.seqno ELSE r.seqno) + 1
    BY <1>2 DEF Block
  <2> QED BY <1>7, <2>1
<1>9. /\ p \in Seq({0, 1}) /\ PrefixOf(b.shard) = p /\ ShardId(p) \in Shards
      /\ IsShardPrefix(Append(p, 0)) /\ IsShardPrefix(Append(p, 1))
      /\ PrefixOf(l.shard) = Append(p, 0) /\ PrefixOf(r.shard) = Append(p, 1)
  <2>1. Append(p, 0) \in ShardPrefixes /\ Append(p, 1) \in ShardPrefixes
    BY <1>1, PrefixFacts
  <2> QED BY <1>1, <1>8, <2>1, PrefixFacts DEF IsShardPrefix
<1>10. ASSUME NEW c \in Blocks, SameAccounts(b, c)
       PROVE  SameAccounts(l, c) \/ SameAccounts(r, c)
  <2>1. PrefixOf(c.shard) \in Seq({0, 1})
    BY <1>6, PrefixFacts DEF IsShardPrefix
  <2> QED BY <1>9, <1>10, <2>1, OverlapFacts DEF SameAccounts
<1>11. \A c \in Blocks : SameAccounts(b, c) => c.seqno < b.seqno
  <2> SUFFICES ASSUME NEW c \in Blocks, SameAccounts(b, c) PROVE c.seqno < b.seqno
    OBVIOUS
  <2>1. c.seqno \in Nat /\ (c.seqno <= l.seqno \/ c.seqno <= r.seqno)
    BY <1>1, <1>6, <1>10
  <2> QED BY <1>8, <2>1
<1>12. ASSUME NEW u \in T \ {l, r}, SameAccounts(b, u) PROVE FALSE
  BY <1>1, <1>6, <1>10, <1>12
<1>13. b \in [shard : Shards, seqno : Nat]
  BY <1>2, <1>8, <1>9 DEF Block
<1>14. ASSUME NEW u \in tips, NEW v \in tips, SameAccounts(u, v) PROVE u = v
  BY <1>4, <1>6, <1>12, <1>14
<1>15. ASSUME NEW u \in tips, NEW c \in Blocks \cup {b}, SameAccounts(u, c) PROVE c.seqno <= u.seqno
  <2>1. CASE u = b /\ c = b
    BY <1>8, <2>1
  <2>2. CASE u = b /\ c \in Blocks
    <3>1. c.seqno < b.seqno /\ c.seqno \in Nat
      BY <1>6, <1>11, <1>15, <2>2
    <3> QED BY <1>8, <2>2, <3>1
  <2>3. CASE u \in T /\ c \in Blocks
    BY <1>6, <1>15, <2>3
  <2>4. CASE u \in T \ {l, r} /\ c = b
    BY <1>6, <1>12, <1>15, <2>4
  <2> QED BY <1>4, <2>1, <2>2, <2>3, <2>4
<1>16. Extends(fresh, tips)
  <2>1. tips \subseteq T \cup {b}
    BY <1>4
  <2>2. fresh[b] # <<>> /\ \A i \in DOMAIN fresh[b] : fresh[b][i] \in {l, r}
    BY <1>5
  <2>3. \A i \in DOMAIN fresh[b] : fresh[b][i].seqno < b.seqno /\ fresh[b][i] \in T
    BY <1>1, <1>8, <2>2
  <2>4. b \in tips /\ b.seqno <= b.seqno /\ ~(b.seqno < b.seqno)
    BY <1>4, <1>8
  <2> QED BY <1>5, <1>11, <1>13, <1>14, <1>15, <2>1, <2>2, <2>3, <2>4 DEF Extends, T
<1>17. RightIds(fresh)
  <2>1. fresh[b] = <<Block(ShardId(Append(p, 0)), l.seqno), Block(ShardId(Append(p, 1)), r.seqno)>>
    BY <1>5, <1>7
  <2> QED BY <1>5, <1>8, <1>9, <2>1 DEF RightIds
<1> QED BY <1>5, <1>16, <1>17

LEMMA ChainStarts == Init => ChainInv
<1> SUFFICES ASSUME Init PROVE ChainInv
  OBVIOUS
<1>1. PICK g : g = Genesis
  OBVIOUS
<1>2. /\ prev = [b \in {g} |-> <<>>] /\ Blocks = {g} /\ prev[g] = <<>>
      /\ mc = <<[tips |-> {g}, blocks |-> {g}]>> /\ height = 0
      /\ Tips(0) = {g} /\ UpTo(0) = {g}
  BY <1>1 DEF Init, Blocks, height, Tips, UpTo
<1>3. g \in [shard : Shards, seqno : Nat] /\ g.seqno \in Nat
  <2>1. <<>> \in ShardPrefixes
    <3>1. 0 \in 0..MaxDepth /\ <<>> \in [1..0 -> {0, 1}]
      BY ChainAssumption, WidthAssumption
    <3> QED BY <3>1 DEF ShardPrefixes
  <2> QED BY <1>1, <2>1, PrefixFacts DEF Genesis
<1>4. ChainTypes
  <2>1. mc \in Seq([tips : SUBSET Blocks, blocks : SUBSET Blocks])
    BY <1>2
  <2>2. 0..height = {0}
    BY <1>2
  <2> QED BY <1>2, <1>3, <2>1, <2>2 DEF ChainTypes
<1>5. Grounded
  BY <1>2 DEF Grounded
<1>6. WalksTheChain
  <2>1. PrevIds(g) = <<>>
    <3>1. Len(prev[g]) = 0
      BY <1>2
    <3> QED BY <1>2, <3>1 DEF PrevIds
  <2> QED BY <1>2, <2>1 DEF WalksTheChain
<1>7. TipsApart /\ TipsLead
  <2>1. 0..height = {0} /\ g.seqno <= g.seqno
    BY <1>2, <1>3
  <2> QED BY <1>2, <2>1 DEF TipsApart, TipsLead
<1>8. SeqnosGrow /\ TipsCover /\ ShardsGrow
  <2>1. 1..height = {}
    BY <1>2
  <2> QED BY <2>1 DEF SeqnosGrow, TipsCover, ShardsGrow
<1> QED BY <1>4, <1>5, <1>6, <1>7, <1>8 DEF ChainInv

LEMMA ChainStays ==
  ASSUME ChainInv, UNCHANGED chain
  PROVE  ChainInv'
<1>1. prev' = prev /\ mc' = mc
  BY DEF chain
<1>2. /\ Blocks' = Blocks /\ height' = height /\ \A n : Tips(n)' = Tips(n) /\ UpTo(n)' = UpTo(n)
      /\ \A n : Fresh(n)' = Fresh(n) /\ \A b : PrevIds(b)' = PrevIds(b)
  BY <1>1 DEF Blocks, height, Tips, UpTo, Fresh, PrevIds, AfterSplit
<1> QED BY <1>1, <1>2 DEF ChainInv, ChainTypes, Grounded, WalksTheChain, TipsApart, TipsLead,
                          SeqnosGrow, TipsCover, ShardsGrow

(* Whatever the scanner does, it leaves the chain alone. *)
LEMMA OnlyNetwork == Next => Network \/ UNCHANGED chain
BY DEF Next, Running, GetSeen, GetTips, WalkTip, HandleBlock, HandleTransactions, Processed, Store,
       WaitNext, Stopped, ResumeContinues, Start, Resume, ResumeWaits, WalkFails, Raises, Stop, Restart

LEMMA ChainStep == ChainInv /\ [Next]_vars => ChainInv'
<1> SUFFICES ASSUME ChainInv, [Next]_vars PROVE ChainInv'
  OBVIOUS
<1>1. CASE Network
  <2>1. PICK fresh, tips : Extend(fresh, tips) /\ Extends(fresh, tips) /\ RightIds(fresh)
    BY <1>1, AdvanceExtends, SplitExtends, MergeExtends DEF Network
  <2> QED BY <2>1, ChainExtends
<1>2. CASE UNCHANGED chain
  BY <1>2, ChainStays
<1> QED BY <1>1, <1>2, OnlyNetwork DEF vars

(* The ids that the scanner computes on its walk are those of the blocks   *)
(* meant (scanner.py:78-96 and 282-318), whatever the width of a shard id  *)
(* and however often shards advance, split and merge.                      *)
THEOREM ScannerWalksTheChain == Spec => []WalksTheChain
<1>1. ChainInv => WalksTheChain
  BY DEF ChainInv
<1> QED BY <1>1, ChainStarts, ChainStep, PTL DEF Spec
------------------------------------------------------------------------------
(* The walk.                                                               *)
Seen(b) == seen[b.shard] >= b.seqno
WalksOn(b) == ~Seen(b) /\ prev[b] # <<>>

(* Blocks to walk back from, and to.                                       *)
LEMMA Behind ==
  ASSUME ChainInv
  PROVE  \E rank, More, left, right :
           /\ More = {b \in Blocks : WalksOn(b)}
           /\ rank \in [Blocks -> Nat] /\ left \in [More -> Blocks] /\ right \in [More -> Blocks]
           /\ \A b \in More : /\ left[b] = prev[b][1] /\ right[b] = prev[b][Len(prev[b])]
                              /\ rank[left[b]] < rank[b] /\ rank[right[b]] < rank[b]
<1>1. PICK rank, More : rank = [b \in Blocks |-> b.seqno] /\ More = {b \in Blocks : WalksOn(b)}
  OBVIOUS
<1>2. PICK left, right : /\ left = [b \in More |-> prev[b][1]]
                         /\ right = [b \in More |-> prev[b][Len(prev[b])]]
  OBVIOUS
<1>3. ASSUME NEW b \in Blocks PROVE b.seqno \in Nat
  BY DEF ChainInv, ChainTypes
<1>4. ASSUME NEW b \in More, NEW i \in {1, Len(prev[b])}
      PROVE  prev[b][i] \in Blocks /\ prev[b][i].seqno < b.seqno
  <2>1. b \in Blocks /\ prev[b] # <<>>
    BY <1>1 DEF WalksOn
  <2>2. prev[b] \in Seq(Blocks) /\ \A j \in DOMAIN prev[b] : prev[b][j].seqno < b.seqno
    BY <2>1 DEF ChainInv, Grounded
  <2>3. i \in DOMAIN prev[b]
    BY <2>1, <2>2
  <2> QED BY <2>2, <2>3
<1>5. rank \in [Blocks -> Nat] /\ left \in [More -> Blocks] /\ right \in [More -> Blocks]
  BY <1>1, <1>2, <1>3, <1>4
<1>6. ASSUME NEW b \in More
      PROVE  /\ left[b] = prev[b][1] /\ right[b] = prev[b][Len(prev[b])]
             /\ rank[left[b]] < rank[b] /\ rank[right[b]] < rank[b]
  <2>1. /\ left[b] = prev[b][1] /\ right[b] = prev[b][Len(prev[b])]
    BY <1>2
  <2>2. /\ left[b] \in Blocks /\ left[b].seqno < b.seqno
        /\ right[b] \in Blocks /\ right[b].seqno < b.seqno
    BY <1>4, <2>1
  <2>3. b \in Blocks
    BY <1>1
  <2> QED BY <1>1, <2>1, <2>2, <2>3
<1>7. \A b \in More : /\ left[b] = prev[b][1] /\ right[b] = prev[b][Len(prev[b])]
                      /\ rank[left[b]] < rank[b] /\ rank[right[b]] < rank[b]
  BY <1>6
<1>8. More = {b \in Blocks : WalksOn(b)}
  BY <1>1
<1> QED BY ONLY <1>5, <1>7, <1>8

(* What the walk from a block puts on the queue: for each of its           *)
(* predecessors what the walk from there does, then the block.             *)
LEMMA MissingStep ==
  ASSUME ChainInv, NEW b \in Blocks
  PROVE  /\ Missing(b) \in Seq(Blocks)
         /\ ~WalksOn(b) => Missing(b) = <<>>
         /\ WalksOn(b) =>
              /\ \A i \in DOMAIN prev[b] : prev[b][i] \in Blocks
              /\ Missing(b) = (IF Len(prev[b]) = 2 THEN Missing(prev[b][1]) \o Missing(prev[b][2])
                               ELSE Missing(prev[b][1])) \o <<b>>
<1> DEFINE Join(c, x, y) == (IF Len(prev[c]) = 2 THEN x \o y ELSE x) \o <<c>>
           next(f, c) == IF WalksOn(c) THEN Join(c, f[prev[c][1]], f[prev[c][2]]) ELSE <<>>
           S == Seq(Blocks)
           walk == CHOOSE g : g = [c \in Blocks |-> next(g, c)]
<1>1. PICK rank, More, left, right :
        /\ More = {c \in Blocks : WalksOn(c)}
        /\ rank \in [Blocks -> Nat] /\ left \in [More -> Blocks] /\ right \in [More -> Blocks]
        /\ \A c \in More : /\ left[c] = prev[c][1] /\ right[c] = prev[c][Len(prev[c])]
                           /\ rank[left[c]] < rank[c] /\ rank[right[c]] < rank[c]
  BY Behind
<1>2. PICK make : make = [c \in More |-> [z \in S \X S |-> Join(c, z[1], z[2])]]
  OBVIOUS
<1>3. make \in [More -> [S \X S -> S]]
  <2> SUFFICES ASSUME NEW c \in More, NEW x \in S, NEW y \in S PROVE Join(c, x, y) \in S
    BY <1>2
  <2>1. c \in Blocks
    BY <1>1
  <2> QED BY <2>1
<1>4. PICK base : base = [c \in Blocks |-> <<>>]
  OBVIOUS
<1>5. Branches(Blocks, S, rank, More, base, left, right, make)
  <2>1. base \in [Blocks -> S] /\ More \subseteq Blocks
    BY <1>1, <1>4
  <2> QED BY <1>1, <1>3, <2>1 DEF Branches
<1>6. \E f \in [Blocks -> S] :
        \A c \in Blocks : f[c] = IF c \in More THEN make[c][<<f[left[c]], f[right[c]]>>] ELSE base[c]
  <2> HIDE DEF S
  <2> QED BY <1>5, BranchingRecursion
<1>7. PICK f \in [Blocks -> S] :
        \A c \in Blocks : f[c] = IF c \in More THEN make[c][<<f[left[c]], f[right[c]]>>] ELSE base[c]
  BY <1>6
<1>8. ASSUME NEW c \in Blocks PROVE f[c] = next(f, c)
  <2>1. CASE c \notin More
    BY <1>1, <1>4, <1>7, <2>1
  <2>2. CASE c \in More
    <3>1. left[c] \in Blocks /\ right[c] \in Blocks
      BY <1>1, <2>2
    <3>2. f[left[c]] \in S /\ f[right[c]] \in S
      BY <3>1
    <3>3. f[c] = Join(c, f[left[c]], f[right[c]])
      <4> HIDE DEF S, Join
      <4>1. <<f[left[c]], f[right[c]]>> \in S \X S
        BY <3>2
      <4>2. make[c][<<f[left[c]], f[right[c]]>>] = Join(c, f[left[c]], f[right[c]])
        BY <1>2, <2>2, <4>1
      <4> QED BY <1>7, <2>2, <4>2
    <3>4. Join(c, f[left[c]], f[right[c]]) = Join(c, f[prev[c][1]], f[prev[c][2]])
      BY <1>1, <2>2
    <3> HIDE DEF Join
    <3> QED BY <1>1, <2>2, <3>3, <3>4
  <2> QED BY <2>1, <2>2
<1> HIDE DEF next
<1>9. f = [c \in Blocks |-> next(f, c)]
  BY <1>7, <1>8
<1>10. walk = [c \in Blocks |-> next(walk, c)]
  BY <1>9
<1>11. ASSUME NEW c \in Blocks PROVE Missing(c) = walk[c]
  <2> DEFINE plain(g, d) == IF seen[d.shard] >= d.seqno \/ PrevIds(d) = <<>> THEN <<>>
                            ELSE (IF Len(PrevIds(d)) = 2
                                  THEN g[PrevIds(d)[1]] \o g[PrevIds(d)[2]]
                                  ELSE g[PrevIds(d)[1]]) \o <<d>>
             P(g) == g = [d \in Blocks |-> plain(g, d)]
             Q(g) == g = [d \in Blocks |-> next(g, d)]
  <2>1. Missing(c) = (CHOOSE g : P(g))[c]
    BY DEF Missing
  <2>2. ASSUME NEW g, NEW d \in Blocks PROVE plain(g, d) = next(g, d)
    BY DEF ChainInv, WalksTheChain, WalksOn, Seen, next
  <2> HIDE DEF plain
  <2>3. ASSUME NEW g PROVE P(g) <=> Q(g)
    BY <2>2
  <2>4. (CHOOSE g : P(g)) = (CHOOSE g : Q(g))
    <3> HIDE DEF P, Q
    <3> QED BY <2>3
  <2> QED BY <2>1, <2>4
<1>12. \A c \in Blocks : Missing(c) = next(walk, c)
  BY <1>10, <1>11
<1>13. \A T : T = {n \in Nat : \A c \in Blocks : c.seqno = n => Missing(c) \in Seq(Blocks)} => Nat \subseteq T
  <2> SUFFICES ASSUME NEW T, T = {n \in Nat : \A c \in Blocks : c.seqno = n => Missing(c) \in Seq(Blocks)}
               PROVE  Nat \subseteq T
    OBVIOUS
  <2>1. ASSUME NEW n \in Nat, \A m \in Nat : m < n => m \in T PROVE n \in T
    <3> SUFFICES ASSUME NEW c \in Blocks, c.seqno = n PROVE Missing(c) \in Seq(Blocks)
      BY <2>1
    <3>1. CASE ~WalksOn(c)
      <4>1. Missing(c) = <<>>
        BY <1>12, <3>1 DEF next
      <4> QED BY <4>1
    <3>2. CASE WalksOn(c)
      <4>1. /\ prev[c] \in Seq(Blocks) /\ prev[c] # <<>>
            /\ \A i \in DOMAIN prev[c] : prev[c][i].seqno < c.seqno
        BY <3>2 DEF ChainInv, Grounded, WalksOn
      <4>2. ASSUME NEW i \in DOMAIN prev[c] PROVE Missing(prev[c][i]) \in Seq(Blocks)
        <5>1. prev[c][i] \in Blocks /\ prev[c][i].seqno < n
          BY <4>1
        <5>2. prev[c][i].seqno \in Nat
          BY <5>1 DEF ChainInv, ChainTypes
        <5> QED BY <2>1, <5>1, <5>2
      <4>3. 1 \in DOMAIN prev[c] /\ (Len(prev[c]) = 2 => 2 \in DOMAIN prev[c])
        BY <4>1
      <4>4. /\ Missing(prev[c][1]) = walk[prev[c][1]]
            /\ Len(prev[c]) = 2 => Missing(prev[c][2]) = walk[prev[c][2]]
        BY <1>11, <4>1, <4>3
      <4>5. Missing(c) = (IF Len(prev[c]) = 2 THEN Missing(prev[c][1]) \o Missing(prev[c][2])
                          ELSE Missing(prev[c][1])) \o <<c>>
        BY <1>12, <3>2, <4>4 DEF next
      <4> QED BY <4>2, <4>3, <4>5
    <3> QED BY <3>1, <3>2
  <2> QED BY <2>1, StrongInduction
<1>14. ~WalksOn(b) => Missing(b) = <<>>
  BY <1>12 DEF next
<1>15. ASSUME WalksOn(b)
       PROVE  /\ \A i \in DOMAIN prev[b] : prev[b][i] \in Blocks
              /\ Missing(b) = (IF Len(prev[b]) = 2 THEN Missing(prev[b][1]) \o Missing(prev[b][2])
                               ELSE Missing(prev[b][1])) \o <<b>>
  <2>1. prev[b] \in Seq(Blocks) /\ prev[b] # <<>>
    BY <1>15 DEF ChainInv, Grounded, WalksOn
  <2>2. /\ prev[b][1] \in Blocks /\ (Len(prev[b]) = 2 => prev[b][2] \in Blocks)
        /\ \A i \in DOMAIN prev[b] : prev[b][i] \in Blocks
    BY <2>1
  <2>3. /\ Missing(prev[b][1]) = walk[prev[b][1]]
        /\ Len(prev[b]) = 2 => Missing(prev[b][2]) = walk[prev[b][2]]
    BY <1>11, <2>2
  <2> QED BY <1>12, <1>15, <2>2, <2>3 DEF next
<1>16. Missing(b) \in Seq(Blocks)
  <2>1. b.seqno \in Nat
    BY DEF ChainInv, ChainTypes
  <2>2. PICK T : T = {n \in Nat : \A c \in Blocks : c.seqno = n => Missing(c) \in Seq(Blocks)}
    OBVIOUS
  <2>3. b.seqno \in T
    BY <1>13, <2>1, <2>2
  <2> QED BY <2>2, <2>3
<1> QED BY <1>14, <1>15, <1>16

LEMMA PartlyMissingTypes ==
  ASSUME ChainInv, NEW tip \in Blocks
  PROVE  PartlyMissing(tip) \subseteq Seq(Blocks)
<1> DEFINE Join(c, x, y) == {<<>>} \cup x
                            \cup (IF Len(prev[c]) = 2 THEN {Missing(prev[c][1]) \o q : q \in y} ELSE {})
           next(f, c) == IF WalksOn(c) THEN Join(c, f[prev[c][1]], f[prev[c][2]]) ELSE {}
           S == SUBSET Seq(Blocks)
           partial == CHOOSE g : g = [c \in Blocks |-> next(g, c)]
<1>1. PICK rank, More, left, right :
        /\ More = {c \in Blocks : WalksOn(c)}
        /\ rank \in [Blocks -> Nat] /\ left \in [More -> Blocks] /\ right \in [More -> Blocks]
        /\ \A c \in More : /\ left[c] = prev[c][1] /\ right[c] = prev[c][Len(prev[c])]
                           /\ rank[left[c]] < rank[c] /\ rank[right[c]] < rank[c]
  BY Behind
<1>2. PICK make : make = [c \in More |-> [z \in S \X S |-> Join(c, z[1], z[2])]]
  OBVIOUS
<1>3. ASSUME NEW c \in More, NEW x \in S, NEW y \in S PROVE Join(c, x, y) \in S
  <2>1. c \in Blocks /\ left[c] \in Blocks /\ left[c] = prev[c][1]
    BY <1>1
  <2>2. Missing(prev[c][1]) \in Seq(Blocks)
    BY <2>1, MissingStep
  <2>3. \A q \in y : Missing(prev[c][1]) \o q \in Seq(Blocks)
    BY <2>2
  <2>4. {Missing(prev[c][1]) \o q : q \in y} \in S
    BY <2>3
  <2>5. {} \in S /\ {<<>>} \in S
    OBVIOUS
  <2>6. \A u, v, w \in S : u \cup v \cup w \in S
    OBVIOUS
  <2>7. CASE Len(prev[c]) = 2
    <3> HIDE DEF S
    <3> QED BY <2>4, <2>5, <2>6, <2>7
  <2>8. CASE Len(prev[c]) # 2
    <3> HIDE DEF S
    <3> QED BY <2>5, <2>6, <2>8
  <2> QED BY <2>7, <2>8
<1>4. make \in [More -> [S \X S -> S]]
  <2> HIDE DEF Join, S
  <2> QED BY <1>2, <1>3
<1>5. PICK base : base = [c \in Blocks |-> {}]
  OBVIOUS
<1>6. Branches(Blocks, S, rank, More, base, left, right, make)
  <2>1. base \in [Blocks -> S] /\ More \subseteq Blocks
    BY <1>1, <1>5
  <2> QED BY <1>1, <1>4, <2>1 DEF Branches
<1>7. PICK f \in [Blocks -> S] :
        \A c \in Blocks : f[c] = IF c \in More THEN make[c][<<f[left[c]], f[right[c]]>>] ELSE base[c]
  <2> HIDE DEF S
  <2> QED BY <1>6, BranchingRecursion
<1>8. ASSUME NEW c \in Blocks PROVE f[c] = next(f, c)
  <2>1. CASE c \notin More
    BY <1>1, <1>5, <1>7, <2>1
  <2>2. CASE c \in More
    <3>1. left[c] \in Blocks /\ right[c] \in Blocks
      BY <1>1, <2>2
    <3>2. f[left[c]] \in S /\ f[right[c]] \in S
      <4> HIDE DEF S
      <4> QED BY <3>1
    <3>3. f[c] = Join(c, f[left[c]], f[right[c]])
      <4> HIDE DEF S, Join
      <4>1. <<f[left[c]], f[right[c]]>> \in S \X S
        BY <3>2
      <4>2. make[c][<<f[left[c]], f[right[c]]>>] = Join(c, f[left[c]], f[right[c]])
        BY <1>2, <2>2, <4>1
      <4> QED BY <1>7, <2>2, <4>2
    <3>4. Join(c, f[left[c]], f[right[c]]) = Join(c, f[prev[c][1]], f[prev[c][2]])
      BY <1>1, <2>2
    <3> HIDE DEF Join
    <3> QED BY <1>1, <2>2, <3>3, <3>4
  <2> QED BY <2>1, <2>2
<1> HIDE DEF next
<1>9. f = [c \in Blocks |-> next(f, c)]
  <2> HIDE DEF S
  <2> QED BY <1>7, <1>8
<1>10. partial = [c \in Blocks |-> next(partial, c)]
  BY <1>9
<1>11. ASSUME NEW c \in Blocks PROVE PartlyMissing(c) = partial[c]
  <2> DEFINE plain(g, d) ==
               IF seen[d.shard] >= d.seqno \/ PrevIds(d) = <<>> THEN {}
               ELSE {<<>>} \cup g[PrevIds(d)[1]] \cup
                    (IF Len(PrevIds(d)) = 2
                     THEN {Missing(PrevIds(d)[1]) \o q : q \in g[PrevIds(d)[2]]} ELSE {})
             P(g) == g = [d \in Blocks |-> plain(g, d)]
             Q(g) == g = [d \in Blocks |-> next(g, d)]
  <2>1. PartlyMissing(c) = (CHOOSE g : P(g))[c]
    BY DEF PartlyMissing
  <2>2. ASSUME NEW g, NEW d \in Blocks PROVE plain(g, d) = next(g, d)
    BY DEF ChainInv, WalksTheChain, WalksOn, Seen, next
  <2> HIDE DEF plain
  <2>3. ASSUME NEW g PROVE P(g) <=> Q(g)
    BY <2>2
  <2>4. (CHOOSE g : P(g)) = (CHOOSE g : Q(g))
    <3> HIDE DEF P, Q
    <3> QED BY <2>3
  <2> QED BY <2>1, <2>4
<1> HIDE DEF partial
<1>12. PICK T : T = {n \in Nat : \A c \in Blocks : c.seqno = n => partial[c] \subseteq Seq(Blocks)}
  OBVIOUS
<1>13. ASSUME NEW n \in Nat, \A m \in Nat : m < n => m \in T PROVE n \in T
  <2> SUFFICES ASSUME NEW c \in Blocks, c.seqno = n PROVE partial[c] \in S
    BY <1>12
  <2>1. partial[c] = next(partial, c)
    BY <1>10
  <2>2. CASE ~WalksOn(c)
    <3>1. partial[c] = {}
      BY <2>1, <2>2 DEF next
    <3> QED BY <3>1
  <2>3. CASE WalksOn(c)
    <3>1. /\ prev[c] \in Seq(Blocks) /\ prev[c] # <<>>
          /\ \A i \in DOMAIN prev[c] : prev[c][i].seqno < c.seqno
      BY <2>3 DEF ChainInv, Grounded, WalksOn
    <3>2. ASSUME NEW i \in DOMAIN prev[c] PROVE partial[prev[c][i]] \in S
      <4>1. prev[c][i] \in Blocks /\ prev[c][i].seqno < n
        BY <3>1
      <4>2. prev[c][i].seqno \in Nat
        BY <4>1 DEF ChainInv, ChainTypes
      <4> QED BY <1>12, <1>13, <4>1, <4>2
    <3>3. 1 \in DOMAIN prev[c] /\ (Len(prev[c]) = 2 => 2 \in DOMAIN prev[c])
      BY <3>1
    <3>4. c \in More
      BY <1>1, <2>3
    <3>5. partial[c] = Join(c, partial[prev[c][1]], partial[prev[c][2]])
      BY <2>1, <2>3 DEF next
    <3>6. CASE Len(prev[c]) = 2
      <4> HIDE DEF S, Join
      <4> QED BY <1>3, <3>2, <3>3, <3>4, <3>5, <3>6
    <3>7. CASE Len(prev[c]) # 2
      <4>1. Join(c, partial[prev[c][1]], partial[prev[c][2]]) = Join(c, partial[prev[c][1]], {})
        BY <3>7
      <4>2. {} \in S
        OBVIOUS
      <4> HIDE DEF S, Join
      <4> QED BY <1>3, <3>2, <3>3, <3>4, <3>5, <4>1, <4>2
    <3> QED BY <3>6, <3>7
  <2> QED BY <2>2, <2>3
<1>14. Nat \subseteq T
  BY <1>13, StrongInduction
<1>15. tip.seqno \in Nat
  BY DEF ChainInv, ChainTypes
<1> QED BY <1>11, <1>12, <1>14, <1>15

(* What the walk from a block of this masterchain block finds: the unseen  *)
(* blocks of its shard up to it, oldest first, each after those it builds  *)
(* on.                                                                     *)
Climbs(found, b) ==
  /\ found \in Seq(Fresh(cur))
  /\ \A i \in DOMAIN found :
       /\ found[i].shard = b.shard /\ found[i].seqno <= b.seqno /\ ~Seen(found[i])
       /\ \A k \in DOMAIN prev[found[i]] :
            \/ prev[found[i]][k] \in UpTo(cur - 1)
            \/ prev[found[i]][k] \in Fresh(cur) /\ Seen(prev[found[i]][k])
            \/ \E j \in 1..i - 1 : prev[found[i]][k] = found[j]
  /\ \A i, j \in DOMAIN found : i < j => found[i].seqno < found[j].seqno
  /\ \A x \in Fresh(cur) :
       x.shard = b.shard /\ x.seqno <= b.seqno /\ ~Seen(x) => \E i \in DOMAIN found : found[i] = x

SeenTypes == seen \in [Shards -> Nat \cup {-1}]

LEMMA FreshFacts ==
  ASSUME ChainInv, NEW n \in 1..height
  PROVE  /\ Fresh(n) \subseteq Blocks /\ Tips(n - 1) \subseteq UpTo(n - 1) /\ UpTo(n) \subseteq Blocks
         /\ Tips(n - 1) \subseteq Blocks /\ Tips(n) \subseteq UpTo(n) /\ UpTo(n - 1) \subseteq UpTo(n)
         /\ \A b \in Fresh(n) : /\ b.seqno \in Nat /\ b.shard \in Shards
                                /\ b = Block(b.shard, b.seqno)
<1>1. n \in 0..height /\ n - 1 \in 0..height /\ height \in 0..height /\ n - 1 <= n /\ n <= height
      /\ n - 1 <= height
  BY DEF ChainInv, ChainTypes
<1>2. /\ \A m \in 0..height : Tips(m) \subseteq UpTo(m)
      /\ \A m, k \in 0..height : k <= m => UpTo(k) \subseteq UpTo(m)
      /\ UpTo(height) = Blocks
  BY DEF ChainInv, ChainTypes
<1>3. UpTo(n) \subseteq Blocks /\ UpTo(n - 1) \subseteq UpTo(n) /\ Tips(n - 1) \subseteq UpTo(n - 1)
      /\ Tips(n) \subseteq UpTo(n)
  BY <1>1, <1>2
<1>4. \A b \in Blocks : b.seqno \in Nat /\ b.shard \in Shards /\ b = Block(b.shard, b.seqno)
  BY DEF ChainInv, ChainTypes, Block
<1> QED BY <1>3, <1>4 DEF Fresh

LEMMA SeenBelow ==
  ASSUME SeenTypes, NEW x, NEW y, x.shard \in Shards, x.shard = y.shard,
         x.seqno \in Nat, y.seqno \in Nat, x.seqno <= y.seqno, Seen(y)
  PROVE  Seen(x)
<1>1. seen[x.shard] \in Int
  BY DEF SeenTypes
<1> QED BY <1>1 DEF Seen

LEMMA MissingClimbs ==
  ASSUME ChainInv, SeenTypes, cur \in 1..height, \A t \in Tips(cur - 1) : Seen(t),
         NEW b \in Fresh(cur)
  PROVE  Climbs(Missing(b), b)
<1> DEFINE New == Fresh(cur)
<1>1. PICK T : T = {n \in Nat : \A c \in New : c.seqno = n => Climbs(Missing(c), c)}
  OBVIOUS
<1>2. /\ New \subseteq Blocks /\ Tips(cur - 1) \subseteq UpTo(cur - 1) /\ Tips(cur - 1) \subseteq Blocks
      /\ \A c \in New : c.seqno \in Nat /\ c.shard \in Shards /\ c = Block(c.shard, c.seqno)
  BY FreshFacts
<1>3. \A s, n : Block(s, n).shard = s /\ Block(s, n).seqno = n
  BY DEF Block
<1>4. ASSUME NEW n \in Nat, \A m \in Nat : m < n => m \in T PROVE n \in T
  <2> SUFFICES ASSUME NEW c \in New, c.seqno = n PROVE Climbs(Missing(c), c)
    BY <1>1
  <2> USE DEF New
  <2>1. /\ prev[c] # <<>>
        /\ \A i \in DOMAIN prev[c] :
             prev[c][i] \in Tips(cur - 1) \/ (prev[c][i] \in New /\ prev[c][i].shard = c.shard)
        /\ \A y \in New : y.shard = c.shard /\ y.seqno < c.seqno =>
             prev[c] = <<Block(c.shard, c.seqno - 1)>> /\ Block(c.shard, c.seqno - 1) \in New
    BY DEF ChainInv, ShardsGrow
  <2>2. /\ prev[c] \in Seq(Blocks) /\ Len(prev[c]) <= 2
        /\ \A i \in DOMAIN prev[c] : prev[c][i].seqno < c.seqno
    BY <1>2 DEF ChainInv, Grounded
  <2>3. CASE Seen(c)
    <3>1. Missing(c) = <<>>
      BY <1>2, <2>3, MissingStep DEF WalksOn
    <3>2. \A x \in New : x.shard = c.shard /\ x.seqno <= c.seqno => Seen(x)
      BY <1>2, <2>3, SeenBelow
    <3> QED BY <3>1, <3>2 DEF Climbs
  <2>4. CASE ~Seen(c) /\ \E y \in New : y.shard = c.shard /\ y.seqno < c.seqno
    <3>1. PICK d \in New : d = Block(c.shard, c.seqno - 1) /\ prev[c] = <<d>>
      BY <2>1, <2>4
    <3>2. d.shard = c.shard /\ d.seqno = c.seqno - 1 /\ d.seqno \in Nat /\ d.seqno < c.seqno
          /\ c.seqno \in Nat
      BY <1>2, <1>3, <3>1
    <3>3. Climbs(Missing(d), d)
      BY <1>1, <1>4, <3>2
    <3>4. Missing(c) = Missing(d) \o <<c>>
      <4>1. Len(prev[c]) = 1 /\ prev[c][1] = d
        BY <3>1
      <4>2. c \in Blocks /\ WalksOn(c)
        BY <1>2, <2>1, <2>4 DEF WalksOn
      <4>3. Missing(c) = (IF Len(prev[c]) = 2 THEN Missing(prev[c][1]) \o Missing(prev[c][2])
                          ELSE Missing(prev[c][1])) \o <<c>>
        BY <4>2, MissingStep
      <4> QED BY <4>1, <4>3
    <3>5. PICK found : found = Missing(d)
      OBVIOUS
    <3>6. PICK more : more = found \o <<c>>
      OBVIOUS
    <3>7. Climbs(found, d) /\ found \in Seq(New)
      BY <3>3, <3>5 DEF Climbs
    <3>8. /\ more \in Seq(New) /\ DOMAIN found = 1..Len(found) /\ Len(found) \in Nat
          /\ DOMAIN more = 1..Len(found) + 1
          /\ more[Len(found) + 1] = c /\ \A i \in DOMAIN found : more[i] = found[i]
      BY <3>6, <3>7
    <3>9. \A x \in New : x.shard = c.shard /\ x.seqno <= c.seqno => x = c \/ x.seqno <= d.seqno
      <4> SUFFICES ASSUME NEW x \in New, x.shard = c.shard, x.seqno <= c.seqno
                   PROVE  x = c \/ x.seqno <= d.seqno
        OBVIOUS
      <4>1. x.seqno = c.seqno \/ x.seqno <= d.seqno
        BY <1>2, <3>2
      <4> QED BY <1>2, <4>1
    <3>10. \A x \in New : x.shard = c.shard /\ x.seqno <= c.seqno /\ ~Seen(x) =>
             \E i \in DOMAIN more : more[i] = x
      <4> SUFFICES ASSUME NEW x \in New, x.shard = c.shard, x.seqno <= c.seqno, ~Seen(x)
                   PROVE  \E i \in DOMAIN more : more[i] = x
        OBVIOUS
      <4>1. CASE x = c
        BY <3>8, <4>1
      <4>2. CASE x # c
        <5>1. PICK i \in DOMAIN found : found[i] = x
          BY <3>2, <3>7, <3>9, <4>2 DEF Climbs
        <5> QED BY <3>8, <5>1
      <4> QED BY <4>1, <4>2
    <3>11. ASSUME NEW i \in DOMAIN more
           PROVE  /\ more[i].shard = c.shard /\ more[i].seqno <= c.seqno /\ ~Seen(more[i])
                  /\ \A k \in DOMAIN prev[more[i]] :
                       \/ prev[more[i]][k] \in UpTo(cur - 1)
                       \/ prev[more[i]][k] \in Fresh(cur) /\ Seen(prev[more[i]][k])
                       \/ \E j \in 1..i - 1 : prev[more[i]][k] = more[j]
      <4>1. CASE i \in DOMAIN found
        <5>1. /\ found[i].shard = d.shard /\ found[i].seqno <= d.seqno /\ ~Seen(found[i])
              /\ \A k \in DOMAIN prev[found[i]] :
                   \/ prev[found[i]][k] \in UpTo(cur - 1)
                   \/ prev[found[i]][k] \in Fresh(cur) /\ Seen(prev[found[i]][k])
                   \/ \E j \in 1..i - 1 : prev[found[i]][k] = found[j]
          BY <3>7, <4>1 DEF Climbs
        <5>2. more[i] = found[i] /\ \A j \in 1..i - 1 : more[j] = found[j]
          BY <3>8, <4>1
        <5>3. found[i].seqno \in Nat
          BY <1>2, <3>7, <4>1
        <5> QED BY <3>2, <5>1, <5>2, <5>3
      <4>2. CASE i = Len(found) + 1
        <5>1. more[i] = c /\ ~Seen(c) /\ c.seqno <= c.seqno
          BY <2>4, <3>2, <3>8, <4>2
        <5>2. ASSUME ~Seen(d) PROVE \E j \in 1..i - 1 : d = more[j]
          <6>1. PICK j \in DOMAIN found : found[j] = d
            <7>1. d.seqno <= d.seqno
              BY <3>2
            <7> QED BY <3>7, <5>2, <7>1 DEF Climbs
          <6>2. j \in 1..i - 1 /\ more[j] = d
            BY <3>8, <4>2, <6>1
          <6> QED BY <6>2
        <5>3. \A k \in DOMAIN prev[c] : prev[c][k] = d
          BY <3>1
        <5> QED BY <5>1, <5>2, <5>3
      <4> QED BY <3>8, <4>1, <4>2
    <3>12. ASSUME NEW i \in DOMAIN more, NEW j \in DOMAIN more, i < j
           PROVE  more[i].seqno < more[j].seqno
      <4>1. i \in DOMAIN found /\ more[i] = found[i]
        BY <3>8, <3>12
      <4>2. CASE j \in DOMAIN found
        BY <3>7, <3>8, <3>12, <4>1, <4>2 DEF Climbs
      <4>3. CASE j = Len(found) + 1
        <5>1. found[i].seqno <= d.seqno /\ found[i].seqno \in Nat
          BY <1>2, <3>7, <4>1 DEF Climbs
        <5> QED BY <3>2, <3>8, <4>1, <4>3, <5>1
      <4> QED BY <3>8, <4>2, <4>3
    <3>13. Climbs(more, c)
      BY <3>8, <3>10, <3>11, <3>12 DEF Climbs
    <3> QED BY <3>4, <3>5, <3>6, <3>13
  <2>5. CASE ~Seen(c) /\ ~ \E y \in New : y.shard = c.shard /\ y.seqno < c.seqno
    <3>1. \A i \in DOMAIN prev[c] : prev[c][i] \in Tips(cur - 1)
      BY <2>1, <2>2, <2>5
    <3>2. \A i \in DOMAIN prev[c] : Missing(prev[c][i]) = <<>>
      BY <1>2, <3>1, MissingStep DEF WalksOn
    <3>3. Missing(c) = <<c>>
      <4>1. 1 \in DOMAIN prev[c] /\ (Len(prev[c]) = 2 => 2 \in DOMAIN prev[c])
        BY <2>1, <2>2
      <4>2. Missing(c) = (IF Len(prev[c]) = 2 THEN Missing(prev[c][1]) \o Missing(prev[c][2])
                          ELSE Missing(prev[c][1])) \o <<c>>
        <5>1. c \in Blocks /\ WalksOn(c)
          BY <1>2, <2>1, <2>5 DEF WalksOn
        <5> QED BY <5>1, MissingStep
      <4>3. CASE Len(prev[c]) = 2
        <5>1. Missing(c) = (<<>> \o <<>>) \o <<c>>
          BY <3>2, <4>1, <4>2, <4>3
        <5> QED BY <5>1
      <4>4. CASE Len(prev[c]) # 2
        <5>1. Missing(c) = <<>> \o <<c>>
          BY <3>2, <4>1, <4>2, <4>4
        <5> QED BY <5>1
      <4> QED BY <4>3, <4>4
    <3>4. PICK found : found = <<c>>
      OBVIOUS
    <3>5. found \in Seq(New) /\ DOMAIN found = {1} /\ found[1] = c
      BY <3>4
    <3>6. \A x \in New : x.shard = c.shard /\ x.seqno <= c.seqno => x = c
      <4> SUFFICES ASSUME NEW x \in New, x.shard = c.shard, x.seqno <= c.seqno PROVE x = c
        OBVIOUS
      <4>1. x.seqno = c.seqno
        BY <1>2, <2>5
      <4> QED BY <1>2, <4>1
    <3>7. c.seqno <= c.seqno
      BY <1>2
    <3>8. Climbs(found, c)
      BY <1>2, <2>5, <3>1, <3>5, <3>6, <3>7 DEF Climbs
    <3> QED BY <3>3, <3>4, <3>8
  <2> QED BY <2>3, <2>4, <2>5
<1>5. Nat \subseteq T
  BY <1>4, StrongInduction
<1> QED BY <1>1, <1>2, <1>5
------------------------------------------------------------------------------
(* The scanner.                                                            *)
Active == phase \notin {"off", "resuming"}
Working == phase \in {"walk", "process", "handlers"}
Queued == {queue[i] : i \in DOMAIN queue}

ScanTypes ==
  /\ phase \in {"off", "resuming", "seen", "tips", "walk", "process", "handlers", "store", "wait"}
  /\ cur \in 0..height /\ saved \in {-1} \cup 1..height
  /\ SeenTypes
  /\ todo \subseteq Tips(cur) /\ (todo # {} => phase = "walk")
  /\ queue \in Seq(Blocks)
  /\ stopping \in BOOLEAN

(* What each await of _run() can count on. *)
Position ==
  /\ phase = "resuming" => saved # -1 /\ cur = saved
  /\ Active => cur # 0
  /\ phase = "handlers" => queue # <<>>
  /\ phase \in {"store", "wait"} => queue = <<>> \/ stopping

(* ... and what it can when a stop() never finds blocks on the queue.      *)
NothingMissed ==
  /\ Active /\ phase # "wait" => ~stopping
  /\ Active => UpTo(cur - 1) \subseteq done
  /\ phase \in {"store", "wait"} => UpTo(cur) \subseteq done
  /\ SavedIsHandled

(* What seen_shard_seqno says was seen, and that it says it of all tips.   *)
SeenSoFar ==
  /\ phase = "tips" =>
       /\ \A t \in Tips(cur - 1) : Seen(t)
       /\ \A s \in Shards : seen[s] # -1 => Block(s, seen[s]) \in UpTo(cur - 1)
  /\ Working \/ phase \in {"store", "wait"} =>
       /\ \A t \in Tips(cur - 1) \cup (Tips(cur) \ todo) : Seen(t)
       /\ \A s \in Shards :
            seen[s] # -1 => Block(s, seen[s]) \in UpTo(cur - 1) \cup (Tips(cur) \ todo)

(* What it says of new blocks is that they were queued. *)
SeenIsQueued ==
  Working => \A x \in Fresh(cur) : Seen(x) => x \in done \cup Queued

(* Each queued block comes after the new ones it builds on.               *)
InTurn ==
  /\ phase \in {"seen", "tips"} => Queued \subseteq leftover
  /\ Working =>
       \A i \in DOMAIN queue : queue[i] \in leftover \/
         /\ queue[i] \in Fresh(cur) /\ Seen(queue[i])
         /\ \A k \in DOMAIN prev[queue[i]] :
              prev[queue[i]][k] \in UpTo(cur - 1) \cup done \cup {queue[j] : j \in 1..i - 1}

(* What this run has handed out, and what it has yet to.                   *)
HandedOut ==
  /\ phase = "seen" => runDone = {}
  /\ phase = "tips" => runDone \subseteq leftover \cup UpTo(cur - 1)
  /\ Active => \A b \in runDone : b \in leftover \/ b \in UpTo(cur - 1) \/ (b \in UpTo(cur) /\ Seen(b))

(* ... which is on the queue once, the one in the handlers first. *)
NoneTwiceQueued ==
  Working =>
    \A i \in DOMAIN queue : queue[i] \notin leftover =>
      /\ queue[i] \in runDone => i = 1 /\ phase = "handlers"
      /\ \A j \in DOMAIN queue : queue[j] = queue[i] => j = i

ScanInv ==
  /\ ScanTypes /\ Position /\ SeenSoFar /\ SeenIsQueued
  /\ InTurn /\ HandedOut /\ NoneTwiceQueued
  /\ StopsAnywhere \/ NothingMissed

LEMMA ScanStarts == Init => ScanInv
<1> SUFFICES ASSUME Init PROVE ScanInv
  OBVIOUS
<1>1. /\ phase = "off" /\ cur = 0 /\ todo = {} /\ queue = <<>> /\ stopping = FALSE /\ saved = -1
      /\ seen = [s \in Shards |-> -1]
  BY DEF Init
<1>2. height = 0 /\ queue \in Seq(Blocks)
  BY <1>1 DEF Init, height
<1>3. ScanTypes
  <2>1. SeenTypes
    BY <1>1 DEF SeenTypes
  <2>2. cur \in 0..height /\ saved \in {-1} \cup 1..height
    BY <1>1, <1>2
  <2> QED BY <1>1, <1>2, <2>1, <2>2 DEF ScanTypes
<1> QED BY <1>1, <1>3 DEF ScanInv, Position, SeenSoFar, SeenIsQueued, InTurn, HandedOut,
                          NoneTwiceQueued, NothingMissed, SavedIsHandled, Active, Working

LEMMA Frame ==
  ASSUME UNCHANGED chain
  PROVE  /\ Blocks' = Blocks /\ height' = height /\ prev' = prev
         /\ Tips(cur)' = Tips(cur') /\ Tips(cur - 1)' = Tips(cur' - 1)
         /\ UpTo(cur)' = UpTo(cur') /\ UpTo(cur - 1)' = UpTo(cur' - 1)
         /\ Fresh(cur)' = Fresh(cur') /\ UpTo(saved)' = UpTo(saved')
BY DEF chain, Blocks, height, Tips, UpTo, Fresh

(* When nothing runs, little is to be kept. *)
LEMMA RestsWell ==
  ASSUME ChainInv, ScanInv, UNCHANGED <<chain, done, saved>>, phase' = "off", todo' = {}, cur' = 0,
         SeenTypes', queue' \in Seq(Blocks), stopping' \in BOOLEAN
  PROVE  ScanInv'
<1>1. ScanTypes'
  <2>1. height \in Nat /\ saved \in {-1} \cup 1..height
    BY DEF ScanInv, ScanTypes, ChainInv, ChainTypes
  <2>2. cur' \in 0..height'
    BY <2>1, Frame
  <2> QED BY <2>1, <2>2, Frame DEF ScanTypes
<1>2. StopsAnywhere \/ NothingMissed'
  BY Frame DEF ScanInv, NothingMissed, SavedIsHandled, Active
<1> QED BY <1>1, <1>2 DEF ScanInv, Position, SeenSoFar, SeenIsQueued, InTurn, HandedOut,
                          NoneTwiceQueued, Active, Working

LEMMA TailStays ==
  ASSUME NEW S, NEW s \in Seq(S), s # <<>>
  PROVE  /\ Tail(s) \in Seq(S) /\ Len(Tail(s)) = Len(s) - 1 /\ Head(s) = s[1] /\ Head(s) \in S
         /\ DOMAIN Tail(s) = 1..Len(s) - 1 /\ DOMAIN s = 1..Len(s) /\ Len(s) \in Nat \ {0}
         /\ \A i \in 1..Len(s) - 1 : Tail(s)[i] = s[i + 1]
OBVIOUS

LEMMA EndsWell ==
  ASSUME ChainInv, ScanInv,
         Stopped \/ Raises \/ Restart \/ WalkFails \/ (GetSeen /\ Ended)
  PROVE  ScanInv'
<1>1. Idle /\ UNCHANGED <<chain, saved>>
  BY DEF Stopped, Raises, Restart, WalkFails, GetSeen, Ended
<1>2. UNCHANGED <<chain, done, saved>> /\ phase' = "off" /\ todo' = {} /\ cur' = 0 /\ SeenTypes'
  BY <1>1 DEF Idle, Unseen, SeenTypes, Shards
<1>3. queue \in Seq(Blocks) /\ stopping \in BOOLEAN /\ (phase = "handlers" => queue # <<>>)
      /\ cur \in 0..height /\ todo \subseteq Tips(cur)
  BY DEF ScanInv, ScanTypes, Position
<1>4. stopping' \in BOOLEAN
  BY <1>3 DEF Stopped, Raises, Restart, WalkFails, GetSeen, Ended
<1>5. queue' \in Seq(Blocks)
  <2>1. CASE Stopped \/ GetSeen
    BY <1>3, <2>1 DEF Stopped, GetSeen
  <2>2. CASE Raises
    BY <1>3, <2>2, TailStays DEF Raises
  <2>3. CASE Restart
    BY <2>3 DEF Restart
  <2>4. CASE WalkFails
    <3>1. PICK tip \in todo : \E part \in PartlyMissing(tip) : queue' = queue \o part
      BY <2>4 DEF WalkFails
    <3>4. PICK part \in PartlyMissing(tip) : queue' = queue \o part
      BY <3>1
    <3>2. tip \in Blocks
      BY <1>3 DEF ChainInv, ChainTypes
    <3>3. part \in Seq(Blocks)
      BY <3>2, PartlyMissingTypes
    <3> QED BY <1>3, <3>3, <3>4
  <2> QED BY <2>1, <2>2, <2>3, <2>4
<1> QED BY <1>2, <1>4, <1>5, RestsWell

LEMMA BeginsWell ==
  ASSUME ChainInv, ScanInv, NEW n \in 1..height, NEW before, BeginRun(n, before), UNCHANGED <<chain, saved>>,
         StopsAnywhere \/ UpTo(n - 1) \subseteq done \cup before, phase # "walk"
  PROVE  ScanInv'
<1>1. /\ phase' = "seen" /\ cur' = n /\ stopping' = FALSE /\ done' = done \cup before
      /\ runDone' = {} /\ leftover' = Queued /\ UNCHANGED <<seen, todo, queue>>
  BY DEF BeginRun, Queued
<1>2. todo = {} /\ n \in Nat \ {0} /\ n \in 0..height /\ height \in Nat
  <2>1. height \in Nat /\ todo = {}
    BY DEF ScanInv, ScanTypes, ChainInv, ChainTypes
  <2> QED BY <2>1
<1>3. ScanTypes'
  <2>1. SeenTypes'
    BY <1>1 DEF ScanInv, ScanTypes, SeenTypes, Shards
  <2> QED BY <1>1, <1>2, <2>1, Frame DEF ScanInv, ScanTypes
<1>4. Position'
  BY <1>1, <1>2 DEF Position, Active
<1>5. InTurn'
  <2>1. Queued' = Queued
    BY <1>1 DEF Queued
  <2> QED BY <1>1, <2>1 DEF InTurn, Working
<1>6. StopsAnywhere \/ NothingMissed'
  <2> SUFFICES ASSUME ~StopsAnywhere PROVE NothingMissed'
    OBVIOUS
  <2>1. UpTo(cur - 1)' = UpTo(n - 1)
    BY <1>1, Frame
  <2>2. SavedIsHandled'
    BY <1>1, Frame DEF ScanInv, NothingMissed, SavedIsHandled
  <2> QED BY <1>1, <2>1, <2>2 DEF NothingMissed
<1> QED BY <1>1, <1>3, <1>4, <1>5, <1>6
        DEF ScanInv, SeenSoFar, SeenIsQueued, HandedOut, NoneTwiceQueued, Active, Working

LEMMA StartsWell ==
  ASSUME ChainInv, ScanInv, (\E n \in 1..height : Start(n) \/ Resume(n)) \/ ResumeContinues
  PROVE  ScanInv'
<1>1. ASSUME NEW n \in 1..height, Start(n) PROVE ScanInv'
  <2>1. BeginRun(n, UpTo(n - 1)) /\ UNCHANGED <<chain, saved>> /\ phase = "off"
    BY <1>1 DEF Start
  <2>2. UpTo(n - 1) \subseteq done \cup UpTo(n - 1) /\ phase # "walk"
    BY <2>1
  <2>3. PICK before : before = UpTo(n - 1)
    OBVIOUS
  <2> QED BY <2>1, <2>2, <2>3, BeginsWell
<1>2. ASSUME NEW n \in 1..height, Resume(n) PROVE ScanInv'
  <2>1. BeginRun(saved + 1, {}) /\ UNCHANGED <<chain, saved>> /\ phase = "off" /\ saved # -1 /\ saved < n
    BY <1>2 DEF Resume
  <2>2. saved \in 1..height /\ height \in Nat
    BY <2>1 DEF ScanInv, ScanTypes, ChainInv, ChainTypes
  <2>3. PICK m : m = saved + 1
    OBVIOUS
  <2>4. m \in 1..height /\ m - 1 = saved
    BY <2>1, <2>2, <2>3
  <2>5. StopsAnywhere \/ UpTo(m - 1) \subseteq done
    BY <2>1, <2>4 DEF ScanInv, NothingMissed, SavedIsHandled
  <2> QED BY <2>1, <2>3, <2>4, <2>5, BeginsWell
<1>3. CASE ResumeContinues
  <2>1. phase = "resuming" /\ UNCHANGED <<chain, saved>>
    BY <1>3 DEF ResumeContinues
  <2>2. saved # -1 /\ cur = saved /\ saved \in 1..height /\ height \in Nat
    BY <2>1 DEF ScanInv, ScanTypes, Position, ChainInv, ChainTypes
  <2>3. StopsAnywhere \/ UpTo(cur) \subseteq done
    BY <2>2 DEF ScanInv, NothingMissed, SavedIsHandled
  <2>4. CASE BeginRun(cur, {})
    <3>1. PICK m : m = cur
      OBVIOUS
    <3>2. m \in 1..height /\ UpTo(m - 1) \subseteq UpTo(m)
      BY <2>2, <3>1, FreshFacts
    <3> QED BY <2>1, <2>3, <2>4, <3>1, <3>2, BeginsWell
  <2>5. CASE cur < height /\ BeginRun(cur + 1, {})
    <3>1. PICK m : m = cur + 1
      OBVIOUS
    <3>2. m \in 1..height /\ m - 1 = cur
      BY <2>2, <2>5, <3>1
    <3> QED BY <2>1, <2>3, <2>5, <3>1, <3>2, BeginsWell
  <2> QED BY <1>3, <2>4, <2>5 DEF ResumeContinues
<1> QED BY <1>1, <1>2, <1>3

LEMMA Growth ==
  ASSUME ChainInv, Network
  PROVE  /\ UNCHANGED <<scanner, saved, history>>
         /\ Blocks \subseteq Blocks' /\ 0..height \subseteq 0..height' /\ 1..height \subseteq 1..height'
         /\ height' = height + 1
         /\ \A n \in 0..height : mc'[n + 1] = mc[n + 1]
         /\ \A b \in Blocks : prev'[b] = prev[b]
<1>1. PICK fresh, tips : Extend(fresh, tips)
  BY AdvanceExtends, SplitExtends, MergeExtends DEF Network
<1>2. PICK entry : mc' = Append(mc, entry)
  BY <1>1 DEF Extend
<1>3. PICK S : mc \in Seq(S)
  BY DEF ChainInv, ChainTypes
<1>4. Len(mc) \in Nat /\ height = Len(mc) - 1 /\ height' = Len(mc') - 1 /\ height \in Nat
  BY <1>3 DEF height, ChainInv, ChainTypes
<1>5. PICK longer : longer = Append(mc, entry)
  OBVIOUS
<1>6. Len(longer) = Len(mc) + 1 /\ \A i \in 1..Len(mc) : longer[i] = mc[i]
  BY <1>3, <1>5
<1>7. \A n \in 0..height : n + 1 \in 1..Len(mc)
  BY <1>4
<1>8. \A n \in 0..height : mc'[n + 1] = mc[n + 1]
  BY <1>2, <1>5, <1>6, <1>7
<1>9. height' = height + 1
  BY <1>2, <1>4, <1>5, <1>6
<1>10. 0..height \subseteq 0..height' /\ 1..height \subseteq 1..height'
  BY <1>4, <1>9
<1>11. /\ Blocks \subseteq Blocks' /\ \A b \in Blocks : prev'[b] = prev[b]
       /\ UNCHANGED <<scanner, saved, history>>
  BY <1>1 DEF Extend, Blocks
<1> QED BY <1>8, <1>9, <1>10, <1>11

LEMMA GrowsWell ==
  ASSUME ChainInv, ScanInv, Network
  PROVE  ScanInv'
<1>1. /\ UNCHANGED <<phase, cur, seen, todo, queue, stopping, saved, done, runDone, leftover>>
      /\ Blocks \subseteq Blocks' /\ 0..height \subseteq 0..height' /\ 1..height \subseteq 1..height'
      /\ \A n \in 0..height : mc'[n + 1] = mc[n + 1]
      /\ \A b \in Blocks : prev'[b] = prev[b]
  BY Growth DEF scanner, history
<1>2. /\ \A n \in 0..height : Tips(n)' = Tips(n) /\ UpTo(n)' = UpTo(n)
      /\ cur \in 0..height /\ height \in Nat
  BY <1>1 DEF Tips, UpTo, ScanInv, ScanTypes, ChainInv, ChainTypes
<1>3. Tips(cur)' = Tips(cur) /\ UpTo(cur)' = UpTo(cur)
  BY <1>1, <1>2
<1>4. cur # 0 => Tips(cur - 1)' = Tips(cur - 1) /\ UpTo(cur - 1)' = UpTo(cur - 1)
  <2> SUFFICES ASSUME cur # 0
               PROVE  Tips(cur - 1)' = Tips(cur - 1) /\ UpTo(cur - 1)' = UpTo(cur - 1)
    OBVIOUS
  <2>1. PICK n : n = cur - 1
    OBVIOUS
  <2>2. n \in 0..height /\ n = cur' - 1
    BY <1>1, <1>2, <2>1
  <2> QED BY <1>2, <2>1, <2>2
<1>5. cur # 0 => Fresh(cur)' = Fresh(cur)
  BY <1>3, <1>4 DEF Fresh
<1>6. /\ Queued' = Queued /\ Active' = Active /\ Working' = Working
      /\ \A b : Seen(b)' = Seen(b)
  BY <1>1 DEF Queued, Active, Working, Seen
<1>7. Active => cur # 0
  BY DEF ScanInv, Position
<1>8. Working => Active
  BY DEF Working, Active
<1>9. phase \in {"seen", "tips", "store", "wait"} => Active
  BY DEF Active
<1>10. ScanTypes'
  <2>1. queue \in Seq(Blocks')
    BY <1>1, SeqOfMore DEF ScanInv, ScanTypes
  <2>2. cur' \in 0..height' /\ saved' \in {-1} \cup 1..height'
    BY <1>1 DEF ScanInv, ScanTypes
  <2>3. SeenTypes'
    BY <1>1 DEF ScanInv, ScanTypes, SeenTypes, Shards
  <2> QED BY <1>1, <1>3, <2>1, <2>2, <2>3 DEF ScanInv, ScanTypes
<1>11. Position'
  BY <1>1, <1>6 DEF ScanInv, Position
<1>12. SeenSoFar'
  BY <1>1, <1>3, <1>4, <1>6, <1>7, <1>8, <1>9 DEF ScanInv, SeenSoFar, Shards
<1>13. SeenIsQueued'
  BY <1>1, <1>5, <1>6, <1>7, <1>8 DEF ScanInv, SeenIsQueued
<1>14. InTurn'
  <2>1. phase' \in {"seen", "tips"} => Queued' \subseteq leftover'
    BY <1>1, <1>6 DEF ScanInv, InTurn
  <2>2. ASSUME Working', NEW i \in DOMAIN queue'
        PROVE  queue'[i] \in leftover' \/
                 /\ queue'[i] \in Fresh(cur)' /\ Seen(queue[i])'
                 /\ \A k \in DOMAIN prev'[queue'[i]] :
                      prev'[queue'[i]][k] \in UpTo(cur - 1)' \cup done' \cup {queue'[j] : j \in 1..i - 1}
    <3>1. Working /\ i \in DOMAIN queue /\ cur # 0 /\ queue' = queue /\ leftover' = leftover /\ done' = done
      BY <1>1, <1>6, <1>7, <1>8, <2>2
    <3>2. queue[i] \in leftover \/
            /\ queue[i] \in Fresh(cur) /\ Seen(queue[i])
            /\ \A k \in DOMAIN prev[queue[i]] :
                 prev[queue[i]][k] \in UpTo(cur - 1) \cup done \cup {queue[j] : j \in 1..i - 1}
      BY <3>1 DEF ScanInv, InTurn
    <3>3. queue[i] \in Blocks
      BY <3>1 DEF ScanInv, ScanTypes
    <3>4. prev'[queue[i]] = prev[queue[i]] /\ Fresh(cur)' = Fresh(cur) /\ Seen(queue[i])' = Seen(queue[i])
      BY <1>1, <1>5, <1>6, <3>1, <3>3
    <3>5. UpTo(cur - 1)' = UpTo(cur - 1)
      BY <1>4, <3>1
    <3> QED BY <3>1, <3>2, <3>4, <3>5
  <2> QED BY <2>1, <2>2 DEF InTurn
<1>15. HandedOut'
  BY <1>1, <1>3, <1>4, <1>6, <1>7, <1>9 DEF ScanInv, HandedOut
<1>16. NoneTwiceQueued'
  BY <1>1, <1>6 DEF ScanInv, NoneTwiceQueued
<1>17. StopsAnywhere \/ NothingMissed'
  <2>1. saved # -1 => saved \in 0..height
    BY <1>2 DEF ScanInv, ScanTypes
  <2>2. saved # -1 => UpTo(saved)' = UpTo(saved)
    BY <1>1, <1>2, <2>1
  <2>3. ~StopsAnywhere => SavedIsHandled'
    BY <1>1, <2>2 DEF ScanInv, NothingMissed, SavedIsHandled
  <2> QED BY <1>1, <1>3, <1>4, <1>6, <1>7, <1>9, <2>3 DEF ScanInv, NothingMissed
<1> QED BY <1>10, <1>11, <1>12, <1>13, <1>14, <1>15, <1>16, <1>17 DEF ScanInv

LEMMA WaitsWell ==
  ASSUME ChainInv, ScanInv, ResumeWaits \/ Stop
  PROVE  ScanInv'
<1>1. CASE ResumeWaits
  <2>1. /\ phase = "off" /\ saved # -1 /\ phase' = "resuming" /\ cur' = saved
        /\ UNCHANGED <<chain, seen, todo, queue, stopping, saved, done, runDone, leftover>>
    BY <1>1 DEF ResumeWaits, history
  <2>2. ScanTypes'
    <3>1. todo = {} /\ saved \in 1..height /\ height \in Nat
      BY <2>1 DEF ScanInv, ScanTypes, ChainInv, ChainTypes
    <3>2. SeenTypes'
      BY <2>1 DEF ScanInv, ScanTypes, SeenTypes, Shards
    <3>3. cur' \in 0..height'
      BY <2>1, <3>1, Frame
    <3> QED BY <2>1, <3>1, <3>2, <3>3, Frame DEF ScanInv, ScanTypes
  <2>3. StopsAnywhere \/ NothingMissed'
    BY <2>1, Frame DEF ScanInv, NothingMissed, SavedIsHandled, Active
  <2> QED BY <2>1, <2>2, <2>3 DEF ScanInv, Position, SeenSoFar, SeenIsQueued, InTurn, HandedOut,
                                  NoneTwiceQueued, Active, Working
<1>2. CASE Stop
  <2>1. /\ StopsAnywhere \/ phase \in {"off", "resuming", "wait"}
        /\ stopping' = TRUE
        /\ UNCHANGED <<chain, phase, cur, seen, todo, queue, saved, done, runDone, leftover>>
    BY <1>2 DEF Stop, history
  <2>2. /\ Blocks' = Blocks /\ height' = height
        /\ Tips(cur)' = Tips(cur) /\ Tips(cur - 1)' = Tips(cur - 1) /\ Fresh(cur)' = Fresh(cur)
        /\ prev' = prev
        /\ UpTo(cur)' = UpTo(cur) /\ UpTo(cur - 1)' = UpTo(cur - 1) /\ UpTo(saved)' = UpTo(saved)
    BY <2>1, Frame
  <2>3. Queued' = Queued /\ \A b : Seen(b)' = Seen(b)
    BY <2>1 DEF Seen, Queued
  <2>4. ScanTypes'
    <3>1. SeenTypes'
      BY <2>1 DEF ScanInv, ScanTypes, SeenTypes, Shards
    <3> QED BY <2>1, <2>2, <3>1 DEF ScanInv, ScanTypes
  <2>5. Position'
    BY <2>1, <2>2 DEF ScanInv, Position, Active
  <2>6. SeenSoFar'
    BY <2>1, <2>2, <2>3 DEF ScanInv, SeenSoFar, Working, Shards
  <2>7. HandedOut'
    BY <2>1, <2>2, <2>3 DEF ScanInv, HandedOut, Active
  <2>8. SeenIsQueued' /\ InTurn' /\ NoneTwiceQueued'
    BY <2>1, <2>2, <2>3 DEF ScanInv, SeenIsQueued, InTurn, NoneTwiceQueued, Working, Seen
  <2>9. StopsAnywhere \/ NothingMissed'
    BY <2>1, <2>2 DEF ScanInv, NothingMissed, SavedIsHandled, Active
  <2> QED BY <2>4, <2>5, <2>6, <2>7, <2>8, <2>9 DEF ScanInv
<1> QED BY <1>1, <1>2

(* The chain where the scanner is. *)
LEMMA Here ==
  ASSUME ChainInv, ScanInv, Active
  PROVE  /\ cur \in 1..height /\ height \in Nat
         /\ Tips(cur - 1) \subseteq UpTo(cur - 1) /\ Tips(cur) \subseteq UpTo(cur)
         /\ UpTo(cur - 1) \subseteq UpTo(cur) /\ UpTo(cur) \subseteq Blocks
         /\ Fresh(cur) = UpTo(cur) \ UpTo(cur - 1)
         /\ Tips(cur) \subseteq Tips(cur - 1) \cup Fresh(cur)
         /\ \A b \in Blocks : b.seqno \in Nat /\ b.shard \in Shards /\ b = Block(b.shard, b.seqno)
         /\ \A t, u \in Tips(cur) : t.shard = u.shard => t = u
         /\ \A t, u \in Tips(cur - 1) : t.shard = u.shard => t = u
         /\ \A x \in Fresh(cur), b \in UpTo(cur - 1) : x.shard = b.shard => b.seqno < x.seqno
         /\ \A x \in Fresh(cur) : \E t \in Tips(cur) : t.shard = x.shard /\ x.seqno <= t.seqno
<1>1. cur \in 1..height /\ height \in Nat /\ cur \in 0..height /\ cur - 1 \in 0..height
  BY DEF ScanInv, ScanTypes, Position, ChainInv, ChainTypes
<1>2. /\ Tips(cur - 1) \subseteq UpTo(cur - 1) /\ Tips(cur) \subseteq UpTo(cur)
      /\ UpTo(cur - 1) \subseteq UpTo(cur) /\ UpTo(cur) \subseteq Blocks
  BY <1>1, FreshFacts
<1>3. \A b, c : b.shard = c.shard => SameAccounts(b, c)
  BY TipFacts
<1>4. /\ \A t, u \in Tips(cur) : t.shard = u.shard => t = u
      /\ \A t, u \in Tips(cur - 1) : t.shard = u.shard => t = u
  BY <1>1, <1>3 DEF ChainInv, TipsApart
<1>5. \A b \in Blocks : b.seqno \in Nat /\ b.shard \in Shards /\ b = Block(b.shard, b.seqno)
  BY DEF ChainInv, ChainTypes, Block
<1>6. /\ Tips(cur) \subseteq Tips(cur - 1) \cup Fresh(cur)
      /\ \A x \in Fresh(cur) : \E t \in Tips(cur) : t.shard = x.shard /\ x.seqno <= t.seqno
  BY <1>1 DEF ChainInv, TipsCover
<1>7. \A x \in Fresh(cur), b \in UpTo(cur - 1) : x.shard = b.shard => b.seqno < x.seqno
  BY <1>1 DEF ChainInv, SeqnosGrow
<1> QED BY <1>1, <1>2, <1>4, <1>5, <1>6, <1>7 DEF Fresh

LEMMA SeesWell ==
  ASSUME ChainInv, ScanInv, GetSeen, ~stopping
  PROVE  ScanInv'
<1>1. /\ phase = "seen" /\ phase' = "tips" /\ UNCHANGED <<cur, todo, stopping, done, runDone, leftover>>
      /\ UNCHANGED <<chain, queue, saved>>
      /\ seen' = [s \in Shards |->
                    IF \E b \in Tips(cur - 1) : b.shard = s
                    THEN (CHOOSE b \in Tips(cur - 1) : b.shard = s).seqno ELSE -1]
  BY DEF GetSeen, SeenBefore, history
<1>2. /\ Tips(cur - 1) \subseteq UpTo(cur - 1) /\ UpTo(cur - 1) \subseteq Blocks
      /\ cur # 0
      /\ \A b \in Blocks : b.seqno \in Nat /\ b.shard \in Shards /\ b = Block(b.shard, b.seqno)
      /\ \A t, u \in Tips(cur - 1) : t.shard = u.shard => t = u
  BY <1>1, Here DEF Active
<1>3. /\ Blocks' = Blocks /\ height' = height
      /\ Tips(cur)' = Tips(cur) /\ Tips(cur - 1)' = Tips(cur - 1)
      /\ UpTo(cur)' = UpTo(cur) /\ UpTo(cur - 1)' = UpTo(cur - 1) /\ UpTo(saved)' = UpTo(saved)
  BY <1>1, Frame
<1>4. ASSUME NEW s \in Shards
      PROVE  \/ \E t \in Tips(cur - 1) : t.shard = s /\ seen'[s] = t.seqno
             \/ seen'[s] = -1 /\ ~ \E t \in Tips(cur - 1) : t.shard = s
  BY <1>1
<1>5. ASSUME NEW t \in Tips(cur - 1) PROVE seen'[t.shard] = t.seqno
  BY <1>2, <1>4
<1>6. SeenTypes'
  <2>1. \A s \in Shards : seen'[s] \in Nat \cup {-1}
    BY <1>2, <1>4
  <2>2. DOMAIN seen' = Shards /\ seen' = [s \in Shards |-> seen'[s]]
    BY <1>1
  <2> QED BY <2>1, <2>2 DEF SeenTypes, Shards
<1>7. SeenSoFar'
  <2>1. ASSUME NEW t \in Tips(cur - 1) PROVE Seen(t)'
    BY <1>2, <1>5 DEF Seen
  <2>2. ASSUME NEW s \in Shards, seen'[s] # -1 PROVE Block(s, seen'[s]) \in UpTo(cur - 1)
    BY <1>2, <1>4, <2>2
  <2>3. phase' = "tips" /\ ~Working' /\ phase' \notin {"store", "wait"}
    BY <1>1 DEF Working
  <2>4. Tips(cur - 1)' = Tips(cur - 1) /\ UpTo(cur - 1)' = UpTo(cur - 1) /\ Shards' = Shards
    BY <1>3 DEF Shards
  <2> QED BY <2>1, <2>2, <2>3, <2>4 DEF SeenSoFar
<1>8. ScanTypes'
  BY <1>1, <1>3, <1>6 DEF ScanInv, ScanTypes
<1>9. Position'
  BY <1>1, <1>2, <1>3 DEF ScanInv, Position, Active
<1>10. InTurn'
  BY <1>1 DEF ScanInv, InTurn, Working, Queued
<1>11. HandedOut'
  BY <1>1 DEF ScanInv, HandedOut, Active
<1>12. StopsAnywhere \/ NothingMissed'
  BY <1>1, <1>3 DEF ScanInv, NothingMissed, SavedIsHandled, Active
<1> QED BY <1>1, <1>7, <1>8, <1>9, <1>10, <1>11, <1>12 DEF ScanInv, SeenIsQueued, NoneTwiceQueued, Working

LEMMA TakesTipsWell ==
  ASSUME ChainInv, ScanInv, GetTips
  PROVE  ScanInv'
<1>1. /\ phase = "tips" /\ phase' = "walk" /\ todo' = Tips(cur)
      /\ UNCHANGED <<chain, cur, seen, queue, stopping, saved, done, runDone, leftover>>
  BY DEF GetTips, history
<1>2. /\ UpTo(cur - 1) \subseteq UpTo(cur) /\ UpTo(cur) \subseteq Blocks
      /\ Fresh(cur) = UpTo(cur) \ UpTo(cur - 1)
      /\ \A b \in Blocks : b.seqno \in Nat /\ b.shard \in Shards /\ b = Block(b.shard, b.seqno)
      /\ \A x \in Fresh(cur), b \in UpTo(cur - 1) : x.shard = b.shard => b.seqno < x.seqno
  BY <1>1, Here DEF Active
<1>3. /\ Blocks' = Blocks /\ height' = height
      /\ Tips(cur)' = Tips(cur) /\ Tips(cur - 1)' = Tips(cur - 1) /\ Fresh(cur)' = Fresh(cur)
      /\ UpTo(cur)' = UpTo(cur) /\ UpTo(cur - 1)' = UpTo(cur - 1) /\ UpTo(saved)' = UpTo(saved)
  BY <1>1, Frame
<1>4. \A b : Seen(b)' = Seen(b)
  BY <1>1 DEF Seen
<1>5. /\ \A t \in Tips(cur - 1) : Seen(t)
      /\ \A s \in Shards : seen[s] # -1 => Block(s, seen[s]) \in UpTo(cur - 1)
      /\ Queued \subseteq leftover /\ queue \in Seq(Blocks)
      /\ runDone \subseteq leftover \cup UpTo(cur - 1)
  BY <1>1 DEF ScanInv, SeenSoFar, InTurn, HandedOut, ScanTypes
<1>6. ASSUME NEW x \in Fresh(cur) PROVE ~Seen(x)
  <2> SUFFICES ASSUME Seen(x) PROVE FALSE
    OBVIOUS
  <2>1. x.seqno \in Nat /\ x.shard \in Shards /\ seen[x.shard] \in Nat \cup {-1} /\ seen[x.shard] >= x.seqno
    BY <1>2, <1>6 DEF Seen, ScanInv, ScanTypes, SeenTypes
  <2>2. Block(x.shard, seen[x.shard]) \in UpTo(cur - 1)
    BY <1>5, <2>1
  <2>3. seen[x.shard] < x.seqno
    BY <1>2, <2>2 DEF Block
  <2> QED BY <2>1, <2>3
<1>7. ScanTypes'
  <2>1. SeenTypes'
    BY <1>1 DEF ScanInv, ScanTypes, SeenTypes, Shards
  <2> QED BY <1>1, <1>3, <2>1 DEF ScanInv, ScanTypes
<1>8. Position'
  BY <1>1, <1>3 DEF ScanInv, Position, Active
<1>9. SeenSoFar'
  BY <1>1, <1>3, <1>4, <1>5 DEF SeenSoFar, Working, Shards
<1>10. SeenIsQueued'
  BY <1>1, <1>3, <1>4, <1>6 DEF SeenIsQueued
<1>11. InTurn'
  BY <1>1, <1>5 DEF InTurn, Working, Queued
<1>12. HandedOut'
  BY <1>1, <1>3, <1>5 DEF HandedOut
<1>13. NoneTwiceQueued'
  BY <1>1, <1>5 DEF NoneTwiceQueued, Queued
<1>14. StopsAnywhere \/ NothingMissed'
  BY <1>1, <1>3 DEF ScanInv, NothingMissed, SavedIsHandled, Active
<1> QED BY <1>7, <1>8, <1>9, <1>10, <1>11, <1>12, <1>13, <1>14 DEF ScanInv

LEMMA StoresWell ==
  ASSUME ChainInv, ScanInv, Processed \/ Store
  PROVE  ScanInv'
<1>1. /\ phase \in {"process", "store"} /\ phase' \in {"store", "wait"}
      /\ UNCHANGED <<chain, cur, seen, todo, queue, stopping, done, runDone, leftover>>
      /\ saved' \in {saved, cur} /\ (saved' # saved => phase = "store")
      /\ phase = "process" => queue = <<>> \/ stopping
  BY DEF Processed, Store, history
<1>2. /\ cur \in 1..height /\ Active
      /\ Fresh(cur) = UpTo(cur) \ UpTo(cur - 1) /\ UpTo(cur) \subseteq Blocks
      /\ Tips(cur) \subseteq UpTo(cur)
      /\ \A b \in Blocks : b.seqno \in Nat /\ b.shard \in Shards
      /\ \A x \in Fresh(cur) : \E t \in Tips(cur) : t.shard = x.shard /\ x.seqno <= t.seqno
  BY <1>1, Here DEF Active
<1>3. /\ Blocks' = Blocks /\ height' = height
      /\ Tips(cur)' = Tips(cur) /\ Tips(cur - 1)' = Tips(cur - 1)
      /\ UpTo(cur)' = UpTo(cur) /\ UpTo(cur - 1)' = UpTo(cur - 1) /\ UpTo(saved)' = UpTo(saved')
  BY <1>1, Frame
<1>4. \A b : Seen(b)' = Seen(b)
  BY <1>1 DEF Seen
<1>5. todo = {} /\ (queue = <<>> \/ stopping)
  BY <1>1, <1>2 DEF ScanInv, ScanTypes, Position, Active
<1>6. ASSUME ~StopsAnywhere PROVE UpTo(cur) \subseteq done
  <2>1. CASE phase = "store"
    BY <1>6, <2>1 DEF ScanInv, NothingMissed
  <2>2. CASE phase = "process"
    <3> SUFFICES ASSUME NEW x \in Fresh(cur) PROVE x \in done
      BY <1>2, <1>6 DEF ScanInv, NothingMissed
    <3>1. PICK t \in Tips(cur) : t.shard = x.shard /\ x.seqno <= t.seqno
      BY <1>2
    <3>2. Seen(t)
      BY <1>5, <2>2 DEF ScanInv, SeenSoFar, Working
    <3>3. SeenTypes /\ x \in Blocks /\ t \in Blocks
      BY <1>2 DEF ScanInv, ScanTypes
    <3>4. Seen(x)
      BY <1>2, <3>1, <3>2, <3>3, SeenBelow
    <3>5. x \in done \cup Queued
      BY <2>2, <3>4 DEF ScanInv, SeenIsQueued, Working
    <3>6. Queued = {}
      BY <1>2, <1>5, <1>6, <2>2 DEF Queued, ScanInv, NothingMissed
    <3> QED BY <3>5, <3>6
  <2> QED BY <1>1, <2>1, <2>2
<1>7. ScanTypes'
  <2>1. SeenTypes'
    BY <1>1 DEF ScanInv, ScanTypes, SeenTypes, Shards
  <2> QED BY <1>1, <1>2, <1>3, <1>5, <2>1 DEF ScanInv, ScanTypes
<1>8. Position'
  BY <1>1, <1>2, <1>5 DEF ScanInv, Position, Active
<1>9. SeenSoFar'
  BY <1>1, <1>3, <1>4 DEF ScanInv, SeenSoFar, Working, Shards
<1>10. HandedOut'
  BY <1>1, <1>2, <1>3, <1>4 DEF ScanInv, HandedOut
<1>11. StopsAnywhere \/ NothingMissed'
  BY <1>1, <1>2, <1>3, <1>6 DEF ScanInv, NothingMissed, SavedIsHandled, Active
<1> QED BY <1>1, <1>7, <1>8, <1>9, <1>10, <1>11
        DEF ScanInv, SeenIsQueued, InTurn, NoneTwiceQueued, Working

LEMMA MovesOnWell ==
  ASSUME ChainInv, ScanInv, WaitNext
  PROVE  ScanInv'
<1>1. /\ phase = "wait" /\ ~stopping /\ cur < height /\ cur' = cur + 1 /\ phase' = "tips"
      /\ UNCHANGED <<chain, seen, todo, queue, stopping, saved, done, runDone, leftover>>
  BY DEF WaitNext, NextThere, history
<1>2. /\ cur \in 1..height /\ height \in Nat /\ UpTo(cur - 1) \subseteq UpTo(cur)
      /\ Tips(cur) \subseteq UpTo(cur)
  BY <1>1, Here DEF Active
<1>3. PICK n : n = cur
  OBVIOUS
<1>4. cur' - 1 = n /\ cur' \in 1..height
  BY <1>1, <1>2, <1>3
<1>5. /\ Blocks' = Blocks /\ height' = height
      /\ Tips(cur - 1)' = Tips(n) /\ UpTo(cur - 1)' = UpTo(n) /\ UpTo(saved)' = UpTo(saved)
  BY <1>1, <1>4, Frame
<1>6. \A b : Seen(b)' = Seen(b)
  BY <1>1 DEF Seen
<1>7. queue = <<>> /\ todo = {} /\ (StopsAnywhere \/ UpTo(n) \subseteq done)
  BY <1>1, <1>3 DEF ScanInv, ScanTypes, Position, NothingMissed
<1>8. ScanTypes'
  <2>1. SeenTypes'
    BY <1>1 DEF ScanInv, ScanTypes, SeenTypes, Shards
  <2>2. cur' \in 0..height'
    BY <1>4, <1>5
  <2> QED BY <1>1, <1>5, <1>7, <2>1, <2>2 DEF ScanInv, ScanTypes
<1>9. Position'
  <2>1. cur' # 0
    BY <1>4
  <2> QED BY <1>1, <1>5, <1>7, <2>1 DEF Position, Active
<1>10. SeenSoFar'
  <2>1. /\ \A t \in Tips(n) : Seen(t)
        /\ \A s \in Shards : seen[s] # -1 => Block(s, seen[s]) \in UpTo(n)
    BY <1>1, <1>2, <1>3, <1>7 DEF ScanInv, SeenSoFar
  <2> QED BY <1>1, <1>5, <1>6, <2>1 DEF SeenSoFar, Working, Shards
<1>11. InTurn'
  BY <1>1, <1>7 DEF InTurn, Working, Queued
<1>12. HandedOut'
  <2>1. runDone \subseteq leftover \cup UpTo(n)
    BY <1>1, <1>2, <1>3 DEF ScanInv, HandedOut, Active
  <2> QED BY <1>1, <1>5, <2>1 DEF HandedOut
<1>13. StopsAnywhere \/ NothingMissed'
  BY <1>1, <1>5, <1>7 DEF ScanInv, NothingMissed, SavedIsHandled, Active
<1> QED BY <1>1, <1>8, <1>9, <1>10, <1>11, <1>12, <1>13 DEF ScanInv, SeenIsQueued, NoneTwiceQueued, Working

LEMMA HandsOutWell ==
  ASSUME ChainInv, ScanInv, HandleBlock
  PROVE  ScanInv'
<1>1. /\ phase = "process" /\ queue # <<>> /\ ~stopping /\ phase' = "handlers"
      /\ runDone' = runDone \cup {Head(queue)}
      /\ UNCHANGED <<chain, cur, seen, todo, queue, stopping, saved, done, leftover>>
  BY DEF HandleBlock
<1>2. /\ Blocks' = Blocks /\ height' = height /\ prev' = prev
      /\ Tips(cur)' = Tips(cur) /\ Tips(cur - 1)' = Tips(cur - 1) /\ Fresh(cur)' = Fresh(cur)
      /\ UpTo(cur)' = UpTo(cur) /\ UpTo(cur - 1)' = UpTo(cur - 1) /\ UpTo(saved)' = UpTo(saved)
  BY <1>1, Frame
<1>3. /\ \A b : Seen(b)' = Seen(b)
      /\ Queued' = Queued
  BY <1>1 DEF Seen, Queued
<1>4. queue \in Seq(Blocks) /\ Head(queue) = queue[1] /\ 1 \in DOMAIN queue
  <2>1. queue \in Seq(Blocks)
    BY DEF ScanInv, ScanTypes
  <2> QED BY <1>1, <2>1, TailStays
<1>5. ScanTypes'
  <2>1. SeenTypes'
    BY <1>1 DEF ScanInv, ScanTypes, SeenTypes, Shards
  <2> QED BY <1>1, <1>2, <2>1 DEF ScanInv, ScanTypes
<1>6. Position'
  BY <1>1, <1>2 DEF ScanInv, Position, Active
<1>7. SeenSoFar'
  BY <1>1, <1>2, <1>3 DEF ScanInv, SeenSoFar, Working, Shards
<1>8. SeenIsQueued'
  BY <1>1, <1>2, <1>3 DEF ScanInv, SeenIsQueued, Working
<1>9. InTurn'
  BY <1>1, <1>2, <1>3 DEF ScanInv, InTurn, Working
<1>10. HandedOut'
  <2>1. \A b \in runDone : b \in leftover \/ b \in UpTo(cur - 1) \/ (b \in UpTo(cur) /\ Seen(b))
    BY <1>1 DEF ScanInv, HandedOut, Active
  <2>2. queue[1] \in leftover \/ (queue[1] \in Fresh(cur) /\ Seen(queue[1]))
    BY <1>1, <1>4 DEF ScanInv, InTurn, Working
  <2>3. Fresh(cur) \subseteq UpTo(cur)
    BY DEF Fresh
  <2> QED BY <1>1, <1>2, <1>3, <1>4, <2>1, <2>2, <2>3 DEF HandedOut
<1>11. NoneTwiceQueued'
  <2> SUFFICES ASSUME NEW i \in DOMAIN queue, queue[i] \notin leftover
               PROVE  /\ queue[i] \in runDone' => i = 1
                      /\ \A j \in DOMAIN queue : queue[j] = queue[i] => j = i
    BY <1>1 DEF NoneTwiceQueued
  <2>1. /\ queue[i] \notin runDone
        /\ \A j \in DOMAIN queue : queue[j] = queue[i] => j = i
    BY <1>1 DEF ScanInv, NoneTwiceQueued, Working
  <2> QED BY <1>1, <1>4, <2>1
<1>12. StopsAnywhere \/ NothingMissed'
  BY <1>1, <1>2 DEF ScanInv, NothingMissed, SavedIsHandled, Active
<1> QED BY <1>5, <1>6, <1>7, <1>8, <1>9, <1>10, <1>11, <1>12 DEF ScanInv

LEMMA FinishesWell ==
  ASSUME ChainInv, ScanInv, HandleTransactions
  PROVE  ScanInv'
<1>1. /\ phase = "handlers" /\ phase' = "process"
      /\ queue' = Tail(queue) /\ done' = done \cup {Head(queue)}
      /\ UNCHANGED <<chain, cur, seen, todo, stopping, saved, runDone, leftover>>
  BY DEF HandleTransactions
<1>2. /\ Blocks' = Blocks /\ height' = height /\ prev' = prev
      /\ Tips(cur)' = Tips(cur) /\ Tips(cur - 1)' = Tips(cur - 1) /\ Fresh(cur)' = Fresh(cur)
      /\ UpTo(cur)' = UpTo(cur) /\ UpTo(cur - 1)' = UpTo(cur - 1) /\ UpTo(saved)' = UpTo(saved)
  BY <1>1, Frame
<1>3. \A b : Seen(b)' = Seen(b)
  BY <1>1 DEF Seen
<1>4. /\ queue \in Seq(Blocks) /\ Tail(queue) \in Seq(Blocks) /\ Head(queue) = queue[1]
      /\ DOMAIN Tail(queue) = 1..Len(queue) - 1 /\ DOMAIN queue = 1..Len(queue)
      /\ Len(queue) \in Nat \ {0}
      /\ \A i \in 1..Len(queue) - 1 : Tail(queue)[i] = queue[i + 1]
  <2>1. queue \in Seq(Blocks) /\ queue # <<>>
    BY <1>1 DEF ScanInv, ScanTypes, Position
  <2> QED BY <2>1, TailStays
<1>5. ASSUME NEW i \in DOMAIN queue' PROVE i + 1 \in DOMAIN queue /\ queue'[i] = queue[i + 1] /\ i + 1 # 1
  BY <1>1, <1>4
<1>6. ScanTypes'
  <2>1. SeenTypes'
    BY <1>1 DEF ScanInv, ScanTypes, SeenTypes, Shards
  <2> QED BY <1>1, <1>2, <1>4, <2>1 DEF ScanInv, ScanTypes
<1>7. Position'
  BY <1>1, <1>2 DEF ScanInv, Position, Active
<1>8. SeenSoFar'
  BY <1>1, <1>2, <1>3 DEF ScanInv, SeenSoFar, Working, Shards
<1>9. done \cup Queued \subseteq done' \cup Queued'
  <2> SUFFICES ASSUME NEW i \in DOMAIN queue PROVE queue[i] \in done' \cup Queued'
    BY <1>1 DEF Queued
  <2>1. CASE i = 1
    BY <1>1, <1>4, <2>1
  <2>2. CASE i # 1
    <3>1. i - 1 \in DOMAIN queue' /\ queue'[i - 1] = queue[i]
      BY <1>1, <1>4, <2>2
    <3> QED BY <3>1 DEF Queued
  <2> QED BY <2>1, <2>2
<1>10. SeenIsQueued'
  BY <1>1, <1>2, <1>3, <1>9 DEF ScanInv, SeenIsQueued, Working
<1>11. InTurn'
  <2> SUFFICES ASSUME NEW i \in DOMAIN queue', queue'[i] \notin leftover
               PROVE  /\ queue'[i] \in Fresh(cur) /\ Seen(queue'[i])
                      /\ \A k \in DOMAIN prev[queue'[i]] :
                           prev[queue'[i]][k] \in UpTo(cur - 1) \cup done' \cup {queue'[j] : j \in 1..i - 1}
    <3>1. \A b : Seen(b)' <=> Seen(b)
      BY <1>3
    <3>2. \A i \in DOMAIN queue' : Seen(queue[i])' <=> Seen(queue'[i])
      BY <1>1 DEF Seen
    <3> QED BY <1>1, <1>2, <3>2 DEF InTurn, Working
  <2>1. /\ queue[i + 1] \in Fresh(cur) /\ Seen(queue[i + 1])
        /\ \A k \in DOMAIN prev[queue[i + 1]] :
             prev[queue[i + 1]][k] \in UpTo(cur - 1) \cup done \cup {queue[j] : j \in 1..(i + 1) - 1}
    BY <1>1, <1>5 DEF ScanInv, InTurn, Working
  <2>2. \A j \in 1..(i + 1) - 1 : queue[j] \in done' \cup {queue'[m] : m \in 1..i - 1}
    <3> SUFFICES ASSUME NEW j \in 1..(i + 1) - 1 PROVE queue[j] \in done' \cup {queue'[m] : m \in 1..i - 1}
      OBVIOUS
    <3>1. CASE j = 1
      BY <1>1, <1>4, <3>1
    <3>2. CASE j # 1
      <4>1. j - 1 \in 1..i - 1 /\ j - 1 \in 1..Len(queue) - 1 /\ (j - 1) + 1 = j
        BY <1>1, <1>4, <3>2
      <4>2. queue'[j - 1] = queue[j]
        BY <1>1, <1>4, <4>1
      <4> QED BY <4>1, <4>2
    <3> QED BY <3>1, <3>2
  <2>3. PICK x : x = queue'[i]
    OBVIOUS
  <2>4. x = queue[i + 1]
    BY <1>5, <2>3
  <2>5. \A k \in DOMAIN prev[x] : prev[x][k] \in UpTo(cur - 1) \cup done' \cup {queue'[j] : j \in 1..i - 1}
    <3> SUFFICES ASSUME NEW k \in DOMAIN prev[x]
                 PROVE  prev[x][k] \in UpTo(cur - 1) \cup done' \cup {queue'[j] : j \in 1..i - 1}
      OBVIOUS
    <3>1. prev[x][k] \in UpTo(cur - 1) \cup done \/ \E j \in 1..(i + 1) - 1 : prev[x][k] = queue[j]
      BY <2>1, <2>4
    <3> QED BY <1>1, <2>2, <3>1
  <2> QED BY <2>1, <2>3, <2>4, <2>5
<1>12. HandedOut'
  BY <1>1, <1>2, <1>3 DEF ScanInv, HandedOut, Active
<1>13. NoneTwiceQueued'
  <2> SUFFICES ASSUME NEW i \in DOMAIN queue', queue'[i] \notin leftover
               PROVE  /\ queue'[i] \notin runDone
                      /\ \A j \in DOMAIN queue' : queue'[j] = queue'[i] => j = i
    BY <1>1 DEF NoneTwiceQueued
  <2>1. /\ queue[i + 1] \in runDone => i + 1 = 1
        /\ \A j \in DOMAIN queue : queue[j] = queue[i + 1] => j = i + 1
    BY <1>1, <1>5 DEF ScanInv, NoneTwiceQueued, Working
  <2>2. ASSUME NEW j \in DOMAIN queue', queue'[j] = queue'[i] PROVE j = i
    <3>1. j + 1 = i + 1
      BY <1>5, <2>1, <2>2
    <3>2. i \in Int /\ j \in Int
      BY <1>1, <1>4
    <3> QED BY <3>1, <3>2
  <2> QED BY <1>5, <2>1, <2>2
<1>14. StopsAnywhere \/ NothingMissed'
  BY <1>1, <1>2 DEF ScanInv, NothingMissed, SavedIsHandled, Active
<1> QED BY <1>6, <1>7, <1>8, <1>10, <1>11, <1>12, <1>13, <1>14 DEF ScanInv

(* After the walk from a tip: what was seen stays so, and what is newly so *)
(* is on the queue.                                                        *)
LEMMA WalksWell ==
  ASSUME ChainInv, ScanInv, WalkTip
  PROVE  ScanInv'
<1>1. PICK tip \in todo :
        /\ queue' = queue \o Missing(tip)
        /\ seen' = [seen EXCEPT ![tip.shard] = tip.seqno]
        /\ todo' = todo \ {tip}
        /\ phase' = IF todo' = {} THEN "process" ELSE "walk"
  BY DEF WalkTip, MarkSeen
<1>2. /\ phase = "walk" /\ phase' \in {"walk", "process"} /\ (todo' # {} => phase' = "walk")
      /\ UNCHANGED <<chain, cur, stopping, saved, done, runDone, leftover>>
  BY <1>1 DEF WalkTip, history
<1>3. /\ Blocks' = Blocks /\ height' = height /\ prev' = prev
      /\ Tips(cur)' = Tips(cur) /\ Tips(cur - 1)' = Tips(cur - 1) /\ Fresh(cur)' = Fresh(cur)
      /\ UpTo(cur)' = UpTo(cur) /\ UpTo(cur - 1)' = UpTo(cur - 1) /\ UpTo(saved)' = UpTo(saved)
  BY <1>2, Frame
<1>4. /\ cur \in 1..height
      /\ Tips(cur - 1) \subseteq UpTo(cur - 1) /\ Tips(cur) \subseteq UpTo(cur)
      /\ UpTo(cur) \subseteq Blocks /\ Fresh(cur) = UpTo(cur) \ UpTo(cur - 1)
      /\ Tips(cur) \subseteq Tips(cur - 1) \cup Fresh(cur) /\ UpTo(cur - 1) \subseteq UpTo(cur)
      /\ \A b \in Blocks : b.seqno \in Nat /\ b.shard \in Shards /\ b = Block(b.shard, b.seqno)
      /\ \A t, u \in Tips(cur) : t.shard = u.shard => t = u
      /\ \A t, u \in Tips(cur - 1) : t.shard = u.shard => t = u
      /\ \A x \in Fresh(cur), b \in UpTo(cur - 1) : x.shard = b.shard => b.seqno < x.seqno
      /\ \A x \in Fresh(cur) : \E t \in Tips(cur) : t.shard = x.shard /\ x.seqno <= t.seqno
  BY <1>2, Here DEF Active
<1>5. /\ SeenTypes /\ todo \subseteq Tips(cur) /\ queue \in Seq(Blocks)
      /\ \A t \in Tips(cur - 1) \cup (Tips(cur) \ todo) : Seen(t)
      /\ \A s \in Shards : seen[s] # -1 => Block(s, seen[s]) \in UpTo(cur - 1) \cup (Tips(cur) \ todo)
  BY <1>2 DEF ScanInv, ScanTypes, SeenSoFar, Working
<1>6. tip \in Tips(cur) /\ tip \in Blocks /\ tip.seqno \in Nat /\ tip.shard \in Shards
  BY <1>4, <1>5
<1>7. SeenTypes' /\ DOMAIN seen = Shards /\ Shards' = Shards
  BY <1>1, <1>5, <1>6 DEF SeenTypes, Shards
<1>8. ASSUME NEW b, b.shard \in Shards
      PROVE  Seen(b)' <=> IF b.shard = tip.shard THEN tip.seqno >= b.seqno ELSE Seen(b)
  BY <1>1, <1>7, <1>8 DEF Seen
<1>9. ASSUME NEW x \in Fresh(cur), x.shard = tip.shard PROVE x.seqno <= tip.seqno
  BY <1>4, <1>6, <1>9
<1>10. ASSUME NEW t \in Tips(cur - 1), t.shard = tip.shard PROVE t.seqno <= tip.seqno
  <2>1. CASE tip \in Tips(cur - 1)
    BY <1>4, <1>6, <1>10, <2>1
  <2>2. CASE tip \in Fresh(cur)
    <3>1. t.seqno < tip.seqno /\ t.seqno \in Nat
      BY <1>4, <1>10, <2>2
    <3> QED BY <1>6, <3>1
  <2> QED BY <1>4, <1>6, <2>1, <2>2
<1>11. PICK found : found = Missing(tip)
  OBVIOUS
<1>12. found = <<>> \/ (tip \in Fresh(cur) /\ Climbs(found, tip))
  <2>1. CASE tip \in Tips(cur - 1)
    BY <1>5, <1>6, <1>11, <2>1, MissingStep DEF WalksOn
  <2>2. CASE tip \in Fresh(cur)
    BY <1>4, <1>5, <1>11, <2>2, MissingClimbs
  <2> QED BY <1>4, <1>6, <2>1, <2>2
<1>13. found \in Seq(Fresh(cur))
  <2>1. CASE found = <<>>
    BY <2>1
  <2> QED BY <1>12, <2>1 DEF Climbs
<1>14. PICK len : len = Len(queue)
  OBVIOUS
<1>15. found \in Seq(Blocks)
  BY <1>6, <1>11, MissingStep
<1>16. /\ queue' \in Seq(Blocks) /\ len \in Nat /\ DOMAIN queue = 1..len
       /\ DOMAIN found = 1..Len(found) /\ Len(found) \in Nat /\ DOMAIN queue' = 1..len + Len(found)
       /\ \A i \in 1..len : queue'[i] = queue[i]
       /\ \A i \in 1..Len(found) : queue'[len + i] = found[i]
  <2>1. queue' = queue \o found
    BY <1>1, <1>11
  <2> QED BY <1>5, <1>14, <1>15, <2>1
<1>17. ASSUME NEW i \in DOMAIN queue'
       PROVE  \/ i \in DOMAIN queue /\ queue'[i] = queue[i]
              \/ \E m \in DOMAIN found : i = len + m /\ queue'[i] = found[m]
  <2>1. CASE i <= len
    BY <1>16, <2>1
  <2>2. CASE ~(i <= len)
    <3>1. i - len \in DOMAIN found /\ i = len + (i - len)
      BY <1>16, <2>2
    <3> QED BY <1>16, <3>1
  <2> QED BY <2>1, <2>2
<1>18. ASSUME NEW m \in DOMAIN found
       PROVE  /\ found[m] \in Fresh(cur) /\ found[m].shard = tip.shard /\ found[m].seqno <= tip.seqno
              /\ ~Seen(found[m])
              /\ \A k \in DOMAIN prev[found[m]] :
                   \/ prev[found[m]][k] \in UpTo(cur - 1)
                   \/ prev[found[m]][k] \in Fresh(cur) /\ Seen(prev[found[m]][k])
                   \/ \E j \in 1..m - 1 : prev[found[m]][k] = found[j]
  BY <1>12, <1>13 DEF Climbs
<1>19. ASSUME NEW x \in Fresh(cur), Seen(x) PROVE Seen(x)'
  BY <1>4, <1>8, <1>9, <1>19
<1>20. ScanTypes'
  BY <1>1, <1>2, <1>3, <1>5, <1>7, <1>16 DEF ScanInv, ScanTypes
<1>21. Position'
  BY <1>2, <1>3 DEF ScanInv, Position, Active
<1>22. SeenSoFar'
  <2>1. ASSUME NEW t \in Tips(cur - 1) \cup (Tips(cur) \ todo') PROVE Seen(t)'
    <3>1. t \in Blocks /\ t.shard \in Shards /\ t.seqno \in Nat
      BY <1>4
    <3>2. CASE t.shard = tip.shard
      <4>1. t.seqno <= tip.seqno
        BY <1>4, <1>6, <1>10, <3>2
      <4> QED BY <1>6, <1>8, <3>1, <3>2, <4>1
    <3>3. CASE t.shard # tip.shard
      <4>1. t # tip /\ Seen(t)
        BY <1>1, <1>5, <3>3
      <4> QED BY <1>8, <3>1, <3>3, <4>1
    <3> QED BY <3>2, <3>3
  <2>2. ASSUME NEW s \in Shards, seen'[s] # -1
        PROVE  Block(s, seen'[s]) \in UpTo(cur - 1) \cup (Tips(cur) \ todo')
    <3>1. CASE s = tip.shard
      <4>1. Block(s, seen'[s]) = tip
        BY <1>1, <1>4, <1>6, <1>7, <3>1
      <4> QED BY <1>1, <1>6, <4>1
    <3>2. CASE s # tip.shard
      <4>1. seen'[s] = seen[s]
        BY <1>1, <1>7, <3>2
      <4>2. todo' \subseteq todo
        BY <1>1
      <4> QED BY <1>5, <2>2, <4>1, <4>2
    <3> QED BY <3>1, <3>2
  <2> QED BY <1>2, <1>3, <1>7, <2>1, <2>2 DEF SeenSoFar, Working
<1>23. Queued \subseteq Queued' /\ \A m \in DOMAIN found : found[m] \in Queued'
  <2>1. ASSUME NEW m \in DOMAIN found PROVE found[m] \in Queued'
    <3>1. len + m \in DOMAIN queue' /\ queue'[len + m] = found[m]
      BY <1>16
    <3> QED BY <3>1 DEF Queued
  <2>2. ASSUME NEW i \in DOMAIN queue PROVE queue[i] \in Queued'
    <3>1. i \in DOMAIN queue' /\ queue'[i] = queue[i]
      BY <1>16
    <3> QED BY <3>1 DEF Queued
  <2> QED BY <2>1, <2>2 DEF Queued
<1>24. SeenIsQueued'
  <2> SUFFICES ASSUME NEW x \in Fresh(cur), Seen(x)' PROVE x \in done \cup Queued'
    BY <1>2, <1>3 DEF SeenIsQueued
  <2>1. CASE Seen(x)
    <3>1. x \in done \cup Queued
      BY <1>2, <2>1 DEF ScanInv, SeenIsQueued, Working
    <3> QED BY <1>23, <3>1
  <2>2. CASE ~Seen(x)
    <3>1. x \in Blocks /\ x.shard \in Shards /\ x.seqno \in Nat
      BY <1>4
    <3>2. x.shard = tip.shard /\ x.seqno <= tip.seqno
      BY <1>6, <1>8, <2>2, <3>1
    <3>3. tip \in Fresh(cur)
      <4> SUFFICES ASSUME tip \in Tips(cur - 1) PROVE FALSE
        BY <1>4, <1>6
      <4>1. Seen(tip)
        BY <1>5
      <4>2. SeenTypes /\ x.shard = tip.shard
        BY <1>5, <3>2
      <4> QED BY <1>6, <2>2, <3>1, <3>2, <4>1, <4>2, SeenBelow
    <3>4. ~Seen(tip)
      BY <1>5, <1>6, <2>2, <3>1, <3>2, SeenBelow
    <3>5. Climbs(found, tip)
      <4>1. Climbs(Missing(tip), tip)
        BY <1>4, <1>5, <3>3, MissingClimbs
      <4> QED BY <1>11, <4>1
    <3>6. PICK m \in DOMAIN found : found[m] = x
      BY <2>2, <3>2, <3>5 DEF Climbs
    <3> QED BY <1>23, <3>6
  <2> QED BY <2>1, <2>2
<1>25. \A i \in DOMAIN queue : queue[i] \in leftover \/
         /\ queue[i] \in Fresh(cur) /\ Seen(queue[i])
         /\ \A k \in DOMAIN prev[queue[i]] :
              prev[queue[i]][k] \in UpTo(cur - 1) \cup done \cup {queue[j] : j \in 1..i - 1}
  BY <1>2 DEF ScanInv, InTurn, Working
<1>26. InTurn'
  <2> SUFFICES ASSUME NEW i \in DOMAIN queue', queue'[i] \notin leftover
               PROVE  /\ queue'[i] \in Fresh(cur) /\ seen'[queue'[i].shard] >= queue'[i].seqno
                      /\ \A k \in DOMAIN prev[queue'[i]] :
                           prev[queue'[i]][k] \in UpTo(cur - 1) \cup done \cup {queue'[j] : j \in 1..i - 1}
    BY <1>2, <1>3 DEF InTurn, Working, Seen
  <2>1. CASE i \in DOMAIN queue /\ queue'[i] = queue[i]
    <3>1. /\ queue[i] \in Fresh(cur) /\ Seen(queue[i])
          /\ \A k \in DOMAIN prev[queue[i]] :
               prev[queue[i]][k] \in UpTo(cur - 1) \cup done \cup {queue[j] : j \in 1..i - 1}
      BY <1>25, <2>1
    <3>2. PICK x : x = queue[i]
      OBVIOUS
    <3>3. Seen(x)'
      BY <1>19, <3>1, <3>2
    <3>4. \A j \in 1..i - 1 : queue'[j] = queue[j]
      BY <1>16, <2>1
    <3>5. seen'[x.shard] >= x.seqno
      BY <3>3 DEF Seen
    <3> QED BY <2>1, <3>1, <3>2, <3>4, <3>5
  <2>2. ASSUME NEW m \in DOMAIN found, i = len + m, queue'[i] = found[m]
        PROVE  /\ queue'[i] \in Fresh(cur) /\ seen'[queue'[i].shard] >= queue'[i].seqno
               /\ \A k \in DOMAIN prev[queue'[i]] :
                    prev[queue'[i]][k] \in UpTo(cur - 1) \cup done \cup {queue'[j] : j \in 1..i - 1}
    <3>1. PICK x : x = found[m]
      OBVIOUS
    <3>2. x \in Fresh(cur) /\ x.shard = tip.shard /\ x.seqno <= tip.seqno /\ x.shard \in Shards
          /\ x.seqno \in Nat
      BY <1>4, <1>18, <3>1
    <3>3. seen'[x.shard] >= x.seqno
      BY <1>1, <1>6, <1>7, <3>2
    <3>4. Queued \subseteq {queue'[j] : j \in 1..i - 1}
      <4> SUFFICES ASSUME NEW j \in DOMAIN queue PROVE queue[j] \in {queue'[n] : n \in 1..i - 1}
        BY DEF Queued
      <4>1. j \in 1..i - 1 /\ queue'[j] = queue[j]
        BY <1>16, <2>2
      <4> QED BY <4>1
    <3>5. ASSUME NEW j \in 1..m - 1 PROVE found[j] \in {queue'[n] : n \in 1..i - 1}
      <4>1. len + j \in 1..i - 1 /\ queue'[len + j] = found[j]
        BY <1>16, <2>2
      <4> QED BY <4>1
    <3>6. ASSUME NEW k \in DOMAIN prev[x]
          PROVE  prev[x][k] \in UpTo(cur - 1) \cup done \cup {queue'[j] : j \in 1..i - 1}
      <4>1. CASE prev[x][k] \in UpTo(cur - 1)
        BY <4>1
      <4>2. CASE prev[x][k] \in Fresh(cur) /\ Seen(prev[x][k])
        <5>1. prev[x][k] \in done \cup Queued
          BY <1>2, <4>2 DEF ScanInv, SeenIsQueued, Working
        <5> QED BY <3>4, <5>1
      <4>3. CASE \E j \in 1..m - 1 : prev[x][k] = found[j]
        BY <3>5, <4>3
      <4> QED BY <1>18, <3>1, <4>1, <4>2, <4>3
    <3> QED BY <2>2, <3>1, <3>2, <3>3, <3>6
  <2> QED BY <1>17, <2>1, <2>2
<1>27. HandedOut'
  <2> SUFFICES ASSUME NEW b \in runDone, b \notin leftover, b \notin UpTo(cur - 1)
               PROVE  b \in UpTo(cur) /\ Seen(b)'
    BY <1>2, <1>3 DEF HandedOut
  <2>1. b \in UpTo(cur) /\ Seen(b)
    BY <1>2 DEF ScanInv, HandedOut, Active
  <2> QED BY <1>4, <1>19, <2>1
<1>28. ASSUME NEW m \in DOMAIN found, found[m] \notin leftover
       PROVE  found[m] \notin runDone /\ \A i \in DOMAIN queue : queue[i] # found[m]
  <2>1. found[m] \in Fresh(cur) /\ ~Seen(found[m]) /\ found[m] \notin UpTo(cur - 1)
    BY <1>4, <1>18
  <2>2. found[m] \notin runDone
    BY <1>2, <1>28, <2>1 DEF ScanInv, HandedOut, Active
  <2>3. \A i \in DOMAIN queue : queue[i] # found[m]
    BY <1>25, <1>28, <2>1
  <2> QED BY <2>2, <2>3
<1>29. ASSUME NEW m \in DOMAIN found, NEW n \in DOMAIN found, found[m] = found[n] PROVE m = n
  <2>1. \A i, j \in DOMAIN found : i < j => found[i].seqno < found[j].seqno
    BY <1>12 DEF Climbs
  <2>2. m \in Nat /\ n \in Nat
    BY <1>16
  <2>3. found[m].seqno \in Nat
    BY <1>4, <1>18
  <2> QED BY <1>29, <2>1, <2>2, <2>3
<1>30. NoneTwiceQueued'
  <2> SUFFICES ASSUME NEW i \in DOMAIN queue', queue'[i] \notin leftover
               PROVE  /\ queue'[i] \notin runDone
                      /\ \A j \in DOMAIN queue' : queue'[j] = queue'[i] => j = i
    BY <1>2 DEF NoneTwiceQueued
  <2>1. CASE i \in DOMAIN queue /\ queue'[i] = queue[i]
    <3>1. /\ queue[i] \notin runDone
          /\ \A j \in DOMAIN queue : queue[j] = queue[i] => j = i
      BY <1>2, <2>1 DEF ScanInv, NoneTwiceQueued, Working
    <3>2. \A m \in DOMAIN found : found[m] # queue[i]
      BY <1>28, <2>1
    <3>3. ASSUME NEW j \in DOMAIN queue', queue'[j] = queue'[i] PROVE j = i
      BY <1>17, <2>1, <3>1, <3>2, <3>3
    <3> QED BY <2>1, <3>1, <3>3
  <2>2. ASSUME NEW m \in DOMAIN found, i = len + m, queue'[i] = found[m]
        PROVE  /\ queue'[i] \notin runDone
               /\ \A j \in DOMAIN queue' : queue'[j] = queue'[i] => j = i
    <3>1. found[m] \notin runDone /\ \A j \in DOMAIN queue : queue[j] # found[m]
      BY <1>28, <2>2
    <3>2. ASSUME NEW j \in DOMAIN queue', queue'[j] = queue'[i] PROVE j = i
      <4>1. PICK n \in DOMAIN found : j = len + n /\ queue'[j] = found[n]
        BY <1>17, <2>2, <3>1, <3>2
      <4>2. n = m
        BY <1>29, <2>2, <3>2, <4>1
      <4> QED BY <2>2, <4>1, <4>2
    <3> QED BY <2>2, <3>1, <3>2
  <2> QED BY <1>17, <2>1, <2>2
<1>31. StopsAnywhere \/ NothingMissed'
  BY <1>2, <1>3 DEF ScanInv, NothingMissed, SavedIsHandled, Active
<1> QED BY <1>20, <1>21, <1>22, <1>24, <1>26, <1>27, <1>30, <1>31 DEF ScanInv

LEMMA ScannerStep == ChainInv /\ ScanInv /\ [Next]_vars => ScanInv'
<1> SUFFICES ASSUME ChainInv, ScanInv, [Next]_vars PROVE ScanInv'
  OBVIOUS
<1>1. CASE Network
  BY <1>1, GrowsWell
<1>2. CASE (\E n \in 1..height : Start(n) \/ Resume(n)) \/ ResumeContinues
  BY <1>2, StartsWell
<1>3. CASE ResumeWaits \/ Stop
  BY <1>3, WaitsWell
<1>4. CASE Stopped \/ Raises \/ Restart \/ WalkFails
  BY <1>4, EndsWell
<1>5. CASE GetSeen
  <2>1. CASE stopping
    <3>1. Ended
      BY <1>5, <2>1 DEF GetSeen
    <3> QED BY <1>5, <3>1, EndsWell
  <2>2. CASE ~stopping
    BY <1>5, <2>2, SeesWell
  <2> QED BY <2>1, <2>2
<1>6. CASE GetTips
  BY <1>6, TakesTipsWell
<1>7. CASE WalkTip
  BY <1>7, WalksWell
<1>8. CASE HandleBlock
  BY <1>8, HandsOutWell
<1>9. CASE HandleTransactions
  BY <1>9, FinishesWell
<1>10. CASE Processed \/ Store
  BY <1>10, StoresWell
<1>11. CASE WaitNext
  BY <1>11, MovesOnWell
<1>12. CASE UNCHANGED vars
  <2>1. UNCHANGED <<chain, phase, cur, seen, todo, queue, stopping, saved, done, runDone, leftover>>
    BY <1>12 DEF vars, scanner, history
  <2>2. /\ Blocks' = Blocks /\ height' = height /\ prev' = prev
        /\ Tips(cur)' = Tips(cur) /\ Tips(cur - 1)' = Tips(cur - 1) /\ Fresh(cur)' = Fresh(cur)
        /\ UpTo(cur)' = UpTo(cur) /\ UpTo(cur - 1)' = UpTo(cur - 1) /\ UpTo(saved)' = UpTo(saved)
    BY <2>1, Frame
  <2>3. Queued' = Queued /\ Active' = Active /\ Working' = Working /\ Shards' = Shards
    BY <2>1 DEF Queued, Active, Working, Shards
  <2>4. ScanTypes' /\ Position' /\ (StopsAnywhere \/ NothingMissed')
    BY <2>1, <2>2, <2>3 DEF ScanInv, ScanTypes, SeenTypes, Position, NothingMissed, SavedIsHandled
  <2>5. SeenSoFar' /\ HandedOut'
    BY <2>1, <2>2, <2>3 DEF ScanInv, SeenSoFar, HandedOut, Seen
  <2>6. SeenIsQueued' /\ InTurn' /\ NoneTwiceQueued'
    BY <2>1, <2>2, <2>3 DEF ScanInv, SeenIsQueued, InTurn, NoneTwiceQueued, Seen
  <2> QED BY <2>4, <2>5, <2>6 DEF ScanInv
<1> QED BY <1>1, <1>2, <1>3, <1>4, <1>5, <1>6, <1>7, <1>8, <1>9, <1>10, <1>11, <1>12 DEF Next, Running

LEMMA ScannerInvariant == Spec => [](ChainInv /\ ScanInv)
<1> DEFINE IInv == ChainInv /\ ScanInv
<1>1. Init => IInv
  BY ChainStarts, ScanStarts
<1>2. IInv /\ [Next]_vars => IInv'
  BY ChainStep, ScannerStep
<1> HIDE DEF IInv
<1>3. Spec => []IInv
  BY <1>1, <1>2, PTL DEF Spec
<1> QED BY <1>3 DEF IInv

(* What the storage says is processed was handled (storage.py:13), as long *)
(* as stop() is only called while the scanner waits for the next block.    *)
THEOREM ScannerSavedIsHandled == ASSUME ~StopsAnywhere PROVE Spec => []SavedIsHandled
<1>1. ChainInv /\ ScanInv => SavedIsHandled
  BY DEF ScanInv, NothingMissed
<1> QED BY <1>1, ScannerInvariant, PTL

(* A block is handed to the handlers after all the blocks it builds on.    *)
THEOREM ScannerInOrder == ASSUME ~StopsAnywhere PROVE Spec => InOrder
<1> DEFINE A == runDone' # runDone /\ phase' = "handlers" =>
                  \A i \in DOMAIN prev[Head(queue)] :
                    Head(queue) \in leftover \/ prev[Head(queue)][i] \in done
<1>1. ChainInv /\ ScanInv /\ [Next]_vars => [A]_vars
  <2> SUFFICES ASSUME ChainInv, ScanInv, Next, runDone' # runDone, phase' = "handlers",
                      NEW i \in DOMAIN prev[Head(queue)], Head(queue) \notin leftover
               PROVE  prev[Head(queue)][i] \in done
    OBVIOUS
  <2>1. HandleBlock
    <3>1. ~Network
      BY Growth DEF history
    <3>2. ~ResumeContinues /\ ~(\E n \in 1..height : Start(n) \/ Resume(n))
      BY DEF Start, Resume, ResumeContinues, BeginRun
    <3>3. ~WalkFails /\ ~Raises /\ ~Restart /\ ~Stopped /\ ~(GetSeen /\ stopping)
      BY DEF WalkFails, Raises, Restart, Stopped, GetSeen, Ended, Idle
    <3>4. /\ ~ResumeWaits /\ ~GetTips /\ ~WalkTip /\ ~HandleTransactions /\ ~Processed
          /\ ~Store /\ ~WaitNext /\ ~Stop /\ ~(GetSeen /\ ~stopping)
      BY DEF ResumeWaits, GetTips, WalkTip, HandleTransactions, Processed, Store, WaitNext, Stop,
             GetSeen, history
    <3>5. Running
      BY <3>1, <3>2, <3>3, <3>4 DEF Next
    <3> QED BY <3>2, <3>3, <3>4, <3>5 DEF Running
  <2>2. phase = "process" /\ queue # <<>> /\ queue \in Seq(Blocks)
    BY <2>1 DEF HandleBlock, ScanInv, ScanTypes
  <2>3. Head(queue) = queue[1] /\ 1 \in DOMAIN queue
    BY <2>2, TailStays
  <2>4. prev[queue[1]][i] \in UpTo(cur - 1) \cup done \cup {queue[j] : j \in 1..1 - 1}
    BY <2>2, <2>3 DEF ScanInv, InTurn, Working
  <2>5. UpTo(cur - 1) \subseteq done
    BY <2>2 DEF ScanInv, NothingMissed, Active
  <2>6. 1..1 - 1 = {}
    OBVIOUS
  <2> QED BY <2>3, <2>4, <2>5, <2>6
<1> HIDE DEF A
<1>2. Spec => [][A]_vars
  BY <1>1, ScannerInvariant, PTL DEF Spec
<1> QED BY <1>2 DEF InOrder, A

(* A run hands no block out twice, wherever stop() finds it.               *)
THEOREM ScannerOncePerRun == Spec => OncePerRun
<1> DEFINE A == HandleBlock => (Head(queue) \notin runDone \/ Head(queue) \in leftover)
<1>1. ChainInv /\ ScanInv /\ [Next]_vars => [A]_vars
  <2> SUFFICES ASSUME ScanInv, HandleBlock, Head(queue) \notin leftover
               PROVE  Head(queue) \notin runDone
    OBVIOUS
  <2>1. phase = "process" /\ queue # <<>> /\ queue \in Seq(Blocks)
    BY DEF HandleBlock, ScanInv, ScanTypes
  <2>2. Head(queue) = queue[1] /\ 1 \in DOMAIN queue
    BY <2>1, TailStays
  <2> QED BY <2>1, <2>2 DEF ScanInv, NoneTwiceQueued, Working
<1> HIDE DEF A
<1>2. Spec => [][A]_vars
  BY <1>1, ScannerInvariant, PTL DEF Spec
<1> QED BY <1>2 DEF OncePerRun, A
------------------------------------------------------------------------------
(* What the scanner promises, put together: the feed of BlockFeed.         *)
Feed == INSTANCE BlockFeed WITH handled <- done, given <- runDone, left <- leftover, stored <- saved

(* The block in the handlers was given to them. *)
InHandlers == phase = "handlers" => Head(queue) \in runDone

LEMMA FeedNames ==
  /\ Feed!Known = Blocks /\ Feed!Top = height /\ \A n : Feed!Through(n) = UpTo(n)
BY DEF Feed!Known, Feed!Top, Feed!Through, Blocks, height, UpTo

LEMMA InHandlersStays == InHandlers /\ ChainInv /\ [Next]_vars => InHandlers'
<1> SUFFICES ASSUME InHandlers, ChainInv, [Next]_vars, phase' = "handlers" PROVE Head(queue)' \in runDone'
  BY DEF InHandlers
<1>1. CASE HandleBlock
  BY <1>1 DEF HandleBlock
<1>2. CASE Network
  BY <1>2, Growth DEF scanner, history, InHandlers
<1>3. CASE Stop \/ UNCHANGED vars
  BY <1>3 DEF Stop, vars, scanner, history, InHandlers
<1>4. CASE Next /\ ~HandleBlock /\ ~Network /\ ~Stop
  BY <1>4 DEF Next, Start, Resume, BeginRun, ResumeWaits, WalkFails, Raises, Restart, Idle, Ended,
              Running, GetSeen, GetTips, WalkTip, HandleTransactions, Processed, Store, WaitNext,
              Stopped, ResumeContinues
<1> QED BY <1>1, <1>2, <1>3, <1>4

LEMMA FeedEnds ==
  ASSUME Idle, UNCHANGED <<chain, saved>>
  PROVE  Feed!End
BY DEF Idle, chain, Feed!End

LEMMA FeedBegins ==
  ASSUME ScanInv, NEW n, NEW before, BeginRun(n, before), UNCHANGED <<chain, saved>>,
         (\E m \in 1..height : before = UpTo(m - 1)) \/ (saved # -1 /\ before = {})
  PROVE  Feed!Begin
<1>1. /\ done' = done \cup before /\ runDone' = {} /\ leftover' = {queue[i] : i \in DOMAIN queue}
      /\ UNCHANGED <<prev, mc, saved>>
  BY DEF BeginRun, chain
<1>2. leftover' \subseteq Blocks
  BY <1>1 DEF ScanInv, ScanTypes
<1>3. CASE \E m \in 1..height : before = UpTo(m - 1)
  BY <1>1, <1>2, <1>3, FeedNames DEF Feed!Begin
<1>4. CASE saved # -1 /\ before = {}
  BY <1>1, <1>2, <1>4, FeedNames DEF Feed!Begin
<1> QED BY <1>3, <1>4

LEMMA FeedGives ==
  ASSUME ~StopsAnywhere, ChainInv, ScanInv, HandleBlock
  PROVE  \E b \in Blocks : Feed!Give(b)
<1>1. /\ phase = "process" /\ queue # <<>> /\ queue \in Seq(Blocks)
      /\ runDone' = runDone \cup {Head(queue)} /\ UNCHANGED <<prev, mc, done, leftover, saved>>
  BY DEF HandleBlock, chain, ScanInv, ScanTypes
<1>2. PICK b : b = Head(queue)
  OBVIOUS
<1>3. b = queue[1] /\ 1 \in DOMAIN queue /\ b \in Blocks
  BY <1>1, <1>2, TailStays
<1>4. cur \in 1..height /\ Fresh(cur) = UpTo(cur) \ UpTo(cur - 1) /\ UpTo(cur - 1) \subseteq done
  <2>1. UpTo(cur - 1) \subseteq done
    BY <1>1 DEF ScanInv, NothingMissed, Active
  <2> QED BY <1>1, <2>1, Here DEF Active
<1>5. ASSUME b \notin leftover PROVE Feed!Due(b)
  <2>1. /\ b \in Fresh(cur)
        /\ \A k \in DOMAIN prev[b] : prev[b][k] \in UpTo(cur - 1) \cup done \cup {queue[j] : j \in 1..1 - 1}
    BY <1>1, <1>3, <1>5 DEF ScanInv, InTurn, Working
  <2>2. b \notin runDone
    BY <1>1, <1>3, <1>5 DEF ScanInv, NoneTwiceQueued, Working
  <2>3. 1..1 - 1 = {}
    OBVIOUS
  <2>4. \A k \in DOMAIN prev[b] : prev[b][k] \in done
    BY <1>4, <2>1, <2>3
  <2> QED BY <1>4, <2>1, <2>2, <2>4, FeedNames DEF Feed!Due
<1> QED BY <1>1, <1>2, <1>3, <1>5 DEF Feed!Give

LEMMA FeedStep ==
  ~StopsAnywhere /\ ChainInv /\ ScanInv /\ InHandlers /\ [Next]_vars => [Feed!Next]_(Feed!feed)
<1> SUFFICES ASSUME ~StopsAnywhere, ChainInv, ScanInv, InHandlers, Next
             PROVE  Feed!Next \/ UNCHANGED Feed!feed
  BY DEF vars, chain, history, Feed!feed
<1>1. CASE Network
  <2>1. Feed!Grow
    BY <1>1, Growth DEF history, Feed!Grow, Feed!Top, Feed!Known, height, Blocks
  <2> QED BY <2>1 DEF Feed!Next
<1>2. ASSUME NEW n \in 1..height, Start(n) PROVE Feed!Next
  <2>1. BeginRun(n, UpTo(n - 1)) /\ UNCHANGED <<chain, saved>>
    BY <1>2 DEF Start
  <2> QED BY <2>1, FeedBegins DEF Feed!Next
<1>3. ASSUME NEW n \in 1..height, Resume(n) PROVE Feed!Next
  <2>1. BeginRun(saved + 1, {}) /\ UNCHANGED <<chain, saved>> /\ saved # -1
    BY <1>3 DEF Resume
  <2> QED BY <2>1, FeedBegins DEF Feed!Next
<1>4. CASE ResumeContinues
  <2>1. UNCHANGED <<chain, saved>> /\ saved # -1
    BY <1>4 DEF ResumeContinues, ScanInv, Position
  <2>2. BeginRun(cur, {}) \/ BeginRun(cur + 1, {})
    BY <1>4 DEF ResumeContinues
  <2> QED BY <2>1, <2>2, FeedBegins DEF Feed!Next
<1>5. CASE Idle /\ UNCHANGED <<chain, saved>>
  BY <1>5, FeedEnds DEF Feed!Next
<1>6. CASE HandleBlock
  BY <1>6, FeedGives, FeedNames DEF Feed!Next
<1>7. CASE HandleTransactions
  <2>1. /\ phase = "handlers" /\ done' = done \cup {Head(queue)}
        /\ UNCHANGED <<prev, mc, runDone, leftover, saved>>
    BY <1>7 DEF HandleTransactions, chain
  <2>2. Head(queue) \in Blocks /\ Head(queue) \in runDone
    <3>1. queue # <<>> /\ queue \in Seq(Blocks)
      BY <2>1 DEF ScanInv, ScanTypes, Position
    <3> QED BY <2>1, <3>1, TailStays DEF InHandlers
  <2> QED BY <2>1, <2>2, FeedNames DEF Feed!Next, Feed!Finish
<1>8. CASE Store
  <2>1. phase = "store" /\ saved' = cur /\ UNCHANGED <<prev, mc, done, runDone, leftover>>
    BY <1>8 DEF Store, chain, history
  <2>2. cur \in 1..height /\ UpTo(cur) \subseteq done
    BY <2>1, Here DEF Active, ScanInv, NothingMissed
  <2> QED BY <2>1, <2>2, FeedNames DEF Feed!Next, Feed!Store
<1>9. CASE ResumeWaits \/ GetTips \/ WalkTip \/ Processed \/ WaitNext \/ Stop \/ (GetSeen /\ ~stopping)
  BY <1>9 DEF ResumeWaits, GetTips, WalkTip, Processed, WaitNext, Stop, GetSeen, chain, history, Feed!feed
<1>10. CASE WalkFails \/ Raises \/ Restart \/ Stopped \/ (GetSeen /\ stopping)
  BY <1>5, <1>10 DEF WalkFails, Raises, Restart, Stopped, GetSeen, Ended
<1> QED BY <1>1, <1>2, <1>3, <1>4, <1>6, <1>7, <1>8, <1>9, <1>10 DEF Next, Running

(* Seen from its handlers and its storage, the scanner is the feed: it     *)
(* gives the shard blocks of one masterchain block after the other, each   *)
(* once per run and after those it builds on, and what it stores leaves    *)
(* nothing out - over crashes, errors and resumed runs, as long as stop()  *)
(* is only called while it waits for the next block.                       *)
THEOREM ScannerIsFeed == ASSUME ~StopsAnywhere PROVE Spec => Feed!Spec
<1>1. Init => Feed!Init
  BY DEF Init, Feed!Init
<1>2. Init => InHandlers
  BY DEF Init, InHandlers
<1>3. Spec => []InHandlers
  <2>1. Spec => []ChainInv
    BY ScannerInvariant, PTL
  <2> QED BY <1>2, <2>1, InHandlersStays, PTL DEF Spec
<1>4. ChainInv /\ ScanInv /\ InHandlers /\ [Next]_vars => [Feed!Next]_(Feed!feed)
  BY FeedStep
<1> QED BY <1>1, <1>3, <1>4, ScannerInvariant, PTL DEF Spec, Feed!Spec
==============================================================================
