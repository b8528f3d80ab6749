----------------------------- MODULE WalletProofs -----------------------------
(***************************************************************************)
(* Theorems about Wallet, for any number of transfers, any batches and any *)
(* versions of the wallet.                                                 *)
(*                                                                         *)
(* The guard: a guarded call that has read the seqno is the head of the    *)
(* queue for the lock, so there is one at most (LockHeld).  The seqno it   *)
(* read is above those of the calls confirmed before it (SeenOrder).  As   *)
(* long as no call went around the guard or failed, only its own message   *)
(* can be in the network, and the account moves on from that seqno only by *)
(* applying it (OnlyOwnMessage).                                           *)
(*                                                                         *)
(* The promises of the guard are then put together as a machine of its own *)
(* (SendsInTurn), which Wallet implements.                                 *)
(*                                                                         *)
(* A batch: what is left in its levels and what was delivered are always   *)
(* the batch (BatchAdds), from the message that was signed (BatchSigned).  *)
(***************************************************************************)
EXTENDS Wallet, DataLemmas

Holders == {c \in Guarded : pc[c] \in {"estimate", "build", "load", "send", "poll"}}

LockHeld ==
  /\ lock \in Seq(Guarded) /\ NoneTwice(lock)
  /\ \A c \in Holders : pc[c] # "estimate" /\ lock # <<>> /\ lock[1] = c

SentWent == \A c \in sent : pc[c] \in {"poll", "ok", "failed"}

SeenOrder ==
  \A c \in Guarded : pc[c] = "ok" =>
    /\ seen[c] < seqno
    /\ \A d \in Holders : seen[c] < seen[d]
    /\ \A d \in Guarded \ {c} : pc[d] = "ok" => seen[c] # seen[d]

OnlyGuarded == \A c \in sent : c \in Guarded /\ pc[c] # "failed"

OnlyOwnMessage ==
  OnlyGuarded =>
    /\ \A c \in Guarded : pc[c] = "ok" => c \in applied
    /\ \A c \in Holders : c \in applied \/ seen[c] = seqno

GuardInv ==
  /\ TypeOK /\ seqno \in Nat
  /\ msg = [c \in Calls |-> msg[c]] /\ \A c \in Calls : msg[c].seqno \in Nat
  /\ LockHeld /\ SentWent /\ SeenOrder /\ OnlyOwnMessage

BatchSigned ==
  \A c \in Calls : pc[c] = "send" \/ c \in sent =>
    /\ msg[c].levels = Levels(version, Batch[version][c])
    /\ Batch[version][c] <= MaxMessages[version]

BatchAdds ==
  /\ inner \in [Calls -> Seq(Nat)] /\ delivered \in [Calls -> Nat]
  /\ \A c \in applied : delivered[c] + Total[inner[c]] = Batch[version][c]

BatchInv == GuardInv /\ BatchSigned /\ BatchAdds
------------------------------------------------------------------------------
(* What the levels of a batch add up to.                                   *)

LEMMA TotalFacts ==
  /\ Total[<<>>] = 0
  /\ \A levels \in Seq(Nat) :
       /\ Total[levels] \in Nat
       /\ levels # <<>> => Total[levels] = Head(levels) + Total[Tail(levels)]
<1>1. PICK F : F = [Seq(Nat) -> Nat]
  OBVIOUS
<1> DEFINE Longer(f) == [s \in Seq(Nat) |-> IF s = <<>> THEN 0 ELSE Head(s) + f[Tail(s)]]
<1>2. PICK g \in [Nat -> F] : /\ g[0] = [s \in Seq(Nat) |-> 0]
                              /\ \A n \in Nat : g[n + 1] = Longer(g[n])
  <2>1. PICK zero, step : zero = [s \in Seq(Nat) |-> 0] /\ step = [f \in F |-> Longer(f)]
    OBVIOUS
  <2>2. zero \in F
    BY <1>1, <2>1
  <2>3. ASSUME NEW f \in F PROVE Longer(f) \in F
    <3>1. f \in [Seq(Nat) -> Nat]
      BY <1>1
    <3>2. ASSUME NEW s \in Seq(Nat), s # <<>> PROVE Head(s) + f[Tail(s)] \in Nat
      <4>1. Head(s) \in Nat /\ Tail(s) \in Seq(Nat)
        BY <3>2
      <4>2. f[Tail(s)] \in Nat
        BY <3>1, <4>1
      <4> QED BY <4>1, <4>2
    <3>3. \A s \in Seq(Nat) : (IF s = <<>> THEN 0 ELSE Head(s) + f[Tail(s)]) \in Nat
      BY <3>2
    <3> QED BY <1>1, <3>3
  <2>4. zero \in F /\ step \in [F -> F]
    BY <2>1, <2>2, <2>3
  <2>5. \E f \in [Nat -> F] : f[0] = zero /\ \A n \in Nat : f[n + 1] = step[f[n]]
    BY ONLY <2>4, PrimitiveRecursion
  <2> QED BY <2>1, <2>5
<1> DEFINE sum == [s \in Seq(Nat) |-> g[Len(s)][s]]
<1>3. sum = [s \in Seq(Nat) |-> IF s = <<>> THEN 0 ELSE Head(s) + sum[Tail(s)]]
  <2>1. ASSUME NEW s \in Seq(Nat), s = <<>> PROVE g[Len(s)][s] = 0
    BY <1>2, <2>1
  <2>2. ASSUME NEW s \in Seq(Nat), s # <<>> PROVE g[Len(s)][s] = Head(s) + sum[Tail(s)]
    <3>1. Tail(s) \in Seq(Nat) /\ Len(Tail(s)) \in Nat /\ Len(s) = Len(Tail(s)) + 1
      BY <2>2
    <3>2. g[Len(Tail(s)) + 1] = Longer(g[Len(Tail(s))])
      BY <1>2, <3>1
    <3> QED BY <2>2, <3>1, <3>2
  <2> QED BY <2>1, <2>2
<1>4. Total = [s \in Seq(Nat) |-> IF s = <<>> THEN 0 ELSE Head(s) + Total[Tail(s)]]
  BY <1>3 DEF Total
<1>5. \A levels \in Seq(Nat) :
        Total[levels] = IF levels = <<>> THEN 0 ELSE Head(levels) + Total[Tail(levels)]
  BY <1>4
<1>6. \A levels \in Seq(Nat) : Total[levels] \in Nat
  <2> DEFINE T == {n \in Nat : \A s \in Seq(Nat) : Len(s) = n => Total[s] \in Nat}
  <2>1. 0 \in T
    BY <1>5
  <2>2. ASSUME NEW n \in Nat, n \in T PROVE n + 1 \in T
    <3>1. ASSUME NEW s \in Seq(Nat), Len(s) = n + 1 PROVE Total[s] \in Nat
      <4>1. s # <<>> /\ Head(s) \in Nat /\ Tail(s) \in Seq(Nat) /\ Len(Tail(s)) = n
        BY <3>1
      <4>2. Total[Tail(s)] \in Nat
        BY <4>1, <2>2
      <4> QED BY <4>1, <4>2, <1>5
    <3> QED BY <3>1
  <2>3. Nat \subseteq T
    <3> HIDE DEF T
    <3> QED BY <2>1, <2>2, SetInduction
  <2> QED BY <2>3
<1>7. Total[<<>>] = 0
  <2> DEFINE none == <<>>
  <2>1. none \in Seq(Nat) /\ none = <<>>
    OBVIOUS
  <2> HIDE DEF none
  <2>2. Total[none] = 0
    BY <2>1, <1>5
  <2> QED BY <2>1, <2>2
<1> QED BY <1>5, <1>6, <1>7

(* WalletHighloadV3R1 packs every message into a level, and none holds     *)
(* more than PackSize of them.                                             *)
LEMMA PacksFacts ==
  \A n \in Nat :
    /\ Packs[n] \in Seq(Nat)
    /\ Packs[n] = IF n > PackSize THEN <<PackSize>> \o Packs[n - PackSize] ELSE <<n>>
<1>1. PICK More, base, down, make :
        /\ More = {n \in Nat : n > PackSize}
        /\ base = [n \in Nat |-> <<n>>]
        /\ down = [n \in Nat |-> IF n > PackSize THEN n - PackSize ELSE 0]
        /\ make = [n \in Nat |-> [s \in Seq(Nat) |-> <<PackSize>> \o s]]
  OBVIOUS
<1>2. PICK S : S = Seq(Nat)
  OBVIOUS
<1>3. Descends(S, More, base, down, make)
  <2>1. More \subseteq Nat /\ base \in [Nat -> S] /\ make \in [Nat -> [S -> S]]
    BY <1>1, <1>2 DEF PackSize
  <2>2. down \in [Nat -> Nat] /\ \A n \in More : down[n] < n
    BY <1>1 DEF PackSize
  <2> QED BY <2>1, <2>2 DEF Descends
<1>4. \E f \in [Nat -> S] :
        \A n \in Nat : f[n] = IF n \in More THEN make[n][f[down[n]]] ELSE base[n]
  BY ONLY <1>3, DescendingRecursion
<1>5. PICK f \in [Nat -> S] :
        \A n \in Nat : f[n] = IF n \in More THEN make[n][f[down[n]]] ELSE base[n]
  BY <1>4
<1>6. f = [n \in Nat |-> IF n > PackSize THEN <<PackSize>> \o f[n - PackSize] ELSE <<n>>]
  <2>1. ASSUME NEW n \in Nat, n > PackSize PROVE f[n] = <<PackSize>> \o f[n - PackSize]
    <3>1. n - PackSize \in Nat
      BY <2>1 DEF PackSize
    <3>2. f[n - PackSize] \in Seq(Nat)
      BY <3>1, <1>2
    <3> QED BY <2>1, <3>1, <3>2, <1>1, <1>5
  <2>2. ASSUME NEW n \in Nat, ~(n > PackSize) PROVE f[n] = <<n>>
    BY <2>2, <1>1, <1>5
  <2> QED BY <2>1, <2>2
<1>7. Packs = [n \in Nat |-> IF n > PackSize THEN <<PackSize>> \o Packs[n - PackSize] ELSE <<n>>]
  BY <1>6 DEF Packs
<1>8. \A n \in Nat : Packs[n] = IF n > PackSize THEN <<PackSize>> \o Packs[n - PackSize] ELSE <<n>>
  BY <1>7
<1>9. \A n \in Nat : Packs[n] \in Seq(Nat)
  <2> DEFINE T == {n \in Nat : Packs[n] \in Seq(Nat)}
  <2>1. ASSUME NEW n \in Nat, \A m \in Nat : m < n => m \in T PROVE n \in T
    <3>1. CASE n > PackSize
      <4>1. n - PackSize \in Nat /\ n - PackSize < n
        BY <3>1 DEF PackSize
      <4>2. Packs[n - PackSize] \in Seq(Nat)
        BY <4>1, <2>1
      <4>3. <<PackSize>> \in Seq(Nat) /\ <<PackSize>> \o Packs[n - PackSize] \in Seq(Nat)
        BY <4>2 DEF PackSize
      <4> QED BY <3>1, <4>3, <1>8
    <3>2. CASE ~(n > PackSize)
      <4>1. <<n>> \in Seq(Nat)
        OBVIOUS
      <4> QED BY <3>2, <4>1, <1>8
    <3> QED BY <3>1, <3>2
  <2>2. Nat \subseteq T
    <3> HIDE DEF T
    <3> QED BY <2>1, StrongInduction
  <2> QED BY <2>2
<1> QED BY <1>8, <1>9

LEMMA PacksAddUp ==
  \A n \in Nat : Total[Packs[n]] = n /\ \A i \in DOMAIN Packs[n] : Packs[n][i] <= PackSize
<1> DEFINE T == {n \in Nat : /\ Total[Packs[n]] = n
                             /\ \A i \in DOMAIN Packs[n] : Packs[n][i] <= PackSize}
<1>1. ASSUME NEW n \in Nat, \A m \in Nat : m < n => m \in T PROVE n \in T
  <2>1. CASE n > PackSize
    <3> DEFINE rest == Packs[n - PackSize]
    <3>1. n - PackSize \in Nat /\ n - PackSize < n
      BY <2>1 DEF PackSize
    <3>2. /\ rest \in Seq(Nat) /\ Total[rest] = n - PackSize
          /\ \A i \in DOMAIN rest : rest[i] <= PackSize
      BY <3>1, <1>1, PacksFacts
    <3>3. Packs[n] = <<PackSize>> \o rest
      BY <2>1, PacksFacts
    <3> HIDE DEF rest
    <3>4. /\ Packs[n] \in Seq(Nat) /\ Packs[n] # <<>>
          /\ Head(Packs[n]) = PackSize /\ Tail(Packs[n]) = rest
      <4>1. PackSize \in Nat /\ <<PackSize>> \in Seq(Nat)
        BY DEF PackSize
      <4> HIDE DEF PackSize
      <4>2. /\ <<PackSize>> \o rest \in Seq(Nat) /\ Len(<<PackSize>> \o rest) = 1 + Len(rest)
            /\ Head(<<PackSize>> \o rest) = PackSize /\ Tail(<<PackSize>> \o rest) = rest
        BY <4>1, <3>2
      <4>3. Len(rest) \in Nat
        BY <3>2
      <4> QED BY <4>2, <4>3, <3>3
    <3>5. Total[Packs[n]] = n
      <4>1. Total[Packs[n]] = PackSize + Total[rest]
        BY <3>4, TotalFacts
      <4> QED BY <4>1, <3>2 DEF PackSize
    <3>6. ASSUME NEW i \in DOMAIN Packs[n] PROVE Packs[n][i] <= PackSize
      BY <3>2, <3>3, <3>6 DEF PackSize
    <3> QED BY <3>5, <3>6
  <2>2. CASE ~(n > PackSize)
    <3>1. Packs[n] = <<n>>
      BY <2>2, PacksFacts
    <3>2. <<n>> \in Seq(Nat) /\ <<n>> # <<>> /\ Head(<<n>>) = n /\ Tail(<<n>>) = <<>>
      OBVIOUS
    <3>3. Total[<<n>>] = n + 0
      BY <3>2, TotalFacts
    <3> QED BY <2>2, <3>1, <3>3 DEF PackSize
  <2> QED BY <2>1, <2>2
<1>2. Nat \subseteq T
  <2> HIDE DEF T
  <2> QED BY <1>1, StrongInduction
<1> QED BY <1>2
------------------------------------------------------------------------------
(* The guard, action by action.                                            *)

(* A call that ends leaves the queue, and nobody else loses the lock.      *)
LEMMA EndFacts ==
  ASSUME GuardInv, NEW c \in Calls, NEW how \in Ended, End(c, how)
  PROVE  /\ pc' = [pc EXCEPT ![c] = how] /\ UNCHANGED <<seen, msg>>
         /\ LockHeld'
         /\ \A i \in DOMAIN lock' : lock'[i] \in Guarded /\ pc'[lock'[i]] \in AtAwait
<1>1. pc' = [pc EXCEPT ![c] = how] /\ UNCHANGED <<seen, msg>> /\ lock' = Without(lock, c)
  BY DEF End, Release
<1>2. pc \in [Calls -> {"idle"} \cup AtAwait \cup Ended] /\ Guarded \subseteq Calls
  BY WalletAssumption DEF GuardInv, TypeOK
<1>3. lock \in Seq(Guarded) /\ NoneTwice(lock)
  BY DEF GuardInv, LockHeld
<1>4. /\ lock' \in Seq(Guarded) /\ NoneTwice(lock')
      /\ \A i \in DOMAIN lock' : lock'[i] # c /\ \E j \in DOMAIN lock : lock'[i] = lock[j]
      /\ lock # <<>> /\ lock[1] # c => lock' # <<>> /\ lock'[1] = lock[1]
  BY <1>1, <1>3, WithoutFacts
<1>5. ASSUME NEW d \in Holders'
      PROVE  pc'[d] # "estimate" /\ lock' # <<>> /\ lock'[1] = d
  <2>1. d # c /\ d \in Holders /\ pc'[d] = pc[d]
    BY <1>1, <1>2 DEF Holders, Ended
  <2>2. pc[d] # "estimate" /\ lock # <<>> /\ lock[1] = d
    BY <2>1 DEF GuardInv, LockHeld
  <2> QED BY <2>1, <2>2, <1>4
<1>6. ASSUME NEW i \in DOMAIN lock' PROVE lock'[i] \in Guarded /\ pc'[lock'[i]] \in AtAwait
  <2>1. PICK j \in DOMAIN lock : lock'[i] = lock[j] /\ lock'[i] # c
    BY <1>4
  <2>2. lock[j] \in Guarded /\ pc[lock[j]] \in AtAwait
    BY DEF GuardInv, TypeOK
  <2> QED BY <2>1, <2>2, <1>1, <1>2
<1>7. LockHeld'
  BY <1>4, <1>5 DEF LockHeld, NoneTwice
<1> QED BY <1>1, <1>6, <1>7

(* A call that goes on does not touch the queue.                           *)
LEMMA GotoFacts ==
  ASSUME GuardInv, NEW c \in Calls, NEW where \in AtAwait, Goto(c, where), UNCHANGED lock,
         where \in {"build", "load", "send", "poll"} => HoldsLock(c),
         where = "estimate" => c \notin Guarded
  PROVE  /\ LockHeld'
         /\ \A i \in DOMAIN lock' : lock'[i] \in Guarded /\ pc'[lock'[i]] \in AtAwait
<1>1. pc \in [Calls -> {"idle"} \cup AtAwait \cup Ended] /\ Guarded \subseteq Calls
  BY WalletAssumption DEF GuardInv, TypeOK
<1>2. \A i \in DOMAIN lock : lock[i] \in Guarded /\ pc[lock[i]] \in AtAwait
  BY DEF GuardInv, TypeOK
<1>3. \A i \in DOMAIN lock' : lock'[i] \in Guarded /\ pc'[lock'[i]] \in AtAwait
  BY <1>1, <1>2 DEF Goto
<1>4. ASSUME NEW d \in Holders'
      PROVE  pc'[d] # "estimate" /\ lock' # <<>> /\ lock'[1] = d
  <2>1. CASE d = c
    BY <1>1, <2>1 DEF Goto, HoldsLock, Holders, GuardInv, LockHeld
  <2>2. CASE d # c
    BY <1>1, <2>2 DEF Goto, Holders, GuardInv, LockHeld
  <2> QED BY <2>1, <2>2
<1> QED BY <1>3, <1>4 DEF GuardInv, LockHeld, NoneTwice

(* What the guard's part of the invariant says of the types alone.         *)
LEMMA GuardTypes ==
  ASSUME GuardInv
  PROVE  /\ pc \in [Calls -> {"idle"} \cup AtAwait \cup Ended] /\ seen \in [Calls -> 0..seqno]
         /\ Guarded \subseteq Calls /\ seqno \in Nat
         /\ pool \subseteq sent /\ applied \subseteq sent /\ sent \subseteq Calls
         /\ pool \cap applied = {}
         /\ \A c \in sent : pc[c] \in {"poll", "ok", "failed"}
         /\ \A c, d \in Holders : c = d
BY WalletAssumption DEF GuardInv, TypeOK, SentWent, LockHeld

(* A step that neither moves a call nor the account keeps the invariant.   *)
LEMMA QuietKeeps ==
  ASSUME GuardInv, UNCHANGED <<version, calls, seqno, deployed, applied, sent>>,
         pool' \subseteq pool,
         wallet' \in [made : BOOLEAN, key : BOOLEAN, init : BOOLEAN],
         info' \in [active : BOOLEAN, seqno : Nat]
  PROVE  GuardInv'
<1>1. TypeOK'
  BY DEF GuardInv, TypeOK, calls
<1>2. LockHeld' /\ SentWent'
  BY DEF GuardInv, LockHeld, NoneTwice, SentWent, Holders, calls
<1>3. SeenOrder' /\ OnlyOwnMessage'
  BY DEF GuardInv, SeenOrder, OnlyOwnMessage, OnlyGuarded, Holders, calls
<1> QED BY <1>1, <1>2, <1>3 DEF GuardInv, calls

(* The end of a call that did not send anything, or not in this step.      *)
LEMMA FailureKeeps ==
  ASSUME GuardInv, NEW c \in Calls, End(c, "failed"), pc[c] \in AtAwait,
         UNCHANGED <<object, account>>, info' \in [active : BOOLEAN, seqno : Nat]
  PROVE  GuardInv'
<1>1. /\ pc' = [pc EXCEPT ![c] = "failed"] /\ UNCHANGED <<seen, msg>> /\ LockHeld'
      /\ \A i \in DOMAIN lock' : lock'[i] \in Guarded /\ pc'[lock'[i]] \in AtAwait
  BY EndFacts DEF Ended
<1>2. TypeOK'
  BY <1>1 DEF GuardInv, TypeOK, object, account, Ended
<1>3. SentWent'
  BY <1>1, GuardTypes DEF SentWent, account
<1>4. Holders' \subseteq Holders /\ \A d \in Calls : pc'[d] = "ok" => pc[d] = "ok"
  BY <1>1, GuardTypes DEF Holders
<1>5. SeenOrder'
  BY <1>1, <1>4, GuardTypes DEF GuardInv, SeenOrder, account
<1>6. OnlyOwnMessage'
  <2>1. OnlyGuarded' => OnlyGuarded
    BY <1>1, GuardTypes DEF OnlyGuarded, account, AtAwait
  <2> QED BY <1>1, <1>4, <2>1, GuardTypes DEF GuardInv, OnlyOwnMessage, account
<1> QED BY <1>1, <1>2, <1>3, <1>5, <1>6 DEF GuardInv, account

(* A call that waits for something else, of what it held the lock for.     *)
LEMMA WaitKeeps ==
  ASSUME GuardInv, NEW c \in Calls, NEW where \in {"load", "build"}, Goto(c, where),
         pc[c] \in {"estimate", "build"} /\ UNCHANGED info,
         UNCHANGED <<object, lock, seen, msg, account>>
  PROVE  GuardInv'
<1>1. HoldsLock(c)
  BY WalletAssumption DEF HoldsLock, GuardInv, LockHeld, Holders
<1>2. /\ LockHeld'
      /\ \A i \in DOMAIN lock' : lock'[i] \in Guarded /\ pc'[lock'[i]] \in AtAwait
  BY <1>1, GotoFacts DEF AtAwait
<1>3. TypeOK'
  BY <1>2 DEF GuardInv, TypeOK, Goto, AtAwait, object, account
<1>4. SentWent'
  BY GuardTypes DEF Goto, SentWent, account
<1>5. Holders' = Holders /\ \A d \in Calls : (pc'[d] = "ok" <=> pc[d] = "ok")
  BY GuardTypes DEF Holders, Goto
<1>6. SeenOrder'
  BY <1>5, GuardTypes DEF GuardInv, SeenOrder, account
<1>7. OnlyOwnMessage'
  <2>1. OnlyGuarded' => OnlyGuarded
    BY GuardTypes DEF OnlyGuarded, account, Goto
  <2> QED BY <1>5, <2>1, GuardTypes DEF GuardInv, OnlyOwnMessage, account
<1> QED BY <1>2, <1>3, <1>4, <1>6, <1>7 DEF GuardInv, account

LEMMA BeginKeeps ==
  ASSUME GuardInv, NEW c \in Calls, Begin(c)
  PROVE  GuardInv'
<1>1. PICK where \in {"read", "estimate", "build", "load"} :
        /\ pc' = [pc EXCEPT ![c] = where] /\ pc[c] = "idle"
        /\ c \in Guarded <=> where = "read"
        /\ lock' = IF c \in Guarded THEN Append(lock, c) ELSE lock
        /\ UNCHANGED <<object, info, seen, msg, account>>
  BY WalletAssumption DEF Begin, Goto
<1>2. lock \in Seq(Guarded) /\ NoneTwice(lock) /\ c \notin Holders
  BY <1>1 DEF GuardInv, LockHeld, Holders
<1>3. \A i \in DOMAIN lock : lock[i] \in Guarded /\ pc[lock[i]] \in AtAwait /\ lock[i] # c
  BY <1>1 DEF GuardInv, TypeOK, AtAwait
<1>4. /\ lock' \in Seq(Guarded) /\ NoneTwice(lock')
      /\ \A i \in DOMAIN lock' : lock'[i] \in Guarded /\ pc'[lock'[i]] \in AtAwait
      /\ lock # <<>> => lock' # <<>> /\ lock'[1] = lock[1]
  <2>1. CASE c \in Guarded
    <3>1. lock' = Append(lock, c) /\ pc' = [pc EXCEPT ![c] = "read"]
      BY <1>1, <2>1
    <3>2. /\ DOMAIN lock = 1..Len(lock) /\ Len(lock) \in Nat
          /\ DOMAIN lock' = 1..Len(lock) + 1 /\ lock' \in Seq(Guarded)
          /\ \A i \in 1..Len(lock) + 1 : lock'[i] = IF i \in DOMAIN lock THEN lock[i] ELSE c
      BY <1>2, <2>1, <3>1
    <3>3. NoneTwice(lock')
      BY <1>2, <1>3, <3>2 DEF NoneTwice
    <3>4. \A i \in DOMAIN lock' : lock'[i] \in Guarded /\ pc'[lock'[i]] \in AtAwait
      BY <1>3, <2>1, <3>1, <3>2, GuardTypes DEF AtAwait
    <3>5. lock # <<>> => lock' # <<>> /\ lock'[1] = lock[1]
      BY <1>2, <3>2
    <3> QED BY <3>2, <3>3, <3>4, <3>5
  <2>2. CASE c \notin Guarded
    BY <1>1, <1>2, <1>3, <2>2, GuardTypes DEF NoneTwice
  <2> QED BY <2>1, <2>2
<1>5. Holders' = Holders
  BY <1>1, GuardTypes DEF Holders
<1>6. LockHeld'
  <2>1. ASSUME NEW d \in Holders' PROVE pc'[d] # "estimate" /\ lock' # <<>> /\ lock'[1] = d
    BY <1>1, <1>2, <1>4, <1>5, GuardTypes DEF GuardInv, LockHeld
  <2> QED BY <1>4, <2>1 DEF LockHeld, NoneTwice
<1>7. TypeOK'
  BY <1>1, <1>4 DEF GuardInv, TypeOK, AtAwait, object, account
<1>8. SentWent'
  BY <1>1, GuardTypes DEF SentWent, account
<1>9. \A d \in Calls : (pc'[d] = "ok" <=> pc[d] = "ok") /\ (pc'[d] = "failed" <=> pc[d] = "failed")
  BY <1>1, GuardTypes
<1>10. SeenOrder' /\ OnlyOwnMessage'
  BY <1>1, <1>5, <1>9, GuardTypes DEF GuardInv, SeenOrder, OnlyOwnMessage, OnlyGuarded, account
<1> QED BY <1>1, <1>6, <1>7, <1>8, <1>10 DEF GuardInv, account

(* The seqno read is that of the account, above those of earlier calls.    *)
LEMMA ReadKeeps ==
  ASSUME GuardInv, NEW c \in Calls, ReadSeqno(c)
  PROVE  GuardInv'
<1>1. PICK where \in {"build", "load"} :
        /\ pc' = [pc EXCEPT ![c] = where] /\ pc[c] = "read" /\ HoldsLock(c)
        /\ seen' = [seen EXCEPT ![c] = seqno]
        /\ UNCHANGED <<object, lock, msg, account>>
        /\ info' \in {info, Answer}
  BY DEF ReadSeqno, Goto, AskSeqno, Answer
<1>2. /\ LockHeld'
      /\ \A i \in DOMAIN lock' : lock'[i] \in Guarded /\ pc'[lock'[i]] \in AtAwait
  BY <1>1, GotoFacts DEF AtAwait, Goto
<1>3. TypeOK'
  BY <1>1, <1>2, GuardTypes DEF GuardInv, TypeOK, AtAwait, Answer, object, account
<1>4. SentWent'
  BY <1>1, GuardTypes DEF SentWent, account
<1>5. \A d \in Calls : (pc'[d] = "ok" <=> pc[d] = "ok") /\ (pc'[d] = "failed" <=> pc[d] = "failed")
  BY <1>1, GuardTypes
<1>6. \A d \in Holders' : d # c => d \in Holders
  BY <1>1, GuardTypes DEF Holders
<1>7. SeenOrder'
  BY <1>1, <1>5, <1>6, GuardTypes DEF GuardInv, SeenOrder, account, Holders
<1>8. OnlyOwnMessage'
  BY <1>1, <1>5, <1>6, GuardTypes DEF GuardInv, OnlyOwnMessage, OnlyGuarded, account
<1> QED BY <1>1, <1>2, <1>3, <1>4, <1>7, <1>8, GuardTypes DEF GuardInv, account

LEMMA LoadKeeps ==
  ASSUME GuardInv, NEW c \in Calls, Load(c)
  PROVE  GuardInv'
<1>1. info' \in [active : BOOLEAN, seqno : 0..seqno] /\ pc[c] = "load" /\ UNCHANGED <<object, account>>
  <2>1. seqno \in 0..seqno /\ 0 \in 0..seqno /\ deployed \in BOOLEAN
    BY GuardTypes DEF GuardInv, TypeOK
  <2>2. Answer \in [active : BOOLEAN, seqno : 0..seqno]
    BY <2>1 DEF Answer
  <2>3. NoInfo \in [active : BOOLEAN, seqno : 0..seqno]
    BY <2>1 DEF NoInfo
  <2> QED BY <2>2, <2>3 DEF Load
<1>2. CASE ~CanSign(c)
  BY <1>1, <1>2, FailureKeeps DEF Load, AtAwait
<1>3. CASE CanSign(c)
  <2>1. /\ msg' = [msg EXCEPT ![c] = ExternalMessage(version, info', Batch[version][c],
                                                 wallet.init, Given[c])]
        /\ Goto(c, "send") /\ UNCHANGED <<lock, seen>>
    BY <1>3 DEF Load
  <2>2. HoldsLock(c)
    BY <1>1 DEF HoldsLock, GuardInv, LockHeld, Holders
  <2>3. /\ LockHeld'
        /\ \A i \in DOMAIN lock' : lock'[i] \in Guarded /\ pc'[lock'[i]] \in AtAwait
    BY <2>1, <2>2, GotoFacts DEF AtAwait
  <2>s. /\ SeqnoFor(version, info', Given[c]) \in Nat
        /\ Given[c] = <<>> => SeqnoFor(version, info', Given[c]) <= seqno
    <3>1. Given[c] \in Seq(Nat) /\ (Given[c] # <<>> => Given[c][1] \in Nat)
      BY GivenAssumption
    <3>2. HasSeqno(version) \in BOOLEAN
      BY DEF HasSeqno
    <3> QED BY <1>1, <3>1, <3>2, GuardTypes DEF SeqnoFor
  <2>4. /\ \A d \in Calls : msg'[d].seqno \in Nat /\ (Given[d] = <<>> => msg'[d].seqno <= seqno)
        /\ msg' = [d \in Calls |-> msg'[d]]
    BY <1>1, <2>1, <2>s, GuardTypes DEF GuardInv, TypeOK, ExternalMessage
  <2>a. info' \in [active : BOOLEAN, seqno : Nat]
    BY <1>1, GuardTypes
  <2>5. TypeOK'
    BY <1>1, <2>1, <2>3, <2>4, <2>a DEF GuardInv, TypeOK, Goto, AtAwait, object, account
  <2>6. SentWent'
    BY <1>1, <2>1, GuardTypes DEF Goto, SentWent, account
  <2>7. /\ Holders' = Holders
        /\ \A d \in Calls : (pc'[d] = "ok" <=> pc[d] = "ok") /\ (pc'[d] = "failed" <=> pc[d] = "failed")
    BY <1>1, <2>1, GuardTypes DEF Holders, Goto
  <2>8. SeenOrder' /\ OnlyOwnMessage'
    BY <1>1, <2>1, <2>7, GuardTypes DEF GuardInv, SeenOrder, OnlyOwnMessage, OnlyGuarded, account
  <2> QED BY <1>1, <2>1, <2>3, <2>4, <2>5, <2>6, <2>8, GuardTypes DEF GuardInv, account
<1> QED BY <1>2, <1>3

(* A message that a node takes is the first one of its call, and does not  *)
(* move the account.                                                       *)
LEMMA TakenFacts ==
  ASSUME GuardInv, NEW c \in Calls, pc[c] = "send", Taken(c)
  PROVE  /\ sent' = sent \cup {c} /\ c \notin sent /\ c \notin applied
         /\ pool' \subseteq pool \cup {c} /\ UNCHANGED <<seqno, deployed, applied, inner, delivered>>
         /\ pool' \subseteq sent' /\ pool' \cap applied' = {} /\ sent' \subseteq Calls
BY GuardTypes DEF Taken

LEMMA SendKeeps ==
  ASSUME GuardInv, NEW c \in Calls, Send(c) \/ Lost(c)
  PROVE  GuardInv'
<1>1. Taken(c) /\ pc[c] = "send" /\ UNCHANGED <<object, info>>
  BY DEF Send, Lost
<1>2. /\ sent' = sent \cup {c} /\ c \notin sent /\ c \notin applied
      /\ UNCHANGED <<seqno, deployed, applied, inner, delivered>>
      /\ pool' \subseteq sent' /\ pool' \cap applied' = {} /\ sent' \subseteq Calls
  BY <1>1, TakenFacts
<1>3. PICK how \in {"poll", "ok", "failed"} :
        /\ pc' = [pc EXCEPT ![c] = how] /\ UNCHANGED <<seen, msg>> /\ LockHeld'
        /\ \A i \in DOMAIN lock' : lock'[i] \in Guarded /\ pc'[lock'[i]] \in AtAwait
        /\ how = "poll" => c \in Guarded
        /\ how = "ok" => c \notin Guarded
  <2>1. ASSUME NEW how \in Ended, End(c, how)
        PROVE  /\ pc' = [pc EXCEPT ![c] = how] /\ UNCHANGED <<seen, msg>> /\ LockHeld'
               /\ \A i \in DOMAIN lock' : lock'[i] \in Guarded /\ pc'[lock'[i]] \in AtAwait
    BY <2>1, EndFacts
  <2>2. CASE c \in Guarded /\ Goto(c, "poll") /\ UNCHANGED <<lock, seen, msg>>
    <3>1. HoldsLock(c)
      BY <1>1, <2>2 DEF HoldsLock, GuardInv, LockHeld, Holders
    <3> QED BY <2>2, <3>1, GotoFacts DEF AtAwait, Goto
  <2>3. CASE c \notin Guarded /\ End(c, "ok")
    BY <2>1, <2>3 DEF Ended
  <2>4. CASE End(c, "failed")
    BY <2>1, <2>4 DEF Ended
  <2> QED BY <2>2, <2>3, <2>4 DEF Send, Lost
<1>4. TypeOK'
  BY <1>1, <1>2, <1>3 DEF GuardInv, TypeOK, AtAwait, Ended, object
<1>5. SentWent'
  BY <1>2, <1>3, GuardTypes DEF SentWent
<1>6. Holders' \subseteq Holders /\ \A d \in Guarded : pc'[d] = "ok" => pc[d] = "ok"
  BY <1>1, <1>3, GuardTypes DEF Holders
<1>7. SeenOrder'
  BY <1>2, <1>3, <1>6, GuardTypes DEF GuardInv, SeenOrder
<1>8. OnlyOwnMessage'
  <2>1. OnlyGuarded' => OnlyGuarded
    BY <1>1, <1>2, <1>3, GuardTypes DEF OnlyGuarded
  <2> QED BY <1>2, <1>3, <1>6, <2>1, GuardTypes DEF GuardInv, OnlyOwnMessage
<1> QED BY <1>2, <1>3, <1>4, <1>5, <1>7, <1>8, GuardTypes DEF GuardInv

(* The account has moved on from the seqno that was read: by the message   *)
(* of this call, if no other call could have moved it.                     *)
LEMMA PollKeeps ==
  ASSUME GuardInv, NEW c \in Calls, Poll(c)
  PROVE  GuardInv'
<1>1. /\ pc[c] = "poll" /\ UNCHANGED <<object, account>>
      /\ info' \in {info, Answer} /\ info' \in [active : BOOLEAN, seqno : Nat]
  BY GuardTypes DEF Poll, AskSeqno, GuardInv, TypeOK, Answer
<1>2. CASE UNCHANGED calls
  BY <1>1, <1>2, QuietKeeps DEF object, account, GuardInv, TypeOK
<1>3. CASE Advanced(c) /\ End(c, "ok")
  <2>1. /\ pc' = [pc EXCEPT ![c] = "ok"] /\ UNCHANGED <<seen, msg>> /\ LockHeld'
        /\ \A i \in DOMAIN lock' : lock'[i] \in Guarded /\ pc'[lock'[i]] \in AtAwait
    BY <1>3, EndFacts DEF Ended
  <2>2. TypeOK'
    BY <1>1, <2>1 DEF GuardInv, TypeOK, object, account, Ended
  <2>3. SentWent'
    BY <1>1, <2>1, GuardTypes DEF SentWent, account
  <2>4. seen[c] < seqno
    BY <1>3, GuardTypes DEF Advanced, Answer
  <2>5. /\ c \in Guarded => c \in Holders /\ Holders' = {}
        /\ Holders' \subseteq Holders /\ \A d \in Calls \ {c} : pc'[d] = "ok" <=> pc[d] = "ok"
    BY <1>1, <2>1, GuardTypes DEF Holders
  <2>6. SeenOrder'
    BY <1>1, <2>1, <2>4, <2>5, GuardTypes DEF GuardInv, SeenOrder, account
  <2>7. OnlyOwnMessage'
    <3>1. OnlyGuarded' => OnlyGuarded
      BY <1>1, <2>1, GuardTypes DEF OnlyGuarded, account
    <3> QED BY <1>1, <2>1, <2>4, <2>5, <3>1, GuardTypes DEF GuardInv, OnlyOwnMessage, account
  <2> QED BY <1>1, <2>1, <2>2, <2>3, <2>6, <2>7 DEF GuardInv, account
<1> QED BY <1>2, <1>3 DEF Poll

LEMMA ApplyKeeps ==
  ASSUME GuardInv, NEW c \in Calls, Apply(c)
  PROVE  GuardInv'
<1>1. /\ c \in pool /\ seqno' \in {seqno, seqno + 1} /\ deployed'
      /\ applied' = applied \cup {c} /\ pool' \subseteq pool \ {c}
      /\ UNCHANGED <<object, info, calls, sent>>
  BY DEF Apply
<1>2. seqno' \in Nat /\ seqno <= seqno' /\ deployed' \in BOOLEAN
  BY <1>1, GuardTypes DEF Apply
<1>3. \A d \in Calls : msg[d].seqno <= seqno => msg[d].seqno <= seqno'
  <2>1. \A d \in Calls : msg[d].seqno \in Nat
    BY DEF GuardInv, TypeOK
  <2> QED BY <1>1, <1>2, <2>1, GuardTypes
<1>4. TypeOK'
  BY <1>1, <1>2, <1>3, GuardTypes DEF GuardInv, TypeOK, object, calls
<1>5. LockHeld' /\ SentWent'
  BY <1>1 DEF GuardInv, LockHeld, NoneTwice, SentWent, Holders, calls
<1>6. SeenOrder'
  BY <1>1, <1>2, GuardTypes DEF GuardInv, SeenOrder, Holders, calls
<1>7. OnlyOwnMessage'
  <2>1. ASSUME OnlyGuarded, NEW d \in Holders PROVE d = c
    <3>1. pc[c] \in {"poll", "ok"} /\ c \in Guarded /\ c \notin applied
      BY <1>1, <2>1, GuardTypes DEF OnlyGuarded
    <3>2. pc[c] = "poll"
      BY <2>1, <3>1 DEF GuardInv, OnlyOwnMessage
    <3> QED BY <3>1, <3>2, GuardTypes DEF Holders
  <2> QED BY <1>1, <2>1 DEF GuardInv, OnlyOwnMessage, OnlyGuarded, Holders, calls
<1> QED BY <1>1, <1>2, <1>4, <1>5, <1>6, <1>7 DEF GuardInv, calls

LEMMA GuardInductive == GuardInv /\ [Next]_vars => GuardInv'
<1> SUFFICES ASSUME GuardInv, [Next]_vars PROVE GuardInv'
  OBVIOUS
<1>1. /\ info \in [active : BOOLEAN, seqno : Nat] /\ NoInfo \in [active : BOOLEAN, seqno : Nat]
      /\ Answer \in [active : BOOLEAN, seqno : Nat]
      /\ wallet \in [made : BOOLEAN, key : BOOLEAN, init : BOOLEAN]
  BY GuardTypes DEF GuardInv, TypeOK, NoInfo, Answer
<1>2. CASE FromPrivateKey \/ FromStateInit \/ FromAddress
              \/ \E valid, validate \in BOOLEAN : FromMnemonic([valid |-> valid], validate)
  <2>1. /\ UNCHANGED <<version, calls, account>> /\ info' \in {info, NoInfo, Answer}
        /\ wallet' \in [made : BOOLEAN, key : BOOLEAN, init : BOOLEAN]
    <3>1. FromPrivateKey \/ FromStateInit \/ FromAddress
      BY <1>2 DEF FromMnemonic
    <3>2. CASE FromPrivateKey \/ FromStateInit
      <4>1. /\ UNCHANGED <<version, info, calls, account>>
            /\ \E key \in BOOLEAN : wallet' = [made |-> TRUE, key |-> key, init |-> TRUE]
        BY <3>2 DEF FromPrivateKey, FromStateInit
      <4> QED BY <4>1
    <3>3. CASE FromAddress
      BY <3>3 DEF FromAddress
    <3> QED BY <3>1, <3>2, <3>3
  <2> QED BY <1>1, <2>1, QuietKeeps DEF account
<1>3. CASE UNCHANGED vars
  BY <1>3, QuietKeeps DEF vars, object, account, GuardInv, TypeOK
<1>4. ASSUME NEW c \in Calls, Estimate(c) PROVE GuardInv'
  <2>1. CASE Goto(c, "load") /\ UNCHANGED <<lock, seen, msg>>
    BY <1>4, <2>1, WaitKeeps DEF Estimate, object
  <2>2. CASE End(c, "failed")
    BY <1>4, <2>2, FailureKeeps DEF Estimate, object, GuardInv, TypeOK, AtAwait
  <2> QED BY <1>4, <2>1, <2>2 DEF Estimate, GaslessValidateJetton
<1>5. ASSUME NEW c \in Calls, ResolveJettonWallet(c) PROVE GuardInv'
  BY <1>5, WaitKeeps DEF ResolveJettonWallet, object
<1>6. ASSUME NEW c \in Calls, TimesOut(c) \/ Raises(c) PROVE GuardInv'
  <2>1. info' \in [active : BOOLEAN, seqno : Nat]
    BY <1>1, <1>6 DEF TimesOut, Raises
  <2> QED BY <1>6, <2>1, FailureKeeps DEF TimesOut, Raises, AtAwait
<1>7. ASSUME NEW c \in Calls, RunLevel(c) \/ Expire(c) PROVE GuardInv'
  BY <1>7, QuietKeeps DEF RunLevel, Expire, object, account, GuardInv, TypeOK
<1> QED BY <1>2, <1>3, <1>4, <1>5, <1>6, <1>7, BeginKeeps, ReadKeeps, LoadKeeps, SendKeeps,
           PollKeeps, ApplyKeeps DEF Next

LEMMA GuardInitially == Init => GuardInv
<1> SUFFICES ASSUME Init PROVE GuardInv
  OBVIOUS
<1>1. seqno \in Nat /\ (seqno > 0 => deployed) /\ 0 \in 0..seqno
  BY DEF Init
<1>2. LockHeld /\ SentWent /\ SeenOrder /\ OnlyOwnMessage
  BY WalletAssumption DEF Init, LockHeld, NoneTwice, SentWent, SeenOrder, OnlyOwnMessage, Holders
<1>3. TypeOK
  BY <1>1 DEF Init, TypeOK, NoWallet, NoInfo, NoMessage
<1>4. msg = [c \in Calls |-> msg[c]] /\ \A c \in Calls : msg[c].seqno \in Nat
  BY DEF Init, NoMessage
<1> QED BY <1>1, <1>2, <1>3, <1>4 DEF GuardInv

THEOREM GuardInvariant == Spec => []GuardInv
BY GuardInitially, GuardInductive, PTL DEF Spec

(* A transfer that the guard reports as sent was applied if nothing went   *)
(* around the guard or failed; and in any case no two are confirmed by the *)
(* same transaction.                                                       *)
THEOREM GuardAlwaysConfirms == Spec => []GuardConfirms
<1>1. GuardInv => GuardConfirms
  <2>1. GuardInv => ConfirmedIsApplied
    BY DEF GuardInv, OnlyOwnMessage, OnlyGuarded, ConfirmedIsApplied
  <2>2. GuardInv => OneSeqnoEach
    BY DEF GuardInv, SeenOrder, OneSeqnoEach
  <2> QED BY <2>1, <2>2 DEF GuardConfirms
<1> QED BY <1>1, GuardInvariant, PTL
------------------------------------------------------------------------------
(* What the guard promises, put together: the turns of SendsInTurn.        *)
Outcome == [c \in Calls |-> IF pc[c] \in Ended THEN pc[c] ELSE "open"]
Turns == INSTANCE SendsInTurn
           WITH turn <- Holders, began <- seen, outcome <- Outcome,
                posted <- sent, executed <- applied, count <- seqno

(* Only guarded calls read the seqno and poll, the latter after they sent. *)
GuardedPoll ==
  \A c \in Calls : /\ pc[c] \in {"read", "poll"} => c \in Guarded
                   /\ pc[c] = "poll" => c \in sent

LEMMA GuardedPollStays == GuardInv /\ GuardedPoll /\ [Next]_vars => GuardedPoll'
<1> SUFFICES ASSUME GuardInv, GuardedPoll, [Next]_vars PROVE GuardedPoll'
  OBVIOUS
<1>1. pc \in [Calls -> {"idle"} \cup AtAwait \cup Ended]
  BY GuardTypes
<1>2. CASE UNCHANGED <<pc, sent>>
  BY <1>2 DEF GuardedPoll
<1>3. ASSUME NEW c \in Calls, NEW how, how \notin {"read", "poll"}, pc' = [pc EXCEPT ![c] = how],
             sent \subseteq sent'
      PROVE  GuardedPoll'
  BY <1>1, <1>3 DEF GuardedPoll
<1>4. ASSUME NEW c \in Calls, Begin(c) PROVE GuardedPoll'
  <2>1. pc' = [pc EXCEPT ![c] = IF c \in Guarded THEN "read" ELSE IF c \in Gasless THEN "estimate"
                                ELSE IF c \in Jettons THEN "build" ELSE "load"] /\ sent' = sent
    BY <1>4 DEF Begin, Goto, account
  <2> QED BY <1>1, <2>1 DEF GuardedPoll
<1>5. ASSUME NEW c \in Calls, Send(c) PROVE GuardedPoll'
  <2>1. sent' = sent \cup {c} /\ (c \in Guarded \/ pc' = [pc EXCEPT ![c] = "ok"])
    BY <1>5 DEF Send, Taken, End
  <2>2. CASE c \notin Guarded
    BY <1>3, <2>1, <2>2
  <2>3. CASE c \in Guarded
    <3>1. pc' = [pc EXCEPT ![c] = "poll"]
      BY <1>5, <2>3 DEF Send, Goto
    <3> QED BY <1>1, <2>1, <2>3, <3>1 DEF GuardedPoll
  <2> QED BY <2>2, <2>3
<1>6. ASSUME NEW c \in Calls,
             ReadSeqno(c) \/ Estimate(c) \/ ResolveJettonWallet(c) \/ Load(c) \/ Lost(c) \/ TimesOut(c) \/ Raises(c)
      PROVE  GuardedPoll'
  <2>1. /\ \E how : how \notin {"read", "poll"} /\ pc' = [pc EXCEPT ![c] = how]
        /\ sent \subseteq sent'
    BY <1>6 DEF ReadSeqno, Estimate, GaslessValidateJetton, ResolveJettonWallet, Load, Lost, Taken,
                TimesOut, Raises, Goto, End, account
  <2> QED BY <1>3, <2>1
<1>7. ASSUME NEW c \in Calls, Poll(c) PROVE GuardedPoll'
  <2>1. sent' = sent /\ (UNCHANGED pc \/ pc' = [pc EXCEPT ![c] = "ok"])
    BY <1>7 DEF Poll, End, calls, account
  <2> QED BY <1>2, <1>3, <2>1
<1>8. ASSUME NEW c \in Calls, Apply(c) \/ RunLevel(c) \/ Expire(c) PROVE UNCHANGED <<pc, sent>>
  BY <1>8 DEF Apply, RunLevel, Expire, calls
<1> QED BY <1>2, <1>4, <1>5, <1>6, <1>7, <1>8
        DEF Next, vars, calls, account, FromPrivateKey, FromStateInit, FromAddress, FromMnemonic

(* A call that goes on keeps its turn, one that ends settles.              *)
LEMMA GoesOnInTurn ==
  ASSUME GuardInv, NEW c \in Calls, pc[c] \in AtAwait,
         NEW how \in AtAwait, pc' = [pc EXCEPT ![c] = how],
         (c \in Guarded /\ how # "read") <=> c \in Holders
  PROVE  UNCHANGED <<Holders, Outcome>>
<1>1. pc \in [Calls -> {"idle"} \cup AtAwait \cup Ended] /\ Guarded \subseteq Calls
  BY GuardTypes
<1>2. Outcome' = Outcome
  BY <1>1 DEF Outcome, AtAwait, Ended
<1>3. Holders' = Holders
  BY <1>1 DEF Holders, AtAwait
<1> QED BY <1>2, <1>3

LEMMA SettlesInTurn ==
  ASSUME GuardInv, NEW c \in Calls, pc[c] \in AtAwait, NEW how \in Ended, pc' = [pc EXCEPT ![c] = how]
  PROVE  Turns!Settle(c, how)
<1>1. pc \in [Calls -> {"idle"} \cup AtAwait \cup Ended] /\ Guarded \subseteq Calls
  BY GuardTypes
<1>2. Outcome[c] = "open" /\ Outcome' = [Outcome EXCEPT ![c] = how]
  BY <1>1 DEF Outcome, AtAwait, Ended
<1>3. Holders' = Holders \ {c}
  BY <1>1 DEF Holders, Ended
<1> QED BY <1>2, <1>3 DEF Turns!Settle

LEMMA ReadTakesTurn ==
  ASSUME GuardInv, GuardedPoll, NEW c \in Calls, ReadSeqno(c)
  PROVE  Turns!TakeTurn(c)
<1>1. /\ pc[c] = "read" /\ HoldsLock(c) /\ seen' = [seen EXCEPT ![c] = seqno]
      /\ UNCHANGED <<sent, applied, seqno>>
      /\ \E where \in {"build", "load"} : pc' = [pc EXCEPT ![c] = where]
  BY DEF ReadSeqno, Answer, Goto, account
<1>2. pc \in [Calls -> {"idle"} \cup AtAwait \cup Ended] /\ Guarded \subseteq Calls /\ c \in Guarded
  BY <1>1, GuardTypes DEF GuardedPoll
<1>3. Holders = {}
  <2> SUFFICES ASSUME NEW d \in Holders PROVE FALSE
    OBVIOUS
  <2>1. lock \in Seq(Guarded) /\ lock # <<>> /\ lock[1] = d
    BY DEF GuardInv, LockHeld
  <2>2. d = c
    BY <1>1, <1>2, <2>1 DEF HoldsLock
  <2> QED BY <1>1, <2>2 DEF Holders
<1>4. Holders' = {c}
  BY <1>1, <1>2, <1>3 DEF Holders
<1>5. Outcome' = Outcome /\ Outcome[c] = "open"
  BY <1>1, <1>2 DEF Outcome, Ended
<1> QED BY <1>1, <1>2, <1>3, <1>4, <1>5 DEF Turns!TakeTurn

LEMMA SendPosts ==
  ASSUME GuardInv, NEW c \in Calls, Send(c) \/ Lost(c)
  PROVE  Turns!Post(c)
<1>1. pc[c] = "send" /\ sent' = sent \cup {c} /\ UNCHANGED <<seen, applied, seqno>>
  BY DEF Send, Lost, Taken, End
<1>2. /\ pc \in [Calls -> {"idle"} \cup AtAwait \cup Ended] /\ Guarded \subseteq Calls /\ c \notin sent
      /\ \A d \in Holders : c \in Holders => d = c
  BY <1>1, GuardTypes
<1>3. c \in Guarded => Holders = {c}
  BY <1>1, <1>2 DEF Holders
<1>4. Outcome[c] = "open" /\ pc[c] \in AtAwait
  BY <1>1 DEF Outcome, Ended, AtAwait
<1>5. CASE Lost(c)
  <2>1. Turns!Settle(c, "failed")
    BY <1>4, <1>5, SettlesInTurn DEF Lost, End, Ended
  <2> QED BY <1>1, <1>2, <1>3, <1>4, <2>1 DEF Turns!Post
<1>6. CASE Send(c) /\ c \notin Guarded
  <2>1. Turns!Settle(c, "ok")
    BY <1>4, <1>6, SettlesInTurn DEF Send, End, Ended
  <2> QED BY <1>1, <1>2, <1>4, <1>6, <2>1 DEF Turns!Post
<1>7. CASE Send(c) /\ c \in Guarded
  <2>1. UNCHANGED <<Holders, Outcome>>
    BY <1>1, <1>3, <1>4, <1>7, GoesOnInTurn DEF Send, Goto, AtAwait
  <2> QED BY <1>1, <1>2, <1>3, <1>4, <1>7, <2>1 DEF Turns!Post
<1> QED BY <1>5, <1>6, <1>7

LEMMA PollConfirms ==
  ASSUME GuardInv, GuardedPoll, NEW c \in Calls, Poll(c)
  PROVE  Turns!Confirm(c) \/ UNCHANGED <<Holders, seen, Outcome, sent, applied, seqno>>
<1>1. pc[c] = "poll" /\ UNCHANGED <<sent, applied, seqno>>
  BY DEF Poll, account
<1>2. /\ c \in Guarded /\ c \in sent /\ seen[c] \in 0..seqno /\ seqno \in Nat
      /\ \A d \in Holders : c \in Holders => d = c
  BY <1>1, GuardTypes DEF GuardedPoll
<1>3. Holders = {c}
  BY <1>1, <1>2 DEF Holders
<1>4. CASE Advanced(c) /\ End(c, "ok")
  <2>1. Turns!Settle(c, "ok")
    BY <1>1, <1>4, SettlesInTurn DEF End, Ended, AtAwait
  <2>2. seqno > seen[c]
    BY <1>2, <1>4 DEF Advanced, Answer
  <2> QED BY <1>1, <1>2, <1>3, <1>4, <2>1, <2>2 DEF Turns!Confirm, End
<1>5. CASE UNCHANGED calls
  BY <1>1, <1>5 DEF calls, Holders, Outcome
<1> QED BY <1>4, <1>5 DEF Poll

LEMMA FailureGivesUp ==
  ASSUME GuardInv, NEW c \in Calls, pc[c] \in AtAwait, End(c, "failed"), UNCHANGED account
  PROVE  Turns!GiveUp(c)
<1>1. Turns!Settle(c, "failed")
  BY SettlesInTurn DEF End, Ended
<1> QED BY <1>1 DEF Turns!GiveUp, End, account

LEMMA WaitsInTurn ==
  ASSUME GuardInv, NEW c \in Calls, pc[c] \in AtAwait \ {"read"}, pc[c] = "estimate" => c \notin Guarded,
         NEW how \in {"load", "send"}, Goto(c, how), UNCHANGED <<seen, account>>
  PROVE  UNCHANGED <<Holders, seen, Outcome, sent, applied, seqno>>
<1>1. (c \in Guarded /\ how # "read") <=> c \in Holders
  BY DEF Holders, AtAwait
<1> QED BY <1>1, GoesOnInTurn DEF Goto, AtAwait, account

LEMMA TurnStep == GuardInv /\ GuardedPoll /\ [Next]_vars => [Turns!Next]_(Turns!sends)
<1> SUFFICES ASSUME GuardInv, GuardedPoll, [Next]_vars
             PROVE  Turns!Next \/ UNCHANGED <<Holders, seen, Outcome, sent, applied, seqno>>
  BY DEF Turns!sends
<1>1. ASSUME NEW c \in Calls, Begin(c)
      PROVE  UNCHANGED <<Holders, seen, Outcome, sent, applied, seqno>>
  <2>1. /\ pc[c] = "idle" /\ UNCHANGED <<seen, sent, applied, seqno>>
        /\ \E where \in {"read", "estimate", "build", "load"} :
             pc' = [pc EXCEPT ![c] = where] /\ (c \in Guarded => where = "read")
    BY <1>1 DEF Begin, Goto, account
  <2>2. pc \in [Calls -> {"idle"} \cup AtAwait \cup Ended] /\ Guarded \subseteq Calls
    BY GuardTypes
  <2>3. Holders' = Holders
    BY <2>1, <2>2 DEF Holders
  <2>4. Outcome' = Outcome
    BY <2>1, <2>2 DEF Outcome, Ended
  <2> QED BY <2>1, <2>3, <2>4
<1>2. ASSUME NEW c \in Calls, Estimate(c) \/ ResolveJettonWallet(c) \/ Load(c)
      PROVE  Turns!GiveUp(c) \/ UNCHANGED <<Holders, seen, Outcome, sent, applied, seqno>>
  <2>1. /\ pc[c] \in AtAwait \ {"read"} /\ UNCHANGED account
        /\ (\E how \in {"load", "send"} : Goto(c, how) /\ UNCHANGED seen) \/ End(c, "failed")
    BY <1>2 DEF Estimate, GaslessValidateJetton, ResolveJettonWallet, Load, AtAwait
  <2>2. pc[c] = "estimate" => c \notin Guarded
    BY DEF GuardInv, LockHeld, Holders
  <2> QED BY <2>1, <2>2, WaitsInTurn, FailureGivesUp
<1>3. ASSUME NEW c \in Calls, TimesOut(c) \/ Raises(c) PROVE Turns!GiveUp(c)
  BY <1>3, FailureGivesUp DEF TimesOut, Raises, AtAwait
<1>4. ASSUME NEW c \in Calls, Apply(c) PROVE Turns!Execute(c)
  <2>1. /\ c \in pool /\ applied' = applied \cup {c} /\ seqno' \in {seqno, seqno + 1}
        /\ UNCHANGED <<pc, seen, sent>>
    BY <1>4 DEF Apply, calls
  <2> QED BY <2>1, GuardTypes DEF Turns!Execute, Holders, Outcome
<1>5. ASSUME NEW c \in Calls, RunLevel(c) \/ Expire(c)
      PROVE  UNCHANGED <<Holders, seen, Outcome, sent, applied, seqno>>
  BY <1>5 DEF RunLevel, Expire, calls, Holders, Outcome
<1>6. CASE UNCHANGED <<calls, account>>
  BY <1>6 DEF calls, account, Holders, Outcome
<1>7. CASE \E c \in Calls : ReadSeqno(c) \/ Send(c) \/ Lost(c) \/ Poll(c)
  BY <1>7, ReadTakesTurn, SendPosts, PollConfirms DEF Turns!Next
<1>8. CASE \E c \in Calls :
             \/ Begin(c) \/ Estimate(c) \/ ResolveJettonWallet(c) \/ Load(c)
             \/ TimesOut(c) \/ Raises(c) \/ Apply(c) \/ RunLevel(c) \/ Expire(c)
  BY <1>8, <1>1, <1>2, <1>3, <1>4, <1>5 DEF Turns!Next
<1> QED BY <1>6, <1>7, <1>8
        DEF Next, vars, FromPrivateKey, FromStateInit, FromAddress, FromMnemonic

(* Whatever fails, is lost, is cancelled or goes around the guard, guarded *)
(* transfers take turns: each is posted once at most and by its turn only, *)
(* and is reported as sent only if it was posted and the wallet has made a *)
(* transaction since the turn began (guard.py:17-21 and 61-67).            *)
THEOREM GuardSendsInTurn == Spec => Turns!Spec
<1>1. Init => Turns!Init
  <2> SUFFICES ASSUME Init PROVE Turns!Init
    OBVIOUS
  <2>1. Holders = {} /\ Outcome = [c \in Calls |-> "open"]
    BY WalletAssumption DEF Init, Holders, Outcome, Ended
  <2> QED BY <2>1 DEF Init, Turns!Init
<1>2. Init => GuardedPoll
  BY DEF Init, GuardedPoll
<1>3. Spec => []GuardedPoll
  BY <1>2, GuardInvariant, GuardedPollStays, PTL DEF Spec
<1> QED BY <1>1, <1>3, GuardInvariant, TurnStep, PTL DEF Spec, Turns!Spec
------------------------------------------------------------------------------
(* Batches.                                                                *)

LEMMA LevelsFacts ==
  ASSUME NEW v \in Versions, NEW n \in Nat
  PROVE  /\ Levels(v, n) \in Seq(Nat) /\ Levels(v, n) # <<>> /\ Total[Levels(v, n)] = n
         /\ n <= MaxMessages[v] =>
              \A i \in DOMAIN Levels(v, n) : LevelActions(Levels(v, n), i) <= 255
<1>1. CASE v = "hw3"
  <2>1. /\ Packs[n] \in Seq(Nat) /\ Total[Packs[n]] = n
        /\ \A i \in DOMAIN Packs[n] : Packs[n][i] <= PackSize
        /\ Packs[n] = IF n > PackSize THEN <<PackSize>> \o Packs[n - PackSize] ELSE <<n>>
    BY PacksFacts, PacksAddUp
  <2>2. Packs[n] # <<>>
    <3>1. CASE n > PackSize
      <4>1. n - PackSize \in Nat
        BY <3>1 DEF PackSize
      <4>2. Packs[n - PackSize] \in Seq(Nat)
        BY <4>1, PacksFacts
      <4> QED BY <2>1, <3>1, <4>2 DEF PackSize
    <3>2. CASE ~(n > PackSize)
      BY <2>1, <3>2
    <3> QED BY <3>1, <3>2
  <2>3. \A i \in DOMAIN Packs[n] : Packs[n][i] + 1 <= 255 /\ Packs[n][i] + 0 <= 255
    BY <2>1 DEF PackSize
  <2> QED BY <1>1, <2>1, <2>2, <2>3 DEF Levels, LevelActions
<1>2. CASE v # "hw3"
  <2>1. Levels(v, n) = <<n>>
    BY <1>2 DEF Levels
  <2>2. <<n>> \in Seq(Nat) /\ <<n>> # <<>> /\ Head(<<n>>) = n /\ Tail(<<n>>) = <<>>
    OBVIOUS
  <2>3. Total[<<n>>] = n + 0
    BY <2>2, TotalFacts
  <2>4. MaxMessages[v] <= 255
    BY <1>2 DEF Versions, Fields, MaxMessages
  <2>5. MaxMessages[v] \in Nat
    BY DEF Versions, Fields, MaxMessages
  <2>6. n <= MaxMessages[v] => n <= 255
    BY <2>4, <2>5
  <2>7. \A i \in DOMAIN <<n>> : LevelActions(<<n>>, i) = n
    BY DEF LevelActions
  <2> QED BY <2>1, <2>2, <2>3, <2>6, <2>7
<1> QED BY <1>1, <1>2

LEMMA BatchTypes ==
  ASSUME GuardInv
  PROVE  version \in Versions /\ \A c \in Calls : Batch[version][c] \in Nat
BY WalletAssumption DEF GuardInv, TypeOK

(* The message is that of the batch when it is signed, and stays so.       *)
LEMMA SignedKeeps == GuardInv /\ BatchSigned /\ [Next]_vars => BatchSigned'
<1> SUFFICES ASSUME GuardInv, BatchSigned, [Next]_vars PROVE BatchSigned'
  OBVIOUS
<1>1. version' = version
  BY DEF Next, vars, object, FromPrivateKey, FromStateInit, FromAddress, FromMnemonic, Begin, ReadSeqno,
         Estimate, ResolveJettonWallet, Load, Send, Lost, Poll, TimesOut, Raises, Apply, RunLevel, Expire
<1>2. ASSUME UNCHANGED msg,
             \A d \in Calls : pc'[d] = "send" \/ d \in sent' => pc[d] = "send" \/ d \in sent
      PROVE  BatchSigned'
  BY <1>1, <1>2 DEF BatchSigned
<1>3. ASSUME NEW c \in Calls, NEW how, how # "send", pc' = [pc EXCEPT ![c] = how],
             UNCHANGED <<msg, sent>>
      PROVE  BatchSigned'
  BY <1>2, <1>3, GuardTypes
<1>4. ASSUME NEW c \in Calls, Load(c) PROVE BatchSigned'
  <2>1. CASE ~CanSign(c)
    BY <1>3, <1>4, <2>1 DEF Load, End, account
  <2>2. CASE CanSign(c)
    BY <1>1, <1>4, <2>2, GuardTypes
       DEF Load, CanSign, Goto, ExternalMessage, BatchSigned, account, GuardInv
  <2> QED BY <2>1, <2>2
<1>5. ASSUME NEW c \in Calls, Send(c) \/ Lost(c) PROVE BatchSigned'
  <2>1. pc[c] = "send" /\ sent' = sent \cup {c} /\ UNCHANGED msg
    BY <1>5 DEF Send, Lost, Taken, End
  <2>2. \E how \in {"poll", "ok", "failed"} : pc' = [pc EXCEPT ![c] = how]
    BY <1>5 DEF Send, Lost, End, Goto
  <2> QED BY <1>2, <2>1, <2>2, GuardTypes
<1>6. ASSUME NEW c \in Calls,
             Begin(c) \/ ReadSeqno(c) \/ Estimate(c) \/ ResolveJettonWallet(c)
      PROVE  BatchSigned'
  BY <1>3, <1>6
     DEF Begin, ReadSeqno, Estimate, GaslessValidateJetton, ResolveJettonWallet, Goto, End, account
<1>7. ASSUME NEW c \in Calls, TimesOut(c) \/ Raises(c) \/ Poll(c) PROVE BatchSigned'
  <2>1. CASE UNCHANGED calls
    BY <1>2, <1>7, <2>1 DEF TimesOut, Raises, Poll, calls, account
  <2>2. ASSUME NEW how, how # "send", End(c, how) PROVE BatchSigned'
    BY <1>3, <1>7, <2>2 DEF TimesOut, Raises, Poll, End, account
  <2> QED BY <1>7, <2>1, <2>2 DEF TimesOut, Raises, Poll
<1>8. CASE UNCHANGED <<calls, sent>>
  BY <1>2, <1>8 DEF calls
<1> QED BY <1>4, <1>5, <1>6, <1>7, <1>8
        DEF Next, vars, account, FromPrivateKey, FromStateInit, FromAddress, FromMnemonic, Apply,
            RunLevel, Expire

(* What an applied batch has delivered and what it still has to are the    *)
(* batch.                                                                  *)
LEMMA AddsKeeps == GuardInv /\ BatchSigned /\ BatchAdds /\ [Next]_vars => BatchAdds'
<1> SUFFICES ASSUME GuardInv, BatchSigned, BatchAdds, [Next]_vars PROVE BatchAdds'
  OBVIOUS
<1>1. version' = version
  BY DEF Next, vars, object, FromPrivateKey, FromStateInit, FromAddress, FromMnemonic, Begin, ReadSeqno,
         Estimate, ResolveJettonWallet, Load, Send, Lost, Poll, TimesOut, Raises, Apply, RunLevel, Expire
<1>2. CASE UNCHANGED <<inner, delivered, applied>>
  BY <1>1, <1>2 DEF BatchAdds
<1>3. ASSUME NEW c \in Calls, Apply(c) PROVE BatchAdds'
  <2> DEFINE levels == msg[c].levels
             n == Batch[version][c]
  <2>1. levels = Levels(version, n) /\ n \in Nat /\ version \in Versions
    BY <1>3, GuardTypes, BatchTypes DEF Apply, BatchSigned
  <2>2. levels \in Seq(Nat) /\ levels # <<>> /\ Total[levels] = n
    BY <2>1, LevelsFacts
  <2>3. /\ delivered' = [delivered EXCEPT ![c] = Head(levels)]
        /\ inner' = [inner EXCEPT ![c] = Tail(levels)] /\ applied' = applied \cup {c}
    BY <1>3 DEF Apply
  <2> HIDE DEF levels, n
  <2>4. Head(levels) \in Nat /\ Tail(levels) \in Seq(Nat)
    BY <2>2
  <2>5. Head(levels) + Total[Tail(levels)] = n
    BY <2>2, TotalFacts
  <2> QED BY <1>1, <2>3, <2>4, <2>5 DEF BatchAdds, n
<1>4. ASSUME NEW c \in Calls, RunLevel(c) PROVE BatchAdds'
  <2>1. /\ inner[c] \in Seq(Nat) /\ inner[c] # <<>> /\ delivered[c] \in Nat
        /\ delivered' = [delivered EXCEPT ![c] = delivered[c] + Head(inner[c])]
        /\ inner' = [inner EXCEPT ![c] = Tail(inner[c])] /\ UNCHANGED applied
    BY <1>4 DEF RunLevel, BatchAdds
  <2>2. Head(inner[c]) \in Nat /\ Tail(inner[c]) \in Seq(Nat)
    BY <2>1
  <2>3. Total[inner[c]] = Head(inner[c]) + Total[Tail(inner[c])] /\ Total[Tail(inner[c])] \in Nat
    BY <2>1, <2>2, TotalFacts
  <2>4. (delivered[c] + Head(inner[c])) + Total[Tail(inner[c])] = delivered[c] + Total[inner[c]]
    <3> DEFINE head == Head(inner[c])
               rest == Total[Tail(inner[c])]
    <3>1. delivered[c] \in Nat /\ head \in Nat /\ rest \in Nat /\ Total[inner[c]] = head + rest
      BY <2>1, <2>2, <2>3
    <3> HIDE DEF head, rest
    <3>2. (delivered[c] + head) + rest = delivered[c] + Total[inner[c]]
      BY <3>1
    <3> QED BY <3>2 DEF head, rest
  <2>5. inner' \in [Calls -> Seq(Nat)] /\ delivered' \in [Calls -> Nat]
    BY <2>1, <2>2 DEF BatchAdds
  <2>6. ASSUME NEW d \in applied
        PROVE  delivered'[d] + Total[inner'[d]] = delivered[d] + Total[inner[d]]
    BY <2>1, <2>4, GuardTypes DEF BatchAdds
  <2> QED BY <1>1, <2>1, <2>5, <2>6 DEF BatchAdds
<1> QED BY <1>2, <1>3, <1>4
        DEF Next, vars, account, FromPrivateKey, FromStateInit, FromAddress, FromMnemonic, Begin,
            ReadSeqno, Estimate, ResolveJettonWallet, Load, Send, Taken, Lost, Poll, TimesOut, Raises,
            Expire

(* Whatever the size of a batch, every level of it is one transaction's    *)
(* actions at most, and nothing of it is lost or repeated between levels.  *)
THEOREM BatchAlwaysDelivered == Spec => []BatchDelivered
<1>1. Init => BatchInv
  <2>1. ASSUME Init PROVE BatchSigned /\ BatchAdds
    BY <2>1 DEF Init, BatchSigned, BatchAdds
  <2> QED BY <2>1, GuardInitially DEF BatchInv
<1>2. BatchInv /\ [Next]_vars => BatchInv'
  BY GuardInductive, SignedKeeps, AddsKeeps DEF BatchInv
<1>3. BatchInv => BatchDelivered
  <2> SUFFICES ASSUME BatchInv, NEW c \in applied
               PROVE  /\ delivered[c] + Total[inner[c]] = Batch[version][c]
                      /\ \A i \in DOMAIN msg[c].levels : LevelActions(msg[c].levels, i) <= 255
    BY DEF BatchDelivered
  <2>1. c \in Calls /\ c \in sent
    BY GuardTypes DEF BatchInv
  <2>2. /\ msg[c].levels = Levels(version, Batch[version][c])
        /\ Batch[version][c] <= MaxMessages[version]
    BY <2>1 DEF BatchInv, BatchSigned
  <2>3. version \in Versions /\ Batch[version][c] \in Nat
    BY <2>1, BatchTypes DEF BatchInv
  <2>4. \A i \in DOMAIN msg[c].levels : LevelActions(msg[c].levels, i) <= 255
    BY <2>2, <2>3, LevelsFacts
  <2>5. delivered[c] + Total[inner[c]] = Batch[version][c]
    BY DEF BatchInv, BatchAdds
  <2> QED BY <2>4, <2>5
<1> QED BY <1>1, <1>2, <1>3, PTL DEF Spec
==============================================================================
