-------------------------- MODULE RateLimiterProofs --------------------------
(***************************************************************************)
(* Theorems about RateLimiter, for every rate, every period and every set  *)
(* of callers.  The inductive invariant is IInv: the types, the count of   *)
(* registered waiters, and the two facts about waits that NoLostWakeup and *)
(* TimersAccurate state.  They are inductive only together: an untimed     *)
(* wait is safe because the counter is exact, and a timer stays right      *)
(* because whoever lowers the level notifies every sleeper.                *)
(***************************************************************************)
EXTENDS RateLimiter, FiniteSetTheorems, TLAPS

LEMMA ConstantFacts ==
  /\ Unit \in Nat \ {0}
  /\ Capacity \in Nat
  /\ Unit <= Capacity
  /\ \A x \in Nat : Capped(x) \in 0..Capacity
<1>1. MaxRate * Period \in Nat /\ Period <= MaxRate * Period
  <2>1. MaxRate \in Nat /\ Period \in Nat /\ MaxRate >= 1 /\ Period >= 1
    BY RateAssumption
  <2> QED BY <2>1, SMT
<1> QED BY <1>1, RateAssumption DEF Unit, Capacity, Capped

LEMMA LevelType == TypeOK => Level \in 0..Capacity
<1>1. ASSUME TypeOK PROVE elapsed * MaxRate \in Nat
  BY <1>1, RateAssumption, SMT DEF TypeOK
<1>2. ASSUME TypeOK PROVE tokens \in Nat
  BY <1>2, ConstantFacts DEF TypeOK
<1> QED BY <1>1, <1>2, ConstantFacts DEF Level

(* How each kind of step moves the level: a token taken is a token less,   *)
(* a refill on the books changes nothing, a tick adds MaxRate up to the    *)
(* capacity - although the code adds nothing until the next acquisition.   *)
LEMMA LevelTaken ==
  TypeOK /\ Level >= Unit /\ tokens' = Level - Unit /\ elapsed' = 0 => Level' = Level - Unit
<1> SUFFICES ASSUME TypeOK, Level >= Unit, tokens' = Level - Unit, elapsed' = 0
             PROVE  Level' = Level - Unit
  OBVIOUS
<1>1. Level \in 0..Capacity /\ Unit \in Nat /\ Capacity \in Nat
  BY LevelType, ConstantFacts
<1>2. elapsed' * MaxRate = 0
  BY RateAssumption, SMT
<1> QED BY <1>1, <1>2 DEF Level, Capped, Capacity, Unit

LEMMA LevelRefilled == TypeOK /\ Refill => Level' = Level
<1> SUFFICES ASSUME TypeOK, Refill PROVE Level' = Level
  OBVIOUS
<1>1. Level \in 0..Capacity /\ Capacity \in Nat
  BY LevelType, ConstantFacts
<1>2. elapsed' * MaxRate = 0
  BY RateAssumption, SMT DEF Refill
<1> QED BY <1>1, <1>2 DEF Refill, Level, Capped, Capacity, Unit

LEMMA LevelTicked == TypeOK /\ Tick => Level' = Capped(Level + MaxRate)
<1> SUFFICES ASSUME TypeOK, Tick PROVE Level' = Capped(Level + MaxRate)
  OBVIOUS
<1> DEFINE E == elapsed * MaxRate
<1>1. tokens \in Nat /\ Capacity \in Nat /\ MaxRate \in Nat /\ E \in Nat
  BY ConstantFacts, RateAssumption, SMT DEF TypeOK
<1>2. CASE elapsed < Period
  <2>1. elapsed' * MaxRate = E + MaxRate
    BY <1>2, RateAssumption, SMT DEF TypeOK, Tick
  <2>2. tokens' = tokens
    BY DEF Tick
  <2> HIDE DEF E
  <2> QED BY <1>1, <2>1, <2>2 DEF Level, Capped, Capacity, E
<1>3. CASE ~(elapsed < Period)
  <2>1. elapsed = Period /\ elapsed' = elapsed /\ tokens' = tokens
    BY <1>3, RateAssumption DEF TypeOK, Tick
  <2>2. E = Capacity
    BY <2>1, RateAssumption, SMT DEF Capacity
  <2> HIDE DEF E
  <2> QED BY <1>1, <2>1, <2>2 DEF Level, Capped, Capacity, E
<1> QED BY <1>2, <1>3

(* A tick brings the next token one tick nearer. *)
LEMMA CeilDivStep ==
  ASSUME NEW a \in Nat, NEW m \in Nat \ {0}
  PROVE  /\ CeilDiv(a, m) \in Nat
         /\ a > 0 => CeilDiv(a, m) > 0
         /\ a > 0 /\ a <= m => CeilDiv(a, m) = 1
         /\ a > m => CeilDiv(a - m, m) = CeilDiv(a, m) - 1
  BY SMTT(60) DEF CeilDiv

LEMMA TicksTicked ==
  TypeOK /\ Tick =>
    /\ TicksToToken \in Nat
    /\ TicksToToken' = IF TicksToToken > 0 THEN TicksToToken - 1 ELSE 0
<1> SUFFICES ASSUME TypeOK, Tick
             PROVE  /\ TicksToToken \in Nat
                    /\ TicksToToken' = IF TicksToToken > 0 THEN TicksToToken - 1 ELSE 0
  OBVIOUS
<1>1. /\ Level \in 0..Capacity /\ Level' = Capped(Level + MaxRate)
      /\ Unit \in Nat \ {0} /\ Capacity \in Nat /\ Unit <= Capacity
      /\ MaxRate \in Nat \ {0} /\ UNCHANGED <<Unit, MaxRate>>
  BY LevelType, LevelTicked, ConstantFacts, RateAssumption DEF Unit
<1>2. CASE Level >= Unit
  BY <1>1, <1>2 DEF TicksToToken, Capped, Capacity
<1>3. CASE Level < Unit /\ Unit - Level <= MaxRate
  <2>1. TicksToToken = 1
    BY <1>1, <1>3, CeilDivStep DEF TicksToToken
  <2>2. Level' >= Unit
    BY <1>1, <1>3 DEF Capped, Capacity
  <2> QED BY <1>1, <2>1, <2>2 DEF TicksToToken
<1>4. CASE Level < Unit /\ Unit - Level > MaxRate
  <2> DEFINE a == Unit - Level
  <2>1. a \in Nat /\ a > MaxRate
    BY <1>1, <1>4
  <2>2. Level' = Level + MaxRate
    BY <1>1, <1>4 DEF Capped, Capacity
  <2>3. TicksToToken = CeilDiv(a, MaxRate) /\ TicksToToken' = CeilDiv(a - MaxRate, MaxRate)
    BY <1>1, <1>4, <2>2 DEF TicksToToken, CeilDiv, Unit
  <2>4. /\ CeilDiv(a, MaxRate) \in Nat /\ CeilDiv(a, MaxRate) > 0
        /\ CeilDiv(a - MaxRate, MaxRate) = CeilDiv(a, MaxRate) - 1
    <3> HIDE DEF a
    <3> QED BY <1>1, <2>1, CeilDivStep
  <2> QED BY <2>3, <2>4
<1> QED BY <1>1, <1>2, <1>3, <1>4
------------------------------------------------------------------------------
IInv == TypeOK /\ WaiterAccounting /\ NoLostWakeup /\ TimersAccurate

(* A registration, and giving one up, keep the counter exact. *)
LEMMA RegistrationCounted ==
  ASSUME TypeOK, WaiterAccounting, NEW t \in Tasks
  PROVE  /\ IsFiniteSet(registered)
         /\ priorityWaiters \in Nat
         /\ (priorityWaiters = 0) <=> (registered = {})
         /\ t \in registered => Cardinality(registered \ {t}) = priorityWaiters - 1
         /\ t \notin registered => Cardinality(registered \cup {t}) = priorityWaiters + 1
<1>1. IsFiniteSet(registered)
  BY TaskAssumption, FS_Subset DEF TypeOK
<1> QED BY <1>1, FS_CardinalityType, FS_EmptySet, FS_AddElement, FS_RemoveElement
        DEF WaiterAccounting

LEMMA DeregisterStep ==
  ASSUME TypeOK, WaiterAccounting, NEW t \in Tasks, Deregister(t)
  PROVE  /\ registered' = registered \ {t} /\ registered' \subseteq Priority
         /\ priorityWaiters' \in Int
         /\ priorityWaiters' = Cardinality(registered')
<1>1. CASE t \in registered
  <2>1. priorityWaiters \in Nat /\ Cardinality(registered \ {t}) = priorityWaiters - 1
    BY <1>1, RegistrationCounted
  <2>2. registered' = registered \ {t} /\ priorityWaiters' = priorityWaiters - 1
    BY <1>1 DEF Deregister
  <2> QED BY <2>1, <2>2 DEF TypeOK
<1>2. CASE t \notin registered
  BY <1>2 DEF Deregister, TypeOK, WaiterAccounting
<1> QED BY <1>1, <1>2

LEMMA TicksType == TypeOK => TicksToToken \in Nat
<1> SUFFICES ASSUME TypeOK, Level < Unit PROVE CeilDiv(Unit - Level, MaxRate) \in Nat
  BY LevelType, ConstantFacts DEF TicksToToken
<1>1. Unit - Level \in Nat
  BY LevelType, ConstantFacts
<1> QED BY <1>1, RateAssumption, CeilDivStep

LEMMA InitIInv == Init => IInv
<1> SUFFICES ASSUME Init PROVE IInv
  OBVIOUS
<1>1. TypeOK
  BY ConstantFacts, RateAssumption DEF Init, TypeOK
<1>2. WaiterAccounting
  BY FS_EmptySet DEF Init, WaiterAccounting, Waiting
<1> QED BY <1>1, <1>2 DEF Init, IInv, NoLostWakeup, TimersAccurate

LEMMA TakeIInv == \A t \in Tasks : IInv /\ Take(t) => IInv'
<1> SUFFICES ASSUME NEW t \in Tasks, IInv, Take(t) PROVE IInv'
  OBVIOUS
<1>1. TypeOK /\ WaiterAccounting
  BY DEF IInv
<1>2. Level' = Level - Unit /\ tokens' = Level - Unit /\ Level - Unit \in 0..Capacity
  BY <1>1, LevelTaken, LevelType, ConstantFacts DEF Take, CanTake
<1>3. /\ registered' = registered \ {t} /\ registered' \subseteq Priority
      /\ priorityWaiters' \in Int /\ priorityWaiters' = Cardinality(registered')
  BY <1>1, DeregisterStep DEF Take
<1>4. pc' = NotifyAll(t) /\ timer' = timer /\ elapsed' = 0
  BY DEF Take
<1>5. TypeOK'
  BY <1>1, <1>2, <1>3, <1>4, RateAssumption DEF TypeOK, NotifyAll, Waits, Capacity
<1>6. WaiterAccounting'
  BY <1>1, <1>3, <1>4 DEF WaiterAccounting, Waiting, NotifyAll, Tasks, Waits, TypeOK
<1>7. \A u \in Tasks : pc'[u] \notin Waits
  BY <1>1, <1>4 DEF NotifyAll, Waits, TypeOK
<1> QED BY <1>5, <1>6, <1>7 DEF IInv, NoLostWakeup, TimersAccurate, Waits

LEMMA CancelIInv == \A t \in Tasks : IInv /\ Cancel(t) => IInv'
<1> SUFFICES ASSUME NEW t \in Tasks, IInv, Cancel(t) PROVE IInv'
  OBVIOUS
<1>1. TypeOK /\ WaiterAccounting /\ NoLostWakeup /\ TimersAccurate
  BY DEF IInv
<1>2. /\ registered' = registered \ {t} /\ registered' \subseteq Priority
      /\ priorityWaiters' \in Int /\ priorityWaiters' = Cardinality(registered')
  BY <1>1, DeregisterStep DEF Cancel
<1>3. tokens' = tokens /\ elapsed' = elapsed /\ timer' = timer
  BY DEF Cancel
<1>4. Level' = Level /\ TicksToToken' = TicksToToken
  BY <1>3 DEF Level, TicksToToken, Capped, Capacity, CeilDiv, Unit
<1>5. pc' \in [Tasks -> Waits \cup {"idle", "woken"}]
  BY <1>1 DEF Cancel, NotifyAll, TypeOK, Waits
<1>6. \A u \in Tasks : (pc'[u] # "idle") <=> (pc[u] # "idle" /\ u # t)
  BY <1>1 DEF Cancel, NotifyAll, TypeOK, Waits
<1>7. TypeOK'
  BY <1>1, <1>2, <1>3, <1>5 DEF TypeOK, Capacity
<1>8. WaiterAccounting'
  BY <1>1, <1>2, <1>6 DEF WaiterAccounting, Waiting, Tasks
<1>9. NoLostWakeup' /\ TimersAccurate'
  <2>1. CASE t \in registered
    <3>1. \A u \in Tasks : pc'[u] \notin Waits
      BY <1>1, <2>1 DEF Cancel, NotifyAll, Waits, TypeOK
    <3> QED BY <3>1 DEF NoLostWakeup, TimersAccurate, Waits
  <2>2. CASE t \notin registered
    <3>1. pc' = [pc EXCEPT ![t] = "idle"] /\ priorityWaiters' = priorityWaiters
      BY <2>2 DEF Cancel, Deregister
    <3>2. \A u \in Tasks : pc'[u] \in Waits => pc'[u] = pc[u]
      BY <3>1, <1>1 DEF TypeOK, Waits
    <3> QED BY <1>1, <1>3, <1>4, <3>1, <3>2 DEF NoLostWakeup, TimersAccurate, Waits
  <2> QED BY <2>1, <2>2
<1> QED BY <1>7, <1>8, <1>9 DEF IInv

LEMMA TickIInv == IInv /\ Tick => IInv'
<1> SUFFICES ASSUME IInv, Tick PROVE IInv'
  OBVIOUS
<1>1. TypeOK /\ WaiterAccounting /\ NoLostWakeup /\ TimersAccurate
  BY DEF IInv
<1>2. UNCHANGED <<tokens, priorityWaiters, registered, pc>>
  BY DEF Tick
<1>3. TypeOK'
  <2>1. elapsed' \in 0..Period
    BY <1>1, RateAssumption DEF Tick, TypeOK
  <2>2. timer' \in [Tasks -> Nat]
    BY <1>1 DEF Tick, TypeOK
  <2> QED BY <1>1, <1>2, <2>1, <2>2 DEF TypeOK, Capacity, Waits
<1>4. WaiterAccounting' /\ NoLostWakeup'
  BY <1>1, <1>2 DEF WaiterAccounting, NoLostWakeup, Waiting
<1>5. TimersAccurate'
  BY <1>1, <1>2, TicksTicked DEF TimersAccurate, Tick
<1> QED BY <1>3, <1>4, <1>5 DEF IInv

(* Parking: the level stays, and so does every other waiter's timer.  The  *)
(* task enters the untimed wait only when a token is there and it is held  *)
(* back, which takes a normal task and a registered priority one.          *)
LEMMA ParkIInv == \A t \in Tasks : IInv /\ Park(t) => IInv'
<1> SUFFICES ASSUME NEW t \in Tasks, IInv, Park(t) PROVE IInv'
  OBVIOUS
<1>1. TypeOK /\ WaiterAccounting /\ NoLostWakeup /\ TimersAccurate
  BY DEF IInv
<1>0. /\ priorityWaiters \in Nat
      /\ (priorityWaiters = 0) <=> (registered = {})
      /\ t \notin registered => Cardinality(registered \cup {t}) = priorityWaiters + 1
  BY <1>1, RegistrationCounted
<1>2. Level' = Level /\ TicksToToken' = TicksToToken /\ TicksToToken \in Nat
  <2>1. Level' = Level
    BY <1>1, LevelRefilled DEF Park
  <2> QED BY <1>1, <2>1, TicksType DEF TicksToToken, CeilDiv, Unit
<1>3. tokens' \in 0..Capacity /\ elapsed' = 0
  BY <1>1, LevelType DEF Park, Refill
<1>4. /\ registered' \subseteq Priority
      /\ t \in Priority => registered' = registered \cup {t}
      /\ t \notin Priority => registered' = registered /\ priorityWaiters' = priorityWaiters
  BY <1>1 DEF Park, TypeOK
<1>5. priorityWaiters' \in Nat /\ priorityWaiters' = Cardinality(registered')
  <2>1. CASE t \in Priority \ registered
    <3>1. registered' = registered \cup {t} /\ priorityWaiters' = priorityWaiters + 1
      BY <2>1 DEF Park
    <3> QED BY <1>0, <2>1, <3>1
  <2>2. CASE t \notin Priority \ registered
    <3>1. registered' = registered /\ priorityWaiters' = priorityWaiters
      BY <2>2, <1>1 DEF Park, TypeOK
    <3> QED BY <3>1, <1>0, <1>1 DEF WaiterAccounting
  <2> QED BY <2>1, <2>2
<1>6. /\ pc' = [pc EXCEPT ![t] = IF TicksToToken > 0 THEN "timed" ELSE "untimed"]
      /\ timer' = [timer EXCEPT ![t] = TicksToToken]
  BY DEF Park
<1>7. TypeOK'
  BY <1>1, <1>2, <1>3, <1>4, <1>5, <1>6, RateAssumption DEF TypeOK, Capacity, Waits
<1>8. WaiterAccounting'
  <2>1. \A u \in Tasks : pc'[u] # "idle" <=> (pc[u] # "idle" \/ u = t)
    BY <1>1, <1>6 DEF TypeOK, Waits
  <2> QED BY <1>1, <1>4, <1>5, <2>1 DEF WaiterAccounting, Waiting, Tasks
<1>9. NoLostWakeup'
  <2>1. CASE pc[t] = "untimed" \/ \E u \in Tasks \ {t} : pc'[u] = "untimed"
    <3>1. \E u \in Tasks : pc[u] = "untimed"
      BY <2>1, <1>1, <1>6 DEF TypeOK
    <3>2. registered # {}
      BY <3>1, <1>0, <1>1 DEF NoLostWakeup
    <3>3. registered' # {}
      BY <3>2, <1>4
    <3> QED BY <3>3, <1>5, <1>7, <1>8, RegistrationCounted, TaskAssumption, FS_Subset,
               FS_EmptySet DEF NoLostWakeup, TypeOK
  <2>2. CASE pc'[t] = "untimed"
    <3>1. TicksToToken = 0 /\ Level >= Unit
      <4>1. TicksToToken = 0
        BY <2>2, <1>1, <1>2, <1>6 DEF TypeOK
      <4> QED BY <4>1, <1>1, LevelType, ConstantFacts, RateAssumption, CeilDivStep
              DEF TicksToToken
    <3>2. t \notin Priority /\ priorityWaiters # 0
      BY <3>1 DEF Park, CanTake
    <3> QED BY <3>2, <1>0, <1>4 DEF NoLostWakeup
  <2> QED BY <2>1, <2>2 DEF NoLostWakeup
<1>10. TimersAccurate'
  BY <1>1, <1>2, <1>6 DEF TimersAccurate, TypeOK
<1> QED BY <1>7, <1>8, <1>9, <1>10 DEF IInv

(* The types, the exact count of registered waiters, no lost wakeup and    *)
(* accurate timers hold together in every reachable state.                 *)
THEOREM InductiveInvariant == Spec => []IInv
<1>1. IInv /\ [Next]_vars => IInv'
  <2> SUFFICES ASSUME IInv, [Next]_vars PROVE IInv'
    OBVIOUS
  <2>1. CASE Tick
    BY <2>1, TickIInv
  <2>2. ASSUME NEW t \in Tasks, Take(t) \/ Park(t) \/ Cancel(t) PROVE IInv'
    BY <2>2, TakeIInv, ParkIInv, CancelIInv
  <2>3. CASE UNCHANGED vars
    BY <2>3 DEF vars, IInv, TypeOK, WaiterAccounting, NoLostWakeup, TimersAccurate, Waiting,
                TicksToToken, Level, Capped, CeilDiv, Capacity, Unit, Waits
  <2> QED BY <2>1, <2>2, <2>3 DEF Next
<1> QED BY InitIInv, <1>1, PTL DEF Spec

(* Every reachable state has the types of TypeOK: tokens within the        *)
(* capacity, a finite counter, registered callers all priority ones.       *)
THEOREM TypeCorrect == Spec => []TypeOK
BY InductiveInvariant, PTL DEF IInv

(* _priority_waiters is the number of priority callers inside a wait.      *)
THEOREM WaitersAccounted == Spec => []WaiterAccounting
BY InductiveInvariant, PTL DEF IInv

(* Nobody sleeps without a timeout unless a registered priority caller is  *)
(* there to wake it.                                                       *)
THEOREM WakeupsNotLost == Spec => []NoLostWakeup
BY InductiveInvariant, PTL DEF IInv

(* A sleeper's timeout expires exactly when the bucket regains a token.    *)
THEOREM TimersStayAccurate == Spec => []TimersAccurate
BY InductiveInvariant, PTL DEF IInv

(* A normal caller takes a token only when no priority caller waits.       *)
THEOREM PriorityFirst == Spec => NormalNeverOvertakes
<1>1. IInv /\ [Next]_vars =>
        [\A t \in Normal : Take(t) => \A p \in Priority : pc[p] = "idle"]_vars
  <2> SUFFICES ASSUME IInv, NEW t \in Normal, Take(t), NEW p \in Priority
               PROVE  pc[p] = "idle"
    OBVIOUS
  <2>1. t \in Tasks /\ t \notin Priority /\ p \in Tasks
    BY TaskAssumption DEF Tasks
  <2>2. TypeOK /\ WaiterAccounting
    BY DEF IInv
  <2>3. priorityWaiters = 0
    BY <2>1 DEF Take, CanTake
  <2>4. registered = {}
    BY <2>1, <2>2, <2>3, RegistrationCounted
  <2> QED BY <2>1, <2>2, <2>4 DEF WaiterAccounting, Waiting
<1> QED BY <1>1, InductiveInvariant, PTL DEF Spec, NormalNeverOvertakes

(* The lazily refilled limiter implements the bucket that is refilled at   *)
(* every instant: taking is Grant, a tick is Tick, all else stutters.      *)
LEMMA StepSimulation == TypeOK /\ [Next]_vars => [Bucket!Next]_Level
<1> SUFFICES ASSUME TypeOK, [Next]_vars PROVE [Bucket!Next]_Level
  OBVIOUS
<1> USE DEF Bucket!Next, Bucket!Tick, Bucket!Grant, Bucket!Capped, Bucket!Capacity, Bucket!Unit
<1>1. CASE Tick
  BY <1>1, LevelTicked DEF Capped, Capacity
<1>2. ASSUME NEW t \in Tasks, Take(t) PROVE Bucket!Grant
  BY <1>2, LevelTaken DEF Take, CanTake, Unit
<1>3. ASSUME NEW t \in Tasks, Park(t) PROVE Level' = Level
  BY <1>3, LevelRefilled DEF Park
<1>4. ASSUME NEW t \in Tasks, Cancel(t) PROVE Level' = Level
  BY <1>4 DEF Cancel, Level, Capped, Capacity
<1>5. CASE UNCHANGED vars
  BY <1>5 DEF vars, Level, Capped, Capacity
<1> QED BY <1>1, <1>2, <1>3, <1>4, <1>5 DEF Next

(* No interleaving of callers draws more than the configured rate allows:  *)
(* every behaviour of the limiter is one of the bucket.                    *)
THEOREM Refinement == Spec => ImplementsBucket
<1>1. Init => Bucket!Init
  <2>1. 0 * MaxRate = 0
    BY RateAssumption, SMT
  <2> QED BY <2>1, ConstantFacts DEF Init, Level, Capped, Capacity, Bucket!Init, Bucket!Capacity
<1> QED BY <1>1, StepSimulation, TypeCorrect, PTL DEF Spec, ImplementsBucket, Bucket!Spec
------------------------------------------------------------------------------
(* The rate bound itself, over the history of a run: how many ticks passed *)
(* and how many acquisitions were granted.                                 *)
VARIABLES ticks, grants

hvars == <<vars, ticks, grants>>

HInit == Init /\ ticks = 0 /\ grants = 0

HTick == Tick /\ ticks' = ticks + 1 /\ grants' = grants
HTake(t) == Take(t) /\ grants' = grants + 1 /\ ticks' = ticks
HOther(t) == (Park(t) \/ Cancel(t)) /\ UNCHANGED <<ticks, grants>>

HNext == HTick \/ \E t \in Tasks : HTake(t) \/ HOther(t)

HSpec == HInit /\ [][HNext]_hvars

(* What was granted and what is left never exceed a full bucket and what   *)
(* flowed in since.                                                        *)
Conservation ==
  /\ ticks \in Nat /\ grants \in Nat
  /\ grants * Period + Level <= Capacity + ticks * MaxRate

RateBound == grants * Period <= MaxRate * (Period + ticks)

(* From its creation on, and after any number of ticks, the limiter has    *)
(* granted at most max_rate acquisitions plus max_rate for each period     *)
(* that went by (limiter.py:16-17), whatever the callers do.               *)
THEOREM RateBounded == HSpec => []RateBound
<1>1. HInit => TypeOK /\ Conservation
  <2> SUFFICES ASSUME HInit PROVE TypeOK /\ Conservation
    OBVIOUS
  <2>1. TypeOK
    BY InitIInv DEF HInit, IInv
  <2>2. 0 * Period = 0 /\ 0 * MaxRate = 0
    BY RateAssumption, SMT
  <2>3. Level \in 0..Capacity /\ Capacity \in Nat
    BY <2>1, LevelType, ConstantFacts
  <2> QED BY <2>1, <2>2, <2>3 DEF HInit, Conservation
<1>2. IInv /\ Conservation /\ [HNext]_hvars => Conservation'
  <2> SUFFICES ASSUME IInv, Conservation, [HNext]_hvars PROVE Conservation'
    OBVIOUS
  <2> DEFINE G == grants * Period
             T == ticks * MaxRate
  <2>1. /\ ticks \in Nat /\ grants \in Nat /\ TypeOK
        /\ Period \in Nat /\ MaxRate \in Nat /\ Capacity \in Nat
        /\ Level \in 0..Capacity
    BY LevelType, ConstantFacts, RateAssumption DEF Conservation, IInv
  <2>2. G \in Nat /\ T \in Nat /\ G + Level <= Capacity + T
    BY <2>1, SMT DEF Conservation
  <2>3. CASE HTick
    <3>1. ticks' = ticks + 1 /\ grants' = grants /\ Level' = Capped(Level + MaxRate)
      BY <2>1, <2>3, LevelTicked DEF HTick
    <3>2. ticks' * MaxRate = T + MaxRate /\ grants' * Period = G
      BY <2>1, <3>1, SMT
    <3>3. Level' <= Level + MaxRate
      BY <2>1, <3>1 DEF Capped, Capacity
    <3>4. Level' \in Nat
      BY <2>1, <3>1, ConstantFacts DEF Capped
    <3> HIDE DEF G, T
    <3> QED BY <2>1, <2>2, <3>1, <3>2, <3>3, <3>4 DEF Conservation, Capacity
  <2>4. ASSUME NEW t \in Tasks, HTake(t) PROVE Conservation'
    <3>1. ticks' = ticks /\ grants' = grants + 1 /\ Level' = Level - Period
      BY <2>1, <2>4, LevelTaken DEF HTake, Take, CanTake, Unit
    <3>2. ticks' * MaxRate = T /\ grants' * Period = G + Period
      BY <2>1, <3>1, SMT
    <3> HIDE DEF G, T
    <3> QED BY <2>1, <2>2, <3>1, <3>2 DEF Conservation, Capacity
  <2>5. ASSUME UNCHANGED <<ticks, grants>>, Level' = Level PROVE Conservation'
    BY <2>5 DEF Conservation, Capacity
  <2>6. ASSUME NEW t \in Tasks, HOther(t) PROVE Conservation'
    <3>1. Level' = Level
      BY <2>1, <2>6, LevelRefilled DEF HOther, Park, Cancel, Level, Capped, Capacity
    <3> QED BY <2>5, <2>6, <3>1 DEF HOther
  <2>7. CASE UNCHANGED hvars
    BY <2>5, <2>7 DEF hvars, vars, Level, Capped, Capacity
  <2> QED BY <2>3, <2>4, <2>6, <2>7 DEF HNext
<1>3. HSpec => Spec
  <2>1. HInit => Init
    BY DEF HInit
  <2>2. [HNext]_hvars => [Next]_vars
    BY DEF HNext, hvars, HTick, HTake, HOther, Next
  <2> QED BY <2>1, <2>2, PTL DEF HSpec, Spec
<1>4. IInv /\ Conservation => RateBound
  <2> SUFFICES ASSUME IInv, Conservation PROVE RateBound
    OBVIOUS
  <2>1. Level \in Nat /\ ticks \in Nat /\ grants \in Nat
    BY LevelType, ConstantFacts DEF IInv, Conservation
  <2>2. grants * Period \in Nat /\ MaxRate * (Period + ticks) = Capacity + ticks * MaxRate
    BY <2>1, RateAssumption, SMT DEF Capacity
  <2>3. Capacity + ticks * MaxRate \in Nat
    BY <2>1, RateAssumption, SMT DEF Capacity
  <2> QED BY <2>1, <2>2, <2>3 DEF Conservation, RateBound
<1> QED BY <1>1, <1>2, <1>3, <1>4, InductiveInvariant, PTL DEF HSpec
==============================================================================
