----------------------------- MODULE RateLimiter -----------------------------
(***************************************************************************)
(* tonutils/transports/limiter.py: the asyncio token bucket every client   *)
(* of the library sends through.                                           *)
(*                                                                         *)
(* acquire() runs under the lock of an asyncio.Condition and gives the     *)
(* lock up only inside Condition.wait(), so what a task does between two   *)
(* waits - refill, test, then take a token or wait again - is one action.  *)
(* The order in which woken tasks get the lock back is left open.          *)
(*                                                                         *)
(* Time is relative: elapsed is time.monotonic() - _updated_at, timer[t]   *)
(* what is left of the timeout of a wait_for.  An elapsed time of Period   *)
(* fills any bucket, so the counter stops there without loss.              *)
(***************************************************************************)
EXTENDS Integers, FiniteSets

CONSTANTS Priority, (* tasks that call acquire(priority=True)  *)
          Normal,   (* tasks that call acquire()               *)
          MaxRate,  (* self._max_rate                          *)
          Period    (* self._period, in ticks of the clock     *)

ASSUME RateAssumption == MaxRate \in Nat \ {0} /\ Period \in Nat \ {0}
ASSUME TaskAssumption == /\ Priority \cap Normal = {}
                         /\ IsFiniteSet(Priority)

VARIABLES tokens,           (* self._tokens, in units of 1/Period token *)
          elapsed,          (* ticks since self._updated_at             *)
          priorityWaiters,  (* self._priority_waiters                   *)
          registered,       (* the tasks whose is_waiting is True       *)
          pc,               (* where each task stands in acquire()      *)
          timer             (* what is left of each timed wait          *)

vars == <<tokens, elapsed, priorityWaiters, registered, pc, timer>>

Tasks == Priority \cup Normal
Unit == Period
Capacity == MaxRate * Period

(* idle: outside acquire();  timed: in wait_for(cond.wait(), wait_time);   *)
(* untimed: in cond.wait();  woken: notified, not yet running again.       *)
Waits == {"timed", "untimed"}
Waiting == {t \in Tasks : pc[t] # "idle"}

Capped(x) == IF x > Capacity THEN Capacity ELSE x
CeilDiv(a, b) == (a + b - 1) \div b

(* The bucket as _refill() would leave it now, and the wait it implies. *)
Level == Capped(tokens + elapsed * MaxRate)
TicksToToken == IF Level >= Unit THEN 0 ELSE CeilDiv(Unit - Level, MaxRate)

TypeOK ==
  /\ tokens \in 0..Capacity
  /\ elapsed \in 0..Period
  /\ priorityWaiters \in Int
  /\ registered \subseteq Priority
  /\ pc \in [Tasks -> Waits \cup {"idle", "woken"}]
  /\ timer \in [Tasks -> Nat]

Init ==
  /\ tokens = Capacity
  /\ elapsed = 0
  /\ priorityWaiters = 0
  /\ registered = {}
  /\ pc = [t \in Tasks |-> "idle"]
  /\ timer = [t \in Tasks |-> 0]
------------------------------------------------------------------------------
(* A task that can run the loop body: it calls acquire(), was notified, or *)
(* its wait timed out.                                                     *)
Runnable(t) ==
  \/ pc[t] \in {"idle", "woken"}
  \/ pc[t] = "timed" /\ timer[t] = 0

AnyoneTakes(t) == Level >= Unit  \* mutant of CanTake
CanTake(t) == Level >= Unit /\ (t \in Priority \/ priorityWaiters = 0)

NotifyNobody(t) == [pc EXCEPT ![t] = "idle"]  \* mutant of NotifyAll

(* notify_all(): every waiting task but the running one becomes ready. *)
NotifyAll(t) ==
  [u \in Tasks |-> IF u = t THEN "idle"
                   ELSE IF pc[u] \in Waits THEN "woken" ELSE pc[u]]

Refill == tokens' = Level /\ elapsed' = 0

KeepRegistration(t) ==  \* mutant of Deregister
  UNCHANGED <<priorityWaiters, registered>>

(* The finally clause: a registered priority task gives its place up. *)
Deregister(t) ==
  /\ registered' = registered \ {t}
  /\ priorityWaiters' = IF t \in registered THEN priorityWaiters - 1 ELSE priorityWaiters

TakeStale(t) ==  \* mutant of Take: the time of the refill is not noted
  /\ Runnable(t)
  /\ CanTake(t)
  /\ tokens' = Level - Unit
  /\ UNCHANGED elapsed
  /\ Deregister(t)
  /\ pc' = NotifyAll(t)
  /\ UNCHANGED timer

Take(t) ==
  /\ Runnable(t)
  /\ CanTake(t)
  /\ tokens' = Level - Unit
  /\ elapsed' = 0
  /\ Deregister(t)
  /\ pc' = NotifyAll(t)
  /\ UNCHANGED timer

Park(t) ==
  /\ Runnable(t)
  /\ ~CanTake(t)
  /\ Refill
  /\ registered' = IF t \in Priority THEN registered \cup {t} ELSE registered
  /\ priorityWaiters' = IF t \in Priority \ registered THEN priorityWaiters + 1
                                                       ELSE priorityWaiters
  /\ pc' = [pc EXCEPT ![t] = IF TicksToToken > 0 THEN "timed" ELSE "untimed"]
  /\ timer' = [timer EXCEPT ![t] = TicksToToken]

(* The task is cancelled in a wait: the CancelledError leaves acquire()    *)
(* through the finally clause, which notifies only if it was registered.   *)
Cancel(t) ==
  /\ pc[t] # "idle"
  /\ Deregister(t)
  /\ pc' = IF t \in registered THEN NotifyAll(t) ELSE [pc EXCEPT ![t] = "idle"]
  /\ UNCHANGED <<tokens, elapsed, timer>>

Tick ==
  /\ elapsed' = IF elapsed < Period THEN elapsed + 1 ELSE elapsed
  /\ timer' = [t \in Tasks |-> IF timer[t] > 0 THEN timer[t] - 1 ELSE 0]
  /\ UNCHANGED <<tokens, priorityWaiters, registered, pc>>

Next == Tick \/ \E t \in Tasks : Take(t) \/ Park(t) \/ Cancel(t)

(* Time passes, and the event loop runs every task that is ready.  Nothing *)
(* makes a task call acquire(), or be cancelled.                           *)
Fairness ==
  /\ WF_vars(Tick)
  /\ \A t \in Tasks : WF_vars(pc[t] # "idle" /\ (Take(t) \/ Park(t)))

Spec == Init /\ [][Next]_vars
FairSpec == Spec /\ Fairness
------------------------------------------------------------------------------
(* The counter that holds normal tasks back counts exactly the priority    *)
(* tasks inside a wait of acquire(): no path, cancellation included, leaks *)
(* a registration or gives one up twice (limiter.py:74-76 and 87-90).      *)
WaiterAccounting ==
  /\ registered = Waiting \cap Priority
  /\ priorityWaiters = Cardinality(registered)

(* An untimed wait is entered only behind a priority waiter, and as long   *)
(* as it lasts there is one left whose exit will notify: no lost wakeup    *)
(* (limiter.py:83-85 relies on the notify_all of line 90).                 *)
NoLostWakeup ==
  (\E t \in Tasks : pc[t] = "untimed") => priorityWaiters > 0

(* A sleeping task wakes up exactly when the bucket holds a token for it:  *)
(* never before, though others drew tokens meanwhile, and never later      *)
(* (_seconds_to_token, computed once, stays right until a notify_all).     *)
TimersAccurate ==
  \A t \in Tasks : pc[t] = "timed" => timer[t] = TicksToToken

(* A token never goes to a normal task while a priority task sits in a     *)
(* wait of acquire(), whatever woke the normal one (docstring of           *)
(* RateLimiter, limiter.py:9-10).                                          *)
NormalNeverOvertakes ==
  [][\A t \in Normal : Take(t) => \A p \in Priority : pc[p] = "idle"]_vars

(* Lazy refill at each acquisition gives every acquisition the same answer *)
(* as a bucket refilled at every instant, so no burst of callers, however  *)
(* timed or cancelled, exceeds the configured rate.                        *)
Bucket == INSTANCE TokenBucket WITH level <- Level
ImplementsBucket == Bucket!Spec

(* Whoever waits is served: the waits can only be drawn out for ever by    *)
(* callers that keep arriving and find the token first.                    *)
Arrive(t) == pc[t] = "idle" /\ (Take(t) \/ Park(t))
WaitersServed ==
  []<>(Waiting = {}) \/ []<><<\E t \in Tasks : Arrive(t)>>_vars

(* Normal traffic, however heavy, never starves the priority tasks: only   *)
(* an endless stream of further priority callers could.                    *)
PriorityServed ==
  []<>(registered = {}) \/ []<><<\E t \in Priority : Arrive(t)>>_vars
==============================================================================
