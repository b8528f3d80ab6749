-------------------------- MODULE LiteBalancerProofs --------------------------
(***************************************************************************)
(* Theorems about LiteBalancer, for any number of servers and of requests, *)
(* every cooldown and every set of servers that stay healthy.  The         *)
(* inductive invariant is IInv: the types, and who may still connect       *)
(* something in each phase of the owner's life.                            *)
(***************************************************************************)
EXTENDS LiteBalancer, DataLemmas, FiniteSetTheorems

LEMMA CardinalityFact == Cardinality(Clients) \in Nat /\ Cardinality(Clients) # 0
BY ClientsAssumption, FS_CardinalityType, FS_EmptySet

(* An error is followed by a cooldown that is not over at once and not     *)
(* longer than retry_after_max, however often it happened before.          *)
LEMMA CooldownBounds ==
  ASSUME NEW base \in {1, 2}, NEW n \in 1..MaxErrors
  PROVE  Cooldown(base, n) \in 1..MaxCool
<1>1. n - 1 \in Nat /\ MaxCool \in Nat \ {0}
  BY CoolAssumption
<1>2. PowerOfTwo[n - 1] \in Nat \ {0}
  BY <1>1, PowerOfTwoFacts
<1> DEFINE p == PowerOfTwo[n - 1]
<1>3. base * p \in Nat \ {0}
  <2>1. p \in Nat \ {0}
    BY <1>2
  <2> HIDE DEF p
  <2>2. 1 * p \in Nat \ {0} /\ 2 * p \in Nat \ {0}
    BY <2>1
  <2> QED BY <2>2
<1> HIDE DEF p
<1>4. Cooldown(base, n) = IF base * p < MaxCool THEN base * p ELSE MaxCool
  BY DEF Cooldown, p
<1> QED BY <1>1, <1>3, <1>4
------------------------------------------------------------------------------
ServersType ==
  /\ errors \in [Clients -> 0..MaxErrors]
  /\ cool \in [Clients -> 0..MaxCool]

RequestsType ==
  /\ on \in [Requests -> Clients \cup {None}]
  /\ attempts \in [Requests -> 0..Cardinality(Clients)]
  /\ tried \in [Requests -> SUBSET Clients]
  /\ out \in [Requests -> Outcomes]

LifeType ==
  /\ up \subseteq Clients /\ joining \subseteq Clients \ up
  /\ health \in BOOLEAN
  /\ owner \in {"closed", "connecting", "open", "closing"}

LEMMA TypeParts == TypeOK <=> ServersType /\ RequestsType /\ LifeType
BY DEF TypeOK, ServersType, RequestsType, LifeType

(* While it closes nobody connects any more, and only the health task has  *)
(* reconnections under way.                                                *)
ClosingIsQuiet == owner = "closing" => ~health /\ joining = {}
JoinedByHealth == joining # {} => health

IInv == TypeOK /\ ClosedStaysClosed /\ ClosingIsQuiet /\ JoinedByHealth

LEMMA InitIInv == Init => IInv
<1> SUFFICES ASSUME Init PROVE IInv
  OBVIOUS
<1>1. TypeOK
  <2>1. 0 \in 0..MaxErrors /\ 0 \in 0..MaxCool /\ 0 \in 0..Cardinality(Clients)
    BY CardinalityFact, CoolAssumption
  <2> QED BY <2>1 DEF Init, TypeOK, Outcomes
<1> QED BY <1>1 DEF Init, IInv, ClosedStaysClosed, ClosingIsQuiet, JoinedByHealth

(* Requests: what they do to the cooldowns and to one another.             *)
LEMMA EndType ==
  ASSUME RequestsType, NEW r \in Requests, NEW how \in Outcomes, End(r, how)
  PROVE  RequestsType'
<1>1. on' \in [Requests -> Clients \cup {None}] /\ out' \in [Requests -> Outcomes]
  BY DEF RequestsType, End
<1>2. attempts' \in [Requests -> 0..Cardinality(Clients)]
  BY CardinalityFact DEF RequestsType, End
<1>3. tried' \in [Requests -> SUBSET Clients]
  BY DEF RequestsType, End
<1> QED BY <1>1, <1>2, <1>3 DEF RequestsType

LEMMA NextAttemptType ==
  ASSUME RequestsType, up \subseteq Clients, NEW r \in Requests, NEW cl, NextAttempt(r, cl)
  PROVE  RequestsType'
<1>1. CASE attempts[r] = Cardinality(Clients) \/ Alive(cl) = {}
  BY <1>1, EndType DEF NextAttempt, Outcomes
<1>2. CASE ~(attempts[r] = Cardinality(Clients) \/ Alive(cl) = {})
  <2>1. PICK c \in PickClient(cl) :
          /\ on' = [on EXCEPT ![r] = c]
          /\ Counted(r)
          /\ tried' = [tried EXCEPT ![r] = (IF on[r] = None THEN {} ELSE @) \cup {c}]
          /\ out' = [out EXCEPT ![r] = "none"]
    BY <1>2 DEF NextAttempt
  <2>2. c \in Clients
    BY DEF PickClient, Alive
  <2>3. on' \in [Requests -> Clients \cup {None}]
    BY <2>1, <2>2 DEF RequestsType
  <2>4. attempts' \in [Requests -> 0..Cardinality(Clients)]
    BY <1>2, <2>1, CardinalityFact DEF RequestsType, Counted
  <2>5. tried' \in [Requests -> SUBSET Clients]
    BY <2>1, <2>2 DEF RequestsType
  <2>6. out' \in [Requests -> Outcomes]
    BY <2>1 DEF RequestsType, Outcomes
  <2> QED BY <2>3, <2>4, <2>5, <2>6 DEF RequestsType
<1> QED BY <1>1, <1>2

(* What Fail does to the server that failed: a cooldown of a tick or more. *)
LEMMA FailCools ==
  ASSUME TypeOK, NEW r \in Requests, Fail(r)
  PROVE  /\ on[r] \in Clients
         /\ cool' \in [Clients -> 0..MaxCool] /\ cool'[on[r]] > 0
         /\ errors' \in [Clients -> 0..MaxErrors]
         /\ NextAttempt(r, cool')
<1> DEFINE n == IF errors[on[r]] < MaxErrors THEN errors[on[r]] + 1 ELSE MaxErrors
<1>1. on[r] \in Clients
  BY DEF Fail
<1>2. PICK base \in {1, 2} :
        /\ errors' = [errors EXCEPT ![on[r]] = n]
        /\ cool' = [cool EXCEPT ![on[r]] = Cooldown(base, n)]
        /\ NextAttempt(r, cool')
  BY DEF Fail
<1>3. n \in 1..MaxErrors
  BY <1>1, CoolAssumption DEF TypeOK
<1> HIDE DEF n
<1>4. Cooldown(base, n) \in 1..MaxCool
  BY <1>3, CooldownBounds
<1>5. cool' \in [Clients -> 0..MaxCool] /\ cool'[on[r]] > 0
  BY <1>1, <1>2, <1>4, CoolAssumption DEF TypeOK
<1>6. errors' \in [Clients -> 0..MaxErrors]
  BY <1>1, <1>2, <1>3, CoolAssumption DEF TypeOK
<1> QED BY <1>1, <1>2, <1>5, <1>6

LEMMA RequestStep ==
  ASSUME IInv, NEW r \in Requests,
         \/ Request(r) \/ Succeed(r) \/ RunGetMethodError(r) \/ Fail(r)
         \/ NotConnected(r) \/ TimesOut(r)
  PROVE  IInv'
<1>1. TypeOK /\ ServersType /\ RequestsType /\ LifeType /\ up \subseteq Clients
  BY TypeParts DEF IInv, LifeType
<1>2. UNCHANGED <<up, life>>
  BY DEF Request, Succeed, RunGetMethodError, Fail, NotConnected, TimesOut, servers
<1>3. RequestsType'
  <2>1. CASE Request(r)
    BY <1>1, <2>1, NextAttemptType DEF Request
  <2>2. CASE Succeed(r) \/ RunGetMethodError(r) \/ TimesOut(r)
    BY <1>1, <2>2, EndType DEF Succeed, RunGetMethodError, TimesOut, Outcomes
  <2>3. CASE Fail(r)
    BY <1>1, <2>3, FailCools, NextAttemptType
  <2>4. CASE NotConnected(r)
    BY <1>1, <2>4, EndType DEF NotConnected, Outcomes
  <2> QED BY <2>1, <2>2, <2>3, <2>4
<1>4. ServersType'
  <2>1. CASE Request(r) \/ RunGetMethodError(r) \/ NotConnected(r) \/ TimesOut(r)
    BY <1>1, <2>1 DEF Request, RunGetMethodError, NotConnected, TimesOut, servers, ServersType
  <2>2. CASE Succeed(r)
    BY <1>1, <2>2, CoolAssumption DEF Succeed, ServersType
  <2>3. CASE Fail(r)
    BY <1>1, <2>3, FailCools DEF ServersType
  <2> QED BY <2>1, <2>2, <2>3
<1>5. LifeType'
  BY <1>1, <1>2 DEF LifeType, life
<1>6. TypeOK'
  BY <1>3, <1>4, <1>5 DEF TypeOK, ServersType, RequestsType, LifeType
<1> QED BY <1>2, <1>6 DEF IInv, ClosedStaysClosed, ClosingIsQuiet, JoinedByHealth, life

(* The steps that leave the requests to themselves, but may cancel them.   *)
LEMMA CancelWaitersType ==
  ASSUME RequestsType, NEW lost, CancelWaiters(lost)
  PROVE  RequestsType'
BY CardinalityFact DEF RequestsType, CancelWaiters, Outcomes

LEMMA TickStep == IInv /\ Tick => IInv'
<1> SUFFICES ASSUME IInv, Tick PROVE IInv'
  OBVIOUS
<1>1. TypeOK /\ UNCHANGED <<up, errors, requests, life>>
  BY DEF IInv, Tick
<1>2. cool' \in [Clients -> 0..MaxCool]
  BY <1>1, CoolAssumption DEF TypeOK, Tick
<1> QED BY <1>1, <1>2 DEF IInv, TypeOK, requests, life, ClosedStaysClosed, ClosingIsQuiet,
                         JoinedByHealth

LEMMA ServerStep ==
  ASSUME IInv, NEW c \in Clients, Drop(c) \/ Reconnect(c) \/ Reconnected(c) \/ ReconnectFails(c)
  PROVE  IInv'
<1>1. ServersType /\ RequestsType /\ LifeType
  BY TypeParts DEF IInv
<1>2. RequestsType'
  BY <1>1, CancelWaitersType
     DEF Drop, Reconnect, Reconnected, ReconnectFails, requests, RequestsType
<1>3. ServersType'
  BY <1>1 DEF Drop, Reconnect, Reconnected, ReconnectFails, servers, ServersType
<1>4. LifeType' /\ UNCHANGED <<health, owner>>
  BY <1>1 DEF Drop, Reconnect, Reconnected, ReconnectFails, servers, life, Lost, LifeType
<1>5. joining' # {} => health'
  BY <1>4 DEF IInv, JoinedByHealth, Drop, Reconnect, Reconnected, ReconnectFails, life
<1>6. ClosedStaysClosed' /\ ClosingIsQuiet'
  BY <1>1, <1>4, <1>5 DEF IInv, ClosedStaysClosed, ClosingIsQuiet, LifeType,
                Drop, Reconnect, Reconnected, ReconnectFails, servers, life
<1>7. TypeOK'
  BY <1>2, <1>3, <1>4 DEF TypeOK, ServersType, RequestsType, LifeType
<1> QED BY <1>5, <1>6, <1>7 DEF IInv, JoinedByHealth

LEMMA OwnerStep ==
  ASSUME IInv, ConnectBegin \/ ConnectEnd \/ CloseBegin \/ CloseEnd
  PROVE  IInv'
<1>1. ServersType /\ RequestsType /\ LifeType
  BY TypeParts DEF IInv
<1>2. RequestsType'
  BY <1>1, CancelWaitersType
     DEF ConnectBegin, ConnectEnd, CloseBegin, CloseEnd, requests, RequestsType
<1>3. ServersType'
  BY <1>1 DEF ConnectBegin, ConnectEnd, CloseBegin, CloseEnd, servers, ServersType
<1>4. CASE ConnectBegin
  <2>1. LifeType'
    BY <1>1, <1>4 DEF ConnectBegin, EnsureHealthTask, servers, LifeType
  <2> QED BY <1>2, <1>3, <1>4, <2>1
          DEF IInv, TypeOK, ServersType, RequestsType, LifeType, ConnectBegin,
              EnsureHealthTask, servers, ClosedStaysClosed, ClosingIsQuiet,
              JoinedByHealth
<1>5. CASE ConnectEnd
  <2>1. PICK S \in SUBSET Clients :
          /\ up' = up \cup S
          /\ joining' = joining \ S
          /\ IF up' # {} THEN EnsureHealthTask ELSE UNCHANGED health
          /\ owner' = IF up' # {} \/ health THEN "open" ELSE "closed"
    BY <1>5 DEF ConnectEnd
  <2>2. LifeType'
    BY <1>1, <2>1 DEF EnsureHealthTask, LifeType
  <2>3. ClosedStaysClosed' /\ ClosingIsQuiet' /\ JoinedByHealth'
    BY <1>1, <2>1 DEF IInv, EnsureHealthTask, ClosedStaysClosed, ClosingIsQuiet, JoinedByHealth
  <2> QED BY <1>2, <1>3, <2>2, <2>3 DEF IInv, TypeOK, ServersType, RequestsType, LifeType
<1>6. CASE CloseBegin
  <2>1. LifeType'
    BY <1>1, <1>6 DEF CloseBegin, StopHealth, servers, LifeType
  <2> QED BY <1>2, <1>3, <1>6, <2>1
          DEF IInv, TypeOK, ServersType, RequestsType, LifeType,
              CloseBegin, StopHealth, ClosedStaysClosed, ClosingIsQuiet, JoinedByHealth
<1>7. CASE CloseEnd
  <2>1. LifeType'
    BY <1>1, <1>7 DEF CloseEnd, LifeType
  <2> QED BY <1>2, <1>3, <1>7, <2>1
          DEF IInv, TypeOK, ServersType, RequestsType, LifeType,
              CloseEnd, ClosedStaysClosed, ClosingIsQuiet, JoinedByHealth
<1> QED BY <1>4, <1>5, <1>6, <1>7

(* The types, and that whoever could connect a server again is known in    *)
(* every phase: together they are kept by every step.                      *)
THEOREM InductiveInvariant == Spec => []IInv
<1>1. IInv /\ [Next]_vars => IInv'
  <2> SUFFICES ASSUME IInv, [Next]_vars PROVE IInv'
    OBVIOUS
  <2>1. ASSUME NEW r \in Requests,
               \/ Request(r) \/ Succeed(r) \/ RunGetMethodError(r) \/ Fail(r)
               \/ NotConnected(r) \/ TimesOut(r)
        PROVE  IInv'
    BY <2>1, RequestStep
  <2>2. ASSUME NEW c \in Clients,
               Drop(c) \/ Reconnect(c) \/ Reconnected(c) \/ ReconnectFails(c)
        PROVE  IInv'
    BY <2>2, ServerStep
  <2>3. CASE Tick \/ ConnectBegin \/ ConnectEnd \/ CloseBegin \/ CloseEnd
    BY <2>3, TickStep, OwnerStep
  <2>4. CASE UNCHANGED vars
    BY <2>4 DEF vars, servers, requests, life, IInv, TypeOK, ClosedStaysClosed, ClosingIsQuiet,
                JoinedByHealth
  <2> QED BY <2>1, <2>2, <2>3, <2>4 DEF Next
<1> QED BY InitIInv, <1>1, PTL DEF Spec

(* Every attempt is counted up to the number of clients, every cooldown up *)
(* to retry_after_max, in every reachable state.                           *)
THEOREM TypeCorrect == Spec => []TypeOK
BY InductiveInvariant, PTL DEF IInv

(* After close() no server is connected, none is being reconnected, and    *)
(* the health task is gone, whatever it was doing when close() came.       *)
THEOREM ClosedForGood == Spec => []ClosedStaysClosed
BY InductiveInvariant, PTL DEF IInv

(* A request that fails over never goes back to the server that has just   *)
(* failed it, however the other requests change the cooldowns meanwhile.   *)
THEOREM FailsOverElsewhere == Spec => NeverTwiceInARow
<1>1. IInv /\ [Next]_vars =>
        [\A r \in Requests : attempts'[r] > attempts[r] => on'[r] # on[r]]_vars
  <2> SUFFICES ASSUME IInv, Next, NEW r \in Requests, attempts'[r] > attempts[r]
               PROVE  on'[r] # on[r]
    OBVIOUS
  <2>1. TypeOK /\ attempts[r] \in Nat /\ up \subseteq Clients
    BY CardinalityFact DEF IInv, TypeOK
  <2>2. ASSUME NEW how, NEW s \in Requests, End(s, how) PROVE FALSE
    BY <2>1, <2>2 DEF End, TypeOK
  <2>3. ASSUME NEW s \in Requests, NEW cl, NextAttempt(s, cl)
        PROVE  s = r /\ \E c \in Alive(cl) : on'[r] = c
    <3>1. PICK c \in Alive(cl) : on' = [on EXCEPT ![s] = c] /\ Counted(s)
      BY <2>2, <2>3 DEF NextAttempt, PickClient
    <3> QED BY <2>1, <3>1 DEF Counted, TypeOK
  <2>4. ASSUME NEW s \in Requests, Request(s) PROVE on'[r] # on[r]
    <3>1. s = r /\ on[s] = None /\ \E c \in Alive(cool) : on'[r] = c
      BY <2>3, <2>4 DEF Request
    <3> QED BY <2>1, <3>1, ClientsAssumption DEF Alive
  <2>5. ASSUME NEW s \in Requests, Fail(s) PROVE on'[r] # on[r]
    <3>1. NextAttempt(s, cool') /\ cool'[on[s]] > 0
      BY <2>1, <2>5, FailCools
    <3>2. s = r /\ \E c \in Alive(cool') : on'[r] = c
      BY <2>3, <3>1
    <3> QED BY <3>1, <3>2 DEF Alive
  <2>6. ASSUME NEW s \in Requests,
               Succeed(s) \/ RunGetMethodError(s) \/ NotConnected(s) \/ TimesOut(s)
        PROVE  FALSE
    BY <2>2, <2>6 DEF Succeed, RunGetMethodError, NotConnected, TimesOut
  <2>7. ASSUME NEW lost, CancelWaiters(lost) PROVE FALSE
    BY <2>1, <2>7 DEF CancelWaiters
  <2>8. ASSUME NEW c \in Clients, Drop(c) \/ Reconnect(c) \/ Reconnected(c) \/ ReconnectFails(c)
        PROVE  FALSE
    BY <2>1, <2>7, <2>8 DEF Drop, Reconnect, Reconnected, ReconnectFails, requests
  <2>9. CASE Tick \/ ConnectBegin \/ ConnectEnd \/ CloseBegin \/ CloseEnd
    BY <2>1, <2>7, <2>9 DEF Tick, ConnectBegin, ConnectEnd, CloseBegin, CloseEnd, requests
  <2> QED BY <2>4, <2>5, <2>6, <2>8, <2>9 DEF Next
<1> QED BY <1>1, InductiveInvariant, PTL DEF Spec, NeverTwiceInARow
==============================================================================
