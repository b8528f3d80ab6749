------------------------------- MODULE DhtProofs -------------------------------
(***************************************************************************)
(* Theorems about the parts of the DHT: the reader of a provider, for any  *)
(* number of tasks and of handshakes, messages that come in parts, and the *)
(* lookups and stores of a network of any size.                            *)
(***************************************************************************)
EXTENDS DhtProvider, DhtNetwork, MessageParts, FiniteSetTheorems, DataLemmas

(* What is registered for the calls of a provider, by the state of each:   *)
(* no two have the key of one handshake, and what is answered no longer    *)
(* waits.                                                                  *)
CallTypes ==
  /\ pc \in [Queries -> {"idle", "handshake", "bundled", "sent", "ended"}]
  /\ key \in [Queries -> Nat] /\ inFly \in Nat
  /\ nextKey \in Nat \ {0} /\ DOMAIN confirms \subseteq Nat \ {0}

KeysOwned ==
  /\ \A q \in Queries : key[q] < nextKey
  /\ \A p, q \in Queries : key[p] = key[q] /\ key[p] # 0 => p = q

CallsInv ==
  /\ CallTypes /\ KeysOwned /\ CallsReachable /\ NothingLeft
  /\ pending \cap answered = {}

ProviderInv ==
  /\ CallsInv /\ ClosedToTheEnd
  /\ running \in BOOLEAN /\ binding \in BOOLEAN /\ (binding => running)

(* Only the key of a handshake is registered for a confirmation. *)
LEMMA ConfirmsOwned ==
  ASSUME CallsInv, NEW q \in Queries, pc[q] # "handshake" PROVE key[q] \notin DOMAIN confirms
BY DEF CallsInv, CallTypes, KeysOwned, NothingLeft, Waiting

LEMMA FlightFinite == IsFiniteSet(InFlight) /\ IsFiniteSet(InFlight')
<1>1. InFlight \subseteq Queries /\ InFlight' \subseteq Queries
  BY DEF InFlight
<1> QED BY <1>1, ProviderAssumption, FS_Subset

(* A call that ends takes with it what was registered for it. *)
LEMMA CallEnds ==
  ASSUME CallsInv, NEW q \in Queries, Ends(q),
         pending' = pending \ {First(q), Second(q)},
         DOMAIN confirms' = DOMAIN confirms \ {key[q]}, nextKey' = nextKey,
         inFly' = IF pc[q] = "sent" THEN inFly - 1 ELSE inFly
  PROVE  CallsInv'
<1> USE DEF CallsInv
<1>1. /\ pc' = [pc EXCEPT ![q] = "ended"] /\ key' = [key EXCEPT ![q] = 0]
      /\ answered' = answered \ {First(q), Second(q)}
  BY DEF Ends
<1>2. Waiting' = Waiting \ {q} /\ InFlight' = InFlight \ {q}
  BY <1>1 DEF CallTypes, Waiting, InFlight
<1>3. inFly' = Cardinality(InFlight') /\ inFly' \in Nat
  <2>1. CASE pc[q] = "sent"
    <3>1. q \in InFlight
      BY <2>1 DEF InFlight
    <3>2. Cardinality(InFlight \ {q}) = Cardinality(InFlight) - 1
      BY <3>1, FlightFinite, FS_RemoveElement
    <3>3. Cardinality(InFlight \ {q}) \in Nat
      BY <1>2, FlightFinite, FS_CardinalityType
    <3> QED BY <1>2, <2>1, <3>2, <3>3 DEF NothingLeft
  <2>2. CASE pc[q] # "sent"
    <3>1. InFlight' = InFlight
      BY <1>2, <2>2 DEF InFlight
    <3> QED BY <2>2, <3>1 DEF NothingLeft, CallTypes
  <2> QED BY <2>1, <2>2
<1>4. CallTypes' /\ KeysOwned'
  BY <1>1, <1>3 DEF CallTypes, KeysOwned
<1>5. \A p \in Waiting' : p # q /\ p \in Waiting /\ pc'[p] = pc[p] /\ key'[p] = key[p]
  BY <1>1, <1>2 DEF CallTypes, Waiting
<1>6. CallsReachable'
  <2> SUFFICES ASSUME NEW p \in Waiting'
               PROVE  /\ Awaited(p)' \in pending' \cup answered'
                      /\ pc'[p] = "handshake" => key'[p] \in DOMAIN confirms'
    BY DEF CallsReachable
  <2>1. Awaited(p)' = Awaited(p) /\ Awaited(p) \notin {First(q), Second(q)}
    BY <1>5 DEF Awaited, First, Second
  <2>2. pc[p] = "handshake" => key[p] # key[q]
    BY <1>5 DEF CallsReachable, CallTypes, KeysOwned, Waiting
  <2> QED BY <1>1, <1>5, <2>1, <2>2 DEF CallsReachable
<1>7. pending' \subseteq {Awaited(p)' : p \in Waiting'}
  <2> SUFFICES ASSUME NEW id \in pending' PROVE \E p \in Waiting' : id = Awaited(p)'
    OBVIOUS
  <2>1. PICK p \in Waiting : id = Awaited(p)
    BY DEF NothingLeft
  <2>2. p # q
    BY <2>1 DEF Awaited
  <2>3. p \in Waiting' /\ pc'[p] = pc[p]
    BY <1>2, <1>5, <2>2
  <2> QED BY <2>1, <2>3 DEF Awaited, First, Second
<1>8. answered' \subseteq {First(p) : p \in Waiting'} \cup {Second(p) : p \in InFlight'}
  BY <1>1, <1>2 DEF NothingLeft
<1>9. \A k \in DOMAIN confirms' : \E p \in Waiting' : pc'[p] = "handshake" /\ key'[p] = k
  <2> TAKE k \in DOMAIN confirms'
  <2>1. PICK p \in Waiting : pc[p] = "handshake" /\ key[p] = k
    BY DEF NothingLeft
  <2>2. p # q
    BY <2>1
  <2> QED BY <1>2, <1>5, <2>1, <2>2
<1>10. pending' \cap answered' = {}
  BY <1>1
<1>11. {First(p) : p \in Waiting'} = {First(p)' : p \in Waiting'} /\ {Second(p) : p \in InFlight'} = {Second(p)' : p \in InFlight'}
  BY DEF First, Second
<1> QED BY <1>3, <1>4, <1>6, <1>7, <1>8, <1>9, <1>10, <1>11 DEF NothingLeft

(* One that sends its query waits for that alone. *)
LEMMA CallSends ==
  ASSUME CallsInv, NEW q \in Queries, NEW k, SendQuery(q, k),
         pc[q] # "sent", First(q) \notin pending,
         First(q) \in answered => q \in Waiting,
         DOMAIN confirms' = DOMAIN confirms \ {key[q]}, nextKey' = nextKey
  PROVE  CallsInv'
<1> USE DEF CallsInv
<1>1. /\ pc' = [pc EXCEPT ![q] = "sent"] /\ pending' = pending \cup {Second(q)}
      /\ inFly' = inFly + 1 /\ UNCHANGED <<key, answered>>
  BY DEF SendQuery
<1>2. Waiting' = Waiting \cup {q} /\ InFlight' = InFlight \cup {q} /\ q \notin InFlight
  BY <1>1 DEF CallTypes, Waiting, InFlight
<1>3. inFly' = Cardinality(InFlight') /\ inFly' \in Nat
  <2>1. Cardinality(InFlight \cup {q}) = Cardinality(InFlight) + 1
    BY <1>2, FlightFinite, FS_AddElement
  <2> QED BY <1>1, <1>2, <2>1 DEF NothingLeft, CallTypes
<1>4. CallTypes' /\ KeysOwned'
  BY <1>1, <1>3 DEF CallTypes, KeysOwned
<1>5. \A p \in Waiting' : p # q => p \in Waiting /\ pc'[p] = pc[p] /\ key'[p] = key[p]
  BY <1>1, <1>2 DEF CallTypes, Waiting
<1>6. pc'[q] = "sent"
  BY <1>1 DEF CallTypes
<1>7. CallsReachable'
  <2> SUFFICES ASSUME NEW p \in Waiting'
               PROVE  /\ Awaited(p)' \in pending' \cup answered'
                      /\ pc'[p] = "handshake" => key'[p] \in DOMAIN confirms'
    BY DEF CallsReachable
  <2>1. CASE p = q
    BY <1>1, <1>6, <2>1 DEF Awaited, Second
  <2>2. CASE p # q
    <3>1. Awaited(p)' = Awaited(p)
      BY <1>5, <2>2 DEF Awaited, First, Second
    <3>2. pc[p] = "handshake" => key[p] # key[q]
      BY <1>5, <2>2 DEF CallsReachable, CallTypes, KeysOwned, Waiting
    <3> QED BY <1>1, <1>5, <2>2, <3>1, <3>2 DEF CallsReachable
  <2> QED BY <2>1, <2>2
<1>8. pending' \subseteq {Awaited(p)' : p \in Waiting'}
  <2> SUFFICES ASSUME NEW id \in pending' PROVE \E p \in Waiting' : id = Awaited(p)'
    OBVIOUS
  <2>1. CASE id = Second(q)
    BY <1>2, <1>6, <2>1 DEF Awaited, Second
  <2>2. CASE id \in pending
    <3>1. PICK p \in Waiting : id = Awaited(p)
      BY <2>2 DEF NothingLeft
    <3>2. p # q
      BY <2>2, <3>1 DEF Awaited
    <3>3. p \in Waiting' /\ pc'[p] = pc[p]
      BY <1>2, <1>5, <3>2
    <3> QED BY <3>1, <3>3 DEF Awaited, First, Second
  <2> QED BY <1>1, <2>1, <2>2
<1>9. answered' \subseteq {First(p) : p \in Waiting'} \cup {Second(p) : p \in InFlight'}
  BY <1>1, <1>2 DEF NothingLeft
<1>10. \A j \in DOMAIN confirms' : \E p \in Waiting' : pc'[p] = "handshake" /\ key'[p] = j
  <2> TAKE j \in DOMAIN confirms'
  <2>1. PICK p \in Waiting : pc[p] = "handshake" /\ key[p] = j
    BY DEF NothingLeft
  <2>2. p # q
    BY <2>1
  <2> QED BY <1>2, <1>5, <2>1, <2>2
<1>11. pending' \cap answered' = {}
  <2>1. Second(q) \notin answered
    BY <1>2 DEF NothingLeft, First, Second
  <2> QED BY <1>1, <2>1
<1>12. {First(p) : p \in Waiting'} = {First(p)' : p \in Waiting'} /\ {Second(p) : p \in InFlight'} = {Second(p)' : p \in InFlight'}
  BY DEF First, Second
<1> QED BY <1>3, <1>4, <1>7, <1>8, <1>9, <1>10, <1>11, <1>12 DEF NothingLeft

(* The one that waits for a confirmation goes on to wait for the answer.   *)
LEMMA CallGoesOn ==
  ASSUME CallsInv, NEW q \in Queries, pc[q] = "handshake",
         pc' = [pc EXCEPT ![q] = "bundled"], UNCHANGED <<key, pending, answered, nextKey, inFly>>,
         DOMAIN confirms' = DOMAIN confirms \ {key[q]}
  PROVE  CallsInv'
<1> USE DEF CallsInv
<1>1. Waiting' = Waiting /\ InFlight' = InFlight
  BY DEF CallTypes, Waiting, InFlight
<1>2. \A p \in Waiting : p # q => pc'[p] = pc[p]
  BY DEF CallTypes, Waiting
<1>3. \A p \in Waiting : Awaited(p)' = Awaited(p)
  BY DEF Awaited, First, Second, CallTypes, Waiting
<1>4. CallTypes' /\ KeysOwned'
  BY DEF CallTypes, KeysOwned
<1>5. CallsReachable'
  <2>1. \A p \in Waiting : pc'[p] = "handshake" => p # q /\ key[p] # key[q]
    BY DEF CallsReachable, CallTypes, KeysOwned, Waiting
  <2> QED BY <1>1, <1>2, <1>3, <2>1 DEF CallsReachable
<1>6. \A k \in DOMAIN confirms' : \E p \in Waiting' : pc'[p] = "handshake" /\ key'[p] = k
  <2> TAKE k \in DOMAIN confirms'
  <2>1. PICK p \in Waiting : pc[p] = "handshake" /\ key[p] = k
    BY DEF NothingLeft
  <2> QED BY <1>1, <1>2, <2>1
<1>7. {Awaited(p)' : p \in Waiting'} = {Awaited(p) : p \in Waiting}
  BY <1>1, <1>3
<1>8. /\ {First(p)' : p \in Waiting'} = {First(p) : p \in Waiting}
      /\ {Second(p)' : p \in InFlight'} = {Second(p) : p \in InFlight}
  BY <1>1 DEF First, Second
<1> QED BY <1>1, <1>4, <1>5, <1>6, <1>7, <1>8 DEF NothingLeft

(* A call that begins to wait, for a handshake or for an answer alone.     *)
LEMMA CallBegins ==
  ASSUME CallsInv, NEW q \in Queries, pc[q] = "idle", NEW w \in {"handshake", "bundled"},
         pc' = [pc EXCEPT ![q] = w], pending' = pending \cup {First(q)},
         UNCHANGED <<answered, inFly>>,
         \/ /\ w = "handshake" /\ key' = [key EXCEPT ![q] = nextKey] /\ nextKey' = nextKey + 1
            /\ DOMAIN confirms' = DOMAIN confirms \cup {nextKey}
         \/ w = "bundled" /\ UNCHANGED <<key, nextKey, confirms>>
  PROVE  CallsInv'
<1> USE DEF CallsInv
<1>1. Waiting' = Waiting \cup {q} /\ InFlight' = InFlight /\ q \notin Waiting /\ q \notin InFlight
  BY DEF CallTypes, Waiting, InFlight
<1>2. \A p \in Waiting : p # q /\ pc'[p] = pc[p] /\ key'[p] = key[p]
  BY <1>1 DEF CallTypes, Waiting
<1>3. pc'[q] = w /\ Awaited(q)' = First(q) /\ \A p \in Waiting : Awaited(p)' = Awaited(p)
  BY <1>2 DEF Awaited, First, Second, CallTypes
<1>4. CallTypes' /\ KeysOwned'
  BY DEF CallTypes, KeysOwned
<1>5. CallsReachable'
  <2>1. w = "handshake" => key'[q] \in DOMAIN confirms'
    BY DEF CallTypes
  <2> QED BY <1>1, <1>2, <1>3, <2>1 DEF CallsReachable
<1>6. \A k \in DOMAIN confirms' : \E p \in Waiting' : pc'[p] = "handshake" /\ key'[p] = k
  <2> TAKE k \in DOMAIN confirms'
  <2>1. CASE k \in DOMAIN confirms
    <3>1. PICK p \in Waiting : pc[p] = "handshake" /\ key[p] = k
      BY <2>1 DEF NothingLeft
    <3> QED BY <1>1, <1>2, <3>1
  <2>2. CASE k \notin DOMAIN confirms
    <3>1. w = "handshake" /\ k = nextKey /\ key'[q] = k
      BY <2>2 DEF CallTypes
    <3> QED BY <1>1, <1>3, <3>1
  <2> QED BY <2>1, <2>2
<1>7. pending' \subseteq {Awaited(p)' : p \in Waiting'}
  <2>1. \A id \in pending : \E p \in Waiting' : id = Awaited(p)'
    BY <1>1, <1>3 DEF NothingLeft
  <2>2. First(q) = Awaited(q)' /\ q \in Waiting'
    BY <1>1, <1>3
  <2> QED BY <2>1, <2>2
<1>8. answered' \subseteq {First(p)' : p \in Waiting'} \cup {Second(p)' : p \in InFlight'}
  BY <1>1 DEF NothingLeft, First, Second
<1>9. pending' \cap answered' = {}
  BY <1>1 DEF NothingLeft, First, Second
<1> QED BY <1>1, <1>4, <1>5, <1>6, <1>7, <1>8, <1>9 DEF NothingLeft

(* What a call that is not registered anywhere, or has its answer, leaves. *)
LEMMA CallGivesUp ==
  ASSUME CallsInv, NEW q \in Queries, Ends(q), pc[q] # "sent", First(q) \notin pending,
         UNCHANGED <<pending, inFly, nextKey>>, DOMAIN confirms' = DOMAIN confirms \ {key[q]}
  PROVE  CallsInv'
<1>1. Second(q) \notin pending
  BY DEF CallsInv, NothingLeft, Awaited, First, Second, InFlight, Waiting
<1> QED BY <1>1, CallEnds

LEMMA CallEnsured ==
  ASSUME CallsInv, NEW q \in Queries, NEW k, ChannelEnsured(q, k), First(q) \in answered,
         pc[q] \in {"handshake", "bundled"}, nextKey' = nextKey,
         DOMAIN confirms' = DOMAIN confirms \ {key[q]}
  PROVE  CallsInv'
<1>1. First(q) \notin pending /\ q \in Waiting
  BY DEF CallsInv, Waiting
<1>2. CASE Ends(q) /\ UNCHANGED <<pending, inFly>>
  BY <1>1, <1>2, CallGivesUp
<1>3. CASE SendQuery(q, k)
  BY <1>1, <1>3, CallSends
<1> QED BY <1>2, <1>3 DEF ChannelEnsured, GivesUp, node

LEMMA CallStep ==
  ASSUME CallsInv, NEW q \in Queries, Call(q) PROVE CallsInv'
<1>1. pc[q] = "idle" /\ key[q] \notin DOMAIN confirms
  BY ConfirmsOwned DEF Call
<1>2. First(q) \notin pending \cup answered
  BY <1>1 DEF CallsInv, NothingLeft, Awaited, First, Second, Waiting
<1>3. CASE GivesUp(q) /\ UNCHANGED <<confirms, nextKey>>
  BY <1>1, <1>2, <1>3, CallGivesUp DEF GivesUp
<1>4. CASE /\ BeginHandshake(First(q))
           /\ pc' = [pc EXCEPT ![q] = "handshake"] /\ key' = [key EXCEPT ![q] = nextKey]
           /\ pending' = pending \cup {First(q)}
           /\ UNCHANGED <<node, answered>>
  BY <1>1, <1>4, CallBegins DEF BeginHandshake, node
<1>5. CASE /\ pc' = [pc EXCEPT ![q] = "bundled"] /\ pending' = pending \cup {First(q)}
           /\ UNCHANGED <<node, answered, key, confirms, nextKey, network>>
  BY <1>1, <1>5, CallBegins DEF node
<1>6. CASE SendQuery(q, channel) /\ UNCHANGED <<confirms, nextKey>>
  BY <1>1, <1>2, <1>6, CallSends
<1>7. /\ bound = TRUE \/ bound # TRUE
      /\ q \in Connects \/ q \notin Connects
  OBVIOUS
<1> QED BY <1>3, <1>4, <1>5, <1>6, ProviderAssumption DEF Call

(* What is answered goes from pending to answered.                         *)
LEMMA ResolveStep ==
  ASSUME CallsInv, NEW id, ResolveFuture(id), DOMAIN confirms' = DOMAIN confirms,
         UNCHANGED <<pc, key, inFly, nextKey>>
  PROVE  CallsInv'
<1> USE DEF CallsInv
<1>1. Waiting' = Waiting /\ InFlight' = InFlight
  BY DEF Waiting, InFlight
<1>2. /\ \A p \in Queries : Awaited(p)' = Awaited(p) /\ First(p)' = First(p) /\ Second(p)' = Second(p)
      /\ Waiting \subseteq Queries /\ InFlight \subseteq Waiting
  BY DEF Awaited, First, Second, Waiting, InFlight
<1>3. pending' \cup answered' = pending \cup answered /\ pending' \cap answered' = {}
  BY DEF ResolveFuture
<1>4. id \in pending => id \in {First(p) : p \in Waiting} \cup {Second(p) : p \in InFlight}
  BY DEF NothingLeft, Awaited, InFlight, Waiting
<1>5. CallTypes' /\ KeysOwned' /\ CallsReachable'
  BY <1>1, <1>2, <1>3 DEF CallTypes, KeysOwned, CallsReachable
<1>6. pending' \subseteq {Awaited(p)' : p \in Waiting'}
  BY <1>1, <1>2 DEF ResolveFuture, NothingLeft
<1>7. answered' \subseteq {First(p)' : p \in Waiting'} \cup {Second(p)' : p \in InFlight'}
  BY <1>1, <1>2, <1>4 DEF ResolveFuture, NothingLeft
<1>8. \A k \in DOMAIN confirms' : \E p \in Waiting' : pc'[p] = "handshake" /\ key'[p] = k
  BY <1>1 DEF NothingLeft
<1> QED BY <1>1, <1>3, <1>5, <1>6, <1>7, <1>8 DEF NothingLeft

LEMMA CallsSame ==
  ASSUME CallsInv, UNCHANGED <<pc, key, pending, answered, inFly, nextKey>>,
         DOMAIN confirms' = DOMAIN confirms
  PROVE  CallsInv'
<1>1. /\ Waiting' = Waiting /\ InFlight' = InFlight
      /\ \A p \in Queries : Awaited(p)' = Awaited(p) /\ First(p)' = First(p) /\ Second(p)' = Second(p)
      /\ Waiting \subseteq Queries /\ InFlight \subseteq Queries
  BY DEF Waiting, InFlight, Awaited, First, Second
<1>2. CallTypes' /\ KeysOwned' /\ CallsReachable'
  BY <1>1 DEF CallsInv, CallTypes, KeysOwned, CallsReachable
<1>3. NothingLeft'
  BY <1>1 DEF CallsInv, NothingLeft
<1> QED BY <1>2, <1>3 DEF CallsInv

(* A provider whose loop is gone has nobody waiting, so that every other   *)
(* step finds it running.                                                  *)
LEMMA StaysClosed ==
  ASSUME ProviderInv, running, UNCHANGED life PROVE ClosedToTheEnd' /\ (binding' => running')
BY DEF ProviderInv, ClosedToTheEnd, life

LEMMA WaitingRuns == ProviderInv /\ Waiting # {} => running
BY DEF ProviderInv, ClosedToTheEnd

LEMMA ProviderStep == ProviderInv /\ [ProviderNext]_<<udp, provider>> => ProviderInv'
<1> SUFFICES ASSUME ProviderInv, [ProviderNext]_<<udp, provider>> PROVE ProviderInv'
  OBVIOUS
<1>0. CallsInv /\ running \in BOOLEAN /\ binding \in BOOLEAN
  BY DEF ProviderInv
<1>1. CASE Bind
  <2>1. CallsInv'
    BY <1>0, <1>1, CallsSame DEF Bind, calls, node, udp
  <2> QED BY <1>1, <2>1 DEF Bind, ProviderInv, ClosedToTheEnd
<1>2. ASSUME NEW ok \in BOOLEAN, BindEnds(ok) PROVE ProviderInv'
  <2>1. CallsInv'
    BY <1>0, <1>2, CallsSame DEF BindEnds, calls, node
  <2> QED BY <1>2, <2>1 DEF BindEnds, ProviderInv, ClosedToTheEnd
<1>3. CASE Close
  <2>1. CallsInv'
    BY <1>0, <1>3, CallsSame DEF Close, calls, node
  <2> QED BY <1>3, <2>1 DEF Close, ProviderInv, ClosedToTheEnd
<1>4. CASE CloseGoesOn
  <2>1. /\ pc' = [q \in Queries |-> IF q \in Waiting THEN "ended" ELSE pc[q]]
        /\ key' = [q \in Queries |-> 0] /\ pending' = {} /\ answered' = {} /\ inFly' = 0
        /\ running' = FALSE /\ reader' = "stopped" /\ ~binding' /\ binding' \in BOOLEAN
        /\ bound' = FALSE /\ channel' = 0 /\ channels' = {} /\ confirms' = <<>> /\ nextKey' = nextKey
    BY <1>0, <1>4 DEF CloseGoesOn, CloseUdp
  <2>2. Waiting' = {} /\ InFlight' = {}
    BY <1>0, <2>1 DEF Waiting, InFlight, CallsInv, CallTypes
  <2>3. Cardinality(InFlight') = 0
    BY <2>2, FS_EmptySet
  <2>4. DOMAIN confirms' = {}
    BY <2>1
  <2>5. CallTypes' /\ KeysOwned'
    BY <1>0, <2>1, <2>4 DEF CallsInv, CallTypes, KeysOwned, Waiting
  <2>6. CallsReachable' /\ NothingLeft' /\ ClosedToTheEnd'
    BY <2>1, <2>2, <2>3, <2>4 DEF CallsReachable, NothingLeft, ClosedToTheEnd
  <2> QED BY <2>1, <2>5, <2>6 DEF ProviderInv, CallsInv
<1>5. ASSUME NEW q \in Queries, Call(q) PROVE ProviderInv'
  <2>1. running /\ UNCHANGED life
    BY <1>5 DEF Call
  <2> QED BY <1>0, <1>5, <2>1, CallStep, StaysClosed DEF ProviderInv, life
<1>6. ASSUME NEW q \in Queries, Confirmed(q) PROVE ProviderInv'
  <2>1. pc[q] = "handshake" /\ UNCHANGED life /\ nextKey' = nextKey
    BY <1>6 DEF Confirmed
  <2>2. running
    BY <2>1, WaitingRuns DEF Waiting
  <2>3. DOMAIN confirms' = DOMAIN confirms \ {key[q]}
    BY <1>6 DEF Confirmed, SetChannel, WithoutConfirm
  <2>4. CallsInv'
    <3>1. CASE First(q) \in answered
      <4>1. ChannelEnsured(q, key[q])
        BY <1>6, <3>1 DEF Confirmed
      <4> QED BY <1>0, <2>1, <2>3, <3>1, <4>1, CallEnsured
    <3>2. CASE First(q) \notin answered
      <4>1. pc' = [pc EXCEPT ![q] = "bundled"] /\ UNCHANGED <<key, pending, answered, inFly>>
        BY <1>6, <3>2 DEF Confirmed, node
      <4> QED BY <1>0, <2>1, <2>3, <4>1, CallGoesOn
    <3> QED BY <3>1, <3>2
  <2> QED BY <1>0, <2>1, <2>2, <2>4, StaysClosed DEF ProviderInv, life
<1>7. ASSUME NEW q \in Queries, Bundled(q) PROVE ProviderInv'
  <2>1. /\ pc[q] = "bundled" /\ First(q) \in answered /\ ChannelEnsured(q, channel)
        /\ UNCHANGED <<life, nextKey, confirms>>
    BY <1>7 DEF Bundled
  <2>2. running
    BY <2>1, WaitingRuns DEF Waiting
  <2>3. DOMAIN confirms' = DOMAIN confirms \ {key[q]}
    BY <1>0, <2>1, ConfirmsOwned
  <2>4. CallsInv'
    BY <1>0, <2>1, <2>3, CallEnsured
  <2> QED BY <1>0, <2>1, <2>2, <2>4, StaysClosed DEF ProviderInv, life
<1>8. ASSUME NEW q \in Queries, NEW cancelled \in BOOLEAN, ChannelFails(q, cancelled) PROVE ProviderInv'
  <2>1. /\ pc[q] \in {"handshake", "bundled"} /\ Ends(q) /\ AbandonHandshake(key[q])
        /\ pending' = pending \ {First(q)} /\ UNCHANGED <<life, nextKey, inFly>>
    BY <1>8 DEF ChannelFails
  <2>2. running
    BY <2>1, WaitingRuns DEF Waiting
  <2>3. Second(q) \notin pending
    BY <1>0, <2>1 DEF CallsInv, NothingLeft, Awaited, First, Second, InFlight, Waiting
  <2>4. DOMAIN confirms' = DOMAIN confirms \ {key[q]}
    BY <2>1 DEF AbandonHandshake, WithoutConfirm
  <2>5. CallsInv'
    BY <1>0, <2>1, <2>3, <2>4, CallEnds
  <2> QED BY <1>0, <2>1, <2>2, <2>5, StaysClosed DEF ProviderInv, life
<1>9. ASSUME NEW q \in Queries, NEW how, QueryEnds(q, how) PROVE ProviderInv'
  <2>1. /\ pc[q] = "sent" /\ Ends(q) /\ inFly' = inFly - 1
        /\ pending' = pending \ {Second(q)} /\ UNCHANGED <<life, nextKey, confirms>>
    BY <1>9 DEF QueryEnds
  <2>2. running
    BY <2>1, WaitingRuns DEF Waiting
  <2>3. First(q) \notin pending
    BY <1>0, <2>1 DEF CallsInv, NothingLeft, Awaited, First, Second, Waiting
  <2>4. DOMAIN confirms' = DOMAIN confirms \ {key[q]}
    BY <1>0, <2>1, ConfirmsOwned
  <2>5. CallsInv'
    BY <1>0, <2>1, <2>3, <2>4, CallEnds
  <2> QED BY <1>0, <2>1, <2>2, <2>5, StaysClosed DEF ProviderInv, life
<1>10. ASSUME NEW d \in network, NEW intact \in BOOLEAN, Read(d, intact) PROVE ProviderInv'
  <2>1. /\ reader = "running" /\ UNCHANGED <<running, binding, pc, key, inFly, nextKey>>
        /\ \/ Dispatch(d)
           \/ UNCHANGED <<pending, answered, confirms>>
    BY <1>10 DEF Read, node
  <2>2. running
    BY <2>1 DEF ProviderInv, ClosedToTheEnd
  <2>3. CallsInv'
    <3>1. CASE ResolveChannelConfirm(d.key) /\ UNCHANGED <<pending, answered>>
      <4>1. DOMAIN confirms' = DOMAIN confirms
        BY <3>1 DEF ResolveChannelConfirm
      <4> QED BY <1>0, <2>1, <3>1, <4>1, CallsSame
    <3>2. CASE ResolveFuture(d.query) /\ UNCHANGED confirms
      BY <1>0, <2>1, <3>2, ResolveStep
    <3>3. CASE UNCHANGED <<pending, answered, confirms>>
      BY <1>0, <2>1, <3>3, CallsSame
    <3> QED BY <2>1, <3>1, <3>2, <3>3 DEF Dispatch
  <2> QED BY <1>0, <2>1, <2>2, <2>3 DEF ProviderInv, ClosedToTheEnd
<1>11. CASE (NodeNext /\ UNCHANGED provider) \/ UNCHANGED <<udp, provider>>
  <2>1. UNCHANGED <<pc, key, pending, answered, inFly, nextKey, confirms, life, bound, channel, channels>>
    BY <1>11 DEF NodeNext, provider, calls, node, udp
  <2>2. CallsInv' /\ Waiting' = Waiting
    BY <1>0, <2>1, CallsSame DEF Waiting
  <2> QED BY <1>0, <2>1, <2>2 DEF ProviderInv, ClosedToTheEnd, life
<1> QED BY <1>1, <1>2, <1>3, <1>4, <1>5, <1>6, <1>7, <1>8, <1>9, <1>10, <1>11 DEF ProviderNext

LEMMA ProviderStarts == ProviderInit => ProviderInv
<1> SUFFICES ASSUME ProviderInit PROVE ProviderInv
  OBVIOUS
<1>1. Waiting = {} /\ InFlight = {} /\ DOMAIN confirms = {}
  BY DEF ProviderInit, UdpInit, Waiting, InFlight
<1>2. Cardinality(InFlight) = 0
  BY <1>1, FS_EmptySet
<1>3. CallTypes /\ KeysOwned
  BY <1>1 DEF ProviderInit, UdpInit, CallTypes, KeysOwned
<1>4. CallsReachable /\ NothingLeft /\ ClosedToTheEnd
  BY <1>1, <1>2 DEF CallsReachable, NothingLeft, ClosedToTheEnd, ProviderInit, UdpInit
<1>5. running \in BOOLEAN /\ binding \in BOOLEAN /\ ~binding /\ pending \cap answered = {}
  BY DEF ProviderInit
<1> QED BY <1>3, <1>4, <1>5 DEF ProviderInv, CallsInv

(* However the handshakes with one node overlap, whatever the network      *)
(* loses, damages and repeats, and whether the reader lives or not: what a *)
(* call waits for is registered and nothing else is, and a provider can be *)
(* bound again only after a close() that came to its end.                  *)
THEOREM NothingIsForgotten == ProviderSpec => []NothingForgotten
<1>1. ProviderInit => ProviderInv
  BY ProviderStarts
<1>2. ProviderInv /\ [ProviderNext]_<<udp, provider>> => ProviderInv'
  BY ProviderStep
<1>3. ProviderInv => NothingForgotten
  BY DEF ProviderInv, CallsInv, NothingForgotten
<1> QED BY <1>1, <1>2, <1>3, PTL DEF ProviderSpec

(* Every variable of a provider keeps its type.                            *)
LEMMA ProviderTypesStep ==
  ProviderTypeOK /\ ProviderInv' /\ [ProviderNext]_<<udp, provider>> => ProviderTypeOK'
<1> SUFFICES ASSUME ProviderTypeOK, ProviderInv', [ProviderNext]_<<udp, provider>> PROVE ProviderTypeOK'
  OBVIOUS
<1> USE DEF ProviderTypeOK
<1>1. inFly' \in Nat
  BY DEF ProviderInv, CallsInv, CallTypes
<1>2. \A s \in Nat, good \in BOOLEAN : StatusAfter(s, good, MaxFailCount) \in Nat
  BY DEF StatusAfter, MaxFailCount
<1>3. \A q \in Queries : {First(q), Second(q)} \subseteq Queries \X {"bundled", "query"}
  BY DEF First, Second
<1>4. \A q \in Queries : Ends(q) => /\ pc' \in [Queries -> {"idle", "handshake", "bundled", "sent", "ended"}]
                                   /\ key' \in [Queries -> 0..MaxKeys]
                                   /\ answered' \subseteq answered
  BY UdpAssumption DEF Ends
<1>5. \A q \in Queries, k \in 0..MaxKeys : SendQuery(q, k) =>
        /\ pc' \in [Queries -> {"idle", "handshake", "bundled", "sent", "ended"}]
        /\ pending' \subseteq Queries \X {"bundled", "query"}
        /\ UNCHANGED <<badScore, key, answered>>
  BY <1>3 DEF SendQuery
<1>6. \A q \in Queries : GivesUp(q) => badScore' \in Nat /\ Ends(q) /\ UNCHANGED pending
  BY <1>2 DEF GivesUp, UpdateStatus
<1>7. \A q \in Queries, k \in 0..MaxKeys : ChannelEnsured(q, k) =>
        /\ pc' \in [Queries -> {"idle", "handshake", "bundled", "sent", "ended"}]
        /\ key' \in [Queries -> 0..MaxKeys]
        /\ pending' \cup answered' \subseteq Queries \X {"bundled", "query"}
        /\ badScore' \in Nat
  <2> TAKE q \in Queries, k \in 0..MaxKeys
  <2>1. ASSUME Ends(q), UNCHANGED <<badScore, pending>>
        PROVE  /\ pc' \in [Queries -> {"idle", "handshake", "bundled", "sent", "ended"}]
               /\ key' \in [Queries -> 0..MaxKeys]
               /\ pending' \cup answered' \subseteq Queries \X {"bundled", "query"}
               /\ badScore' \in Nat
    BY <1>4, <2>1
  <2> QED BY <1>4, <1>5, <1>6, <2>1 DEF ChannelEnsured, node
<1>8. \A id : ResolveFuture(id) => pending' \cup answered' \subseteq Queries \X {"bundled", "query"}
  BY DEF ResolveFuture
<1>9. CASE Bind \/ Close
  BY <1>9 DEF Bind, Close, udp, calls, node
<1>10. CASE CloseGoesOn
  <2>1. /\ pc' = [q \in Queries |-> IF q \in Waiting THEN "ended" ELSE pc[q]]
        /\ key' = [q \in Queries |-> 0] /\ pending' = {} /\ answered' = {} /\ inFly' = 0
        /\ running' = FALSE /\ reader' = "stopped" /\ UNCHANGED <<binding, badScore, nextKey>>
        /\ bound' = FALSE /\ channel' = 0 /\ channels' = {} /\ confirms' = <<>>
    BY <1>10 DEF CloseGoesOn, CloseUdp
  <2>2. 0 \in 0..MaxKeys /\ DOMAIN confirms' = {}
    BY <2>1, UdpAssumption
  <2>3. pc' \in [Queries -> {"idle", "handshake", "bundled", "sent", "ended"}]
    BY <2>1
  <2>4. key' \in [Queries -> 0..MaxKeys]
    BY <2>1, <2>2
  <2>5. running' \in BOOLEAN /\ bound' \in BOOLEAN
    BY <2>1, Zenon
  <2> QED BY <1>1, <2>1, <2>2, <2>3, <2>4, <2>5
<1>11. ASSUME NEW ok \in BOOLEAN, BindEnds(ok) PROVE ProviderTypeOK'
  BY <1>11 DEF BindEnds, calls, node
<1>12. ASSUME NEW q \in Queries, Call(q) PROVE ProviderTypeOK'
  <2>1. /\ UNCHANGED <<life, bound, channel, channels>> /\ channel \in 0..MaxKeys
        /\ bound \in BOOLEAN
    BY <1>12 DEF Call
  <2>2. CASE GivesUp(q) /\ UNCHANGED <<confirms, nextKey>>
    BY <1>1, <1>4, <1>6, <2>1, <2>2 DEF life
  <2>3. CASE /\ BeginHandshake(First(q))
             /\ pc' = [pc EXCEPT ![q] = "handshake"] /\ key' = [key EXCEPT ![q] = nextKey]
             /\ pending' = pending \cup {First(q)}
             /\ UNCHANGED <<node, answered>>
    <3>1. nextKey \in Keys /\ nextKey' = nextKey + 1 /\ DOMAIN confirms' = DOMAIN confirms \cup {nextKey}
      BY <2>3 DEF BeginHandshake
    <3>2. nextKey' \in 1..MaxKeys + 1 /\ nextKey \in 0..MaxKeys
      BY <3>1, UdpAssumption DEF Keys
    <3> QED BY <1>1, <1>3, <2>1, <2>3, <3>1, <3>2 DEF life, node
  <2>4. CASE /\ pc' = [pc EXCEPT ![q] = "bundled"] /\ pending' = pending \cup {First(q)}
             /\ UNCHANGED <<node, answered, key, confirms, nextKey, network>>
    BY <1>1, <1>3, <2>1, <2>4 DEF life, node
  <2>5. CASE SendQuery(q, channel) /\ UNCHANGED <<confirms, nextKey>>
    BY <1>1, <1>5, <2>1, <2>5 DEF life
  <2> QED BY <1>12, <2>1, <2>2, <2>3, <2>4, <2>5, ProviderAssumption DEF Call
<1>13. ASSUME NEW q \in Queries, Confirmed(q) PROVE ProviderTypeOK'
  <2>1. /\ SetChannel(key[q]) /\ UNCHANGED <<bound, nextKey, life>>
        /\ key[q] \in 0..MaxKeys /\ key[q] \in Keys
    BY <1>13 DEF Confirmed
  <2>2. /\ DOMAIN confirms' \subseteq Keys /\ channels' \subseteq Keys /\ channel' \in 0..MaxKeys
    BY <2>1 DEF SetChannel, WithoutConfirm
  <2>3. CASE ChannelEnsured(q, key[q])
    BY <1>1, <1>7, <2>1, <2>2, <2>3 DEF life
  <2>4. CASE /\ pc' = [pc EXCEPT ![q] = "bundled"]
             /\ UNCHANGED <<network, node, key, answered, pending>>
    BY <1>1, <2>1, <2>2, <2>4 DEF life, node
  <2> QED BY <1>13, <2>3, <2>4 DEF Confirmed
<1>14. ASSUME NEW q \in Queries, Bundled(q) PROVE ProviderTypeOK'
  BY <1>1, <1>7, <1>14 DEF Bundled, life
<1>15. ASSUME NEW q \in Queries, NEW cancelled \in BOOLEAN, ChannelFails(q, cancelled) PROVE ProviderTypeOK'
  <2>1. /\ Ends(q) /\ pending' = pending \ {First(q)} /\ UNCHANGED <<life, bound, nextKey, channel, channels>>
        /\ DOMAIN confirms' \subseteq Keys
    BY <1>15 DEF ChannelFails, AbandonHandshake, WithoutConfirm
  <2>2. badScore' \in Nat
    BY <1>2, <1>15 DEF ChannelFails, UpdateStatus
  <2> QED BY <1>1, <1>4, <2>1, <2>2 DEF life
<1>16. ASSUME NEW q \in Queries, NEW how \in {"answer", "error", "timeout", "cancel"}, QueryEnds(q, how)
       PROVE  ProviderTypeOK'
  <2>1. /\ Ends(q) /\ pending' = pending \ {Second(q)} /\ UNCHANGED <<life, bound, nextKey, confirms>>
        /\ channel' \in {channel, 0} /\ channels' \subseteq channels
    BY <1>16 DEF QueryEnds, ResetPeerChannel
  <2>2. badScore' \in Nat
    <3>1. badScore' \in ScoresAfter(how)
      BY <1>16 DEF QueryEnds
    <3>2. Penalised(0) \in Nat /\ Penalised(badScore) \in Nat
      BY <1>2 DEF Penalised
    <3>3. ScoresAfter(how) \subseteq {0, badScore, Penalised(0), Penalised(badScore)}
      BY DEF ScoresAfter
    <3> QED BY <3>1, <3>2, <3>3
  <2>3. 0 \in 0..MaxKeys
    BY UdpAssumption
  <2> QED BY <1>1, <1>4, <2>1, <2>2, <2>3 DEF life
<1>17. ASSUME NEW d \in network, NEW intact \in BOOLEAN, Read(d, intact) PROVE ProviderTypeOK'
  <2>1. /\ UNCHANGED <<running, binding, bound, channel, channels, nextKey, pc, key, inFly, badScore>>
        /\ reader' \in {reader, "dead"} /\ (Dispatch(d) \/ UNCHANGED <<pending, answered, confirms>>)
    BY <1>17 DEF Read, node
  <2>2. DOMAIN confirms' = DOMAIN confirms /\ pending' \cup answered' \subseteq Queries \X {"bundled", "query"}
    BY <1>8, <2>1 DEF Dispatch, ResolveChannelConfirm
  <2> QED BY <2>1, <2>2
<1>18. CASE (NodeNext /\ UNCHANGED provider) \/ UNCHANGED <<udp, provider>>
  BY <1>18 DEF NodeNext, provider, udp, life, calls, node
<1> QED BY <1>9, <1>10, <1>11, <1>12, <1>13, <1>14, <1>15, <1>16, <1>17, <1>18 DEF ProviderNext

(* Type correctness of a DHT provider and its transport.                   *)
THEOREM ProviderTypesCorrect == ProviderSpec => []ProviderTypeOK
<1>1. ProviderInit => ProviderInv /\ ProviderTypeOK
  <2>1. ProviderInit => ProviderTypeOK
    <3> SUFFICES ASSUME ProviderInit PROVE ProviderTypeOK
      OBVIOUS
    <3>1. DOMAIN confirms = {}
      BY DEF ProviderInit, UdpInit
    <3>2. 0 \in 0..MaxKeys /\ 1 \in 1..MaxKeys + 1
      BY UdpAssumption
    <3>3. running \in BOOLEAN /\ binding \in BOOLEAN /\ bound \in BOOLEAN
      BY Zenon DEF ProviderInit, UdpInit
    <3>4. /\ pc \in [Queries -> {"idle", "handshake", "bundled", "sent", "ended"}]
          /\ key \in [Queries -> 0..MaxKeys]
      BY <3>2 DEF ProviderInit
    <3>5. /\ reader = "stopped" /\ pending = {} /\ answered = {} /\ inFly = 0 /\ badScore = 0
          /\ channel = 0 /\ channels = {} /\ nextKey = 1
      BY DEF ProviderInit, UdpInit
    <3> QED BY <3>1, <3>2, <3>3, <3>4, <3>5 DEF ProviderTypeOK
  <2> QED BY <2>1, ProviderStarts
<1>2. ProviderInv /\ ProviderTypeOK /\ [ProviderNext]_<<udp, provider>> => ProviderInv' /\ ProviderTypeOK'
  BY ProviderStep, ProviderTypesStep
<1> QED BY <1>1, <1>2, PTL DEF ProviderSpec
------------------------------------------------------------------------------
(* What sums up the parts of a message. *)
LEMMA UpToFacts ==
  ASSUME NEW got, \A i \in DOMAIN got : got[i] \in Nat
  PROVE  /\ UpTo(got) \in [Nat -> Nat] /\ UpTo(got)[0] = 0
         /\ \A n \in Nat : UpTo(got)[n + 1] =
              UpTo(got)[n] + (IF n + 1 \in DOMAIN got THEN got[n + 1] ELSE 0)
<1>1. PICK w : w = [n \in Nat |-> IF n \in DOMAIN got THEN got[n] ELSE 0]
  OBVIOUS
<1>2. \A n \in Nat : w[n] \in Nat
  BY <1>1
<1>3. \E f \in [Nat -> Nat] : f[0] = 0 /\ \A n \in Nat : f[n + 1] = f[n] + w[n + 1]
  BY ONLY <1>2, RunningSum
<1>4. PICK f \in [Nat -> Nat] : f[0] = 0 /\ \A n \in Nat : f[n + 1] = f[n] + w[n + 1]
  BY <1>3
<1> DEFINE next(g, i) == IF i = 0 THEN 0 ELSE g[i - 1] + (IF i \in DOMAIN got THEN got[i] ELSE 0)
<1>5. f = [i \in Nat |-> next(f, i)]
  <2>1. ASSUME NEW i \in Nat PROVE f[i] = next(f, i)
    <3>1. CASE i = 0
      BY <1>4, <3>1
    <3>2. CASE i # 0
      <4>1. i - 1 \in Nat /\ (i - 1) + 1 = i
        BY <3>2
      <4>2. f[(i - 1) + 1] = f[i - 1] + w[(i - 1) + 1]
        BY <1>4, <4>1
      <4> QED BY <1>1, <3>2, <4>1, <4>2
    <3> QED BY <3>1, <3>2
  <2> QED BY <2>1
<1> DEFINE sum == UpTo(got)
<1>6. sum = [i \in Nat |-> next(sum, i)]
  BY <1>5 DEF UpTo
<1> HIDE DEF sum
<1>7. sum[0] = 0
  BY <1>6
<1>8. ASSUME NEW n \in Nat
      PROVE  sum[n + 1] = sum[n] + (IF n + 1 \in DOMAIN got THEN got[n + 1] ELSE 0)
  BY <1>6
<1>9. \A n \in Nat : sum[n] \in Nat
  <2> DEFINE T == {n \in Nat : sum[n] \in Nat}
  <2>1. 0 \in T
    BY <1>7
  <2>2. \A n \in Nat : n \in T => n + 1 \in T
    BY <1>8
  <2>3. Nat \subseteq T
    <3> HIDE DEF T
    <3> QED BY <2>1, <2>2, SetInduction
  <2> QED BY <2>3
<1>10. sum \in [Nat -> Nat]
  BY <1>6, <1>9
<1> QED BY <1>7, <1>8, <1>10 DEF sum

(* As long as one part is missing, less than the whole has come. *)
LEMMA MissingPartIsMissed ==
  ASSUME NEW whole, \A i \in DOMAIN whole : whole[i] \in Nat \ {0},
         NEW got, DOMAIN got \subseteq DOMAIN whole, \A i \in DOMAIN got : got[i] = whole[i]
  PROVE  \A n \in Nat :
           /\ UpTo(got)[n] <= UpTo(whole)[n]
           /\ (\E i \in 1..n : i \in DOMAIN whole \ DOMAIN got) => UpTo(got)[n] < UpTo(whole)[n]
<1> DEFINE a == UpTo(got)
           b == UpTo(whole)
           ofGot(n) == IF n \in DOMAIN got THEN got[n] ELSE 0
           ofWhole(n) == IF n \in DOMAIN whole THEN whole[n] ELSE 0
<1>1. a \in [Nat -> Nat] /\ a[0] = 0 /\ \A n \in Nat : a[n + 1] = a[n] + ofGot(n + 1)
  BY UpToFacts
<1>2. b \in [Nat -> Nat] /\ b[0] = 0 /\ \A n \in Nat : b[n + 1] = b[n] + ofWhole(n + 1)
  BY UpToFacts
<1>3. \A n \in Nat : /\ ofGot(n) \in Nat /\ ofWhole(n) \in Nat /\ ofGot(n) <= ofWhole(n)
                     /\ n \in DOMAIN whole \ DOMAIN got => ofGot(n) < ofWhole(n)
  OBVIOUS
<1> HIDE DEF a, b, ofGot, ofWhole
<1> DEFINE T == {n \in Nat : /\ a[n] <= b[n]
                             /\ (\E i \in 1..n : i \in DOMAIN whole \ DOMAIN got) => a[n] < b[n]}
<1>4. 0 \in T
  BY <1>1, <1>2
<1>5. ASSUME NEW n \in Nat, n \in T PROVE n + 1 \in T
  <2>1. /\ a[n] \in Nat /\ b[n] \in Nat /\ a[n] <= b[n] /\ n + 1 \in Nat
        /\ ofGot(n + 1) \in Nat /\ ofWhole(n + 1) \in Nat /\ ofGot(n + 1) <= ofWhole(n + 1)
        /\ a[n + 1] = a[n] + ofGot(n + 1) /\ b[n + 1] = b[n] + ofWhole(n + 1)
    BY <1>1, <1>2, <1>3, <1>5
  <2>2. ASSUME NEW i \in 1..n + 1, i \in DOMAIN whole \ DOMAIN got PROVE a[n + 1] < b[n + 1]
    <3>1. CASE i = n + 1
      <4>1. ofGot(n + 1) < ofWhole(n + 1)
        BY <1>3, <2>1, <2>2, <3>1
      <4> QED BY <2>1, <4>1
    <3>2. CASE i # n + 1
      <4>1. a[n] < b[n]
        BY <1>5, <2>2, <3>2
      <4> QED BY <2>1, <4>1
    <3> QED BY <3>1, <3>2
  <2>3. a[n + 1] <= b[n + 1]
    BY <2>1
  <2> QED BY <2>1, <2>2, <2>3
<1>6. Nat \subseteq T
  <2> HIDE DEF T
  <2> QED BY <1>4, <1>5, SetInduction
<1> QED BY <1>6 DEF a, b

(* The parts that are kept are the message's own, each counted once. *)
PartsAreWhole ==
  \A m \in DOMAIN parts :
    /\ m \in Messages /\ DOMAIN parts[m] \subseteq DOMAIN Lengths[m]
    /\ \A i \in DOMAIN parts[m] : parts[m][i] = Lengths[m][i]

PartsInv == PartsAreWhole /\ PartsReassemble

LEMMA PartsStep == PartsInv /\ [PartsNext]_assembly => PartsInv'
<1> SUFFICES ASSUME PartsInv, [PartsNext]_assembly PROVE PartsInv'
  OBVIOUS
<1>1. CASE PassTime \/ UNCHANGED assembly
  BY <1>1 DEF PassTime, assembly, PartsInv, PartsAreWhole, PartsReassemble
<1>2. ASSUME NEW m \in Messages, NEW i \in DOMAIN Lengths[m], HandlePart(m, i) PROVE PartsInv'
  <2> DEFINE got == WithPart(m, i)
             whole == Collected(m, got) >= TotalSize(m)
             kept == IF whole THEN Fresh \ {m} ELSE Fresh \cup {m}
  <2>1. /\ parts' = [n \in kept |-> IF n = m THEN got ELSE parts[n]]
        /\ reassembled' = IF whole THEN <<m, DOMAIN got>> ELSE <<>>
    BY <1>2 DEF HandlePart
  <2>2. /\ DOMAIN got \subseteq DOMAIN Lengths[m] /\ i \in DOMAIN got
        /\ \A j \in DOMAIN got : got[j] = Lengths[m][j]
    BY DEF WithPart, Fresh, PartsInv, PartsAreWhole
  <2>3. Fresh \subseteq DOMAIN parts
    BY DEF Fresh
  <2> HIDE DEF got
  <2>4. PartsAreWhole'
    BY <2>1, <2>2, <2>3 DEF PartsInv, PartsAreWhole
  <2>5. whole => DOMAIN got = DOMAIN Lengths[m]
    <3> DEFINE parcel == Lengths[m]
               n == Len(parcel)
    <3>1. parcel \in Seq(Nat \ {0})
      BY PartsAssumption
    <3>2. n \in Nat /\ DOMAIN parcel = 1..n /\ \A j \in DOMAIN parcel : parcel[j] \in Nat \ {0}
      BY <3>1
    <3>3. DOMAIN got \subseteq DOMAIN parcel /\ \A j \in DOMAIN got : got[j] = parcel[j]
      BY <2>2
    <3>4. whole <=> UpTo(got)[n] >= UpTo(parcel)[n]
      BY DEF Collected, TotalSize
    <3> HIDE DEF parcel, n, whole
    <3>5. (\E j \in 1..n : j \in DOMAIN parcel \ DOMAIN got) => UpTo(got)[n] < UpTo(parcel)[n]
      BY <3>2, <3>3, MissingPartIsMissed
    <3>6. UpTo(got)[n] \in Nat /\ UpTo(parcel)[n] \in Nat
      <4>1. \A j \in DOMAIN got : got[j] \in Nat
        BY <3>2, <3>3
      <4>2. \A j \in DOMAIN parcel : parcel[j] \in Nat
        BY <3>2
      <4> QED BY <3>2, <4>1, <4>2, UpToFacts
    <3>7. whole => DOMAIN got = DOMAIN parcel
      <4>1. whole => ~(UpTo(got)[n] < UpTo(parcel)[n])
        BY <3>4, <3>6
      <4>2. whole => ~ \E j \in 1..n : j \in DOMAIN parcel \ DOMAIN got
        BY <3>5, <4>1
      <4> QED BY <3>2, <3>3, <4>2
    <3> QED BY <3>7 DEF parcel
  <2> HIDE DEF whole
  <2>6. PartsReassemble'
    BY <2>1, <2>5 DEF PartsReassemble
  <2> QED BY <2>4, <2>6 DEF PartsInv
<1> QED BY <1>1, <1>2 DEF PartsNext

(* A message is only put together when each of its parts has come, however *)
(* often some came and however many were forgotten as stale.               *)
THEOREM PartsAlwaysReassemble == PartsSpec => []PartsReassemble
<1>1. PartsInit => PartsInv
  BY DEF PartsInit, PartsInv, PartsAreWhole, PartsReassemble
<1>2. PartsInv /\ [PartsNext]_assembly => PartsInv'
  BY PartsStep
<1>3. PartsInv => PartsReassemble
  BY DEF PartsInv
<1> QED BY <1>1, <1>2, <1>3, PTL DEF PartsSpec
------------------------------------------------------------------------------
LEMMA IdsAreFinite == IsFiniteSet(Ids) /\ \A S \in SUBSET Ids : IsFiniteSet(S)
<1> DEFINE last == PowerOfTwo[Width] - 1
<1>1. 0 \in Int /\ last \in Int
  BY PowerOfTwoFacts, NodesAssumption
<1>2. IsFiniteSet(Ids)
  <2> HIDE DEF last
  <2>1. IsFiniteSet(0..last)
    BY <1>1, FS_Interval
  <2> QED BY <2>1 DEF Ids, last
<1> QED BY <1>2, FS_Subset

(* Affinities are numbers: no bits at all are always shared. *)
LEMMA AffinityType == \A x, y \in Ids : Affinity(x, y) \in 0..Width
<1> SUFFICES ASSUME NEW x \in Ids, NEW y \in Ids PROVE Affinity(x, y) \in 0..Width
  OBVIOUS
<1> DEFINE shared == {n \in 0..Width : x \div PowerOfTwo[Width - n] = y \div PowerOfTwo[Width - n]}
<1>1. Width \in Nat
  BY NodesAssumption
<1>2. 0 \in shared
  <2>1. PICK P : P = PowerOfTwo[Width]
    OBVIOUS
  <2>2. P \in Nat \ {0} /\ x \in 0..P - 1 /\ y \in 0..P - 1
    BY <1>1, <2>1, PowerOfTwoFacts DEF Ids
  <2>3. x \div P = 0 /\ y \div P = 0
    BY ONLY <2>2
  <2>4. Width - 0 = Width
    BY <1>1
  <2> QED BY <1>1, <2>1, <2>3, <2>4
<1>3. \E n \in shared : \A m \in shared : n >= m
  <2> DEFINE rest == {Width - n : n \in shared}
  <2>1. rest \subseteq Nat /\ rest # {}
    BY <1>1, <1>2
  <2>2. PICK r \in rest : \A q \in rest : r <= q
    <3> HIDE DEF rest
    <3> QED BY <2>1, LeastNat
  <2>3. PICK n \in shared : r = Width - n
    BY <2>2
  <2>4. ASSUME NEW m \in shared PROVE n >= m
    <3>1. Width - m \in rest
      OBVIOUS
    <3>2. n \in 0..Width /\ m \in 0..Width
      OBVIOUS
    <3> QED BY <1>1, <2>2, <2>3, <3>1, <3>2
  <2> HIDE DEF shared
  <2> QED BY <2>4
<1>4. Affinity(x, y) = Max(shared)
  BY DEF Affinity, SharedBits
<1> HIDE DEF shared
<1>5. Max(shared) \in shared
  BY <1>3 DEF Max
<1> QED BY <1>4, <1>5 DEF shared

LEMMA FarthestExists ==
  ASSUME NEW kept \in SUBSET Ids, kept # {}
  PROVE  \E n \in kept : n \in Farthest(kept, Target)
<1> DEFINE far == {Affinity(n, Target) : n \in kept}
<1>1. far \subseteq Nat /\ far # {}
  BY AffinityType, NetworkAssumption
<1>2. PICK a \in far : \A b \in far : a <= b
  <2> HIDE DEF far
  <2> QED BY <1>1, LeastNat
<1> QED BY <1>2 DEF Farthest

(* Of all those it was offered, a list keeps the closest ones. *)
IsBest(kept, all, most) ==
  /\ kept \subseteq all /\ Cardinality(kept) <= most
  /\ \A n \in all \ kept : /\ Cardinality(kept) = most
                          /\ \A m \in kept : Affinity(m, Target) >= Affinity(n, Target)

LEMMA AddOneKeepsBest ==
  ASSUME NEW all \in SUBSET Ids, NEW kept, NEW most \in Nat \ {0}, IsBest(kept, all, most),
         NEW added \in Ids, NEW new \in AddOne(kept, added, most, Target)
  PROVE  IsBest(new, all \cup {added}, most)
<1>1. kept \in SUBSET Ids /\ IsFiniteSet(kept) /\ Cardinality(kept) \in Nat /\ Cardinality(kept) <= most
  BY IdsAreFinite, FS_CardinalityType DEF IsBest
<1>2. \A n \in Ids : Affinity(n, Target) \in Nat
  BY AffinityType, NetworkAssumption
<1>3. CASE added \in kept
  <2>1. new = kept /\ all \cup {added} = all
    BY <1>3 DEF AddOne, IsBest
  <2> QED BY <2>1
<1>4. CASE added \notin kept /\ Cardinality(kept) < most
  <2>1. new = kept \cup {added}
    BY <1>4 DEF AddOne
  <2>2. Cardinality(new) = Cardinality(kept) + 1
    BY <1>1, <1>4, <2>1, FS_AddElement
  <2>3. kept = all
    BY <1>1, <1>4 DEF IsBest
  <2> QED BY <1>1, <1>4, <2>1, <2>2, <2>3 DEF IsBest
<1>5. CASE added \notin kept /\ ~(Cardinality(kept) < most)
  <2>1. Cardinality(kept) = most /\ kept # {}
    BY <1>1, <1>5, FS_EmptySet
  <2> DEFINE worst == CHOOSE n \in Farthest(kept, Target) : TRUE
  <2>2. worst \in Farthest(kept, Target)
    BY <1>1, <2>1, FarthestExists
  <2> HIDE DEF worst
  <2>3. worst \in kept /\ \A m \in kept : Affinity(worst, Target) <= Affinity(m, Target)
    BY <2>2 DEF Farthest
  <2>4. CASE Affinity(added, Target) <= Affinity(worst, Target)
    <3>1. new = kept
      BY <1>5, <2>4 DEF AddOne, worst
    <3>2. ASSUME NEW m \in kept PROVE Affinity(m, Target) >= Affinity(added, Target)
      BY <1>1, <1>2, <2>3, <2>4
    <3> QED BY <1>1, <2>1, <3>1, <3>2 DEF IsBest
  <2>5. CASE ~(Affinity(added, Target) <= Affinity(worst, Target))
    <3>1. PICK n \in Farthest(kept, Target) : new = (kept \ {n}) \cup {added}
      BY <1>5, <2>5 DEF AddOne, worst
    <3>2. n \in kept /\ \A m \in kept : Affinity(n, Target) <= Affinity(m, Target)
      BY DEF Farthest
    <3>3. Cardinality(new) = most
      <4>1. IsFiniteSet(kept \ {n}) /\ Cardinality(kept \ {n}) = most - 1 /\ added \notin kept \ {n}
        BY <1>1, <1>5, <2>1, <3>2, FS_RemoveElement
      <4>2. Cardinality((kept \ {n}) \cup {added}) = (most - 1) + 1
        BY <4>1, FS_AddElement
      <4> QED BY <3>1, <4>2
    <3>4. Affinity(added, Target) >= Affinity(n, Target)
      <4>1. Affinity(n, Target) <= Affinity(worst, Target)
        BY <2>3, <3>2
      <4> QED BY <1>1, <1>2, <2>3, <2>5, <3>2, <4>1
    <3>5. ASSUME NEW k \in (all \cup {added}) \ new, NEW m \in new
          PROVE  Affinity(m, Target) >= Affinity(k, Target)
      <4>1. k # added /\ k \in all /\ k \in Ids /\ n \in Ids /\ m \in Ids
        BY <1>1, <3>1, <3>2
      <4>2. Affinity(n, Target) >= Affinity(k, Target)
        <5>1. CASE k = n
          BY <1>2, <4>1, <5>1
        <5>2. CASE k # n
          BY <3>1, <3>2, <4>1, <5>2 DEF IsBest
        <5> QED BY <5>1, <5>2
      <4>3. Affinity(m, Target) >= Affinity(n, Target)
        BY <3>1, <3>2, <3>4
      <4> QED BY <1>2, <4>1, <4>2, <4>3
    <3>6. new \subseteq all \cup {added}
      BY <3>1 DEF IsBest
    <3> QED BY <3>3, <3>5, <3>6 DEF IsBest
  <2> QED BY <2>4, <2>5
<1> QED BY <1>3, <1>4, <1>5

LEMMA AddOneStays ==
  ASSUME NEW kept \in SUBSET Ids, NEW added \in Ids, NEW most, NEW new \in AddOne(kept, added, most, Target)
  PROVE  new \in SUBSET Ids
BY DEF AddOne

LEMMA AddAllKeepsBest ==
  ASSUME NEW all \in SUBSET Ids, NEW kept, NEW most \in Nat \ {0}, IsBest(kept, all, most),
         NEW nodes \in Seq(Ids), NEW new \in AddAll(kept, nodes, most, Target)
  PROVE  IsBest(new, all \cup Range(nodes), most)
<1> DEFINE n == Len(nodes)
           Lists == SUBSET (SUBSET Ids)
           add(i, lists) == UNION {AddOne(l, nodes[i], most, Target) : l \in lists}
           lists == AddFirst(kept, nodes, most, Target)
<1>1. n \in Nat /\ kept \in SUBSET Ids /\ \A i \in 1..n : nodes[i] \in Ids
  BY DEF IsBest
<1>2. lists = [i \in 0..n |-> IF i = 0 THEN {kept} ELSE add(i, lists[i - 1])]
  <2>1. PICK step : step = [i \in 1..n |-> [ls \in Lists |-> add(i, ls)]]
    OBVIOUS
  <2>2. ASSUME NEW i \in 1..n, NEW ls \in Lists PROVE add(i, ls) \in Lists
    <3>1. \A l \in ls : AddOne(l, nodes[i], most, Target) \subseteq SUBSET Ids
      BY <1>1, AddOneStays
    <3> QED BY <3>1
  <2>3. step \in [1..n -> [Lists -> Lists]]
    <3> HIDE DEF add, Lists
    <3> QED BY <2>1, <2>2
  <2>4. {kept} \in Lists
    BY <1>1
  <2> DEFINE first == {kept}
  <2>0. Steps(Lists, first, n, step)
    BY <1>1, <2>3, <2>4 DEF Steps
  <2> HIDE DEF n, Lists, add, lists, first
  <2>5. \E f \in [0..n -> Lists] :
          \A i \in 0..n : f[i] = IF i = 0 THEN first ELSE step[i][f[i - 1]]
    BY ONLY <2>0, StepRecursion
  <2>6. PICK f \in [0..n -> Lists] :
          \A i \in 0..n : f[i] = IF i = 0 THEN {kept} ELSE step[i][f[i - 1]]
    BY <2>5 DEF first
  <2>7. ASSUME NEW i \in 0..n PROVE f[i] = IF i = 0 THEN {kept} ELSE add(i, f[i - 1])
    <3>1. CASE i = 0
      BY <2>6, <3>1
    <3>2. CASE i # 0
      <4>1. i \in 1..n /\ i - 1 \in 0..n
        BY <1>1, <3>2
      <4>2. f[i] = step[i][f[i - 1]] /\ f[i - 1] \in Lists
        BY <2>6, <3>2, <4>1
      <4> QED BY <2>1, <3>2, <4>1, <4>2
    <3> QED BY <3>1, <3>2
  <2>8. f = [i \in 0..n |-> IF i = 0 THEN {kept} ELSE add(i, f[i - 1])]
    BY <2>7
  <2> QED BY <2>8 DEF lists, n, add, AddFirst
<1>3. lists[n] = AddAll(kept, nodes, most, Target)
  BY DEF AddAll
<1> DEFINE soFar(i) == all \cup {nodes[j] : j \in 1..i}
           Done == {i \in Nat : i <= n => \A l \in lists[i] : IsBest(l, soFar(i), most)}
<1> HIDE DEF lists
<1>4. 0 \in Done
  <2>1. lists[0] = {kept}
    BY <1>1, <1>2
  <2>2. soFar(0) = all
    OBVIOUS
  <2> QED BY <2>1, <2>2
<1>5. ASSUME NEW i \in Nat, i \in Done PROVE i + 1 \in Done
  <2> SUFFICES ASSUME i + 1 <= n, NEW l \in lists[i + 1] PROVE IsBest(l, soFar(i + 1), most)
    OBVIOUS
  <2>1. i <= n /\ i + 1 \in 1..n /\ i \in 0..n /\ i + 1 \in 0..n
    BY <1>1
  <2>2. lists[i + 1] = add(i + 1, lists[i])
    <3>1. i + 1 # 0 /\ (i + 1) - 1 = i
      OBVIOUS
    <3> HIDE DEF add
    <3>2. lists[i + 1] = IF i + 1 = 0 THEN {kept} ELSE add(i + 1, lists[(i + 1) - 1])
      BY <1>2, <2>1
    <3> QED BY <3>1, <3>2
  <2>3. PICK old \in lists[i] : l \in AddOne(old, nodes[i + 1], most, Target)
    BY <2>2
  <2>4. IsBest(old, soFar(i), most)
    BY <1>5, <2>1
  <2>5. soFar(i) \in SUBSET Ids /\ nodes[i + 1] \in Ids
    BY <1>1, <2>1
  <2>6. soFar(i) \cup {nodes[i + 1]} = soFar(i + 1)
    <3>1. 1..i + 1 = 1..i \cup {i + 1}
      OBVIOUS
    <3> QED BY <3>1
  <2> HIDE DEF soFar
  <2>7. IsBest(l, soFar(i) \cup {nodes[i + 1]}, most)
    BY <2>3, <2>4, <2>5, AddOneKeepsBest
  <2> QED BY <2>6, <2>7
<1>6. n \in Done
  <2> HIDE DEF Done
  <2>1. Nat \subseteq Done
    BY <1>4, <1>5, SetInduction
  <2> QED BY <1>1, <2>1
<1>7. soFar(n) = all \cup Range(nodes)
  BY DEF Range
<1> QED BY <1>1, <1>3, <1>6, <1>7

LEMMA SetToSeqFacts ==
  ASSUME NEW S \in SUBSET Ids
  PROVE  /\ SetToSeq(S) \in Seq(Ids) /\ Len(SetToSeq(S)) = Cardinality(S)
         /\ Range(SetToSeq(S)) = S
<1> DEFINE n == Cardinality(S)
           order == SetToSeq(S)
<1>1. IsFiniteSet(S) /\ n \in Nat /\ ExistsBijection(1..n, S)
  BY IdsAreFinite, FS_CardinalityType
<1>2. \E f \in [1..n -> S] : IsInjective(f)
  BY <1>1 DEF ExistsBijection, Bijection, Injection, IsInjective
<1>3. order \in [1..n -> S] /\ IsInjective(order)
  BY <1>2 DEF SetToSeq
<1> HIDE DEF order
<1>4. order \in Injection(1..n, S) /\ IsFiniteSet(1..n) /\ Cardinality(1..n) = n
  <2>1. IsFiniteSet(1..n) /\ Cardinality(1..n) = IF 1 > n THEN 0 ELSE n - 1 + 1
    BY <1>1, FS_Interval
  <2> HIDE DEF n
  <2>2. (IF 1 > n THEN 0 ELSE n - 1 + 1) = n
    BY <1>1
  <2> QED BY <1>3, <2>1, <2>2 DEF Injection, IsInjective
<1>5. order \in Surjection(1..n, S)
  BY <1>1, <1>4, FS_Injection
<1>6. Range(order) = S
  BY <1>3, <1>5 DEF Range, Surjection
<1>7. order \in Seq(Ids) /\ Len(order) = n
  <2> HIDE DEF n
  <2> QED BY <1>1, <1>3
<1> QED BY <1>6, <1>7 DEF order

LEMMA NearestIsBest ==
  ASSUME NEW all \in SUBSET Ids, NEW most \in Nat, NEW near \in Nearest(all, most, Target)
  PROVE  IsBest(near, all, most)
<1>1. IsFiniteSet(all) /\ Cardinality(all) \in Nat
  BY IdsAreFinite, FS_CardinalityType
<1>2. CASE Cardinality(all) <= most
  BY <1>2 DEF Nearest, IsBest
<1>3. CASE ~(Cardinality(all) <= most)
  <2>1. near \in SUBSET all /\ Cardinality(near) = most
    BY <1>3 DEF Nearest, kSubset
  <2>2. \A m \in near, n \in all \ near : Affinity(m, Target) >= Affinity(n, Target)
    BY <1>3 DEF Nearest
  <2> QED BY <2>1, <2>2 DEF IsBest
<1> QED BY <1>2, <1>3
------------------------------------------------------------------------------
LEMMA ParseNodesType == ASSUME NEW nodes \in Seq(Ids) PROVE ParseNodes(nodes) \in Seq(Ids)
<1> DEFINE n == Len(nodes)
           S == Seq(Ids)
           add(i, seq) == IF nodes[i] \in Unsigned THEN seq ELSE Append(seq, nodes[i])
           parsed == ParsedFirst(nodes)
<1>1. n \in Nat /\ \A i \in 1..n : nodes[i] \in Ids
  OBVIOUS
<1>2. PICK step : step = [i \in 1..n |-> [seq \in S |-> add(i, seq)]]
  OBVIOUS
<1>3. \A i \in 1..n : \A seq \in S : add(i, seq) \in S
  BY <1>1
<1>4. Steps(S, <<>>, n, step)
  <2>1. step \in [1..n -> [S -> S]]
    <3> HIDE DEF add, S
    <3> QED BY <1>2, <1>3
  <2> QED BY <1>1, <2>1 DEF Steps
<1> HIDE DEF n, S, add
<1>5. \E f \in [0..n -> S] : \A i \in 0..n : f[i] = IF i = 0 THEN <<>> ELSE step[i][f[i - 1]]
  BY ONLY <1>4, StepRecursion
<1>6. PICK f \in [0..n -> S] : \A i \in 0..n : f[i] = IF i = 0 THEN <<>> ELSE step[i][f[i - 1]]
  BY <1>5
<1>7. ASSUME NEW i \in 0..n PROVE f[i] = IF i = 0 THEN <<>> ELSE add(i, f[i - 1])
  <2>1. CASE i = 0
    BY <1>6, <2>1
  <2>2. CASE i # 0
    <3>1. i \in 1..n /\ i - 1 \in 0..n
      BY <1>1, <2>2
    <3>2. f[i] = step[i][f[i - 1]] /\ f[i - 1] \in S
      BY <1>6, <2>2, <3>1
    <3> QED BY <1>2, <2>2, <3>1, <3>2
  <2> QED BY <2>1, <2>2
<1>8. f = [i \in 0..n |-> IF i = 0 THEN <<>> ELSE add(i, f[i - 1])]
  BY <1>7
<1> DEFINE next(g, i) == IF i = 0 THEN <<>> ELSE add(i, g[i - 1])
<1>9. parsed = CHOOSE g : g = [i \in 0..n |-> next(g, i)]
  BY DEF ParsedFirst, add, n
<1>10. parsed = [i \in 0..n |-> next(parsed, i)]
  BY <1>8, <1>9
<1> HIDE DEF parsed
<1> DEFINE Typed == {i \in Nat : i <= n => parsed[i] \in S}
<1>11. 0 \in Typed
  BY <1>1, <1>10 DEF S
<1>12. ASSUME NEW i \in Nat, i \in Typed PROVE i + 1 \in Typed
  <2> SUFFICES ASSUME i + 1 <= n PROVE parsed[i + 1] \in S
    OBVIOUS
  <2>1. i + 1 \in 1..n /\ i + 1 \in 0..n /\ (i + 1) - 1 = i /\ i + 1 # 0 /\ i <= n
    BY <1>1
  <2>2. parsed[i + 1] = next(parsed, i + 1)
    <3> HIDE DEF next
    <3> QED BY <1>10, <2>1
  <2> QED BY <1>3, <1>12, <2>1, <2>2
<1>13. n \in Typed
  <2> HIDE DEF Typed
  <2>1. Nat \subseteq Typed
    BY <1>11, <1>12, SetInduction
  <2> QED BY <1>1, <2>1
<1> QED BY <1>1, <1>13 DEF ParseNodes, parsed, n, S

LEMMA HeardType == ASSUME NEW said \in SUBSET Ids PROVE Heard(said) \in Seq(Ids)
<1> DEFINE order == SetToSeq(said)
           n == Len(order)
           S == Seq(Ids)
           add(i, seq) == seq \o ParseNodes(Knows[order[i]])
           heard == HeardFirst(order)
<1>1. n \in Nat /\ \A i \in 1..n : ParseNodes(Knows[order[i]]) \in Seq(Ids)
  <2>1. order \in Seq(Ids)
    BY SetToSeqFacts
  <2> HIDE DEF order
  <2>2. n \in Nat /\ \A i \in 1..n : order[i] \in Ids
    BY <2>1
  <2> QED BY <2>2, ParseNodesType, NetworkAssumption
<1>2. PICK step : step = [i \in 1..n |-> [seq \in S |-> add(i, seq)]]
  OBVIOUS
<1>3. \A i \in 1..n : \A seq \in S : add(i, seq) \in S
  BY <1>1
<1>4. Steps(S, <<>>, n, step)
  <2>1. step \in [1..n -> [S -> S]]
    <3> HIDE DEF add, S
    <3> QED BY <1>2, <1>3
  <2> QED BY <1>1, <2>1 DEF Steps
<1> HIDE DEF order, n, S, add
<1>5. \E f \in [0..n -> S] : \A i \in 0..n : f[i] = IF i = 0 THEN <<>> ELSE step[i][f[i - 1]]
  BY ONLY <1>4, StepRecursion
<1>6. PICK f \in [0..n -> S] : \A i \in 0..n : f[i] = IF i = 0 THEN <<>> ELSE step[i][f[i - 1]]
  BY <1>5
<1>7. ASSUME NEW i \in 0..n PROVE f[i] = IF i = 0 THEN <<>> ELSE add(i, f[i - 1])
  <2>1. CASE i = 0
    BY <1>6, <2>1
  <2>2. CASE i # 0
    <3>1. i \in 1..n /\ i - 1 \in 0..n
      BY <1>1, <2>2
    <3>2. f[i] = step[i][f[i - 1]] /\ f[i - 1] \in S
      BY <1>6, <2>2, <3>1
    <3> QED BY <1>2, <2>2, <3>1, <3>2
  <2> QED BY <2>1, <2>2
<1>8. f = [i \in 0..n |-> IF i = 0 THEN <<>> ELSE add(i, f[i - 1])]
  BY <1>7
<1> DEFINE next(g, i) == IF i = 0 THEN <<>> ELSE add(i, g[i - 1])
<1>9. heard = CHOOSE g : g = [i \in 0..n |-> next(g, i)]
  BY DEF HeardFirst, add, n
<1>10. heard = [i \in 0..n |-> next(heard, i)]
  BY <1>8, <1>9
<1> HIDE DEF heard
<1> DEFINE Typed == {i \in Nat : i <= n => heard[i] \in S}
<1>11. 0 \in Typed
  BY <1>1, <1>10 DEF S
<1>12. ASSUME NEW i \in Nat, i \in Typed PROVE i + 1 \in Typed
  <2> SUFFICES ASSUME i + 1 <= n PROVE heard[i + 1] \in S
    OBVIOUS
  <2>1. i + 1 \in 1..n /\ i + 1 \in 0..n /\ (i + 1) - 1 = i /\ i + 1 # 0 /\ i <= n
    BY <1>1
  <2>2. heard[i + 1] = next(heard, i + 1)
    <3> HIDE DEF next
    <3> QED BY <1>10, <2>1
  <2> QED BY <1>3, <1>12, <2>1, <2>2
<1>13. n \in Typed
  <2> HIDE DEF Typed
  <2>1. Nat \subseteq Typed
    BY <1>11, <1>12, SetInduction
  <2> QED BY <1>1, <2>1
<1>14. n = Cardinality(said)
  BY SetToSeqFacts DEF n, order
<1> QED BY <1>1, <1>13, <1>14 DEF Heard, heard, order, n, S

Routing == [0..Width - 1 -> SUBSET Ids]

(* What the buckets may be afterwards: no nodes but those they had and new *)
(* ones other than ourselves.                                              *)
LEMMA AddNodesFacts ==
  ASSUME buckets \in Routing, NEW nodes \in Seq(Ids), NEW scores, NEW new \in AddNodes(nodes, scores)
  PROVE  /\ new \in Routing
         /\ UNION Range(new) \subseteq Known \cup (Range(nodes) \ {Gateway})
<1> DEFINE n == Len(nodes)
           all == Known \cup (Range(nodes) \ {Gateway})
           Within == {b \in Routing : UNION Range(b) \subseteq all}
           S == SUBSET Within
           add(i, bs) == UNION {AddNode(b, nodes[i], scores) : b \in bs}
           first == {buckets}
           tables == AddFirstNodes(nodes, scores)
<1>1. n \in Nat /\ \A i \in 1..n : nodes[i] \in Ids
  OBVIOUS
<1>2. PICK step : step = [i \in 1..n |-> [bs \in S |-> add(i, bs)]]
  OBVIOUS
<1>3. \A i \in 1..n : \A bs \in S : add(i, bs) \in S
  <2>1. ASSUME NEW i \in 1..n, NEW b \in Within, NEW c \in AddNode(b, nodes[i], scores)
        PROVE  c \in Within
    <3>1. CASE nodes[i] = Gateway
      BY <3>1 DEF AddNode
    <3>2. CASE nodes[i] # Gateway
      <4> DEFINE k == Index(nodes[i])
      <4>1. PICK x \in AddToBucket(b[k], nodes[i], scores) : c = [b EXCEPT ![k] = x]
        BY <3>2 DEF AddNode
      <4>2. x \subseteq b[k] \cup {nodes[i]} /\ nodes[i] \in Ids /\ nodes[i] \in all
        BY <1>1, <3>2 DEF AddToBucket, Range
      <4> HIDE DEF k, all
      <4>3. b \in Routing /\ UNION Range(b) \subseteq all
        OBVIOUS
      <4>4. c \in Routing
        BY <4>1, <4>2, <4>3 DEF Routing
      <4>5. ASSUME NEW j \in 0..Width - 1 PROVE c[j] \subseteq all
        <5>1. b[j] \subseteq all
          BY <4>3 DEF Range, Routing
        <5> QED BY <4>1, <4>2, <4>3, <5>1 DEF Routing
      <4> QED BY <4>4, <4>5 DEF Range, Routing
    <3> QED BY <3>1, <3>2
  <2> HIDE DEF Within
  <2> QED BY <2>1
<1>0. first \in S
  BY DEF Known
<1>4. Steps(S, first, n, step)
  <2>1. step \in [1..n -> [S -> S]]
    <3> HIDE DEF add, S
    <3> QED BY <1>2, <1>3
  <2> QED BY <1>0, <1>1, <2>1 DEF Steps
<1> HIDE DEF n, S, add, first, Within
<1>5. \E f \in [0..n -> S] : \A i \in 0..n : f[i] = IF i = 0 THEN first ELSE step[i][f[i - 1]]
  BY ONLY <1>4, StepRecursion
<1>6. PICK f \in [0..n -> S] : \A i \in 0..n : f[i] = IF i = 0 THEN first ELSE step[i][f[i - 1]]
  BY <1>5
<1>7. ASSUME NEW i \in 0..n PROVE f[i] = IF i = 0 THEN first ELSE add(i, f[i - 1])
  <2>1. CASE i = 0
    BY <1>6, <2>1
  <2>2. CASE i # 0
    <3>1. i \in 1..n /\ i - 1 \in 0..n
      BY <1>1, <2>2
    <3>2. f[i] = step[i][f[i - 1]] /\ f[i - 1] \in S
      BY <1>6, <2>2, <3>1
    <3> QED BY <1>2, <2>2, <3>1, <3>2
  <2> QED BY <2>1, <2>2
<1>8. f = [i \in 0..n |-> IF i = 0 THEN first ELSE add(i, f[i - 1])]
  BY <1>7
<1> DEFINE next(g, i) == IF i = 0 THEN first ELSE add(i, g[i - 1])
<1>9. tables = CHOOSE g : g = [i \in 0..n |-> next(g, i)]
  BY DEF AddFirstNodes, add, n, first
<1>10. tables = [i \in 0..n |-> next(tables, i)]
  BY <1>8, <1>9
<1> HIDE DEF tables
<1> DEFINE Typed == {i \in Nat : i <= n => tables[i] \in S}
<1>11. 0 \in Typed
  BY <1>0, <1>1, <1>10
<1>12. ASSUME NEW i \in Nat, i \in Typed PROVE i + 1 \in Typed
  <2> SUFFICES ASSUME i + 1 <= n PROVE tables[i + 1] \in S
    OBVIOUS
  <2>1. i + 1 \in 1..n /\ i + 1 \in 0..n /\ (i + 1) - 1 = i /\ i + 1 # 0 /\ i <= n
    BY <1>1
  <2>2. tables[i + 1] = next(tables, i + 1)
    <3> HIDE DEF next
    <3> QED BY <1>10, <2>1
  <2> QED BY <1>3, <1>12, <2>1, <2>2
<1>13. n \in Typed
  <2> HIDE DEF Typed
  <2>1. Nat \subseteq Typed
    BY <1>11, <1>12, SetInduction
  <2> QED BY <1>1, <2>1
<1> QED BY <1>1, <1>13 DEF AddNodes, tables, n, S, Within

LEMMA Counts == GoodCount \in Nat \ {0} /\ GoodCount >= K /\ BadCount \in Nat /\ K \in Nat \ {0}
BY NetworkAssumption DEF GoodCount, BadCount

LEMMA KnownType == buckets \in Routing => Known \in SUBSET Ids
BY DEF Known, Range, Routing

(* A priority list is of known nodes, the best of the healthy ones. *)
LEMMA PriorityListFacts ==
  ASSUME buckets \in Routing, NEW first \in PriorityLists
  PROVE  /\ first \in SUBSET Known /\ IsBest(first, first, GoodCount)
         /\ \A n \in Known \ first : score[n] = 0 =>
              /\ Cardinality(first) = GoodCount
              /\ \A m \in first : Affinity(m, Target) >= Affinity(n, Target)
<1> DEFINE healthy == {n \in Known : score[n] = 0}
           rest == {n \in Known : score[n] # 0}
<1>1. PICK g \in Nearest(healthy, GoodCount, Target), b \in Nearest(rest, BadCount, Target) :
        first \in AddAll(g, SetToSeq(b), GoodCount, Target)
  BY DEF PriorityLists
<1>2. healthy \in SUBSET Ids /\ rest \in SUBSET Ids /\ healthy \subseteq Known /\ rest \subseteq Known
  BY KnownType
<1>3. \A n \in Known : score[n] = 0 => n \in healthy
  OBVIOUS
<1> HIDE DEF healthy, rest
<1>4. IsBest(g, healthy, GoodCount) /\ IsBest(b, rest, BadCount)
  BY <1>2, Counts, NearestIsBest
<1>5. b \in SUBSET Ids /\ b \subseteq Known
  BY <1>2, <1>4 DEF IsBest
<1>6. SetToSeq(b) \in Seq(Ids) /\ Range(SetToSeq(b)) = b
  BY <1>5, SetToSeqFacts
<1>7. IsBest(first, healthy \cup b, GoodCount)
  <2>1. IsBest(first, healthy \cup Range(SetToSeq(b)), GoodCount)
    BY <1>1, <1>2, <1>4, <1>6, Counts, AddAllKeepsBest
  <2> QED BY <1>6, <2>1
<1> QED BY <1>2, <1>3, <1>5, <1>7 DEF IsBest

NetworkTypes ==
  /\ buckets \in Routing /\ Gateway \notin Known /\ {checked, before} \subseteq SUBSET Ids
  /\ crew \in [ready : Nat, waiting : Nat, woken : Nat]

(* The list of a lookup, whose nodes were all given out as soon as a       *)
(* worker waits for another one.                                           *)
LookupKeeps ==
  Running => /\ offered \in SUBSET Ids /\ IsBest(list, offered, GoodCount)
             /\ used \subseteq checked \cup before
             /\ ~found /\ (crew.waiting > 0 \/ (LookupOver /\ ~died)) => list \subseteq used

StoreKeeps ==
  call \in {"store", "storing"} => told \in SUBSET Ids /\ IsBest(final, told, K)

KnowsNoneCloser ==
  call = "storing" /\ told = checked => \A n \in Known \ checked :
    score[n] = 0 => \/ Affinity(n, Target) < BestAffinity(final, Target)
                    \/ \A m \in final : Affinity(n, Target) <= Affinity(m, Target)

NetworkInv == NetworkTypes /\ LookupKeeps /\ StoreKeeps /\ KnowsNoneCloser

LEMMA NetworkStarts == NetworkInit => NetworkInv
BY DEF NetworkInit, NetworkInv, NetworkTypes, LookupKeeps, StoreKeeps, KnowsNoneCloser, Known, Running, Crew, Routing, Range

LEMMA ConnectStep == NetworkInv /\ Connect => NetworkInv'
<1> SUFFICES ASSUME NetworkInv, Connect PROVE NetworkInv'
  OBVIOUS
<1>1. buckets \in Routing
  BY DEF NetworkInv, NetworkTypes
<1>2. PICK reached \in SUBSET Seeds :
        /\ buckets' \in AddNodes(SetToSeq(reached), score')
        /\ call' = IF reached = {} THEN "unconnected" ELSE "idle"
  BY DEF Connect
<1>3. reached \in SUBSET Ids
  BY NetworkAssumption
<1>4. buckets' \in Routing /\ Gateway \notin Known'
  <2>1. SetToSeq(reached) \in Seq(Ids)
    BY <1>3, SetToSeqFacts
  <2>2. /\ buckets' \in Routing
        /\ UNION Range(buckets') \subseteq Known \cup (Range(SetToSeq(reached)) \ {Gateway})
    BY <1>1, <1>2, <2>1, AddNodesFacts
  <2>3. Gateway \notin Known
    BY DEF NetworkInv, NetworkTypes
  <2> QED BY <2>2, <2>3 DEF Known
<1> QED BY <1>2, <1>4 DEF Connect, NetworkInv, NetworkTypes, LookupKeeps, StoreKeeps, KnowsNoneCloser, Known, Running,
             workers, storing

LEMMA FindValueStep ==
  ASSUME NetworkInv, NEW continuing \in BOOLEAN, FindValue(continuing) PROVE NetworkInv'
<1>1. buckets \in Routing /\ before \in SUBSET Ids /\ Known \in SUBSET Ids
  BY KnownType DEF NetworkInv, NetworkTypes
<1>2. PICK first \in PriorityLists :
        /\ list' \in IF continuing THEN AddAll(first, SetToSeq(before), GoodCount, Target)
                                   ELSE {first}
        /\ offered' = first \cup (IF continuing THEN before ELSE {})
        /\ used' = IF continuing THEN list' \cap before ELSE {}
        /\ call' = IF list' = {} THEN "idle" ELSE "lookup"
        /\ crew' = Crew(IF list' = {} THEN 0 ELSE WorkerCount, 0, 0)
  BY DEF FindValue
<1>3. first \in SUBSET Ids /\ IsBest(first, first, GoodCount)
  BY <1>1, PriorityListFacts
<1>4. offered' \in SUBSET Ids /\ IsBest(list', offered', GoodCount)
  <2>1. CASE continuing
    <3>1. SetToSeq(before) \in Seq(Ids) /\ Range(SetToSeq(before)) = before
      BY <1>1, SetToSeqFacts
    <3>2. list' \in AddAll(first, SetToSeq(before), GoodCount, Target)
      BY <1>2, <2>1
    <3>3. IsBest(list', first \cup Range(SetToSeq(before)), GoodCount)
      BY <1>3, <3>1, <3>2, Counts, AddAllKeepsBest
    <3> QED BY <1>1, <1>2, <1>3, <2>1, <3>1, <3>3
  <2>2. CASE ~continuing
    BY <1>2, <1>3, <2>2
  <2> QED BY <2>1, <2>2
<1>5. /\ buckets' = buckets /\ before' \in SUBSET Ids /\ checked' = {}
      /\ call' \notin {"store", "storing"} /\ used' \subseteq before' /\ WorkerCount \in Nat \ {0}
  BY <1>1, <1>2, NetworkAssumption DEF FindValue
<1>6. crew' \in [ready : Nat, waiting : Nat, woken : Nat] /\ crew'.waiting = 0
  BY <1>2, <1>5 DEF Crew
<1>7. call' = "lookup" => crew'.ready # 0
  BY <1>2, <1>5 DEF Crew
<1>8. NetworkTypes'
  BY <1>1, <1>5, <1>6 DEF NetworkTypes, NetworkInv, Known
<1>9. LookupKeeps'
  <2> SUFFICES ASSUME Running' PROVE LookupKeeps'
    BY DEF LookupKeeps
  <2>1. ~LookupOver'
    BY <1>7 DEF Running, LookupOver, Crew
  <2>2. ~(crew'.waiting > 0)
    BY <1>6
  <2> QED BY <1>4, <1>5, <2>1, <2>2 DEF LookupKeeps
<1> QED BY <1>5, <1>8, <1>9 DEF NetworkInv, StoreKeeps, KnowsNoneCloser

LEMMA TurnStep ==
  ASSUME NetworkInv, NEW from \in {"ready", "woken"}, NEW waiting, Turn(from, waiting)
  PROVE  NetworkInv'
<1> DEFINE rest == [crew EXCEPT ![from] = @ - 1]
<1>1. /\ Running /\ crew[from] > 0 /\ call = "lookup"
      /\ UNCHANGED <<routing, call, made, list, found, offered, died, before, storing>>
  BY DEF Turn, Running
<1>2. rest \in [ready : Nat, waiting : Nat, woken : Nat] /\ rest.waiting = crew.waiting
  BY <1>1 DEF NetworkInv, NetworkTypes
<1>3. /\ offered \in SUBSET Ids /\ IsBest(list, offered, GoodCount) /\ used \subseteq checked \cup before
      /\ checked \in SUBSET Ids
  BY <1>1 DEF NetworkInv, LookupKeeps, NetworkTypes
<1>4. list \in SUBSET Ids
  BY <1>3 DEF IsBest
<1>5. UNCHANGED <<buckets, score, before, told, final>>
  BY <1>1 DEF routing, storing
<1> DEFINE Kept == /\ checked' \in SUBSET Ids /\ used' \subseteq checked' \cup before'
                   /\ crew' \in [ready : Nat, waiting : Nat, woken : Nat]
                   /\ ~found' /\ (crew'.waiting > 0 \/ (LookupOver' /\ ~died')) => list' \subseteq used'
<1>6. CASE found /\ crew' = rest /\ UNCHANGED <<used, asking, checked>>
  <2>1. Kept
    BY <1>1, <1>2, <1>3, <1>5, <1>6
  <2> QED BY <1>1, <1>3, <1>5, <2>1 DEF NetworkInv, NetworkTypes, LookupKeeps, StoreKeeps, KnowsNoneCloser, Known, Running
<1>7. ASSUME ~found, crew' = rest, NEW n \in Closest(list \ used, Target),
             used' = used \cup {n}, checked' = checked \cup {n}, asking' = asking \cup {n}
      PROVE  NetworkInv'
  <2>1. n \in list \ used /\ n \in Ids
    BY <1>4, <1>7 DEF Closest
  <2>2. crew.waiting > 0 => list \subseteq used
    BY <1>1, <1>7 DEF NetworkInv, LookupKeeps
  <2>3. ~(crew'.waiting > 0) /\ ~LookupOver'
    BY <1>2, <1>7, <2>1, <2>2 DEF LookupOver
  <2>4. Kept
    BY <1>2, <1>3, <1>5, <1>7, <2>1, <2>3
  <2> QED BY <1>1, <1>3, <1>5, <2>4 DEF NetworkInv, NetworkTypes, LookupKeeps, StoreKeeps, KnowsNoneCloser, Known, Running
<1>8. CASE /\ list \subseteq used /\ UNCHANGED <<used, asking, checked>>
           /\ crew' = IF waiting + 1 >= WorkerCount THEN Notified(rest)
                      ELSE [rest EXCEPT !.waiting = @ + 1]
  <2>1. crew' \in [ready : Nat, waiting : Nat, woken : Nat]
    <3> HIDE DEF rest
    <3> QED BY <1>2, <1>8 DEF Notified, Crew
  <2>2. Kept
    BY <1>1, <1>3, <1>5, <1>8, <2>1
  <2> QED BY <1>1, <1>3, <1>5, <2>2 DEF NetworkInv, NetworkTypes, LookupKeeps, StoreKeeps, KnowsNoneCloser, Known, Running
<1> QED BY <1>6, <1>7, <1>8 DEF Turn

LEMMA WaitEndsStep == NetworkInv /\ WaitEnds => NetworkInv'
<1> SUFFICES ASSUME NetworkInv, WaitEnds PROVE NetworkInv'
  OBVIOUS
<1>1. /\ Running /\ crew.waiting > 0 /\ crew' = [crew EXCEPT !.waiting = @ - 1]
      /\ UNCHANGED <<routing, call, made, list, used, asking, found, offered, died, checked, before, storing>>
  BY DEF WaitEnds, TimesOutWaiting
<1>2. crew' \in [ready : Nat, waiting : Nat, woken : Nat]
  BY <1>1 DEF NetworkInv, NetworkTypes
<1>3. ~found => list \subseteq used
  BY <1>1 DEF NetworkInv, LookupKeeps
<1> QED BY <1>1, <1>2, <1>3 DEF NetworkInv, NetworkTypes, LookupKeeps, StoreKeeps, KnowsNoneCloser, Known, Running, routing, storing

LEMMA AskFailsStep == ASSUME NetworkInv, NEW n \in Ids, AskFails(n) PROVE NetworkInv'
<1>1. /\ Running
      /\ UNCHANGED <<buckets, call, list, used, found, offered, checked, before, storing>>
      /\ \/ crew' = OneMoreReady /\ UNCHANGED died
         \/ died' = TRUE /\ UNCHANGED crew
  BY DEF AskFails
<1>2. /\ crew' \in [ready : Nat, waiting : Nat, woken : Nat] /\ crew'.waiting = crew.waiting
      /\ died' \/ crew'.ready # 0
  BY <1>1 DEF NetworkInv, NetworkTypes, OneMoreReady
<1>3. ~(LookupOver' /\ ~died')
  BY <1>2 DEF LookupOver, Crew
<1>4. call = "lookup" /\ call' = "lookup"
  BY <1>1 DEF Running
<1> QED BY <1>1, <1>2, <1>3, <1>4 DEF NetworkInv, NetworkTypes, LookupKeeps, StoreKeeps, KnowsNoneCloser, Known, Running, storing

LEMMA ValueComesStep == ASSUME NetworkInv, NEW n \in Ids, ValueComes(n) PROVE NetworkInv'
<1>1. /\ Running
      /\ UNCHANGED <<buckets, call, list, used, offered, died, checked, before, storing>>
      /\ \/ found' = TRUE /\ crew' = Notified(crew)
         \/ crew' = OneMoreReady /\ UNCHANGED found
  <2>1. PICK v \in Values : IF IsValue(v) THEN found' = TRUE /\ crew' = Notified(crew)
                                         ELSE crew' = OneMoreReady /\ UNCHANGED found
    BY DEF ValueComes
  <2> QED BY <2>1 DEF ValueComes
<1>2. /\ crew' \in [ready : Nat, waiting : Nat, woken : Nat]
      /\ ~found' => crew'.ready # 0 /\ crew'.waiting = crew.waiting /\ ~found
  BY <1>1 DEF NetworkInv, NetworkTypes, OneMoreReady, Notified, Crew
<1>3. ~(LookupOver' /\ ~found')
  BY <1>2 DEF LookupOver, Crew
<1>4. call = "lookup" /\ call' = "lookup"
  BY <1>1 DEF Running
<1> QED BY <1>1, <1>2, <1>3, <1>4 DEF NetworkInv, NetworkTypes, LookupKeeps, StoreKeeps, KnowsNoneCloser, Known, Running, storing

LEMMA NodesComeStep == ASSUME NetworkInv, NEW n \in Ids, NodesCome(n) PROVE NetworkInv'
<1> DEFINE nodes == ParseNodes(Knows[n])
<1>1. nodes \in Seq(Ids) /\ Range(nodes) \in SUBSET Ids
  <2>1. nodes \in Seq(Ids)
    BY ParseNodesType, NetworkAssumption
  <2> HIDE DEF nodes
  <2> QED BY <2>1 DEF Range
<1>2. /\ Running /\ buckets' \in AddNodes(nodes, score')
      /\ list' \in AddAll(list, nodes, GoodCount, Target)
      /\ used' = used \cap list' /\ offered' = offered \cup Range(nodes)
      /\ crew' = IF list' # list THEN Notified(OneMoreReady) ELSE OneMoreReady
      /\ UNCHANGED <<call, made, waitingCount, found, died, checked, before, storing>>
  BY DEF NodesCome
<1>3. /\ buckets \in Routing /\ offered \in SUBSET Ids /\ IsBest(list, offered, GoodCount)
      /\ crew \in [ready : Nat, waiting : Nat, woken : Nat] /\ used \subseteq checked \cup before
      /\ ~found /\ crew.waiting > 0 => list \subseteq used
  BY <1>2 DEF NetworkInv, NetworkTypes, LookupKeeps
<1> HIDE DEF nodes
<1>4. buckets' \in Routing /\ Gateway \notin Known'
  <2>1. /\ buckets' \in Routing
        /\ UNION Range(buckets') \subseteq Known \cup (Range(nodes) \ {Gateway})
    BY <1>1, <1>2, <1>3, AddNodesFacts
  <2>2. Gateway \notin Known
    BY DEF NetworkInv, NetworkTypes
  <2> QED BY <2>1, <2>2 DEF Known
<1>5. offered' \in SUBSET Ids /\ IsBest(list', offered', GoodCount)
  BY <1>1, <1>2, <1>3, Counts, AddAllKeepsBest
<1>6. /\ crew' \in [ready : Nat, waiting : Nat, woken : Nat] /\ crew'.ready # 0
      /\ crew'.waiting > 0 => list' = list /\ crew.waiting > 0
  BY <1>2, <1>3 DEF OneMoreReady, Notified, Crew
<1>7. ~LookupOver'
  BY <1>6 DEF LookupOver, Crew
<1>8. ~found' /\ crew'.waiting > 0 => list' \subseteq used'
  BY <1>2, <1>3, <1>6
<1>9. used' \subseteq checked' \cup before'
  BY <1>2, <1>3
<1>10. call = "lookup" /\ call' = "lookup"
  BY <1>2 DEF Running
<1> QED BY <1>2, <1>4, <1>5, <1>6, <1>7, <1>8, <1>9, <1>10 DEF NetworkInv, NetworkTypes, LookupKeeps, StoreKeeps, KnowsNoneCloser, Known, Running, storing

LEMMA LookupClears ==
  ASSUME NetworkInv, ClearLookup, before' \in SUBSET Ids PROVE NetworkInv'
BY DEF ClearLookup, Crew, storing, NetworkInv, NetworkTypes, LookupKeeps, StoreKeeps, KnowsNoneCloser, Known, Running

LEMMA StoreStep == NetworkInv /\ Store => NetworkInv'
<1> SUFFICES ASSUME NetworkInv, Store PROVE NetworkInv'
  OBVIOUS
<1>1. IsBest(final', told', K)
  BY Counts, FS_EmptySet DEF Store, IsBest
<1> QED BY <1>1 DEF Store, routing, workers, NetworkInv, NetworkTypes, LookupKeeps, StoreKeeps, KnowsNoneCloser, Known, Running

LEMMA StoreEndsStep == NetworkInv /\ (StoreEnds \/ CloseNetwork) => NetworkInv'
BY DEF StoreEnds, CloseNetwork, routing, workers, storing, NetworkInv, NetworkTypes, LookupKeeps, StoreKeeps, KnowsNoneCloser, Known, Running

(* The nodes that are kept have the best affinity of all. *)
LEMMA BestOfKept ==
  ASSUME NEW all \in SUBSET Ids, NEW kept, NEW most \in Nat \ {0}, IsBest(kept, all, most)
  PROVE  BestAffinity(kept, Target) = BestAffinity(all, Target) /\ BestAffinity(all, Target) \in Nat
<1> DEFINE of(ids) == {0} \cup {Affinity(n, Target) : n \in ids}
<1>1. \A n \in Ids : Affinity(n, Target) \in 0..Width
  BY AffinityType, NetworkAssumption
<1>2. kept \subseteq all /\ Width \in Nat
  BY NodesAssumption DEF IsBest
<1>3. \E a \in of(all) : \A b \in of(all) : a >= b
  <2> DEFINE gaps == {Width - a : a \in of(all)}
  <2>1. \A a \in of(all) : a \in 0..Width
    BY <1>1, <1>2
  <2>2. gaps \subseteq Nat /\ gaps # {}
    <3>1. 0 \in of(all)
      OBVIOUS
    <3> HIDE DEF of
    <3> QED BY <1>2, <2>1, <3>1
  <2>3. PICK r \in gaps : \A q \in gaps : r <= q
    <3> HIDE DEF gaps
    <3> QED BY <2>2, LeastNat
  <2> HIDE DEF of
  <2>4. PICK a \in of(all) : r = Width - a
    BY <2>3
  <2>5. ASSUME NEW b \in of(all) PROVE a >= b
    <3>1. Width - b \in gaps
      OBVIOUS
    <3> QED BY <1>2, <2>1, <2>3, <2>4, <3>1
  <2> QED BY <2>5
<1>4. PICK a \in of(all) : \A b \in of(all) : a >= b
  BY <1>3
<1>5. of(kept) \subseteq of(all) /\ \A b \in of(all) : b \in Nat
  BY <1>1, <1>2
<1>6. a \in of(kept)
  <2>1. CASE a = 0
    BY <2>1
  <2>2. CASE a # 0
    <3>1. PICK n \in all : a = Affinity(n, Target)
      BY <2>2
    <3>2. CASE n \in kept
      BY <3>1, <3>2
    <3>3. CASE n \notin kept
      <4>1. Cardinality(kept) = most /\ \A m \in kept : Affinity(m, Target) >= a
        BY <3>1, <3>3 DEF IsBest
      <4>2. PICK m : m \in kept
        <5>1. kept # {}
          BY <4>1, FS_EmptySet
        <5> QED BY <5>1
      <4>3. Affinity(m, Target) \in of(kept) /\ Affinity(m, Target) \in of(all)
        BY <1>2, <4>2
      <4>4. Affinity(m, Target) = a
        <5> HIDE DEF of
        <5> QED BY <1>4, <1>5, <4>1, <4>2, <4>3
      <4> QED BY <4>3, <4>4
    <3> QED BY <3>2, <3>3
  <2> QED BY <2>1, <2>2
<1> HIDE DEF of
<1>7. Max(of(all)) = a
  <2>1. \A b \in of(all) : (\A c \in of(all) : b >= c) => b = a
    BY <1>4, <1>5
  <2> QED BY <1>4, <2>1 DEF Max
<1>8. Max(of(kept)) = a
  <2>1. \A b \in of(kept) : (\A c \in of(kept) : b >= c) => b = a
    BY <1>4, <1>5, <1>6
  <2> QED BY <1>4, <1>5, <1>6, <2>1 DEF Max
<1> QED BY <1>5, <1>7, <1>8 DEF BestAffinity, of

LEMMA RoundStep == NetworkInv /\ Round => NetworkInv'
<1> SUFFICES ASSUME NetworkInv, Round PROVE NetworkInv'
  OBVIOUS
<1> DEFINE Goes(first, ok, noted) ==
             LET asked == first \ checked
                 nodes == Heard(ok)
                 best == BestAffinity(final \cup ok, Target)
                 expansion == \E n \in Range(nodes) \ {Gateway} : Affinity(n, Target) >= best
                 judged == [n \in Ids |-> IF n \in ok THEN 0
                              ELSE IF n \in asked /\ noted THEN StatusAfter(score[n], FALSE, MaxScore)
                              ELSE score[n]]
             IN /\ checked' = checked \cup asked
                /\ final' \in AddAll(final, SetToSeq(ok), K, Target)
                /\ told' = told \cup ok
                /\ score' = Renewed(judged, nodes)
                /\ buckets' \in AddNodes(nodes, score')
                /\ call' = IF expansion THEN "store" ELSE "storing"
<1>0. PICK first \in PriorityLists :
        \E ok \in SUBSET (first \ checked), noted \in BOOLEAN : Goes(first, ok, noted)
  BY DEF Round
<1>1. PICK ok \in SUBSET (first \ checked), noted \in BOOLEAN : Goes(first, ok, noted)
  BY <1>0
<1> DEFINE asked == first \ checked
           nodes == Heard(ok)
           best == BestAffinity(final \cup ok, Target)
           judged == [n \in Ids |-> IF n \in ok THEN 0
                                    ELSE IF n \in asked /\ noted THEN StatusAfter(score[n], FALSE, MaxScore)
                                    ELSE score[n]]
<1>2. /\ call = "store" /\ buckets \in Routing /\ Gateway \notin Known /\ {checked, before} \subseteq SUBSET Ids
      /\ told \in SUBSET Ids /\ IsBest(final, told, K) /\ UNCHANGED <<orphans, made, workers, before>>
  BY DEF Round, NetworkInv, NetworkTypes, StoreKeeps
<1>3. /\ first \in SUBSET Known /\ Known \in SUBSET Ids /\ IsBest(first, first, GoodCount)
      /\ \A n \in Known \ first : score[n] = 0 =>
           /\ Cardinality(first) = GoodCount
           /\ \A m \in first : Affinity(m, Target) >= Affinity(n, Target)
  BY <1>2, PriorityListFacts, KnownType
<1>4. ok \in SUBSET Ids /\ nodes \in Seq(Ids)
  BY <1>3, HeardType
<1>5. /\ checked' = checked \cup asked /\ told' = told \cup ok
      /\ final' \in AddAll(final, SetToSeq(ok), K, Target)
      /\ score' = Renewed(judged, nodes) /\ buckets' \in AddNodes(nodes, score')
      /\ call' \in {"store", "storing"}
      /\ call' = "storing" => \A n \in Range(nodes) \ {Gateway} : ~(Affinity(n, Target) >= best)
  <2> HIDE DEF nodes, best, judged
  <2> QED BY <1>1 DEF nodes, best, judged
<1>6. buckets' \in Routing /\ UNION Range(buckets') \subseteq Known \cup (Range(nodes) \ {Gateway})
  <2> HIDE DEF nodes
  <2> QED BY <1>2, <1>4, <1>5, AddNodesFacts
<1>7. told' \in SUBSET Ids /\ IsBest(final', told', K)
  <2>1. SetToSeq(ok) \in Seq(Ids) /\ Range(SetToSeq(ok)) = ok
    BY <1>4, SetToSeqFacts
  <2>2. IsBest(final', told \cup Range(SetToSeq(ok)), K)
    BY <1>2, <1>5, <2>1, Counts, AddAllKeepsBest
  <2> QED BY <1>2, <1>4, <1>5, <2>1, <2>2
<1>8. NetworkTypes'
  <2>1. checked' \in SUBSET Ids /\ UNCHANGED <<before, crew>>
    BY <1>2, <1>3, <1>5 DEF workers
  <2>2. Gateway \notin Known'
    BY <1>2, <1>6 DEF Known
  <2> QED BY <1>2, <1>6, <2>1, <2>2 DEF NetworkInv, NetworkTypes
<1>9. KnowsNoneCloser'
  <2> SUFFICES ASSUME call' = "storing", told' = checked',
                      NEW n \in Known' \ checked', score'[n] = 0,
                      NEW m \in final',
                      ~(Affinity(n, Target) < BestAffinity(final', Target))
               PROVE  Affinity(n, Target) <= Affinity(m, Target)
    BY DEF KnowsNoneCloser
  <2>1. BestAffinity(final', Target) = best /\ best \in Nat
    <3>1. PICK union : union = final \cup ok
      OBVIOUS
    <3>2. union \in SUBSET Ids
      BY <1>2, <1>4, <3>1 DEF IsBest
    <3>3. IsBest(final', union, K)
      <4>1. SetToSeq(ok) \in Seq(Ids) /\ Range(SetToSeq(ok)) = ok
        BY <1>4, SetToSeqFacts
      <4>2. IsBest(final, final, K) /\ final \in SUBSET Ids
        BY <1>2 DEF IsBest
      <4>3. IsBest(final', final \cup Range(SetToSeq(ok)), K)
        BY <1>5, <4>1, <4>2, Counts, AddAllKeepsBest
      <4> QED BY <3>1, <4>1, <4>3
    <3>4. BestAffinity(final', Target) = BestAffinity(union, Target) /\ BestAffinity(union, Target) \in Nat
      BY <3>2, <3>3, Counts, BestOfKept
    <3> QED BY <3>1, <3>4
  <2>2. \A k \in Ids : Affinity(k, Target) \in Nat
    BY AffinityType, NetworkAssumption
  <2>3. n \in Ids /\ (n \in Known \/ n \in Range(nodes) \ {Gateway})
    <3>1. n \in UNION Range(buckets')
      BY DEF Known
    <3>2. Range(nodes) \subseteq Ids
      <4> HIDE DEF nodes
      <4> QED BY <1>4 DEF Range
    <3> QED BY <1>3, <1>6, <3>1, <3>2
  <2>4. CASE n \in Range(nodes) \ {Gateway}
    <3>1. ~(Affinity(n, Target) >= best) /\ ~(Affinity(n, Target) < best)
      BY <1>5, <2>1, <2>4
    <3> QED BY <2>1, <2>2, <2>3, <3>1
  <2>5. CASE n \notin Range(nodes) \ {Gateway}
    <3>1. n \in Known /\ n \notin first /\ n \notin ok /\ n \notin asked
      BY <1>5, <2>3, <2>5
    <3>2. score[n] = 0
      <4>1. n \notin Range(nodes)
        BY <1>2, <2>5, <3>1
      <4>2. score'[n] = judged[n]
        <5> HIDE DEF judged, nodes
        <5> QED BY <1>5, <2>3, <4>1 DEF Renewed
      <4> QED BY <2>3, <3>1, <4>2
    <3>3. Cardinality(first) = GoodCount /\ \A f \in first : Affinity(f, Target) >= Affinity(n, Target)
      BY <1>3, <3>1, <3>2
    <3>4. first \subseteq told' /\ m \in Ids /\ first \subseteq Ids
      BY <1>3, <1>5, <1>7 DEF IsBest
    <3>5. CASE m \in first
      BY <2>2, <2>3, <3>3, <3>4, <3>5
    <3>6. CASE m \notin first
      <4>1. PICK f \in first : f \notin final'
        <5>1. SUFFICES ASSUME first \subseteq final' PROVE FALSE
          OBVIOUS
        <5>2. IsFiniteSet(final') /\ Cardinality(final') \in Nat /\ Cardinality(final') <= K
          BY <1>7, IdsAreFinite, FS_CardinalityType DEF IsBest
        <5>3. Cardinality(first) <= Cardinality(final') /\ Cardinality(first) # Cardinality(final')
          BY <3>6, <5>1, <5>2, FS_Subset
        <5> QED BY <3>3, <5>2, <5>3, Counts
      <4>2. Affinity(m, Target) >= Affinity(f, Target) /\ Affinity(f, Target) >= Affinity(n, Target)
        BY <1>7, <3>3, <3>4, <4>1 DEF IsBest
      <4> QED BY <2>2, <2>3, <3>4, <4>1, <4>2
    <3> QED BY <3>5, <3>6
  <2> QED BY <2>4, <2>5
<1> QED BY <1>5, <1>7, <1>8, <1>9, <1>2 DEF NetworkInv, StoreKeeps, LookupKeeps, Running

LEMMA NetworkStep == NetworkInv /\ [NetworkNext]_dht => NetworkInv'
<1> SUFFICES ASSUME NetworkInv, [NetworkNext]_dht PROVE NetworkInv'
  OBVIOUS
<1>1. CASE FindValueEnds
  BY <1>1, LookupClears DEF FindValueEnds, NetworkInv, NetworkTypes
<1>2. CASE FindValueCancelled
  BY <1>2, LookupClears DEF FindValueCancelled, NetworkInv, NetworkTypes
<1>3. CASE WorkersNext
  <2>1. CASE ReadyTurn
    <3>1. Turn("ready", waitingCount)
      BY <2>1 DEF ReadyTurn
    <3> QED BY <3>1, TurnStep
  <2>2. CASE WokenTurn
    <3>1. Turn("woken", waitingCount - 1)
      BY <2>2 DEF WokenTurn
    <3> QED BY <3>1, TurnStep
  <2> QED BY <1>1, <1>3, <2>1, <2>2, WaitEndsStep, AskFailsStep, ValueComesStep, NodesComeStep DEF WorkersNext
<1>4. CASE UNCHANGED dht
  BY <1>4 DEF dht, routing, workers, storing, NetworkInv, NetworkTypes, LookupKeeps, StoreKeeps,
              KnowsNoneCloser, Known, Running, LookupOver
<1> QED BY <1>1, <1>2, <1>3, <1>4, ConnectStep, FindValueStep, StoreStep, RoundStep, StoreEndsStep
        DEF NetworkNext

(* A lookup of any number of nodes that ends without a value, and without  *)
(* an error that nobody catches, has asked every node it kept, and those   *)
(* it kept are the closest of all it heard of.                             *)
THEOREM LookupAlwaysAsksAll == NetworkSpec => []LookupAsksAll
<1>1. NetworkInv => LookupAsksAll
  BY DEF NetworkInv, LookupKeeps, LookupAsksAll, LookupOver, Running, IsBest
<1> QED BY <1>1, NetworkStarts, NetworkStep, PTL DEF NetworkSpec

(* A store goes to the closest of those that answered, and when each of    *)
(* the nodes that were asked did, no healthy node that is known and was    *)
(* left out would have been better than all that get the value.            *)
THEOREM StoreAlwaysGoesToClosest == NetworkSpec => []StoresOnClosest
<1>1. NetworkInv => StoresOnClosest
  <2> SUFFICES ASSUME NetworkInv, call = "storing" PROVE StoresOnClosest
    BY DEF StoresOnClosest
  <2>1. told \in SUBSET Ids /\ IsBest(final, told, K)
    BY DEF NetworkInv, StoreKeeps
  <2>2. final \in Nearest(told, K, Target)
    <3>1. IsFiniteSet(told) /\ Cardinality(told) \in Nat /\ Cardinality(final) \in Nat /\ K \in Nat
      BY <2>1, IdsAreFinite, FS_CardinalityType, Counts DEF IsBest
    <3>2. CASE final = told
      BY <2>1, <3>2 DEF Nearest, IsBest
    <3>3. CASE final # told
      <4>1. PICK n : n \in told \ final
        BY <2>1, <3>3 DEF IsBest
      <4>2. Cardinality(final) = K /\ final \in SUBSET told
        BY <2>1, <4>1 DEF IsBest
      <4>3. Cardinality(final) <= Cardinality(told) /\ Cardinality(final) # Cardinality(told)
        BY <3>1, <4>1, <4>2, FS_Subset
      <4>4. ~(Cardinality(told) <= K)
        BY <3>1, <4>2, <4>3
      <4>5. final \in kSubset(K, told)
        BY <4>2 DEF kSubset
      <4> QED BY <2>1, <4>4, <4>5 DEF Nearest, IsBest
    <3> QED BY <3>2, <3>3
  <2> QED BY <2>2 DEF NetworkInv, KnowsNoneCloser, StoresOnClosest
<1> QED BY <1>1, NetworkStarts, NetworkStep, PTL DEF NetworkSpec
==============================================================================
