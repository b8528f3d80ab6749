----------------------------- MODULE DhtProvider -----------------------------
(***************************************************************************)
(* tonutils/providers/dht: the queries of one DHT node by concurrent       *)
(* tasks, the reader that gives them their answers, and what is left of    *)
(* them when the reader dies or the provider is closed.                    *)
(*                                                                         *)
(* An action is what a task does between two awaits.  One task binds and   *)
(* closes the provider, and it does not close what it is still binding.    *)
(***************************************************************************)
EXTENDS AdnlUdpTransport, DhtNodes

CONSTANT Connects    (* the calls that only connect, as connect() does *)
ASSUME ProviderAssumption == IsFiniteSet(Queries) /\ Connects \subseteq Queries

VARIABLES running,   (* _loop is set *)
          binding,   (* bind() waits for the socket *)
          reader,    (* "running", "cancelled", "stopped", or "dead" of an exception *)
          pending,   (* _pending: query ids that wait *)
          answered,  (* ids whose future has its answer, or an error *)
          pc, key,   (* where a call stands; the key of its handshake *)
          inFly, badScore  (* of the node: in_fly_queries, bad_score *)
life == <<running, binding, reader>>
calls == <<pc, key, answered, pending>>
node == <<inFly, badScore>>
provider == <<life, calls, node>>

First(q) == <<q, "bundled">>    \* getSignedAddressList of its handshake
Second(q) == <<q, "query">>

ProviderInit ==
  /\ UdpInit
  /\ running = FALSE /\ binding = FALSE /\ reader = "stopped"
  /\ pending = {} /\ answered = {}
  /\ pc = [q \in Queries |-> "idle"] /\ key = [q \in Queries |-> 0]
  /\ inFly = 0 /\ badScore = 0

Waiting == {q \in Queries : pc[q] \in {"handshake", "bundled", "sent"}}
InFlight == {q \in Queries : pc[q] = "sent"}
Awaited(q) == IF pc[q] = "sent" THEN Second(q) ELSE First(q)

ProviderTypeOK ==
  /\ running \in BOOLEAN /\ binding \in BOOLEAN
  /\ reader \in {"running", "cancelled", "stopped", "dead"}
  /\ pending \cup answered \subseteq Queries \X {"bundled", "query"}
  /\ pc \in [Queries -> {"idle", "handshake", "bundled", "sent", "ended"}]
  /\ key \in [Queries -> 0..MaxKeys]
  /\ inFly \in Nat /\ badScore \in Nat
  /\ bound \in BOOLEAN /\ channel \in 0..MaxKeys /\ nextKey \in 1..MaxKeys + 1
  /\ DOMAIN confirms \subseteq Keys /\ channels \subseteq Keys

MaxFailCount == 3    \* _MAX_FAIL_COUNT
Penalised(score) == StatusAfter(score, FALSE, MaxFailCount)
UpdateStatus(good) == badScore' = StatusAfter(badScore, good, MaxFailCount)
------------------------------------------------------------------------------
(* bind(): while _loop is set there is nothing to do, whatever has become  *)
(* of the reader.                                                          *)
Bind ==
  /\ ~running
  /\ running' = TRUE /\ binding' = TRUE
  /\ UNCHANGED <<udp, reader, calls, node>>

(* ... and what it does with the socket, or without when there is none.    *)
BindEnds(ok) ==
  /\ binding /\ binding' = FALSE
  /\ bound' = ok /\ reader' = IF ok THEN "running" ELSE reader
  /\ UNCHANGED <<running, channel, channels, confirms, nextKey, network, served, calls, node>>

Ends(q) ==
  /\ pc' = [pc EXCEPT ![q] = "ended"] /\ key' = [key EXCEPT ![q] = 0]
  /\ answered' = answered \ {First(q), Second(q)}

(* The query itself, through the channel the peer has. *)
SendQuery(q, k) ==
  /\ pc' = [pc EXCEPT ![q] = "sent"]
  /\ pending' = pending \cup {Second(q)}
  /\ network' = network \cup {Ask(k, Second(q))}
  /\ inFly' = inFly + 1
  /\ UNCHANGED <<badScore, key, answered>>

(* The end of a call for want of a channel: nothing stays registered.      *)
GivesUp(q) ==
  /\ Ends(q)
  /\ IF q \in Connects THEN UNCHANGED badScore ELSE UpdateStatus(FALSE)
  /\ UNCHANGED <<network, pending, inFly>>

(* query_node(), or a node of connect(), up to the first thing it waits    *)
(* for.  What connects over a channel that is there sends nothing, and     *)
(* waits for the answer all the same.                                      *)
Call(q) ==
  /\ pc[q] = "idle" /\ running
  /\ CASE ~bound ->
            GivesUp(q) /\ UNCHANGED <<confirms, nextKey>>
       [] bound /\ channel = 0 ->
            /\ BeginHandshake(First(q))
            /\ pc' = [pc EXCEPT ![q] = "handshake"] /\ key' = [key EXCEPT ![q] = nextKey]
            /\ pending' = pending \cup {First(q)}
            /\ UNCHANGED <<node, answered>>
       [] bound /\ channel # 0 /\ q \in Connects ->
            /\ pc' = [pc EXCEPT ![q] = "bundled"] /\ pending' = pending \cup {First(q)}
            /\ UNCHANGED <<node, answered, key, confirms, nextKey, network>>
       [] bound /\ channel # 0 /\ q \notin Connects ->
            SendQuery(q, channel) /\ UNCHANGED <<confirms, nextKey>>
  /\ UNCHANGED <<life, bound, channel, channels, served>>

(* The bundled query is answered, and k the channel there is: it may have  *)
(* been reset by now, and the answer may be an error.                      *)
ChannelEnsured(q, k) ==
  IF q \in Connects THEN Ends(q) /\ UNCHANGED <<network, node, pending>>
  ELSE \/ GivesUp(q)
       \/ k # 0 /\ SendQuery(q, k)

(* The handshake is done: wait for the answer of the bundled query, unless *)
(* it is there; then the query.                                            *)
Confirmed(q) ==
  /\ pc[q] = "handshake"
  /\ key[q] \in DOMAIN confirms /\ confirms[key[q]] = "confirmed"
  /\ SetChannel(key[q])
  /\ IF First(q) \in answered
     THEN ChannelEnsured(q, key[q])
     ELSE /\ pc' = [pc EXCEPT ![q] = "bundled"]
          /\ UNCHANGED <<network, node, key, answered, pending>>
  /\ UNCHANGED <<bound, nextKey, served, life>>

Bundled(q) ==
  /\ pc[q] = "bundled" /\ First(q) \in answered
  /\ ChannelEnsured(q, channel)
  /\ UNCHANGED <<bound, channel, channels, confirms, nextKey, served, life>>

(* The end of ensure_channel() without an answer: a timeout, or the call   *)
(* is cancelled, which is no fault of the node.                            *)
ChannelFails(q, cancelled) ==
  /\ \/ pc[q] = "handshake" /\ (cancelled \/ confirms[key[q]] = "pending")
     \/ pc[q] = "bundled" /\ (cancelled \/ First(q) \notin answered)
  /\ AbandonHandshake(key[q])
  /\ Ends(q)
  /\ IF cancelled \/ q \in Connects THEN UNCHANGED badScore ELSE UpdateStatus(FALSE)
  /\ pending' = pending \ {First(q)}
  /\ UNCHANGED <<bound, nextKey, network, served, life, inFly>>

(* What query_node() makes of the score: an answer clears it, before one   *)
(* of a wrong type that comes late counts again; an error counts when it   *)
(* comes late.                                                             *)
ScoresAfter(how) ==
  CASE how = "answer" -> {0, Penalised(0)}
    [] how = "error" -> {badScore, Penalised(badScore)}
    [] how = "timeout" -> {Penalised(badScore)}
    [] how = "cancel" -> {badScore}

(* The end of query_node(): the last one in flight resets a bad node. *)
QueryEnds(q, how) ==
  /\ pc[q] = "sent"
  /\ how \in {"answer", "error"} => Second(q) \in answered
  /\ how = "timeout" => Second(q) \notin answered
  /\ Ends(q)
  /\ badScore' \in ScoresAfter(how)
  /\ inFly' = inFly - 1
  /\ IF inFly' = 0 /\ badScore' > 1 THEN ResetPeerChannel ELSE UNCHANGED <<channel, channels>>
  /\ pending' = pending \ {Second(q)}
  /\ UNCHANGED <<bound, confirms, nextKey, network, served, life>>
------------------------------------------------------------------------------
(* _resolve_future(): of a query that still waits. *)
ResolveFuture(id) ==
  /\ pending' = pending \ {id}
  /\ answered' = answered \cup (pending \cap {id})

(* _dispatch_message() *)
Dispatch(d) ==
  IF d.says = "confirm"
  THEN ResolveChannelConfirm(d.key) /\ UNCHANGED <<pending, answered>>
  ELSE ResolveFuture(d.query) /\ UNCHANGED confirms

(* A turn of the loop of DhtReaderWorker: what decrypt_incoming() raises   *)
(* ends the loop, and nobody starts it again before the provider is        *)
(* closed: whatever else comes to this port is not read.                   *)
Read(d, intact) ==
  /\ reader = "running" /\ d.to = "us"
  /\ \/ /\ "read" \in DecryptIncoming(d, intact)
        /\ Dispatch(d) /\ UNCHANGED <<reader, network>>
     \/ /\ "raise" \in DecryptIncoming(d, intact)
        /\ reader' = "dead" /\ Deaf
        /\ UNCHANGED <<pending, answered, confirms>>
     \/ /\ "drop" \in DecryptIncoming(d, intact)
        /\ UNCHANGED <<reader, network, pending, answered, confirms>>
  /\ UNCHANGED <<bound, channel, channels, nextKey, served, running, binding,
                 pc, key, node>>
------------------------------------------------------------------------------
(* close(), up to where it waits for the reader it cancels.  That of a     *)
(* dead reader ends there, with the exception the reader died of, and      *)
(* leaves all the rest to the next close().                                *)
CloseForgets ==    \* mutant of Close: _loop is cleared first
  /\ running /\ ~binding /\ reader \in {"running", "dead"}
  /\ running' = FALSE
  /\ reader' = IF reader = "running" THEN "cancelled" ELSE "stopped"
  /\ Deaf
  /\ UNCHANGED <<bound, channel, channels, confirms, nextKey, served, binding, calls, node>>
Close ==
  /\ running /\ ~binding /\ reader \in {"running", "dead"}
  /\ reader' = IF reader = "running" THEN "cancelled" ELSE "stopped"
  /\ Deaf
  /\ UNCHANGED <<bound, channel, channels, confirms, nextKey, served, running, binding,
                 calls, node>>

(* A call that has what it waited for goes on before close() does: the     *)
(* loop takes turns in order.                                              *)
Woken(q) ==
  \/ pc[q] = "handshake" /\ confirms[key[q]] = "confirmed"
  \/ pc[q] \in {"bundled", "sent"} /\ Awaited(q) \in answered

(* ... and from there on: all that wait are cancelled.                     *)
CloseGoesOn ==
  /\ running /\ ~binding /\ reader \in {"cancelled", "stopped"}
  /\ \A q \in Waiting : ~Woken(q)
  /\ running' = FALSE /\ reader' = "stopped"
  /\ CloseUdp
  /\ pc' = [q \in Queries |-> IF q \in Waiting THEN "ended" ELSE pc[q]]
  /\ key' = [q \in Queries |-> 0]
  /\ pending' = {} /\ answered' = {} /\ inFly' = 0
  /\ UNCHANGED <<binding, badScore>>

ProviderNext ==
  \/ Bind \/ Close \/ CloseGoesOn
  \/ \E ok \in BOOLEAN : BindEnds(ok)
  \/ \E q \in Queries :
       \/ Call(q) \/ Confirmed(q) \/ Bundled(q)
       \/ \E cancelled \in BOOLEAN : ChannelFails(q, cancelled)
       \/ \E how \in {"answer", "error", "timeout", "cancel"} : QueryEnds(q, how)
  \/ \E d \in network, intact \in BOOLEAN : Read(d, intact)
  \/ NodeNext /\ UNCHANGED provider

ProviderSpec == ProviderInit /\ [][ProviderNext]_<<udp, provider>>
------------------------------------------------------------------------------
(* However the handshakes of one node overlap, and even when the reader    *)
(* has died of a datagram, what a call waits for is where the reader and   *)
(* close() find it ...                                                     *)
CallsReachable ==
  \A q \in Waiting :
    /\ Awaited(q) \in pending \cup answered
    /\ pc[q] = "handshake" => key[q] \in DOMAIN confirms

(* ... nothing is registered, or counted in flight, for a call that has    *)
(* ended, in whichever of its waits ...                                    *)
NothingLeft ==
  /\ pending \subseteq {Awaited(q) : q \in Waiting}
  /\ answered \subseteq {First(q) : q \in Waiting} \cup {Second(q) : q \in InFlight}
  /\ \A k \in DOMAIN confirms : \E q \in Waiting : pc[q] = "handshake" /\ key[q] = k
  /\ inFly = Cardinality(InFlight)

(* ... and a provider that can be bound again has been closed to the end:  *)
(* the socket, the channels and the calls that a close() left when the     *)
(* reader's exception ended it are still there for a second one.           *)
ClosedToTheEnd ==
  ~running => reader = "stopped" /\ ~bound /\ channel = 0 /\ channels = {} /\ Waiting = {}

NothingForgotten == CallsReachable /\ NothingLeft /\ ClosedToTheEnd
==============================================================================
