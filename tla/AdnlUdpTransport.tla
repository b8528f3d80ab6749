--------------------------- MODULE AdnlUdpTransport ---------------------------
(***************************************************************************)
(* tonutils/transports/adnl/udp.py: the channels with one DHT node, whose  *)
(* handshakes overlap, over a network that loses, damages, repeats and     *)
(* reorders.                                                               *)
(*                                                                         *)
(* A channel is named by the key made for its handshake; two ends that     *)
(* have the same key understand each other (channel.py), no others do.     *)
(***************************************************************************)
EXTENDS Naturals

CONSTANTS Queries,   (* calls of the provider, each with two query ids *)
          MaxKeys    (* bound: handshakes *)

ASSUME UdpAssumption == MaxKeys \in Nat

Keys == 1..MaxKeys
VARIABLES bound,     (* _bound *)
          channel,   (* peer.channel, 0 none *)
          channels,  (* _channels: those whose datagrams are known *)
          confirms,  (* _channel_pending: handshakes, and if confirmed yet *)
          nextKey,   (* keys made so far are below it *)
          network,   (* datagrams sent, any of which may come, or come again *)
          served     (* the node's channel with us, 0 none *)
udp == <<bound, channel, channels, confirms, nextKey, network, served>>

UdpInit ==
  /\ bound = FALSE /\ channel = 0 /\ channels = {} /\ confirms = <<>>
  /\ nextKey = 1 /\ network = {} /\ served = 0

(* The packets: a handshake with a query bundled into it, a query of a     *)
(* channel; a confirmation, an answer.  0 is the encryption of an init     *)
(* packet, by the long-term keys of the two.                               *)
Create(k, id) == [to |-> "node", under |-> 0, says |-> "create", key |-> k, query |-> id]
Ask(k, id) == [to |-> "node", under |-> k, says |-> "query", key |-> 0, query |-> id]
Confirm(k) == [to |-> "us", under |-> 0, says |-> "confirm", key |-> k, query |-> <<>>]
Answer(k, id) == [to |-> "us", under |-> k, says |-> "answer", key |-> 0, query |-> id]
------------------------------------------------------------------------------
(* establish_channel() up to the confirmation it waits for *)
BeginHandshake(id) ==
  /\ nextKey \in Keys
  /\ confirms' = [k \in DOMAIN confirms \cup {nextKey} |->
                    IF k = nextKey THEN "pending" ELSE confirms[k]]
  /\ nextKey' = nextKey + 1
  /\ network' = network \cup {Create(nextKey, id)}
  /\ UNCHANGED <<bound, channel, channels, served>>

WithoutConfirm(k) == [j \in DOMAIN confirms \ {k} |-> confirms[j]]

(* ... and from it on, whatever channel the peer has got meanwhile.        *)
SetChannel(k) ==
  /\ channel' = k
  /\ channels' = channels \cup {k}
  /\ confirms' = WithoutConfirm(k)

AbandonHandshake(k) ==
  /\ confirms' = WithoutConfirm(k)
  /\ UNCHANGED <<channel, channels>>

ResolveChannelConfirm(k) ==
  confirms' = IF k \in DOMAIN confirms THEN [confirms EXCEPT ![k] = "confirmed"] ELSE confirms

ResetPeerChannel == channel' = 0 /\ channels' = {}

(* A channel decrypts what its other end encrypts, and raises for the rest. *)
Decrypts(k, d) == d.under = k

(* decrypt_incoming() of a datagram that is intact, or damaged behind the   *)
(* id it begins with: it is read, or dropped, or raises.  A channel raises *)
(* for a wrong checksum; an init packet with one is dropped, and raises    *)
(* when the sender's key it carries no longer is a key.                    *)
DecryptIncoming(d, intact) ==
  CASE d.under \in channels /\ channel # 0 ->
         IF intact /\ Decrypts(channel, d) THEN {"read"} ELSE {"raise"}
    [] d.under = 0 -> IF intact THEN {"read"} ELSE {"drop", "raise"}
    [] OTHER -> {"drop"}

(* Nobody will read this port again: what is on its way is as good as      *)
(* lost, and what it still does to the node is no more than a restart.     *)
Deaf == network' = {}

(* close(); a later bind() is to another port, which no old packet finds.  *)
CloseUdp ==
  /\ bound' = FALSE /\ channel' = 0 /\ channels' = {} /\ confirms' = <<>>
  /\ Deaf
  /\ UNCHANGED <<nextKey, served>>
------------------------------------------------------------------------------
(* The node: it may have its reasons to keep the channel it has, or may    *)
(* have lost it.                                                           *)
NodeCreates(d) ==
  /\ d.says = "create" /\ served' = d.key
  /\ \E k \in {0, d.key} :
       network' = network \cup {Confirm(d.key), Answer(k, d.query)}

NodeAnswers(d) ==
  /\ d.says = "query" /\ served = d.under
  /\ network' = network \cup {Answer(d.under, d.query)}
  /\ UNCHANGED served

NodeRestarts ==
  /\ served # 0 /\ served' = 0 /\ UNCHANGED network

NodeNext ==
  /\ \/ \E d \in network : d.to = "node" /\ (NodeCreates(d) \/ NodeAnswers(d))
     \/ NodeRestarts
  /\ UNCHANGED <<bound, channel, channels, confirms, nextKey>>
==============================================================================
