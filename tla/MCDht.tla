--------------------------------- MODULE MCDht ---------------------------------
(* Three parts, each on its own: the queries of one node, the parts of its *)
(* messages, and a network of eight identifiers.                           *)
EXTENDS DhtProvider, DhtNetwork, MessageParts, TLC
CONSTANTS q1, q2, q3, m1, m2
MCLengths == (m1 :> <<2, 2, 1>>) @@ (m2 :> <<1, 2>>)
MCKnows == [n \in Ids |-> CASE n = 1 -> <<4, 2>> [] n = 2 -> <<0, 3>> [] n = 4 -> <<7>>
                            [] OTHER -> <<>>]
MCValues == {BuildStoreAddress, [BuildStoreAddress EXCEPT !.expired = TRUE],
             BuildStoreOverlay("bad")}
MCSymmetry == Permutations(Queries \ Connects)
VARIABLE part    \* the one that moves
MCInit ==
  /\ ProviderInit /\ NetworkInit /\ PartsInit
  /\ part \in {"provider", "network", "messages"}
MCNext ==
  /\ UNCHANGED part
  /\ \/ part = "provider" /\ ProviderNext /\ UNCHANGED <<dht, assembly>>
     \/ part = "network" /\ NetworkNext /\ UNCHANGED <<udp, provider, assembly>>
     \/ part = "messages" /\ PartsNext /\ UNCHANGED <<udp, provider, dht>>
MCSpec == MCInit /\ [][MCNext]_<<part, udp, provider, dht, assembly>> /\ NetworkFairness
================================================================================
