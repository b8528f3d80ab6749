------------------------------- MODULE DhtNodes -------------------------------
(***************************************************************************)
(* tonutils/clients/dht/models.py: affinity, buckets, the priority list.   *)
(* Nodes and keys are identifiers of Width bits.  The order within equal   *)
(* affinity, or equal health, which latency and age settle, is any.        *)
(***************************************************************************)
EXTENDS PowersOfTwo, FiniteSets, FiniteSetsExt, SequencesExt

CONSTANTS Width,     (* bits of an identifier, 256 in the code *)
          Capacity   (* of a bucket, k * 5 *)

ASSUME NodesAssumption == Width \in Nat \ {0} /\ Capacity \in Nat \ {0}

Ids == 0..PowerOfTwo[Width] - 1

(* affinity(): how many leading bits two identifiers share. *)
SharedBits == [x \in Ids |-> [y \in Ids |->
  Max({n \in 0..Width : x \div PowerOfTwo[Width - n] = y \div PowerOfTwo[Width - n]})]]
Affinity(x, y) == SharedBits[x][y]

(* update_status(), which counts up to most *)
StatusAfter(score, good, most) ==
  IF good THEN 0 ELSE IF score < most THEN score + 1 ELSE score

Farthest(ids, target) ==
  {n \in ids : \A m \in ids : Affinity(n, target) <= Affinity(m, target)}
Closest(ids, target) ==
  {n \in ids : \A m \in ids : Affinity(n, target) >= Affinity(m, target)}
BestAffinity(ids, target) == Max({0} \cup {Affinity(n, target) : n \in ids})
------------------------------------------------------------------------------
(* Bucket.add_node(), of the nodes of a bucket: sorted by their health,    *)
(* it keeps the first ones.                                                *)
AddToBucket(bucket, node, score) ==
  LET all == bucket \cup {node}
      worst == {n \in all : \A m \in all : score[n] >= score[m]}
  IN IF Cardinality(all) <= Capacity THEN {all} ELSE {all \ {n} : n \in worst}

(* PriorityList.add(): what the list may be afterwards.  Mutants of AddOne: *)
(* a full list takes nobody; the last one has to go even for one no closer. *)
AddIfRoom(list, node, max, target) ==
  {IF Cardinality(list) < max THEN list \cup {node} ELSE list}
AddAnyway(list, node, max, target) ==
  IF node \in list THEN {list}
  ELSE IF Cardinality(list) < max THEN {list \cup {node}}
  ELSE {(list \ {n}) \cup {node} : n \in Farthest(list, target)}
AddOne(list, node, max, target) ==
  IF node \in list THEN {list}
  ELSE IF Cardinality(list) < max THEN {list \cup {node}}
  ELSE IF Affinity(node, target) <= Affinity(CHOOSE n \in Farthest(list, target) : TRUE, target)
  THEN {list}
  ELSE {(list \ {n}) \cup {node} : n \in Farthest(list, target)}

(* ... of several, one after the other. *)
AddFirst(list, nodes, max, target) ==
  LET lists[i \in 0..Len(nodes)] ==
        IF i = 0 THEN {list} ELSE UNION {AddOne(l, nodes[i], max, target) : l \in lists[i - 1]}
  IN lists
AddAll(list, nodes, max, target) == AddFirst(list, nodes, max, target)[Len(nodes)]

(* The n closest of a set, equal ones being equal. *)
Nearest(ids, n, target) ==
  IF Cardinality(ids) <= n THEN {ids}
  ELSE {s \in kSubset(n, ids) :
          \A a \in s, b \in ids \ s : Affinity(a, target) >= Affinity(b, target)}
==============================================================================
