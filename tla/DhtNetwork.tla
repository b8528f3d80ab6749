------------------------------ MODULE DhtNetwork ------------------------------
(***************************************************************************)
(* tonutils/clients/dht/network.py: lookups and stores over the DHT, one   *)
(* after the other, and the routing buckets they fill.  What happens to    *)
(* the query of one node is DhtProvider's.                                 *)
(*                                                                         *)
(* An action is what a worker does between two awaits; with others woken   *)
(* the lock may be another one's between an answer and the next node.      *)
(***************************************************************************)
EXTENDS DhtNodes

CONSTANTS Gateway,   (* our own identifier *)
          Seeds,     (* the nodes of the configuration *)
          K,         (* k *)
          Target,    (* the key that is looked for *)
          Knows,     (* the nodes each node tells of *)
          Unsigned,  (* those whose signature or address is no good *)
          Holders,   (* nodes that have a value instead *)
          Values,    (* the values they may have *)
          WorkerCount, (* of a lookup, 3 *)
          MaxScore,  (* bound: _MAX_FAIL_COUNT, 3; the lists know none from some *)
          MaxCalls   (* bound: lookups and stores *)

ASSUME NetworkAssumption ==
  /\ Gateway \in Ids /\ Seeds \subseteq Ids \ {Gateway} /\ Target \in Ids
  /\ {K, WorkerCount} \subseteq Nat \ {0} /\ {MaxScore, MaxCalls} \subseteq Nat
  /\ Holders \cup Unsigned \subseteq Ids /\ Knows \in [Ids -> Seq(Ids)]

VARIABLES buckets, score,   (* the nodes of each bucket; bad_score by node *)
          orphans,          (* nodes whose object is not the bucket's any more *)
          call, made,       (* what is under way, and how many there were *)
          list, used,       (* plist, and its nodes that were given out *)
          asking, crew,     (* nodes that are being asked, each by a worker; how many
                               of the others are ready, waiting or woken *)
          waitingCount, found,
          checked, before,  (* nodes asked by this call; checked_nodes, by those it
                               continues *)
          final,            (* of store() *)
          offered, told, died (* history: nodes the list was offered, nodes that
                                 answered a store, a worker's uncaught error *)
routing == <<buckets, score, orphans>>
workers == <<list, used, asking, crew, waitingCount, found, offered, died>>
storing == <<final, told>>
dht == <<routing, call, made, workers, checked, before, storing>>

Crew(r, w, k) == [ready |-> r, waiting |-> w, woken |-> k]

NetworkInit ==
  /\ buckets = [b \in 0..Width - 1 |-> {}]
  /\ score = [n \in Ids |-> 0] /\ orphans = {}
  /\ call = "closed" /\ made = 0
  /\ list = {} /\ used = {} /\ offered = {} /\ died = FALSE
  /\ asking = {} /\ crew = Crew(0, 0, 0)
  /\ waitingCount = 0 /\ found = FALSE
  /\ checked = {} /\ before = {} /\ final = {} /\ told = {}

Known == UNION Range(buckets)
Index(n) == Min({Affinity(Gateway, n), Width - 1})

(* _add_node() of several: what the buckets may be afterwards; a node is a *)
(* new object each time it is heard of, of no failures.                    *)
AddNode(b, n, scores) ==
  IF n = Gateway THEN {b}
  ELSE {[b EXCEPT ![Index(n)] = x] : x \in AddToBucket(b[Index(n)], n, scores)}
AddFirstNodes(nodes, scores) ==
  LET all[i \in 0..Len(nodes)] ==
        IF i = 0 THEN {buckets} ELSE UNION {AddNode(b, nodes[i], scores) : b \in all[i - 1]}
  IN all
AddNodes(nodes, scores) == AddFirstNodes(nodes, scores)[Len(nodes)]
Renewed(scores, nodes) == [n \in Ids |-> IF n \in Range(nodes) THEN 0 ELSE scores[n]]

(* connect(): the seeds that could be reached.  Without one it fails, but  *)
(* for the buckets that an earlier session left: it then returns, yet the  *)
(* provider is not connected, and nothing works before a close().          *)
Connect ==
  /\ call = "closed"
  /\ \E reached \in SUBSET Seeds :
       /\ score' = Renewed(score, SetToSeq(reached))
       /\ buckets' \in AddNodes(SetToSeq(reached), score')
       /\ call' = IF reached = {} THEN "unconnected" ELSE "idle"
  /\ UNION Range(buckets') # {}
  /\ UNCHANGED <<orphans, made, workers, checked, before, storing>>

GoodCount == K + K \div 2
BadCount == K \div 2

(* _build_priority_list() *)
PriorityLists ==
  LET good == Nearest({n \in Known : score[n] = 0}, GoodCount, Target)
      bad == Nearest({n \in Known : score[n] # 0}, BadCount, Target)
  IN UNION {AddAll(g, SetToSeq(b), GoodCount, Target) : g \in good, b \in bad}
------------------------------------------------------------------------------
(* The signatures, by the rule; an address may come without one. *)
SignedByRule(v) ==
  IF v.rule = "overlayNodes" THEN v.signature = "good"
  ELSE v.rule = "signature" => v.signature # "bad"

(* verify_value(): the right key under a sensible name, its owner's key.   *)
VerifyValue(v) ==
  /\ v.named /\ v.key = Target
  /\ v.rule # "overlayNodes" => v.owned
  /\ SignedByRule(v)

(* What store_address() and store_overlay_nodes() make: they sign an       *)
(* address; the nodes of an overlay bring signatures of their own.         *)
BuildStoreAddress ==
  [expired |-> FALSE, named |-> TRUE, key |-> Target, rule |-> "signature", owned |-> TRUE,
   signature |-> "good"]
BuildStoreOverlay(signature) ==
  [BuildStoreAddress EXCEPT !.rule = "overlayNodes", !.signature = signature]

(* parse_node() of each node that an answer tells of. *)
ParsedFirst(nodes) ==
  LET parsed[i \in 0..Len(nodes)] ==
        IF i = 0 THEN <<>>
        ELSE IF nodes[i] \in Unsigned THEN parsed[i - 1] ELSE Append(parsed[i - 1], nodes[i])
  IN parsed
ParseNodes(nodes) == ParsedFirst(nodes)[Len(nodes)]

(* ... of the answers of several nodes. *)
HeardFirst(order) ==
  LET heard[i \in 0..Len(order)] ==
        IF i = 0 THEN <<>> ELSE heard[i - 1] \o ParseNodes(Knows[order[i]])
  IN heard
Heard(answered) == HeardFirst(SetToSeq(answered))[Cardinality(answered)]

IsValue(v) == ~v.expired /\ VerifyValue(v)

(* find_value(): with nodes to ask, the workers start.  One that continues *)
(* another has the nodes of that one in its list, as used.                 *)
FindValue(continuing) ==
  /\ call = "idle" /\ made < MaxCalls
  /\ made' = made + 1
  /\ \E first \in PriorityLists :
       /\ list' \in IF continuing THEN AddAll(first, SetToSeq(before), GoodCount, Target)
                                  ELSE {first}
       /\ offered' = first \cup (IF continuing THEN before ELSE {})
       /\ used' = IF continuing THEN list' \cap before ELSE {}
       /\ call' = IF list' = {} THEN "idle" ELSE "lookup"
       /\ crew' = Crew(IF list' = {} THEN 0 ELSE WorkerCount, 0, 0)
  /\ orphans' = list' \ Known
  /\ waitingCount' = 0 /\ found' = FALSE /\ died' = FALSE /\ checked' = {}
  /\ before' = IF continuing THEN before ELSE {}
  /\ UNCHANGED <<buckets, score, asking, storing>>

Running == call = "lookup"
Notified(c) == Crew(c.ready, 0, c.woken + c.waiting)

(* Under the lock a worker takes the next node, waits for one, or leaves,  *)
(* the last of those that wait; after a value was found they all do.       *)
Turn(from, waiting) ==
  LET rest == [crew EXCEPT ![from] = @ - 1]
  IN /\ Running /\ crew[from] > 0
     /\ \/ /\ found
           /\ crew' = rest /\ waitingCount' = waiting
           /\ UNCHANGED <<used, asking, checked>>
        \/ /\ ~found
           /\ \E n \in Closest(list \ used, Target) :
                /\ used' = used \cup {n} /\ checked' = checked \cup {n}
                /\ asking' = asking \cup {n}
           /\ crew' = rest /\ waitingCount' = waiting
        \/ /\ ~found /\ list \subseteq used
           /\ waitingCount' = waiting + 1
           /\ crew' = IF waiting + 1 >= WorkerCount THEN Notified(rest)
                      ELSE [rest EXCEPT !.waiting = @ + 1]
           /\ UNCHANGED <<used, asking, checked>>
     /\ UNCHANGED <<routing, call, made, list, found, offered, died, before, storing>>

ReadyTurn == Turn("ready", waitingCount)
WokenTurn == Turn("woken", waitingCount - 1)

Never == FALSE  \* mutant of TimesOutWaiting
TimesOutWaiting == crew.waiting > 0

WaitEnds ==
  /\ Running /\ TimesOutWaiting
  /\ crew' = [crew EXCEPT !.waiting = @ - 1] /\ waitingCount' = waitingCount - 1
  /\ UNCHANGED <<routing, call, made, list, used, asking, found, offered, died, checked,
                 before, storing>>

Judged(n, good) ==
  IF n \in orphans THEN score ELSE [score EXCEPT ![n] = StatusAfter(@, good, MaxScore)]

OneMoreReady == [crew EXCEPT !.ready = @ + 1]

(* An error of the query: those that are caught leave the worker at work;  *)
(* one of no channel, of a closed provider or of a bad answer ends it.     *)
AskFails(n) ==
  /\ Running /\ n \in asking
  /\ asking' = asking \ {n}
  /\ score' \in {score, Judged(n, FALSE)}
  /\ \/ crew' = OneMoreReady /\ UNCHANGED died
     \/ died' = TRUE /\ UNCHANGED crew
  /\ UNCHANGED <<buckets, orphans, call, made, list, used, waitingCount, found, offered,
                 checked, before, storing>>

(* The answer is a value, which ends the lookup if it is one. *)
ValueComes(n) ==
  /\ Running /\ n \in asking /\ n \in Holders
  /\ asking' = asking \ {n}
  /\ \E v \in Values :
       IF IsValue(v) THEN found' = TRUE /\ crew' = Notified(crew)
                     ELSE crew' = OneMoreReady /\ UNCHANGED found
  /\ score' = Judged(n, TRUE)
  /\ UNCHANGED <<buckets, orphans, call, made, list, used, waitingCount, offered, died,
                 checked, before, storing>>

(* ... or nodes, for the buckets and the list; our own is only kept out of *)
(* the buckets.                                                            *)
NodesCome(n) ==
  LET nodes == ParseNodes(Knows[n])
  IN /\ Running /\ n \in asking /\ n \notin Holders
     /\ asking' = asking \ {n}
     /\ score' = Renewed(Judged(n, TRUE), nodes)
     /\ buckets' \in AddNodes(nodes, score')
     /\ list' \in AddAll(list, nodes, GoodCount, Target)
     /\ used' = used \cap list'
     /\ orphans' = orphans \cup (Range(nodes) \cap list)
     /\ offered' = offered \cup Range(nodes)
     /\ crew' = IF list' # list THEN Notified(OneMoreReady) ELSE OneMoreReady
     /\ UNCHANGED <<call, made, waitingCount, found, died, checked, before, storing>>

LookupOver == Running /\ asking = {} /\ crew = Crew(0, 0, 0)

ClearLookup ==
  /\ call' = "idle"
  /\ list' = {} /\ used' = {} /\ offered' = {} /\ orphans' = {} /\ checked' = {}
  /\ asking' = {} /\ crew' = Crew(0, 0, 0)
  /\ found' = FALSE /\ died' = FALSE /\ waitingCount' = 0
  /\ UNCHANGED <<buckets, score, made, storing>>

FindValueEnds == LookupOver /\ before' = before \cup checked /\ ClearLookup

(* The caller is cancelled, and the workers with it. *)
FindValueCancelled == Running /\ ~LookupOver /\ ClearLookup /\ UNCHANGED before
------------------------------------------------------------------------------
(* store(): rounds of dht.findNode to the nodes not asked yet. *)
Store ==
  /\ call = "idle" /\ made < MaxCalls
  /\ made' = made + 1 /\ call' = "store"
  /\ checked' = {} /\ final' = {} /\ told' = {}
  /\ UNCHANGED <<routing, workers, before>>

(* A round, whose queries are gathered: it is not the last one if a node   *)
(* was told of that is as close as the best of those that answered.        *)
Round ==
  /\ call = "store"
  /\ \E first \in PriorityLists : \E ok \in SUBSET (first \ checked), noted \in BOOLEAN :
       LET asked == first \ checked
           nodes == Heard(ok)
           best == BestAffinity(final \cup ok, Target)
           expansion == \E n \in Range(nodes) \ {Gateway} : Affinity(n, Target) >= best
           judged == [n \in Ids |-> IF n \in ok THEN 0
                                    ELSE IF n \in asked /\ noted THEN StatusAfter(score[n], FALSE, MaxScore)
                                    ELSE score[n]]
       IN /\ checked' = checked \cup asked
          /\ final' \in AddAll(final, SetToSeq(ok), K, Target)
          /\ told' = told \cup ok
          /\ score' = Renewed(judged, nodes)
          /\ buckets' \in AddNodes(nodes, score')
          /\ call' = IF expansion THEN "store" ELSE "storing"
  /\ UNCHANGED <<orphans, made, workers, before>>

(* The nodes that are left get the value. *)
StoreEnds ==
  /\ call = "storing"
  /\ \E failing \in SUBSET final :
       score' = [n \in Ids |-> IF n \in final THEN StatusAfter(score[n], n \notin failing, MaxScore)
                                              ELSE score[n]]
  /\ call' = "idle"
  /\ checked' = {} /\ final' = {} /\ told' = {}
  /\ UNCHANGED <<buckets, orphans, made, workers, before>>
------------------------------------------------------------------------------
(* close(), and what it leaves in the buckets *)
CloseNetwork ==
  /\ call \in {"idle", "unconnected"} /\ made < MaxCalls
  /\ call' = "closed"
  /\ UNCHANGED <<routing, made, workers, checked, before, storing>>

WorkersNext ==
  \/ ReadyTurn \/ WokenTurn \/ WaitEnds
  \/ \E n \in Ids : AskFails(n) \/ ValueComes(n) \/ NodesCome(n)
  \/ FindValueEnds

NetworkNext ==
  \/ Connect \/ CloseNetwork
  \/ \E continuing \in BOOLEAN : FindValue(continuing)
  \/ WorkersNext \/ FindValueCancelled
  \/ Store \/ Round \/ StoreEnds

NetworkSpec == NetworkInit /\ [][NetworkNext]_dht

(* Queries and waits end in their timeouts, if in nothing else. *)
NetworkFairness == WF_dht(WorkersNext)
------------------------------------------------------------------------------
(* A lookup that finds nothing has asked every node it kept, and kept the  *)
(* closest of all those it heard of -- unless an error nobody catches took *)
(* one of its workers.                                                     *)
LookupAsksAll ==
  LookupOver /\ ~found /\ ~died =>
    /\ list \subseteq checked \cup before
    /\ \A n \in offered \ list :
         /\ Cardinality(list) = GoodCount
         /\ \A m \in list : Affinity(m, Target) >= Affinity(n, Target)

(* Every lookup ends, with workers that died or left early too: nobody is  *)
(* left to wait for a worker that is gone.                                 *)
LookupEnds == Running ~> ~Running

(* store() gives the value to the closest nodes that answered it; and when *)
(* all did, a healthy node that it knows of and did not ask is farther than *)
(* the best of them, or no closer than any of them.                         *)
StoresOnClosest ==
  call = "storing" =>
    /\ final \in Nearest(told, K, Target)
    /\ told = checked => \A n \in Known \ checked :
         score[n] = 0 => \/ Affinity(n, Target) < BestAffinity(final, Target)
                         \/ \A m \in final : Affinity(n, Target) <= Affinity(m, Target)
==============================================================================
