------------------------------- MODULE MCClients -------------------------------
(* Seven parts, each on its own: a request with its retries and tasks that *)
(* connect and close, over a Toncenter client, which has a limiter, and a  *)
(* Tonapi client, which was given a session; two requests that fail over   *)
(* among three clients; the history of an account; the queries of a lite   *)
(* client; its get-methods and those of the others; and the two of the     *)
(* monitor, loops and search.                                              *)
EXTENDS HttpBalancer, TransactionPages, LiteQueries, StatusMonitor, ArchiveDepth, GetMethods, TLC
CONSTANTS r1, r2, u1, u2, t1, t2
MCOperation == (r1 :> "get_info") @@ (r2 :> "get_config")
MCKind == <<"toncenter", "tonapi", "tonapi">>
MCMarkers == {"cloudflare", "503 service unavailable"}
MCPolicy ==
  <<<<[codes |-> {429}, markers |-> {}, max_retries |-> 3, base_delay |-> 1, max_delay |-> 1],
      [codes |-> {404, 429}, markers |-> MCMarkers, max_retries |-> 3, base_delay |-> 1,
       max_delay |-> 2]>>, <<>>, <<>>>>
MCErrors ==
  {[code |-> 429, body |-> [said |-> <<>>, rest |-> {}]]} \cup
  {[code |-> 404, body |-> [said |-> said, rest |-> rest]] :
     said \in {<<>>, <<{"not found"}>>}, rest \in {MCMarkers, {"503 service unavailable"}}}
MCPython == {Value(k) : k \in {"int", "Address", "None"}} \cup
            {[kind |-> "list", of |-> <<Value("int"), Value("Cell")>>]}
MCTvm == {Value(k) : k \in {"null", "num", "nan", "cell", "address", "addressCell", "builder"}} \cup
         {[kind |-> "list", of |-> <<Value("num"), Value("cell")>>]}
MCTuples == {[kind |-> "tuple", of |-> <<Value("slice"), v>>] : v \in MCTvm}
MCArguments == {<<>>} \cup {<<a, b>> : a \in MCPython, b \in {Value("int"), Value("Cell")}}
MCReturned ==
  {<<v>> : v \in MCTvm} \cup {<<w, Value("num")>> : w \in MCTuples} \cup
  {<<[kind |-> "tuple", of |-> <<w, Value("cell")>>]>> : w \in MCTuples}
MCSaid ==
  {[stack |-> <<Value("num"), v>>, rlen |-> bits] : v \in {Value("null"), Value("cell")},
     bits \in {0, 8, 12, 16}} \cup
  {[stack |-> s, rlen |-> 8] :
     s \in {<<Value("num")>>, <<Value("cell"), Value("num")>>} \cup
           {<<Value("num"), Value(k)>> : k \in {"address", "addressCell", "nan"}}}
MCSilent == [n \in 1..2 |-> [stack |-> <<>>, rlen |-> 0]]
MCResolvers == [1..2 -> MCSaid] \cup {MCSilent}
MCAccount == <<"none", "uninit", "active">>

VARIABLE part    \* the one that moves

(* Of the tasks and the requests two at most are under way at a time: both  *)
(* requests where no retry is, one with the retries.                        *)
MCBound ==
  LET busy == {u \in Tasks : stage[u] # "idle"}
      flying == {r \in Requests : pc[r] \in InFlight}
      fresh == errors = [c \in Clients |-> 0]
  IN IF part = "failover"
     THEN /\ busy = {} /\ session[2] = "given" /\ "closed" \notin {session[1], session[3]}
          /\ \A r \in Requests : counts[r] \in {<<>>, <<0, 0>>}
          /\ flying # {} \/ ~fresh => \A c \in Clients : Open(c)
     ELSE /\ session[3] = "none" /\ lock[3] = <<>> /\ pc[r2] = "ended"
          /\ Cardinality(busy) + Cardinality(flying) <= 2
          /\ busy # {} => fresh
MCSymmetry == Permutations({u1, u2}) \cup Permutations({t1, t2})

MCAsked == [client |-> "lite", limit |-> 1, from |-> 1, to |-> 0]
PagesRest == PagesInit /\ newest = 0 /\ asked = MCAsked
MonitorRest == MonitorInit /\ kind = "lite"
DepthRest == DepthInit /\ age = 0
MethodsRest ==
  /\ given = <<>> /\ returned = <<>> /\ exit = "0" /\ resolver = MCSilent
  /\ got = [c \in Libraries |-> Nothing]
  /\ bytesLeft = [c \in Libraries |-> Domain] /\ resolved = [c \in Libraries |-> ""]

MCInit ==
  /\ Init /\ QueriesInit
  /\ \/ part \in {"http", "failover", "queries", "methods"} /\ PagesRest /\ MonitorRest /\ DepthRest
     \/ part = "pages" /\ PagesInit /\ MonitorRest /\ DepthRest
     \/ part = "monitor" /\ PagesRest /\ MonitorInit /\ DepthRest
     \/ part = "depth" /\ PagesRest /\ MonitorRest /\ DepthInit
  /\ \/ part = "methods" /\ MethodsInit
        /\ (resolver = MCSilent \/ (given = <<>> /\ exit = "0" /\ returned = <<Value("num")>>))
     \/ part # "methods" /\ MethodsRest
MCNext ==
  /\ UNCHANGED part
  /\ \/ part \in {"http", "failover"} /\ Next /\ UNCHANGED <<pages, queries, monitor, archive, methods>>
     \/ part = "pages" /\ PagesNext /\ UNCHANGED <<vars, queries, monitor, archive, methods>>
     \/ part = "queries" /\ QueriesNext /\ UNCHANGED <<vars, pages, monitor, archive, methods>>
     \/ part = "monitor" /\ MonitorNext /\ UNCHANGED <<vars, pages, queries, archive, methods>>
     \/ part = "depth" /\ DepthNext /\ UNCHANGED <<vars, pages, queries, monitor, methods>>
     \/ part = "methods" /\ MethodsNext /\ UNCHANGED <<vars, pages, queries, monitor, archive>>
MCSpec == MCInit /\ [][MCNext]_<<part, vars, pages, queries, monitor, archive, methods>>
================================================================================
