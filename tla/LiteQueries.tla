----------------------------- MODULE LiteQueries -----------------------------
(***************************************************************************)
(* tonutils/providers/lite/provider.py, its typed queries, over one        *)
(* lite-server: most of them read at last_mc_block, which the updater      *)
(* moves on and which the first query to need one fetches itself.          *)
(*                                                                         *)
(* A masterchain block is its seqno.  An action is what a task does        *)
(* between two awaits; the life of the connection is LiteProvider's.       *)
(***************************************************************************)
EXTENDS Naturals, FiniteSets

CONSTANTS Readers,    (* tasks that query through the client *)
          LiteMethods,  (* what they may call *)
          Account,    (* the state of an account in each block *)
          MaxHeight,  (* bound: the masterchain grows no further *)
          MaxReads,   (* bound: calls of all *)
          MaxDrops    (* bound: lost connections *)

AtLast == {"get_info", "get_account_state", "run_get_method", "get_config",
           "get_all_shards_info"}
Others == {"get_block_header", "lookup_block", "get_transactions", "send_message",
           "get_time", "get_version", "get_masterchain_info"}

ASSUME QueriesAssumption ==
  /\ {MaxHeight, MaxReads, MaxDrops} \subseteq Nat
  /\ Account \in [1..MaxHeight -> {"none", "uninit", "active", "frozen"}]
  /\ LiteMethods \subseteq AtLast \cup Others

VARIABLES height,     (* the newest block of the server *)
          online,     (* the client is connected *)
          drops,
          last,       (* last_mc_block, 0 None *)
          waitsFor,   (* what each task waits for: nothing ("idle"), the answer of
                         refresh() or of its query, an answer that was "lost" *)
          method, reads,    (* the call of each task; how many there were *)
          sentAt,     (* height when its refresh() was sent *)
          readAt,     (* block its query is about, 0 for none *)
          floor,      (* history: block its last answer was about; none while
                         refresh() overlap, and none behind which the reference
                         has been set back by then *)
          came,       (* what the last call to end came to *)
          updater, updaterSent,  (* "off", between queries ("turn"), or as waitsFor *)
          overlap     (* history: two refresh() were under way at once, and since
                         then the reference was always being asked for *)
tasks == <<waitsFor, method, reads, sentAt, readAt, floor, came>>
queries == <<height, online, drops, last, tasks, updater, updaterSent, overlap>>

QueriesInit ==
  /\ height = 1 /\ online = FALSE /\ drops = 0 /\ last = 0
  /\ waitsFor = [r \in Readers |-> "idle"]
  /\ method = [r \in Readers |-> "none"] /\ reads = 0
  /\ sentAt = [r \in Readers |-> 0] /\ readAt = [r \in Readers |-> 0]
  /\ floor = [r \in Readers |-> 0] /\ came = "nothing"
  /\ updater = "off" /\ updaterSent = 0 /\ overlap = FALSE

QueriesTypeOK ==
  /\ {height, last} \subseteq 0..MaxHeight /\ updaterSent \in 0..MaxHeight + 1
  /\ {online, overlap} \subseteq BOOLEAN /\ drops \in 0..MaxDrops
  /\ waitsFor \in [Readers -> {"idle", "refresh", "query", "lost"}]
  /\ method \in [Readers -> LiteMethods \cup {"none"}]
  /\ reads \in 0..MaxReads
  /\ {sentAt, readAt, floor} \subseteq [Readers -> 0..MaxHeight]
  /\ updater \in {"off", "turn", "refresh", "query", "lost"}
------------------------------------------------------------------------------
(* build_contract_state_info(): only an account that is not there at all   *)
(* is nonexist.  One that has no transaction yet has a hash of 32 bytes,   *)
(* all of them zero, which is a hash too, and stays uninit.                *)
InfoState(account) == IF account = "none" THEN "nonexist" ELSE account

(* What the queries make of an answer: it may not parse; a get-method may  *)
(* have failed, transactions may not be a chain of hashes ("refused").     *)
Answers(m) == {"good", "unparsed"} \cup
              (IF m \in {"run_get_method", "get_transactions"} THEN {"refused"} ELSE {})
Parsed(answer) == IF answer = "unparsed" THEN "raised" ELSE "answered"

BuildShardAccount(answer) == Parsed(answer)
BuildConfigAll(answer) == Parsed(answer)
GetContractInfo(answer, b) ==
  IF answer = "good" THEN InfoState(Account[b]) ELSE BuildShardAccount(answer)
GetAccountState(answer, b) ==
  IF answer = "good" /\ Account[b] = "none" THEN "None" ELSE BuildShardAccount(answer)
RunGetMethod(answer) ==
  IF answer = "refused" THEN "RunGetMethodError" ELSE Parsed(answer)
GetTransactions(answer) ==
  IF answer = "refused" THEN "ProviderError" ELSE Parsed(answer)
GetAllShardsInfo(answer) == Parsed(answer)
GetConfigAll(answer) == BuildConfigAll(answer)
LookupBlock(answer) == Parsed(answer)
GetBlockHeader(answer) == Parsed(answer)
GetMasterchainInfo(answer) == Parsed(answer)
GetTimeOrVersion(answer) == Parsed(answer)
SendMessage(answer) == "answered"    \* which nobody looks at

Outcome(m, answer, b) ==
  CASE m = "get_info" -> GetContractInfo(answer, b)
    [] m = "get_account_state" -> GetAccountState(answer, b)
    [] m = "run_get_method" -> RunGetMethod(answer)
    [] m = "get_transactions" -> GetTransactions(answer)
    [] m = "get_all_shards_info" -> GetAllShardsInfo(answer)
    [] m = "get_config" -> GetConfigAll(answer)
    [] m = "lookup_block" -> LookupBlock(answer)
    [] m = "get_block_header" -> GetBlockHeader(answer)
    [] m = "get_masterchain_info" -> GetMasterchainInfo(answer)
    [] m \in {"get_time", "get_version"} -> GetTimeOrVersion(answer)
    [] m = "send_message" -> SendMessage(answer)
------------------------------------------------------------------------------
AnyRefresh == updater = "refresh" \/ \E r \in Readers : waitsFor[r] = "refresh"
Asking == AnyRefresh \/ updater = "query"
OverlapLasts == overlap' = (overlap /\ Asking')

(* Mutant of NeedsRefresh: one query asks for the newest block each time.  *)
NewestShards(m) == m = "get_all_shards_info" \/ (m \in AtLast /\ last = 0)
NeedsRefresh(m) == m \in AtLast /\ last = 0

(* The end of a call, and of what it was about. *)
EndsCall(r, how, b) ==
  /\ waitsFor' = [waitsFor EXCEPT ![r] = "idle"]
  /\ method' = [method EXCEPT ![r] = "none"] /\ came' = how
  /\ sentAt' = [sentAt EXCEPT ![r] = 0] /\ readAt' = [readAt EXCEPT ![r] = 0]
  /\ floor' = [floor EXCEPT ![r] =
                 IF b = 0 THEN @ ELSE IF overlap THEN 0 ELSE IF b <= last THEN b ELSE last]

SendsQuery(r, b) ==
  /\ waitsFor' = [waitsFor EXCEPT ![r] = "query"]
  /\ sentAt' = [sentAt EXCEPT ![r] = 0] /\ readAt' = [readAt EXCEPT ![r] = b]
  /\ UNCHANGED <<floor, came>>

(* _adnl_call() of the client, and the query up to what it waits for; the  *)
(* provider gives no more than 16 transactions.                            *)
Call(r, m, tooMany) ==
  /\ waitsFor[r] = "idle" /\ reads < MaxReads
  /\ reads' = reads + 1
  /\ tooMany => m = "get_transactions"
  /\ CASE ~online -> EndsCall(r, "NotConnectedError", 0) /\ UNCHANGED overlap
       [] online /\ tooMany -> EndsCall(r, "ClientError", 0) /\ UNCHANGED overlap
       [] online /\ ~tooMany /\ NeedsRefresh(m) ->
            /\ waitsFor' = [waitsFor EXCEPT ![r] = "refresh"]
            /\ method' = [method EXCEPT ![r] = m]
            /\ sentAt' = [sentAt EXCEPT ![r] = height]
            /\ overlap' = (overlap \/ AnyRefresh)
            /\ UNCHANGED <<readAt, floor, came>>
       [] online /\ ~tooMany /\ ~NeedsRefresh(m) ->
            /\ method' = [method EXCEPT ![r] = m]
            /\ SendsQuery(r, IF m \in AtLast THEN last ELSE 0)
            /\ UNCHANGED overlap
  /\ UNCHANGED <<height, online, drops, last, updater, updaterSent>>

(* getMasterchainInfo tells a block that was the newest since it was sent; *)
(* the answers of queries that are under way together come in any order.   *)
Since(sent) == sent..height

Refreshed(r) ==
  /\ waitsFor[r] = "refresh"
  /\ last' \in Since(sentAt[r])
  /\ SendsQuery(r, last')
  /\ UNCHANGED <<height, online, drops, method, reads, updater, updaterSent>>
  /\ OverlapLasts

Answered(r) ==
  /\ waitsFor[r] = "query"
  /\ \E answer \in Answers(method[r]) :
       EndsCall(r, Outcome(method[r], answer, readAt[r]), readAt[r])
  /\ UNCHANGED <<height, online, drops, last, reads, updater, updaterSent, overlap>>

(* An error of the server, or the timeout; of refresh() it is the query's. *)
Fails(r) ==
  /\ waitsFor[r] # "idle"
  /\ EndsCall(r, "ProviderError", 0)
  /\ UNCHANGED <<height, online, drops, last, reads, updater, updaterSent>>
  /\ OverlapLasts
------------------------------------------------------------------------------
(* UpdaterWorker._run() *)
UpdaterTurn ==
  /\ updater = "turn"
  /\ updater' = IF ~online THEN "off" ELSE IF last = 0 THEN "refresh" ELSE "query"
  /\ overlap' = (overlap \/ (updater' = "refresh" /\ AnyRefresh))
  /\ updaterSent' = IF ~online THEN 0 ELSE IF last = 0 THEN height ELSE last + 1
  /\ UNCHANGED <<height, online, drops, last, tasks>>

(* wait_masterchain_seqno() is answered once there is that block. *)
UpdaterAnswered ==
  /\ updater \in {"refresh", "query"}
  /\ last' \in Since(updaterSent)
  /\ updater' = "turn" /\ updaterSent' = 0
  /\ UNCHANGED <<height, online, drops, tasks>>
  /\ OverlapLasts

(* A timeout leaves the worker at work, another error ends it. *)
UpdaterFails ==
  /\ updater \in {"refresh", "query", "lost"}
  /\ updater' \in {"turn", "off"} /\ updaterSent' = 0
  /\ UNCHANGED <<height, online, drops, last, tasks>>
  /\ OverlapLasts
------------------------------------------------------------------------------
(* connect(): what is left of before keeps its timeout, and the updater    *)
(* is started unless it runs; last_mc_block stays what it was.             *)
GoesOnline ==
  /\ ~online
  /\ online' = TRUE
  /\ updater' = IF updater = "off" THEN "turn" ELSE updater
  /\ UNCHANGED <<height, drops, last, tasks, updaterSent, overlap>>

LosesConnection ==
  /\ online /\ drops < MaxDrops
  /\ online' = FALSE /\ drops' = drops + 1
  /\ waitsFor' = [r \in Readers |-> IF waitsFor[r] = "idle" THEN "idle" ELSE "lost"]
  /\ sentAt' = [r \in Readers |-> 0] /\ readAt' = [r \in Readers |-> 0]
  /\ updater' = IF updater \in {"refresh", "query"} THEN "lost" ELSE updater
  /\ updaterSent' = 0
  /\ UNCHANGED <<height, last, method, reads, floor, came>>
  /\ OverlapLasts

NewBlock ==
  /\ height < MaxHeight
  /\ height' = height + 1
  /\ UNCHANGED <<online, drops, last, tasks, updater, updaterSent, overlap>>

QueriesNext ==
  \/ \E r \in Readers :
       \/ \E m \in LiteMethods, tooMany \in BOOLEAN : Call(r, m, tooMany)
       \/ Refreshed(r) \/ Answered(r) \/ Fails(r)
  \/ UpdaterTurn \/ UpdaterAnswered \/ UpdaterFails
  \/ GoesOnline \/ LosesConnection \/ NewBlock

QueriesSpec == QueriesInit /\ [][QueriesNext]_queries
------------------------------------------------------------------------------
(* What a task is told of the chain never goes back: no query is about an  *)
(* older block than one that task has had an answer about, over lost       *)
(* connections and a changing reference -- except while two refresh() and  *)
(* what overtakes them are under way, the later answer of which may be the *)
(* older one: they only are when the first queries find no reference, and  *)
(* once the answers that were on their way are in, reads go forward again. *)
ReadsGoForward ==
  \A r \in Readers : readAt[r] # 0 /\ ~overlap => readAt[r] >= floor[r]
==============================================================================
