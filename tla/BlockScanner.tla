----------------------------- MODULE BlockScanner -----------------------------
(***************************************************************************)
(* tonutils/tools/block_scanner/scanner.py: the scanner that follows the   *)
(* masterchain, finds the new shard blocks by walking back from the shard  *)
(* tips of each masterchain block, hands them to the handlers and stores   *)
(* how far it got.                                                         *)
(*                                                                         *)
(* The network is the environment: one workchain whose shards advance,     *)
(* split and merge.  A shard splits or merges only from blocks that the    *)
(* masterchain already refers to.  One task drives the scanner; a second   *)
(* start() while it runs only raises.  Both handlers are set; what they    *)
(* raise goes to the error handler and changes nothing here.               *)
(***************************************************************************)
EXTENDS ShardMath, FiniteSets

CONSTANTS MaxHeight,    (* bound: masterchain blocks 0..MaxHeight            *)
          MaxBlocks,    (* bound: shard blocks, the first one included       *)
          MaxSteps,     (* bound: blocks of a shard per masterchain block    *)
          MaxDepth,     (* bound: how often a shard splits                   *)
          MaxLeft,      (* bound: blocks in the queue of a scanner run again *)
          StopsAnywhere (* stop() may be called at any time: otherwise only  *)
                        (* while the scanner waits for the next block        *)

ASSUME ChainAssumption == /\ MaxHeight \in Nat \ {0} /\ MaxSteps \in Nat \ {0}
                          /\ MaxBlocks \in Nat
                          /\ MaxDepth \in 0..(Width - 1) /\ MaxLeft \in Nat
                          /\ StopsAnywhere \in BOOLEAN

VARIABLES prev,     (* the real predecessors of every shard block            *)
          mc,       (* mc[n]: the shard tips of masterchain block n, and all *)
                    (* the shard blocks up to them                           *)
          phase,    (* the await the scanner is in; "off": not running       *)
          cur,      (* mc_block.seqno                                        *)
          seen,     (* seen_shard_seqno, -1 where it has no entry            *)
          todo,     (* the tips of mc_block still to be walked               *)
          queue,    (* self._pending_blocks                                  *)
          stopping, (* self._stop_event                                      *)
          saved,    (* what the storage holds, -1: nothing                   *)
          done,     (* history: blocks handled, or before the starting point *)
          runDone,  (* history: blocks this run has handed to on_block       *)
          leftover  (* history: blocks an aborted run left in the queue      *)

chain == <<prev, mc>>
scanner == <<phase, cur, seen, todo, queue, stopping>>
history == <<done, runDone, leftover>>
vars == <<chain, scanner, saved, history>>

ShardPrefixes == UNION {[1..d -> {0, 1}] : d \in 0..MaxDepth}
Shards == {ShardId(p) : p \in ShardPrefixes}
Blocks == DOMAIN prev
height == Len(mc) - 1
Tips(n) == mc[n + 1].tips
UpTo(n) == mc[n + 1].blocks

Genesis == [shard |-> ShardId(<<>>), seqno |-> 0]

TypeOK ==
  /\ \A b \in Blocks : b.shard \in Shards /\ b.seqno \in Nat
  /\ phase \in {"off", "resuming", "seen", "tips", "walk", "process", "handlers", "store", "wait"}
  /\ cur \in 0..height /\ saved \in -1..height
  /\ seen \in [Shards -> Nat \cup {-1}]
  /\ todo \subseteq Tips(cur) /\ (todo # {} => phase = "walk")
  /\ queue \in Seq(Blocks)
  /\ done \cup runDone \cup leftover \subseteq Blocks
  /\ stopping \in BOOLEAN

Init ==
  /\ prev = [b \in {Genesis} |-> <<>>]
  /\ mc = <<[tips |-> {Genesis}, blocks |-> {Genesis}]>>
  /\ phase = "off" /\ cur = 0 /\ todo = {} /\ queue = <<>> /\ stopping = FALSE
  /\ seen = [s \in Shards |-> -1]
  /\ saved = -1
  /\ done = {} /\ runDone = {} /\ leftover = {}
------------------------------------------------------------------------------
(* The network: each masterchain block advances every shard by some blocks *)
(* - none, or a chain of them - or splits it, or merges two siblings.      *)

Block(s, n) == [shard |-> s, seqno |-> n]

Extend(fresh, tips) ==  \* fresh: the new blocks with their predecessors
  LET blocks == UpTo(height) \cup DOMAIN fresh
  IN /\ height < MaxHeight /\ Cardinality(blocks) <= MaxBlocks
     /\ prev' = [b \in Blocks \cup DOMAIN fresh |-> IF b \in Blocks THEN prev[b] ELSE fresh[b]]
     /\ mc' = Append(mc, [tips |-> tips, blocks |-> blocks])
     /\ UNCHANGED <<scanner, saved, history>>

Advance ==
  \E steps \in [Tips(height) -> 0..MaxSteps] :
    Extend([b \in UNION {{Block(t.shard, t.seqno + i) : i \in 1..steps[t]} : t \in Tips(height)}
              |-> <<Block(b.shard, b.seqno - 1)>>],
           {Block(t.shard, t.seqno + steps[t]) : t \in Tips(height)})

Split ==
  \E p \in ShardPrefixes, t \in Tips(height) :
    /\ Len(p) < MaxDepth /\ t.shard = ShardId(p)
    /\ LET children == {Block(ShardId(Append(p, bit)), t.seqno + 1) : bit \in {0, 1}}
       IN Extend([b \in children |-> <<t>>], (Tips(height) \ {t}) \cup children)

Merge ==
  \E p \in ShardPrefixes, l \in Tips(height), r \in Tips(height) :
    /\ Len(p) < MaxDepth
    /\ l.shard = ShardId(Append(p, 0)) /\ r.shard = ShardId(Append(p, 1))
    /\ LET b == Block(ShardId(p), (IF l.seqno > r.seqno THEN l.seqno ELSE r.seqno) + 1)
       IN Extend([x \in {b} |-> <<l, r>>], (Tips(height) \ {l, r}) \cup {b})
------------------------------------------------------------------------------
(* The ids of a block's predecessors, computed from its header: that has   *)
(* their seqnos, whether there are two, and after_split.                   *)
AfterSplit(b) == prev[b][1].shard # b.shard
PrevIds(b) ==
  IF Len(prev[b]) = 2
  THEN <<Block(ChildShard(b.shard, TRUE), prev[b][1].seqno),
         Block(ChildShard(b.shard, FALSE), prev[b][2].seqno)>>
  ELSE [i \in 1..Len(prev[b]) |->
          Block(IF AfterSplit(b) THEN ParentShard(b.shard) ELSE b.shard, prev[b][i].seqno)]

(* Mutant of Missing: a block is queued before its predecessors. *)
NewestFirst(tip) ==
  LET walk[b \in Blocks] ==
        IF seen[b.shard] >= b.seqno THEN <<>>
        ELSE LET p == PrevIds(b)
             IN <<b>> \o (IF Len(p) = 2 THEN walk[p[1]] \o walk[p[2]] ELSE walk[p[1]])
  IN walk[tip]

(* _enqueue_missing_blocks(): what it puts on the queue.  Only the first   *)
(* block of all has no predecessor, and it is always seen.                 *)
Missing(tip) ==
  LET walk[b \in Blocks] ==
        LET p == PrevIds(b)
        IN IF seen[b.shard] >= b.seqno \/ p = <<>> THEN <<>>
           ELSE (IF Len(p) = 2 THEN walk[p[1]] \o walk[p[2]] ELSE walk[p[1]]) \o <<b>>
  IN walk[tip]

(* ... and what it may have put there when a get_block_header() raises.    *)
PartlyMissing(tip) ==
  LET partial[b \in Blocks] ==
        LET p == PrevIds(b)
        IN IF seen[b.shard] >= b.seqno \/ p = <<>> THEN {}
           ELSE {<<>>} \cup partial[p[1]] \cup
                (IF Len(p) = 2 THEN {Missing(p[1]) \o q : q \in partial[p[2]]} ELSE {})
  IN partial[tip]
------------------------------------------------------------------------------
(* Ways to start.  The provider's last_mc_block may be any block so far.   *)

Unseen == [s \in Shards |-> -1]

(* Nothing is left of a run but the queue. *)
Idle ==
  /\ phase' = "off" /\ cur' = 0 /\ seen' = Unseen /\ todo' = {}
  /\ runDone' = {} /\ leftover' = {}
  /\ UNCHANGED done

Ended == Idle /\ stopping' = TRUE

(* _run() up to its first await.  A run that starts afresh owes nothing    *)
(* from before its starting point.                                         *)
BeginRun(n, before) ==
  /\ Len(queue) <= MaxLeft
  /\ phase' = "seen" /\ cur' = n /\ stopping' = FALSE
  /\ done' = done \cup before
  /\ runDone' = {} /\ leftover' = {queue[i] : i \in DOMAIN queue}
  /\ UNCHANGED <<seen, todo, queue>>

(* start(), start_from() *)
Start(n) ==
  /\ phase = "off"
  /\ BeginRun(n, UpTo(n - 1))
  /\ UNCHANGED <<chain, saved>>

(* resume() behind the network *)
Resume(last) ==
  /\ phase = "off" /\ saved # -1 /\ saved < last
  /\ BeginRun(saved + 1, {})
  /\ UNCHANGED <<chain, saved>>

(* resume() with nothing new: it waits for the next block first. *)
ResumeWaits ==
  /\ phase = "off" /\ saved # -1
  /\ phase' = "resuming" /\ cur' = saved
  /\ UNCHANGED <<chain, seen, todo, queue, stopping, saved, history>>

(* _wait_next_mc_block() gives the same block back once stopped: the run   *)
(* then starts with it.                                                    *)
ResumeContinues ==
  /\ phase = "resuming"
  /\ IF stopping THEN BeginRun(cur, {}) ELSE cur < height /\ BeginRun(cur + 1, {})
  /\ UNCHANGED <<chain, saved>>
------------------------------------------------------------------------------
(* _run() *)

SeenOfThis(n) == Tips(n)  \* mutant of SeenBefore: one block too late
SeenBefore(n) == Tips(n - 1)

(* _get_seen_shard_seqno() *)
GetSeen ==
  /\ phase = "seen"
  /\ IF stopping THEN Ended
     ELSE /\ phase' = "tips"
          /\ seen' = [s \in Shards |->
                        IF \E b \in SeenBefore(cur) : b.shard = s
                        THEN (CHOOSE b \in SeenBefore(cur) : b.shard = s).seqno ELSE -1]
          /\ UNCHANGED <<cur, todo, stopping, history>>
  /\ UNCHANGED <<chain, queue, saved>>

GetTips ==
  /\ phase = "tips"
  /\ todo' = Tips(cur) /\ phase' = "walk"
  /\ UNCHANGED <<chain, cur, seen, queue, stopping, saved, history>>

ForgetTip(tip) == UNCHANGED seen  \* mutant of MarkSeen
MarkSeen(tip) == seen' = [seen EXCEPT ![tip.shard] = tip.seqno]

WalkTip ==
  /\ phase = "walk"
  /\ \E tip \in todo :
       /\ queue' = queue \o Missing(tip)
       /\ MarkSeen(tip)
       /\ todo' = todo \ {tip}
       /\ phase' = IF todo' = {} THEN "process" ELSE "walk"
  /\ UNCHANGED <<chain, cur, stopping, saved, history>>

WalkFails ==
  /\ phase = "walk"
  /\ \E tip \in todo : \E part \in PartlyMissing(tip) : queue' = queue \o part
  /\ Ended
  /\ UNCHANGED <<chain, saved>>

(* _process_pending_blocks(): the event of a block, then of its            *)
(* transactions.  A stop() is looked at before each block.                 *)
HandleBlock ==
  /\ phase = "process" /\ queue # <<>> /\ ~stopping
  /\ phase' = "handlers"
  /\ runDone' = runDone \cup {Head(queue)}
  /\ UNCHANGED <<chain, cur, seen, todo, queue, stopping, saved, done, leftover>>

HandleTransactions ==
  /\ phase = "handlers"
  /\ phase' = "process"
  /\ queue' = Tail(queue) /\ done' = done \cup {Head(queue)}
  /\ UNCHANGED <<chain, cur, seen, todo, stopping, saved, runDone, leftover>>

Processed ==
  /\ phase = "process" /\ (queue = <<>> \/ stopping)
  /\ phase' = "store"
  /\ UNCHANGED <<chain, cur, seen, todo, queue, stopping, saved, history>>

Store ==
  /\ phase = "store"
  /\ saved' = cur /\ phase' = "wait"
  /\ UNCHANGED <<chain, cur, seen, todo, queue, stopping, history>>

SkipsOne == cur + 1 < height  \* mutant of NextThere
NextThere == cur < height

(* _wait_next_mc_block(), then the head of the loop *)
WaitNext ==
  /\ phase = "wait" /\ ~stopping /\ NextThere
  /\ cur' = cur + 1 /\ phase' = "tips"
  /\ UNCHANGED <<chain, seen, todo, queue, stopping, saved, history>>

(* Mutant of Stopped: the loop does not look at the stop event. *)
LoopsOn ==
  /\ phase = "wait" /\ stopping
  /\ phase' = "tips"
  /\ UNCHANGED <<chain, cur, seen, todo, queue, stopping, saved, history>>

Stopped ==
  /\ phase = "wait" /\ stopping
  /\ Ended
  /\ UNCHANGED <<chain, queue, saved>>
------------------------------------------------------------------------------
(* A call of the network or the storage raises, or the task is cancelled,  *)
(* in a handler too: the block it works on has left the queue.             *)
Raises ==
  /\ phase \notin {"off", "process"}
  /\ Idle
  /\ stopping' = (stopping \/ phase # "resuming")
  /\ queue' = IF phase = "handlers" THEN Tail(queue) ELSE queue
  /\ UNCHANGED <<chain, saved>>

Stop ==
  /\ StopsAnywhere \/ phase \in {"off", "resuming", "wait"}
  /\ ~stopping
  /\ stopping' = TRUE
  /\ UNCHANGED <<chain, phase, cur, seen, todo, queue, saved, history>>

(* The process dies and a new one begins: only the storage is left. *)
Restart ==
  /\ Idle
  /\ queue' = <<>> /\ stopping' = FALSE
  /\ UNCHANGED <<chain, saved>>

Network == Advance \/ Split \/ Merge
Running == GetSeen \/ GetTips \/ WalkTip \/ HandleBlock \/ HandleTransactions
             \/ Processed \/ Store \/ WaitNext \/ Stopped \/ ResumeContinues

Next ==
  \/ Network \/ Running
  \/ \E n \in 1..height : Start(n) \/ Resume(n)
  \/ ResumeWaits \/ WalkFails \/ Raises \/ Stop \/ Restart

(* The event loop runs the scanner on, and the calls it awaits return.     *)
Spec == Init /\ [][Next]_vars /\ WF_vars(Running)
------------------------------------------------------------------------------
(* The ids computed on the walk are those of the blocks meant: the shard   *)
(* arithmetic agrees with prefixes across splits and merges, in 64 bits or *)
(* any other width (scanner.py:78-96 and 282-318).                         *)
WalksTheChain == \A b \in Blocks : PrevIds(b) = prev[b]

(* No block is handed out before all the blocks it builds on are handled,  *)
(* also when a run picks up after a crash, an error or a stop, except for  *)
(* blocks that an aborted run of the same scanner left in its queue.       *)
InOrder ==
  [][runDone' # runDone /\ phase' = "handlers" =>
       \A i \in DOMAIN prev[Head(queue)] :
         Head(queue) \in leftover \/ prev[Head(queue)][i] \in done]_vars

(* A run hands no block out twice, whatever splits and merges lead to it   *)
(* by several paths, except again for blocks of an aborted run.            *)
OncePerRun ==
  [][HandleBlock => (Head(queue) \notin runDone \/ Head(queue) \in leftover)]_vars

(* What the storage says is processed was handled, every block of it:      *)
(* whoever resumes from it misses nothing (storage.py:13).                 *)
SavedIsHandled == saved # -1 => UpTo(saved) \subseteq done

(* A run that is neither stopped nor ended by an error gets to every       *)
(* masterchain block.                                                      *)
KeepsUp ==
  \A n \in 1..MaxHeight :
    (height >= n /\ phase \notin {"off", "resuming"} ~> saved >= n \/ phase = "off")

(* A running scanner that is stopped ends. *)
StopEnds == stopping /\ phase \notin {"off", "resuming"} ~> phase = "off"
==============================================================================
