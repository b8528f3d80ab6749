----------------------------- MODULE LiteProvider -----------------------------
(***************************************************************************)
(* tonutils/providers/lite/provider.py with its reader, pinger and updater *)
(* workers, over the transport of AdnlTcpTransport: connect(), reconnect() *)
(* and close() under _connect_lock, interleaved with queries that wait for *)
(* the limiter and for their answers.                                      *)
(*                                                                         *)
(* The updater and the pinger are queries that repeat by themselves; the   *)
(* others are calls of users.  A query never matches an answer to an       *)
(* earlier one: query ids are random.                                      *)
(***************************************************************************)
EXTENDS AdnlTcpTransport

CONSTANT Users  (* tasks that send queries *)

ASSUME UsersAssumption == Users \cap {"none", "reader", "updater", "pinger", "task", "op"} = {}

VARIABLES op,        (* the operation that holds _connect_lock, or "none"   *)
          step,      (* the await it is in                                  *)
          loop,      (* self.loop is not None                               *)
          workers,   (* the background workers whose task runs              *)
          qs,        (* where each query stands                             *)
          fut,       (* its future                                          *)
          sess,      (* the session it was sent on                          *)
          pending,   (* the queries in self.pending                         *)
          inbox,     (* answers in transport._incoming                      *)
          cancelled  (* some caller's timeout has cancelled an operation    *)

provider == <<op, step, loop, workers>>
queries == <<qs, fut, sess, pending, inbox>>
vars == <<transport, provider, queries, cancelled>>

Queries == Users \cup {"updater", "pinger"}
Workers == {"reader", "updater", "pinger"}
Closers == Queries \cup {"task", "op"}

TypeOK ==
  /\ TransportTypeOK(Closers)
  /\ op \in {"none", "connect", "reconnect", "close"}
  /\ step \in {"none", "closing", "opening", "handshake", "abort", "starting"}
  /\ loop \in BOOLEAN /\ cancelled \in BOOLEAN
  /\ workers \subseteq Workers
  /\ qs \in [Queries -> {"idle", "acquire", "flush", "wait"}]
  /\ fut \in [Queries -> {"none", "pending", "ok", "error", "cancelled"}]
  /\ sess \in [Queries -> Session]
  /\ pending \subseteq Queries /\ inbox \subseteq Queries

Init ==
  /\ TransportInit
  /\ op = "none" /\ step = "none" /\ loop = FALSE /\ workers = {}
  /\ qs = [q \in Queries |-> "idle"]
  /\ fut = [q \in Queries |-> "none"]
  /\ sess = [q \in Queries |-> 0]
  /\ pending = {} /\ inbox = {} /\ cancelled = FALSE
------------------------------------------------------------------------------
(* connect(), reconnect() and close(): one at a time, under _connect_lock. *)

EndOp == op' = "none" /\ step' = "none"

Connect ==
  /\ op = "none" /\ ~connected
  /\ op' = "connect" /\ step' = "opening" /\ loop' = TRUE
  /\ UNCHANGED <<transport, workers, queries, cancelled>>

OpenFails ==
  /\ step = "opening"
  /\ EndOp
  /\ UNCHANGED <<transport, loop, workers, queries, cancelled>>

OpenSucceeds ==
  /\ step = "opening" /\ Opened
  /\ step' = "handshake"
  /\ UNCHANGED <<op, loop, workers, queries, cancelled>>

(* Mutants of AbandonSession and HandshakeFails: no close(), no timeout. *)
LeaveSession == UNCHANGED transport
HandshakeHangs == step = "handshake" /\ UNCHANGED vars

AbandonSession == BeginClose("op")

HandshakeFails ==
  /\ step = "handshake" /\ AbandonSession
  /\ step' = "abort"
  /\ UNCHANGED <<op, loop, workers, queries, cancelled>>

Aborted ==
  /\ step = "abort" /\ closing # "op"
  /\ EndOp
  /\ UNCHANGED <<transport, loop, workers, queries, cancelled>>

HandshakeSucceeds ==
  /\ step = "handshake" /\ HandshakeRead
  /\ step' = "starting"
  /\ UNCHANGED <<op, loop, workers, queries, cancelled>>

(* start() leaves a worker that runs alone and restarts one that ended.    *)
(* The reader's first recv_adnl_packet() raises if the session is gone.    *)
StartedOnce == IF workers = {} THEN Workers ELSE workers  \* mutant of Started
Started == workers \cup StillReading(Workers)

StartWorkers ==
  /\ step = "starting"
  /\ workers' = Started
  /\ EndOp
  /\ UNCHANGED <<transport, loop, queries, cancelled>>

(* Mutant of CancelPending: clear() alone. *)
ForgetPending(qs1, fut1) == pending' = {} /\ qs' = qs1 /\ fut' = fut1

(* Futures of queries that still wait are cancelled, and none is kept. *)
CancelPending(qs1, fut1) ==
  /\ pending' = {}
  /\ qs' = qs1
  /\ fut' = [q \in Queries |->
               IF q \in pending /\ fut1[q] = "pending" THEN "cancelled" ELSE fut1[q]]

KeepWorkers == UNCHANGED workers  \* mutant of StopWorkers
StopWorkers == workers' = {}

(* A stopped worker's query is cancelled wherever it is. *)
Stopped(q) == q \in {"updater", "pinger"} \cap workers

(* _do_close() up to the wait for the transport.  A worker that is itself  *)
(* closing the transport after a failed flush is cancelled in there, and   *)
(* _do_close() finds no writer left to wait for; while the worker awaits   *)
(* the reader task the cancellation has no effect.                         *)
Shutdown(kind) ==
  /\ op = "none"
  /\ op' = kind /\ step' = "closing"
  /\ StopWorkers
  /\ IF closing \in {"updater", "pinger"}
     THEN EndClose /\ inbox' = {}
     ELSE BeginClose("op") /\ UNCHANGED inbox
  /\ CancelPending([q \in Queries |-> IF Stopped(q) THEN "idle" ELSE qs[q]],
                   [q \in Queries |-> IF Stopped(q) THEN "none" ELSE fut[q]])
  /\ UNCHANGED <<loop, sess, cancelled>>

Closed ==
  /\ step = "closing" /\ closing # "op"
  /\ IF op = "reconnect"
     THEN loop' = TRUE /\ step' = "opening" /\ op' = op
     ELSE loop' = FALSE /\ EndOp
  /\ UNCHANGED <<transport, workers, queries, cancelled>>

(* asyncio.wait_for around the call gives up, as LiteBalancer's does.      *)
(* CancelledError is no Exception: connect() leaves everything as it is.   *)
CallerTimesOut ==
  /\ \/ step \in {"opening", "handshake", "starting"} /\ UNCHANGED transport
     \/ step \in {"closing", "abort"} /\ closing = "op" /\ CancelClose
  /\ EndOp
  /\ cancelled' = TRUE
  /\ UNCHANGED <<loop, workers, queries>>
------------------------------------------------------------------------------
(* The transport on its own. *)
CloseProceeds ==
  /\ CloseWriter
  /\ UNCHANGED <<provider, queries, cancelled>>

CloseEnds ==
  /\ EndClose
  /\ inbox' = {}
  /\ UNCHANGED <<provider, qs, fut, sess, pending, cancelled>>

SessionDrops ==
  /\ ReaderEnds
  /\ UNCHANGED <<provider, queries, cancelled>>
------------------------------------------------------------------------------
(* Queries.  A worker's query ends the worker when it raises what the      *)
(* worker does not catch: the updater goes on only after a timeout.        *)
Active(q) == q \in Users \/ q \in workers

Survivors(q, raised) == IF q = "updater" /\ raised THEN workers \ {q} ELSE workers

Leave(q, raised) ==
  /\ qs' = [qs EXCEPT ![q] = "idle"]
  /\ fut' = [fut EXCEPT ![q] = "none"]
  /\ workers' = Survivors(q, raised)

(* The first check of _send_once_adnl_query(), then the limiter.  The      *)
(* updater raises NotConnectedError and ends, a user's call changes nothing*)
BeginQuery(q) ==
  /\ Active(q) /\ q # "pinger" /\ qs[q] = "idle"
  /\ IF connected /\ loop
     THEN qs' = [qs EXCEPT ![q] = "acquire"] /\ UNCHANGED <<fut, workers>>
     ELSE q = "updater" /\ Leave(q, TRUE)
  /\ UNCHANGED <<transport, op, step, loop, sess, pending, inbox, cancelled>>

(* The rest, once the limiter let it through; all of a ping.  self.loop    *)
(* and the connection may be gone by now.                                  *)
Ready(q) ==
  /\ Active(q)
  /\ \/ qs[q] = "acquire"
     \/ q = "pinger" /\ qs[q] = "idle" /\ connected /\ loop

(* No loop: AttributeError.  No connection or no cipher: an error from     *)
(* send_adnl_packet(), after which only the ping's future stays behind.    *)
SendRefused(q) ==
  /\ Ready(q) /\ ~(loop /\ CanSend)
  /\ pending' = IF q = "pinger" THEN pending \cup {q} ELSE pending
  /\ Leave(q, TRUE)
  /\ UNCHANGED <<transport, op, step, loop, sess, inbox, cancelled>>

Sent(q) ==
  /\ Ready(q) /\ loop /\ CanSend
  /\ pending' = pending \cup {q}
  /\ fut' = [fut EXCEPT ![q] = "pending"]
  /\ sess' = [sess EXCEPT ![q] = writer]
  /\ inbox' = inbox \ {q}
  /\ UNCHANGED <<op, step, loop, workers, cancelled>>

Send(q) == Sent(q) /\ qs' = [qs EXCEPT ![q] = "wait"] /\ UNCHANGED transport

(* drain() raises ConnectionError: _flush() closes the transport first. *)
FlushFails(q) == Sent(q) /\ qs' = [qs EXCEPT ![q] = "flush"] /\ BeginClose(q)

FlushRaises(q) ==
  /\ qs[q] = "flush" /\ closing # q
  /\ pending' = IF q = "pinger" THEN pending ELSE pending \ {q}
  /\ Leave(q, TRUE)
  /\ UNCHANGED <<transport, op, step, loop, sess, inbox, cancelled>>

(* frame_reader_loop() queues an answer, the reader worker dispatches it   *)
(* and comes back to recv_adnl_packet(), which ends it if the session is   *)
(* gone by then.                                                           *)
Receive(q) ==
  /\ readerTask # 0 /\ readerTask = sess[q] /\ cipher # 0
  /\ qs[q] = "wait" /\ fut[q] = "pending" /\ q \notin inbox
  /\ inbox' = inbox \cup {q}
  /\ UNCHANGED <<transport, provider, qs, fut, sess, pending, cancelled>>

Dispatch(q) ==
  /\ "reader" \in workers /\ q \in inbox
  /\ inbox' = inbox \ {q}
  /\ pending' = pending \ {q}
  /\ \E r \in {"ok", "error"} :
       fut' = IF q \in pending /\ fut[q] = "pending" THEN [fut EXCEPT ![q] = r] ELSE fut
  /\ workers' = StillReading(workers)
  /\ UNCHANGED <<transport, op, step, loop, qs, sess, cancelled>>

(* The query's task wakes up: an answer, an error, its own timeout, or the *)
(* CancelledError of _do_close().                                          *)
WakesAnswered(q) ==  \* mutant of Wakes: no timeout
  qs[q] = "wait" /\ fut[q] # "pending"
Wakes(q) == qs[q] = "wait"

QueryEnds(q) ==
  /\ Wakes(q)
  /\ pending' = pending \ {q}
  /\ Leave(q, fut[q] \in {"error", "cancelled"})
  /\ UNCHANGED <<transport, op, step, loop, sess, inbox, cancelled>>
------------------------------------------------------------------------------
Next ==
  \/ Connect \/ \E kind \in {"reconnect", "close"} : Shutdown(kind)
  \/ OpenFails \/ OpenSucceeds \/ HandshakeFails \/ HandshakeSucceeds
  \/ Aborted \/ StartWorkers \/ Closed \/ CallerTimesOut
  \/ CloseProceeds \/ CloseEnds \/ SessionDrops
  \/ \E q \in Queries :
       \/ BeginQuery(q) \/ SendRefused(q) \/ Send(q) \/ FlushFails(q) \/ FlushRaises(q)
       \/ Receive(q) \/ Dispatch(q) \/ QueryEnds(q)

(* The event loop runs what is ready; opening, handshake and answers are   *)
(* bounded by timeouts, the limiter lets everyone through in the end, and  *)
(* wait_closed() returns.  No server has to answer, nobody has to connect. *)
Fairness ==
  /\ WF_vars(OpenFails) /\ WF_vars(HandshakeFails)
  /\ WF_vars(Aborted) /\ WF_vars(StartWorkers) /\ WF_vars(Closed)
  /\ WF_vars(CloseProceeds) /\ WF_vars(CloseEnds)
  /\ WF_vars(closePhase = "join" /\ SessionDrops)
  /\ \A q \in Queries :
       WF_vars(qs[q] # "idle" /\ (SendRefused(q) \/ Send(q) \/ FlushRaises(q) \/ QueryEnds(q)))

Spec == Init /\ [][Next]_vars /\ Fairness
------------------------------------------------------------------------------
(* A transport that says it is connected can encrypt for the connection it *)
(* writes to, and its reader loop reads from it (tcp.py:61-64 and 131-149).*)
SessionUsable == connected => writer # 0 /\ cipher = writer /\ readerTask = writer

(* No socket is lost: while no caller has given up in the middle of an     *)
(* operation, every open one is the current writer or about to be closed   *)
(* (tcp.py:285-316, "clean up all resources").                             *)
SocketsOwned == ~cancelled => open \subseteq {writer, dying}

(* A query that waits for an answer can be reached by it and by close():   *)
(* its future is in the table of pending ones (provider.py:161-164).       *)
WaitersReachable ==
  \A q \in Queries : qs[q] = "wait" /\ fut[q] = "pending" => q \in pending

(* Between operations, a connected provider has its reader worker running, *)
(* whatever ended the worker before (provider.py:153-154).                 *)
ReaderServes ==
  ~cancelled /\ connected /\ op = "none" => "reader" \in workers

(* After close() nothing runs until the next connect(): no session, no     *)
(* worker comes back from a step that was under way (provider.py:180-183). *)
ClosedIsQuiet == ~loop => ~connected /\ workers = {}

(* A query always ends for its caller, whatever happens to the session. *)
QueriesEnd == \A q \in Users : qs[q] # "idle" ~> qs[q] = "idle"

(* An operation always gives _connect_lock back. *)
OperationsEnd == op # "none" ~> op = "none"

(* While the provider is connected, and no operation is under way, the     *)
(* updater follows the masterchain (its class comment, updater.py:16-19).  *)
UpdaterFollows == ~cancelled /\ connected /\ op = "none" => "updater" \in workers
==============================================================================
