-------------------------- MODULE LiteProviderProofs --------------------------
(***************************************************************************)
(* Theorems about LiteProvider, for any number of users and of sessions.   *)
(* All but one suppose PromptClose: without it the session that a new      *)
(* connection makes can be taken apart by the close() of the one before.   *)
(* The inductive invariant is IInv: what each phase of close() and each    *)
(* step of an operation has left of the session, of its socket and of the  *)
(* workers.                                                                *)
(***************************************************************************)
EXTENDS LiteProvider, TLAPS

(* What close() has done in each of its phases. *)
ClosePhases ==
  /\ closing = "none" <=> closePhase = "none"
  /\ closing # "none" => ~connected
  /\ closePhase # "wait" => dying = 0
  /\ closePhase = "wait" => writer = 0 /\ readerTask = 0
  /\ readerTask # 0 => readerTask = writer /\ (connected \/ closePhase = "join")

(* What an operation can rely on between its awaits. *)
OperationSteps ==
  /\ op = "none" <=> step = "none"
  /\ step \in {"closing", "opening", "handshake", "abort"} => ~connected
  /\ step = "handshake" => closing = "none" /\ writer # 0 /\ cipher = writer
  /\ step \notin {"none", "closing"} => loop
  /\ step = "closing" => workers = {}

(* Only a handshake holds a socket that is neither connected nor closing.  *)
NoneLeftOpen ==
  ~cancelled /\ closing = "none" /\ ~connected /\ step # "handshake" => open = {}

IInv ==
  /\ TypeOK
  /\ ClosePhases /\ SessionUsable
  /\ OperationSteps
  /\ NoneLeftOpen /\ SocketsOwned
  /\ ReaderServes /\ ClosedIsQuiet
------------------------------------------------------------------------------
(* The types.  Each lemma takes the actions of one part of Next.           *)

ProviderTypeOK ==
  /\ op \in {"none", "connect", "reconnect", "close"}
  /\ step \in {"none", "closing", "opening", "handshake", "abort", "starting"}
  /\ loop \in BOOLEAN /\ cancelled \in BOOLEAN
  /\ workers \subseteq Workers

QueriesTypeOK ==
  /\ qs \in [Queries -> {"idle", "acquire", "flush", "wait"}]
  /\ fut \in [Queries -> {"none", "pending", "ok", "error", "cancelled"}]
  /\ sess \in [Queries -> Session]
  /\ pending \subseteq Queries /\ inbox \subseteq Queries

LEMMA SessionFacts ==
  /\ MaxSessions \in Nat \ {0} /\ 0 \in Session
  /\ \A q \in Queries : q # "none" /\ q # "op" /\ q # "task"
  /\ Queries \subseteq Closers /\ "op" \in Closers /\ "task" \in Closers
BY SessionsAssumption, UsersAssumption DEF Session, Queries, Closers

(* What the steps of the transport do to its types. *)
TransportStep(who) ==
  \/ BeginClose(who) \/ CloseWriter \/ EndClose \/ CancelClose \/ ReaderEnds
  \/ Opened \/ HandshakeRead \/ UNCHANGED transport

LEMMA TransportType ==
  ASSUME TransportTypeOK(Closers), NEW who \in Closers, TransportStep(who)
  PROVE  TransportTypeOK(Closers)'
<1> USE SessionFacts DEF TransportTypeOK
<1>1. CASE BeginClose(who)
  BY <1>1 DEF BeginClose, Disconnect, transport
<1>2. CASE CloseWriter
  BY <1>2 DEF CloseWriter
<1>3. CASE EndClose \/ CancelClose
  BY <1>3 DEF EndClose, CancelClose
<1>4. CASE ReaderEnds
  BY <1>4 DEF ReaderEnds, Disconnect
<1>5. CASE Opened
  <2>1. last \in Nat /\ last' = last + 1 /\ last' \in Session
    BY <1>5 DEF Opened, NewSession, Session
  <2>2. open' \subseteq 1..last'
    BY <1>5, <2>1 DEF Opened
  <2> QED BY <1>5, <2>1, <2>2 DEF Opened
<1>6. CASE HandshakeRead
  BY <1>6 DEF HandshakeRead
<1>7. CASE UNCHANGED transport
  BY <1>7 DEF transport
<1> QED BY <1>1, <1>2, <1>3, <1>4, <1>5, <1>6, <1>7 DEF TransportStep

OperationNext ==
  \/ Connect \/ OpenFails \/ OpenSucceeds \/ HandshakeFails \/ HandshakeSucceeds
  \/ Aborted \/ StartWorkers \/ Closed \/ CallerTimesOut
  \/ \E kind \in {"reconnect", "close"} : Shutdown(kind)

TransportNext == CloseProceeds \/ CloseEnds \/ SessionDrops

QueryNext(q) ==
  \/ BeginQuery(q) \/ SendRefused(q) \/ Send(q) \/ FlushFails(q) \/ FlushRaises(q)
  \/ Receive(q) \/ Dispatch(q) \/ QueryEnds(q)

LEMMA NextParts == Next <=> OperationNext \/ TransportNext \/ \E q \in Queries : QueryNext(q)
BY DEF Next, OperationNext, TransportNext, QueryNext

LEMMA OperationType == TypeOK /\ OperationNext => TypeOK'
<1> SUFFICES ASSUME TypeOK, OperationNext PROVE TypeOK'
  OBVIOUS
<1>1. TransportTypeOK(Closers)'
  <2>1. TransportStep("op")
    BY DEF OperationNext, Connect, OpenFails, OpenSucceeds, HandshakeFails, HandshakeSucceeds,
           Aborted, StartWorkers, Closed, CallerTimesOut, Shutdown, AbandonSession, TransportStep
  <2> QED BY <2>1, SessionFacts, TransportType DEF TypeOK
<1>2. ProviderTypeOK'
  BY DEF TypeOK, OperationNext, Connect, OpenFails, OpenSucceeds, HandshakeFails,
         HandshakeSucceeds, Aborted, StartWorkers, Closed, CallerTimesOut, Shutdown, EndOp,
         Started, StillReading, StopWorkers, Workers, ProviderTypeOK
<1>3. QueriesTypeOK'
  <2>1. CASE UNCHANGED queries
    BY <2>1 DEF TypeOK, queries, QueriesTypeOK, Session
  <2>2. ASSUME NEW kind, Shutdown(kind) PROVE QueriesTypeOK'
    BY <2>2 DEF TypeOK, Shutdown, CancelPending, QueriesTypeOK, Session
  <2> QED BY <2>1, <2>2 DEF OperationNext, Connect, OpenFails, OpenSucceeds, HandshakeFails,
               HandshakeSucceeds, Aborted, StartWorkers, Closed, CallerTimesOut
<1> QED BY <1>1, <1>2, <1>3 DEF TypeOK, ProviderTypeOK, QueriesTypeOK

LEMMA TransportNextType == TypeOK /\ TransportNext => TypeOK'
<1> SUFFICES ASSUME TypeOK, TransportNext PROVE TypeOK'
  OBVIOUS
<1>1. TransportTypeOK(Closers)'
  BY SessionFacts, TransportType
     DEF TypeOK, TransportNext, CloseProceeds, CloseEnds, SessionDrops, TransportStep
<1> QED BY <1>1 DEF TypeOK, TransportNext, CloseProceeds, CloseEnds, SessionDrops, provider,
                    queries, Session

LEMMA QueryType == \A q \in Queries : TypeOK /\ QueryNext(q) => TypeOK'
<1> SUFFICES ASSUME NEW q \in Queries, TypeOK, QueryNext(q) PROVE TypeOK'
  OBVIOUS
<1>1. TransportTypeOK(Closers)'
  <2>1. TransportStep(q)
    BY DEF QueryNext, BeginQuery, SendRefused, Send, FlushFails, FlushRaises, Receive, Dispatch,
           QueryEnds, TransportStep
  <2> QED BY <2>1, SessionFacts, TransportType DEF TypeOK
<1>2. ProviderTypeOK'
  BY DEF TypeOK, QueryNext, BeginQuery, SendRefused, Send, FlushFails, FlushRaises, Receive,
         Dispatch, QueryEnds, Sent, Leave, Survivors, StillReading, provider, ProviderTypeOK
<1>3. QueriesTypeOK'
  <2>1. CASE BeginQuery(q) \/ SendRefused(q) \/ FlushRaises(q) \/ QueryEnds(q)
    BY <2>1 DEF TypeOK, BeginQuery, SendRefused, FlushRaises, QueryEnds, Leave, QueriesTypeOK,
                Session
  <2>2. CASE Send(q) \/ FlushFails(q)
    <3>1. writer \in Session
      BY DEF TypeOK, TransportTypeOK
    <3> QED BY <2>2, <3>1 DEF TypeOK, Send, FlushFails, Sent, QueriesTypeOK, Session
  <2>3. CASE Receive(q)
    BY <2>3 DEF TypeOK, Receive, QueriesTypeOK, Session
  <2>4. CASE Dispatch(q)
    BY <2>4 DEF TypeOK, Dispatch, QueriesTypeOK, Session
  <2> QED BY <2>1, <2>2, <2>3, <2>4 DEF QueryNext
<1> QED BY <1>1, <1>2, <1>3 DEF TypeOK, ProviderTypeOK, QueriesTypeOK

(* Sessions are numbered within the bound, queries stand at an await of    *)
(* theirs, in every reachable state.                                       *)
THEOREM TypeCorrect == Spec => []TypeOK
<1>1. Init => TypeOK
  BY SessionFacts DEF Init, TransportInit, TypeOK, TransportTypeOK
<1>2. TypeOK /\ [Next]_vars => TypeOK'
  <2>1. TypeOK /\ UNCHANGED vars => TypeOK'
    BY DEF TypeOK, TransportTypeOK, vars, transport, provider, queries, Session
  <2> QED BY <2>1, NextParts, OperationType, TransportNextType, QueryType
<1> QED BY <1>1, <1>2, PTL DEF Spec

(* A query that waits is in the table of pending ones whatever the session *)
(* does: an answer reaches it, and so does close().  This one needs no     *)
(* PromptClose.                                                            *)
THEOREM WaitersStayReachable == Spec => []WaitersReachable
<1>1. Init => WaitersReachable
  BY DEF Init, WaitersReachable
<1>2. TypeOK /\ WaitersReachable /\ [Next]_vars => WaitersReachable'
  <2> SUFFICES ASSUME TypeOK, WaitersReachable, [Next]_vars PROVE WaitersReachable'
    OBVIOUS
  <2>1. CASE UNCHANGED <<qs, fut, pending>>
    BY <2>1 DEF WaitersReachable
  <2>2. ASSUME NEW kind, Shutdown(kind) PROVE WaitersReachable'
    BY <2>2 DEF TypeOK, WaitersReachable, Shutdown, CancelPending
  <2>3. ASSUME NEW q \in Queries, QueryNext(q) PROVE WaitersReachable'
    <3>1. CASE BeginQuery(q) \/ SendRefused(q) \/ FlushRaises(q) \/ QueryEnds(q)
      BY <3>1 DEF TypeOK, WaitersReachable, BeginQuery, SendRefused, FlushRaises, QueryEnds, Leave
    <3>2. CASE Send(q) \/ FlushFails(q)
      BY <3>2 DEF TypeOK, WaitersReachable, Send, FlushFails, Sent
    <3>3. CASE Receive(q)
      BY <3>3 DEF WaitersReachable, Receive
    <3>4. CASE Dispatch(q)
      BY <3>4 DEF TypeOK, WaitersReachable, Dispatch
    <3> QED BY <2>3, <3>1, <3>2, <3>3, <3>4 DEF QueryNext
  <2>4. CASE TransportNext
    BY <2>1, <2>4 DEF TransportNext, CloseProceeds, CloseEnds, SessionDrops, queries
  <2>5. CASE OperationNext
    BY <2>1, <2>2, <2>5 DEF OperationNext, Connect, OpenFails, OpenSucceeds, HandshakeFails,
       HandshakeSucceeds, Aborted, StartWorkers, Closed, CallerTimesOut, queries
  <2>6. CASE UNCHANGED vars
    BY <2>1, <2>6 DEF vars, queries
  <2> QED BY <2>3, <2>4, <2>5, <2>6, NextParts
<1> QED BY <1>1, <1>2, TypeCorrect, PTL DEF Spec
------------------------------------------------------------------------------
(* The rest of IInv, part by part of Next.                                 *)

LEMMA NoSessionIsZero == TypeOK => last + 1 # 0 /\ last + 1 \notin open /\ 0 \notin open
BY DEF TypeOK, TransportTypeOK, Session

(* A step that leaves the transport, the operation and the cancellations   *)
(* alone can only break what IInv says of the workers.                     *)
LEMMA WorkersKeep ==
  ASSUME IInv, UNCHANGED <<transport, op, step, loop, cancelled>>, workers' \subseteq workers,
         connected /\ "reader" \in workers => "reader" \in workers'
  PROVE  /\ ClosePhases' /\ SessionUsable' /\ OperationSteps'
         /\ NoneLeftOpen' /\ SocketsOwned' /\ ReaderServes' /\ ClosedIsQuiet'
BY DEF IInv, ClosePhases, SessionUsable, OperationSteps, NoneLeftOpen, SocketsOwned,
       ReaderServes, ClosedIsQuiet, transport

LEMMA OperationKeeps ==
  ASSUME PromptClose, IInv, OperationNext
  PROVE  IInv'
<1> USE DEF IInv
<1>1. TypeOK'
  BY OperationType
<1> DEFINE Rest == /\ ClosePhases /\ SessionUsable /\ OperationSteps
                   /\ NoneLeftOpen /\ SocketsOwned /\ ReaderServes /\ ClosedIsQuiet
<1> SUFFICES Rest'
  BY <1>1
<1> USE DEF ClosePhases, SessionUsable, OperationSteps, NoneLeftOpen, SocketsOwned, ReaderServes,
            ClosedIsQuiet
<1>2. CASE Connect
  BY <1>2 DEF Connect, transport
<1>3. CASE OpenFails
  BY <1>3 DEF OpenFails, EndOp, transport
<1>4. CASE OpenSucceeds
  BY <1>4, NoSessionIsZero DEF OpenSucceeds, Opened, NewSession
<1>5. CASE HandshakeFails
  BY <1>5 DEF HandshakeFails, AbandonSession, BeginClose, Disconnect
<1>6. CASE Aborted
  BY <1>6 DEF Aborted, EndOp, transport
<1>7. CASE HandshakeSucceeds
  BY <1>7 DEF HandshakeSucceeds, HandshakeRead
<1>8. CASE StartWorkers
  BY <1>8 DEF StartWorkers, Started, StillReading, Workers, EndOp, transport
<1>9. CASE Closed
  BY <1>9 DEF Closed, EndOp, transport
<1>10. CASE CallerTimesOut
  BY <1>10 DEF CallerTimesOut, EndOp, CancelClose, transport
<1>11. ASSUME NEW kind \in {"reconnect", "close"}, Shutdown(kind) PROVE Rest'
  <2>1. CASE closing \in {"updater", "pinger"}
    BY <1>11, <2>1, NoSessionIsZero DEF Shutdown, StopWorkers, EndClose
  <2>2. CASE closing \notin {"updater", "pinger"}
    BY <1>11, <2>2 DEF Shutdown, StopWorkers, BeginClose, Disconnect, transport
  <2> QED BY <2>1, <2>2
<1> HIDE DEF Rest
<1> QED BY <1>2, <1>3, <1>4, <1>5, <1>6, <1>7, <1>8, <1>9, <1>10, <1>11 DEF OperationNext

LEMMA TransportKeeps ==
  ASSUME IInv, TransportNext
  PROVE  IInv'
<1> USE DEF IInv
<1>1. TypeOK'
  BY TransportNextType
<1> DEFINE Rest == /\ ClosePhases /\ SessionUsable /\ OperationSteps
                   /\ NoneLeftOpen /\ SocketsOwned /\ ReaderServes /\ ClosedIsQuiet
<1> SUFFICES Rest'
  BY <1>1
<1> USE NoSessionIsZero
    DEF ClosePhases, SessionUsable, OperationSteps, NoneLeftOpen, SocketsOwned, ReaderServes,
        ClosedIsQuiet
<1>2. CASE CloseProceeds
  BY <1>2 DEF CloseProceeds, CloseWriter, provider
<1>3. CASE CloseEnds
  BY <1>3 DEF CloseEnds, EndClose, provider
<1>4. CASE SessionDrops
  BY <1>4 DEF SessionDrops, ReaderEnds, Disconnect, provider
<1> HIDE DEF Rest
<1> QED BY <1>2, <1>3, <1>4 DEF TransportNext

LEMMA QueryKeeps ==
  ASSUME IInv, NEW q \in Queries, QueryNext(q)
  PROVE  IInv'
<1>1. TypeOK'
  BY QueryType DEF IInv
<1> DEFINE Rest == /\ ClosePhases /\ SessionUsable /\ OperationSteps
                   /\ NoneLeftOpen /\ SocketsOwned /\ ReaderServes /\ ClosedIsQuiet
<1> SUFFICES Rest'
  BY <1>1 DEF IInv
<1>2. ASSUME NEW raised \in BOOLEAN, Leave(q, raised),
             UNCHANGED <<transport, op, step, loop, cancelled>>
      PROVE  Rest'
  <2>1. workers' \subseteq workers /\ ("reader" \in workers => "reader" \in workers')
    BY <1>2 DEF Leave, Survivors
  <2> QED BY <1>2, <2>1, WorkersKeep
<1>3. ASSUME UNCHANGED <<transport, op, step, loop, workers, cancelled>> PROVE Rest'
  BY <1>3, WorkersKeep
<1>4. CASE BeginQuery(q)
  BY <1>2, <1>3, <1>4 DEF BeginQuery
<1>5. CASE SendRefused(q) \/ FlushRaises(q)
  BY <1>2, <1>5 DEF SendRefused, FlushRaises
<1>6. CASE QueryEnds(q)
  <2>1. (fut[q] \in {"error", "cancelled"}) \in BOOLEAN
    OBVIOUS
  <2> QED BY <1>2, <1>6, <2>1 DEF QueryEnds
<1>7. CASE Send(q) \/ Receive(q)
  BY <1>3, <1>7 DEF Send, Sent, Receive, provider
<1>8. CASE Dispatch(q)
  <2>1. workers' \subseteq workers /\ (connected => workers' = workers)
    BY <1>8 DEF Dispatch, StillReading
  <2> QED BY <1>8, <2>1, WorkersKeep DEF Dispatch
<1>9. CASE FlushFails(q)
  BY <1>9, SessionFacts
     DEF FlushFails, Sent, CanSend, BeginClose, Disconnect, transport, IInv, ClosePhases,
         SessionUsable, OperationSteps, NoneLeftOpen, SocketsOwned, ReaderServes, ClosedIsQuiet
<1> HIDE DEF Rest
<1> QED BY <1>4, <1>5, <1>6, <1>7, <1>8, <1>9 DEF QueryNext

(* The invariant of LiteProvider, as long as no new connection is made     *)
(* before wait_closed() of the old one returns.                            *)
THEOREM InductiveInvariant ==
  ASSUME PromptClose
  PROVE  Spec => []IInv
<1>1. Init => IInv
  <2>1. Init => TypeOK
    BY SessionFacts DEF Init, TransportInit, TypeOK, TransportTypeOK
  <2> QED BY <2>1 DEF Init, TransportInit, IInv, ClosePhases, SessionUsable, OperationSteps,
                      NoneLeftOpen, SocketsOwned, ReaderServes, ClosedIsQuiet
<1>2. IInv /\ [Next]_vars => IInv'
  <2>1. IInv /\ UNCHANGED vars => IInv'
    BY DEF IInv, TypeOK, TransportTypeOK, ClosePhases, SessionUsable, OperationSteps,
           NoneLeftOpen, SocketsOwned, ReaderServes, ClosedIsQuiet, vars, transport, provider,
           queries, Session
  <2> QED BY <2>1, NextParts, OperationKeeps, TransportKeeps, QueryKeeps
<1> QED BY <1>1, <1>2, PTL DEF Spec

(* A connected transport can encrypt for the connection it writes to, and  *)
(* its reader loop reads from it: send_adnl_packet() never encrypts for a  *)
(* session that is gone.                                                   *)
THEOREM ConnectedIsUsable ==
  ASSUME PromptClose
  PROVE  Spec => []SessionUsable
BY InductiveInvariant, PTL DEF IInv

(* No socket is lost on the way through connect(), close(), reconnect()    *)
(* and the session dropping under them, unless a caller gave up in one.    *)
THEOREM NoSocketLost ==
  ASSUME PromptClose
  PROVE  Spec => []SocketsOwned
BY InductiveInvariant, PTL DEF IInv

(* Between operations a connected provider has its reader worker, whatever *)
(* order the drops, failed flushes and reconnects came in.                 *)
THEOREM ReaderAlwaysServes ==
  ASSUME PromptClose
  PROVE  Spec => []ReaderServes
BY InductiveInvariant, PTL DEF IInv

(* After close() there is no session and no worker until connect().        *)
THEOREM ClosedStaysQuiet ==
  ASSUME PromptClose
  PROVE  Spec => []ClosedIsQuiet
BY InductiveInvariant, PTL DEF IInv
==============================================================================
